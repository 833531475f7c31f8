---------------------------- MODULE StorageProofs ----------------------------
(***************************************************************************)
(* What holds of Storage, and of either backend behind it, for any keys,   *)
(* clients, sizes of bodies and faults.                                    *)
(***************************************************************************)
EXTENDS Storage, SequenceTheorems, WellFoundedInduction, TLAPS

-----------------------------------------------------------------------------
(* The tree of paths.                                                      *)
LEMMA KeyPrefixes ==
  ASSUME NEW k \in Seq(STRING), k # <<>>
  PROVE  /\ Len(k) \in Nat \ {0}
         /\ \A n \in 1..(Len(k) - 1) :
              /\ SubSeq(k, 1, n) \in Seq(STRING)
              /\ Len(SubSeq(k, 1, n)) = n
              /\ SubSeq(k, 1, n) # <<>>
              /\ SubSeq(k, 1, n) \in Prefixes(k)
              /\ \A m \in 1..n : SubSeq(SubSeq(k, 1, n), 1, m) = SubSeq(k, 1, m)
<1>1. Len(k) \in Nat \ {0}
  BY EmptySeq
<1>2. ASSUME NEW n \in 1..(Len(k) - 1)
      PROVE  /\ SubSeq(k, 1, n) \in Seq(STRING)
             /\ Len(SubSeq(k, 1, n)) = n
             /\ \A i \in 1..n : SubSeq(k, 1, n)[i] = k[i]
  <2>1. \A i \in 1..n : k[i] \in STRING
    BY <1>1
  <2>2. /\ SubSeq(k, 1, n) \in Seq(STRING)
        /\ Len(SubSeq(k, 1, n)) = IF 1 <= n THEN n - 1 + 1 ELSE 0
        /\ \A i \in 1..(n - 1 + 1) : SubSeq(k, 1, n)[i] = k[1 + i - 1]
    BY <1>1, <2>1, SubSeqProperties
  <2> QED
    BY <1>1, <2>2
<1>3. ASSUME NEW n \in 1..(Len(k) - 1)
      PROVE  SubSeq(k, 1, n) # <<>>
  BY <1>1, <1>2
<1>4. ASSUME NEW n \in 1..(Len(k) - 1), NEW m \in 1..n
      PROVE  SubSeq(SubSeq(k, 1, n), 1, m) = SubSeq(k, 1, m)
  <2> DEFINE p == SubSeq(k, 1, n)
  <2>1. p \in Seq(STRING) /\ Len(p) = n /\ \A i \in 1..n : p[i] = k[i]
    BY <1>2
  <2>2. m \in 1..(Len(k) - 1)
    BY <1>1
  <2>3. /\ SubSeq(k, 1, m) \in Seq(STRING) /\ Len(SubSeq(k, 1, m)) = m
        /\ \A i \in 1..m : SubSeq(k, 1, m)[i] = k[i]
    BY <1>2, <2>2
  <2> HIDE DEF p
  <2>4. \A i \in 1..m : p[i] \in STRING
    BY <1>1, <2>1
  <2>5. /\ SubSeq(p, 1, m) \in Seq(STRING)
        /\ Len(SubSeq(p, 1, m)) = IF 1 <= m THEN m - 1 + 1 ELSE 0
        /\ \A i \in 1..(m - 1 + 1) : SubSeq(p, 1, m)[i] = p[1 + i - 1]
    BY <1>1, <2>4, SubSeqProperties
  <2>6. /\ Len(SubSeq(p, 1, m)) = m
        /\ \A i \in 1..m : SubSeq(p, 1, m)[i] = k[i]
    BY <1>1, <2>1, <2>5
  <2>7. SubSeq(p, 1, m) = SubSeq(k, 1, m)
    BY <2>3, <2>5, <2>6, SeqEqual
  <2> QED
    BY <2>7 DEF p
<1> QED
  BY <1>1, <1>2, <1>3, <1>4 DEF Prefixes

LEMMA PathsAreKeys ==
  ASSUME NEW p \in Paths
  PROVE  p \in Seq(STRING) /\ p # <<>> /\ Len(p) \in Nat \ {0}
<1>1. CASE p \in Keys
  BY <1>1, LocalStoreAssumption, KeyPrefixes
<1>2. ASSUME NEW k \in Keys, p \in Prefixes(k)
      PROVE  p \in Seq(STRING) /\ p # <<>> /\ Len(p) \in Nat \ {0}
  <2>1. k \in Seq(STRING) /\ k # <<>>
    BY LocalStoreAssumption
  <2>2. PICK n \in 1..(Len(k) - 1) : p = SubSeq(k, 1, n)
    BY <1>2 DEF Prefixes
  <2>3. Len(k) \in Nat \ {0} /\ p \in Seq(STRING) /\ p # <<>> /\ Len(p) = n
    BY <2>1, <2>2, KeyPrefixes
  <2> QED
    BY <2>3
<1> QED
  BY <1>1, <1>2 DEF Paths

(* A directory of a path is shorter, and its directories are the path's.   *)
LEMMA PrefixesAbove ==
  ASSUME NEW p \in Paths, NEW q \in Prefixes(p)
  PROVE  /\ q \in Paths /\ Len(q) \in Nat /\ Len(q) < Len(p)
         /\ Prefixes(q) \subseteq Prefixes(p)
         /\ \A r \in Prefixes(p) : Len(r) < Len(q) => r \in Prefixes(q)
<1>1. p \in Seq(STRING) /\ p # <<>> /\ Len(p) \in Nat \ {0}
  BY PathsAreKeys
<1>2. PICK n \in 1..(Len(p) - 1) : q = SubSeq(p, 1, n)
  BY DEF Prefixes
<1>3. /\ Len(q) = n /\ q \in Seq(STRING) /\ q # <<>>
      /\ \A m \in 1..n : SubSeq(q, 1, m) = SubSeq(p, 1, m)
  <2>1. /\ SubSeq(p, 1, n) \in Seq(STRING) /\ Len(SubSeq(p, 1, n)) = n
        /\ SubSeq(p, 1, n) # <<>>
        /\ \A m \in 1..n : SubSeq(SubSeq(p, 1, n), 1, m) = SubSeq(p, 1, m)
    BY <1>1, KeyPrefixes
  <2> QED
    BY <1>2, <2>1
<1>4. Len(q) \in Nat /\ Len(q) < Len(p)
  BY <1>1, <1>3
<1>5. Prefixes(q) \subseteq Prefixes(p)
  <2> SUFFICES ASSUME NEW m \in 1..(Len(q) - 1)
               PROVE  SubSeq(q, 1, m) \in Prefixes(p)
    BY DEF Prefixes
  <2>1. m \in 1..(Len(p) - 1) /\ SubSeq(q, 1, m) = SubSeq(p, 1, m)
    BY <1>1, <1>3
  <2> QED
    BY <2>1 DEF Prefixes
<1>6. ASSUME NEW r \in Prefixes(p), Len(r) < Len(q)
      PROVE  r \in Prefixes(q)
  <2>1. PICK m \in 1..(Len(p) - 1) : r = SubSeq(p, 1, m)
    BY DEF Prefixes
  <2>2. Len(r) = m
    BY <1>1, <2>1, KeyPrefixes
  <2>3. m \in 1..(Len(q) - 1)
    BY <1>1, <1>3, <1>6, <2>2
  <2>4. m \in 1..n
    BY <1>2, <1>3, <2>3
  <2>5. r = SubSeq(q, 1, m)
    BY <1>3, <2>1, <2>4
  <2> QED
    BY <2>3, <2>5 DEF Prefixes
<1>7. q \in Paths
  <2>1. CASE p \in Keys
    BY <2>1 DEF Paths
  <2>2. ASSUME NEW k \in Keys, p \in Prefixes(k)
        PROVE  q \in Paths
    <3>1. k \in Seq(STRING) /\ k # <<>>
      BY LocalStoreAssumption
    <3>2. PICK i \in 1..(Len(k) - 1) : p = SubSeq(k, 1, i)
      BY <2>2 DEF Prefixes
    <3>3. /\ Len(k) \in Nat \ {0} /\ Len(p) = i
          /\ \A m \in 1..i : SubSeq(p, 1, m) = SubSeq(k, 1, m)
      BY <3>1, <3>2, KeyPrefixes
    <3>4. n \in 1..(Len(k) - 1) /\ q = SubSeq(k, 1, n)
      BY <1>2, <3>3
    <3> QED
      BY <3>4 DEF Paths, Prefixes
  <2> QED
    BY <2>1, <2>2 DEF Paths
<1> QED
  BY <1>4, <1>5, <1>6, <1>7

(* Of some paths, one is shortest.                                         *)
LEMMA Shortest ==
  ASSUME NEW S \in SUBSET Paths, S # {}
  PROVE  \E p \in S : \A q \in S : Len(p) <= Len(q)
<1> DEFINE T == {Len(p) : p \in S}
<1>1. T \subseteq Nat /\ T # {}
  BY PathsAreKeys
<1>2. \E m \in T : \A n \in T : ~(<<n, m>> \in OpToRel(<, Nat))
  <2> HIDE DEF T
  <2> QED
    BY <1>1, NatLessThanWellFounded, WFMin
<1>3. PICK m \in T : \A n \in T : ~(n < m)
  <2> HIDE DEF T
  <2> QED
    BY <1>1, <1>2 DEF OpToRel
<1>4. PICK p \in S : m = Len(p)
  OBVIOUS
<1>5. \A q \in S : Len(p) <= Len(q)
  BY <1>1, <1>3, <1>4
<1> QED
  BY <1>5

-----------------------------------------------------------------------------
(* The inductive invariant of the local backend.                           *)

(* Where a put has got hold of its file.                                   *)
AtWork == {"write", "late_write", "close"}

(* Directories are those of keys, files are at keys, and who is about to   *)
(* create a file has its directories.                                      *)
Tree ==
  /\ dirs \subseteq UNION {Prefixes(k) : k \in Keys}
  /\ \A p \in Paths : disk[p].file => p \in Keys
  /\ \A c \in Clients :
       pc[c] \in {"create", "late_create"} => Prefixes(target[c]) \subseteq dirs

(* A handle that is still that of its path is that of a file there.        *)
Handles ==
  \A c \in Clients :
    /\ opened[c] => pc[c] \in AtWork /\ disk[target[c]].file
    /\ pc[c] \notin AtWork => written[c] = 0

(* The file of c is what c has written so far, and nobody else writes it.  *)
SoFar(c) == [i \in 1..written[c] |-> c]
Alone(c) ==
  /\ disk[target[c]] = File(SoFar(c))
  /\ \A d \in Clients : Writing(d, target[c]) => d = c

(* Only overlapping or unfinished puts mix up a file, and only a put or a  *)
(* delete of the same key takes a file from a put that was not disturbed.  *)
Pieces ==
  \A c \in Clients :
    Writing(c, target[c]) => target[c] \in mixed \/ Alone(c)
Undisturbed ==
  \A c \in Clients :
    pc[c] \in AtWork /\ c \notin disturbed => opened[c] /\ Alone(c)

LocalInv == TypeOK /\ Tree /\ Handles /\ Pieces /\ Undisturbed

LEMMA KeysArePaths == Keys \subseteq Paths
BY DEF Paths

LEMMA PathsOfPrefixes ==
  ASSUME NEW k \in Keys
  PROVE  Prefixes(k) \subseteq Paths
BY KeysArePaths, PrefixesAbove

LEMMA LocalInit == Init => LocalInv
<1> SUFFICES ASSUME Init
             PROVE  LocalInv
  OBVIOUS
<1>1. target \in [Clients -> Keys]
  BY LocalStoreAssumption DEF Init
<1>2. TypeOK
  BY <1>1, LocalStoreAssumption DEF Init, TypeOK, NoFile, Late
<1> QED
  BY <1>2 DEF Init, LocalInv, Tree, Handles, Pieces, Undisturbed, Writing,
              AtWork, NoFile

(* What Leave does.                                                        *)
LEMMA LeaveType ==
  ASSUME TypeOK, NEW c \in Clients, NEW result \in {"ok", "backend"},
         Leave(c, result)
  PROVE  /\ pc' \in [Clients -> {"idle", "mkdir", "create", "write"} \cup Late]
         /\ target' = target
         /\ opened' \in [Clients -> BOOLEAN]
         /\ written' \in [Clients -> Nat]
         /\ answer' \in [Clients -> {"none", "ok", "backend"}]
         /\ pc'[c] = "idle" /\ ~opened'[c] /\ written'[c] = 0
         /\ \A d \in Clients \ {c} :
              pc'[d] = pc[d] /\ opened'[d] = opened[d] /\ written'[d] = written[d]
BY DEF TypeOK, Leave


(* A body grows block by block when nobody else writes.                    *)
LEMMA BlockAppended ==
  ASSUME NEW c, NEW n \in Nat
  PROVE  WriteAt([i \in 1..n |-> c], n + 1, c) = [i \in 1..(n + 1) |-> c]
<1> DEFINE s == [i \in 1..n |-> c]
<1>1. s \in Seq({c}) /\ Len(s) = n
  OBVIOUS
<1>2. (IF n + 1 > Len(s) THEN n + 1 ELSE Len(s)) = n + 1
  BY <1>1
<1>3. \A j \in 1..(n + 1) :
        (IF j = n + 1 THEN c ELSE IF j <= Len(s) THEN s[j] ELSE NoClient) = c
  BY <1>1
<1> HIDE DEF s
<1>4. WriteAt(s, n + 1, c) = [j \in 1..(n + 1) |-> c]
  BY <1>2, <1>3 DEF WriteAt
<1> QED
  BY <1>4 DEF s

LEMMA WriteAtType ==
  ASSUME NEW blocks \in Seq(Clients \cup {NoClient}), NEW n \in Nat \ {0},
         NEW c \in Clients
  PROVE  WriteAt(blocks, n, c) \in Seq(Clients \cup {NoClient})
<1> DEFINE m == IF n > Len(blocks) THEN n ELSE Len(blocks)
<1>1. m \in Nat
  OBVIOUS
<1>2. \A j \in 1..m : j <= Len(blocks) => blocks[j] \in Clients \cup {NoClient}
  OBVIOUS
<1>3. WriteAt(blocks, n, c) \in [1..m -> Clients \cup {NoClient}]
  BY <1>2 DEF WriteAt
<1> HIDE DEF m
<1> QED
  BY <1>1, <1>3

(* The first directory that is missing can be made.                        *)
LEMMA TopFits ==
  ASSUME TypeOK, NEW k \in Keys, Prefixes(k) \ dirs # {}
  PROVE  LET missing == Prefixes(k) \ dirs
             top == CHOOSE p \in missing : \A q \in missing : Len(p) <= Len(q)
         IN top \in missing /\ Prefixes(top) \subseteq dirs
<1> DEFINE missing == Prefixes(k) \ dirs
           top == CHOOSE p \in missing : \A q \in missing : Len(p) <= Len(q)
<1>1. k \in Paths /\ missing \in SUBSET Paths /\ missing # {}
  BY KeysArePaths, PathsOfPrefixes
<1>2. \E p \in missing : \A q \in missing : Len(p) <= Len(q)
  <2> HIDE DEF missing
  <2> QED
    BY <1>1, Shortest
<1>3. top \in missing /\ \A q \in missing : Len(top) <= Len(q)
  <2> HIDE DEF missing
  <2> QED
    BY <1>2
<1>4. ASSUME NEW q \in Prefixes(top)
      PROVE  q \in dirs
  <2>1. top \in Prefixes(k) /\ top \in Paths
    BY <1>1, <1>3
  <2>2. q \in Prefixes(k)
    BY <1>1, <2>1, PrefixesAbove
  <2>3. Len(q) \in Nat /\ Len(top) \in Nat /\ Len(q) < Len(top)
    BY <1>1, <2>1, PrefixesAbove
  <2>4. q \notin missing
    BY <1>3, <2>3
  <2> QED
    BY <2>2, <2>4
<1> QED
  BY <1>3, <1>4

-----------------------------------------------------------------------------
(* Every step keeps the types, the tree and the handles in order.          *)
Base == TypeOK /\ Tree /\ Handles

LEMMA StartBase ==
  ASSUME Base, NEW c \in Clients, NEW k \in Keys, Start(c, k)
  PROVE  Base'
<1>1. TypeOK'
  BY DEF Base, TypeOK, Start
<1>2. /\ pc'[c] = "mkdir"
      /\ \A d \in Clients \ {c} : pc'[d] = pc[d] /\ target'[d] = target[d]
      /\ pc[c] = "idle"
  BY DEF Base, TypeOK, Start
<1>3. Tree'
  BY <1>2 DEF Base, Tree, Start
<1>4. Handles'
  BY <1>2 DEF Base, Handles, Start, AtWork
<1> QED
  BY <1>1, <1>3, <1>4 DEF Base

(* A put that leaves, with the tree as it is.                              *)
LEMMA LeaveBase ==
  ASSUME Base, NEW c \in Clients, NEW result \in {"ok", "backend"},
         Leave(c, result), dirs' = dirs, disk' = disk,
         mixed' \subseteq Paths, disturbed' = disturbed, faults' \in 0..MaxFaults
  PROVE  Base'
<1>1. /\ pc' \in [Clients -> {"idle", "mkdir", "create", "write"} \cup Late]
      /\ target' = target
      /\ opened' \in [Clients -> BOOLEAN]
      /\ written' \in [Clients -> Nat]
      /\ answer' \in [Clients -> {"none", "ok", "backend"}]
      /\ pc'[c] = "idle" /\ ~opened'[c] /\ written'[c] = 0
      /\ \A d \in Clients \ {c} :
           pc'[d] = pc[d] /\ opened'[d] = opened[d] /\ written'[d] = written[d]
  BY LeaveType DEF Base
<1>2. \A d \in Clients : written'[d] <= Size[d]
  <2>1. written'[c] <= Size[c]
    BY <1>1, LocalStoreAssumption
  <2>2. \A d \in Clients : written[d] <= Size[d]
    BY DEF Base, TypeOK
  <2> QED
    BY <1>1, <2>1, <2>2
<1>3. TypeOK'
  BY <1>1, <1>2 DEF Base, TypeOK
<1>4. Tree'
  BY <1>1 DEF Base, Tree
<1>5. Handles'
  BY <1>1 DEF Base, Handles
<1> QED
  BY <1>3, <1>4, <1>5 DEF Base

LEMMA MakeDirsBase ==
  ASSUME Base, NEW c \in Clients, MakeDirs(c)
  PROVE  Base'
<1> DEFINE missing == Prefixes(target[c]) \ dirs
           top == CHOOSE p \in missing : \A q \in missing : Len(p) <= Len(q)
<1>1. target[c] \in Keys /\ target[c] \in Paths
  BY KeysArePaths DEF Base, TypeOK
<1>2. CASE missing = {} /\ pc[c] = "mkdir" /\ pc' = [pc EXCEPT ![c] = "create"]
           /\ UNCHANGED <<dirs, target, opened, written, answer>>
  <2>1. UNCHANGED <<disk, mixed, disturbed, faults>>
    BY DEF MakeDirs
  <2>2. TypeOK'
    BY <1>2, <2>1 DEF Base, TypeOK
  <2>3. /\ pc'[c] = "create" /\ \A d \in Clients \ {c} : pc'[d] = pc[d]
    BY <1>2 DEF Base, TypeOK
  <2>4. Tree'
    BY <1>2, <2>1, <2>3 DEF Base, Tree
  <2>5. Handles'
    BY <1>2, <2>1, <2>3 DEF Base, Handles, AtWork
  <2> QED
    BY <2>2, <2>4, <2>5 DEF Base
<1>3. CASE missing # {} /\ ~disk[top].file /\ dirs' = dirs \cup {top}
           /\ UNCHANGED put
  <2>1. UNCHANGED <<disk, mixed, disturbed, faults, pc, target, opened, written,
                    answer>>
    BY <1>3 DEF MakeDirs, put
  <2>2. top \in missing /\ Prefixes(top) \subseteq dirs
    BY <1>1, <1>3, TopFits DEF Base
  <2>3. top \in Prefixes(target[c]) /\ top \in Paths
    BY <1>1, <2>2, PathsOfPrefixes
  <2> HIDE DEF top, missing
  <2>4. TypeOK'
    BY <1>3, <2>1, <2>2, <2>3 DEF Base, TypeOK
  <2>5. Tree'
    BY <1>1, <1>3, <2>1, <2>3 DEF Base, Tree
  <2>6. Handles'
    BY <2>1 DEF Base, Handles
  <2> QED
    BY <2>4, <2>5, <2>6 DEF Base
<1>4. CASE Leave(c, "backend") /\ UNCHANGED dirs
  BY <1>4, LeaveBase DEF MakeDirs, Base, TypeOK
<1> QED
  BY <1>2, <1>3, <1>4 DEF MakeDirs

LEMMA CreateBase ==
  ASSUME Base, NEW c \in Clients, CreateFile(c)
  PROVE  Base'
<1> DEFINE p == target[c]
<1>1. p \in Keys /\ p \in Paths
  BY KeysArePaths DEF Base, TypeOK
<1>2. CASE p \in dirs
  <2>1. Leave(c, "backend") /\ UNCHANGED <<disk, mixed, disturbed, dirs, faults>>
    BY <1>2 DEF CreateFile
  <2> QED
    BY <2>1, LeaveBase DEF Base, TypeOK
<1>3. CASE p \notin dirs
  <2>1. /\ pc[c] \in {"create", "late_create"}
        /\ disk' = [disk EXCEPT ![p] = File(<<>>)]
        /\ pc' = [pc EXCEPT ![c] = AfterCall(c)]
        /\ opened' = [opened EXCEPT ![c] = TRUE]
        /\ UNCHANGED <<dirs, target, written, answer, faults>>
        /\ mixed' \subseteq mixed \cup {p}
        /\ disturbed' \subseteq disturbed \cup Clients
    BY <1>3 DEF CreateFile
  <2>2. AfterCall(c) \in {"write", "close"}
    BY DEF AfterCall
  <2>3. /\ disk' \in [Paths -> [file : BOOLEAN,
                                blocks : Seq(Clients \cup {NoClient})]]
        /\ \A q \in Paths : disk'[q].file <=> disk[q].file \/ q = p
    <3>1. <<>> \in Seq(Clients \cup {NoClient})
      OBVIOUS
    <3>2. File(<<>>) \in [file : BOOLEAN, blocks : Seq(Clients \cup {NoClient})]
      BY <3>1 DEF File
    <3> HIDE DEF p
    <3> QED
      BY <1>1, <2>1, <3>2 DEF Base, TypeOK, File
  <2>4. Prefixes(p) \subseteq dirs
    BY <2>1 DEF Base, Tree
  <2>5. /\ pc'[c] \in {"write", "close"} /\ opened'[c]
        /\ \A d \in Clients \ {c} : pc'[d] = pc[d] /\ opened'[d] = opened[d]
    BY <2>1, <2>2 DEF Base, TypeOK
  <2>6. /\ pc' \in [Clients -> {"idle", "mkdir", "create", "write"} \cup Late]
        /\ opened' \in [Clients -> BOOLEAN]
    BY <2>1, <2>2 DEF Base, TypeOK, Late
  <2> HIDE DEF p
  <2>7. TypeOK'
    BY <1>1, <1>3, <2>1, <2>3, <2>4, <2>6 DEF Base, TypeOK
  <2>8. Tree'
    BY <1>1, <2>1, <2>3, <2>5 DEF Base, Tree
  <2>9. Handles'
    <3> SUFFICES ASSUME NEW d \in Clients
                 PROVE  /\ opened'[d] => /\ pc'[d] \in AtWork
                                         /\ disk'[target'[d]].file
                        /\ pc'[d] \notin AtWork => written'[d] = 0
      BY DEF Handles
    <3>1. target[d] \in Paths
      BY KeysArePaths DEF Base, TypeOK
    <3> QED
      BY <2>1, <2>3, <2>5, <3>1 DEF Base, Handles, AtWork, p
  <2> QED
    BY <2>7, <2>8, <2>9 DEF Base
<1> QED
  BY <1>2, <1>3

LEMMA WriteBase ==
  ASSUME Base, NEW c \in Clients, WriteBlock(c)
  PROVE  Base'
<1> DEFINE p == target[c]
           i == written[c] + 1
<1>1. p \in Keys /\ p \in Paths /\ i \in Nat \ {0}
  BY KeysArePaths DEF Base, TypeOK
<1>2. /\ pc[c] \in {"write", "late_write"} /\ i <= Size[c]
      /\ pc' = [pc EXCEPT ![c] = AfterCall(c)]
      /\ written' = [written EXCEPT ![c] = i]
      /\ disk' = IF opened[c]
                 THEN [disk EXCEPT ![p] = File(WriteAt(@.blocks, i, c))]
                 ELSE disk
      /\ UNCHANGED <<dirs, target, opened, answer, mixed, disturbed, faults>>
  BY DEF WriteBlock
<1>3. AfterCall(c) \in {"write", "close"}
  BY DEF AfterCall
<1>4. /\ disk' \in [Paths -> [file : BOOLEAN,
                              blocks : Seq(Clients \cup {NoClient})]]
      /\ \A q \in Paths : disk'[q].file <=> disk[q].file
  <2>1. CASE opened[c]
    <3>1. disk[p].file
      BY <2>1 DEF Base, Handles
    <3>2. disk[p].blocks \in Seq(Clients \cup {NoClient})
      BY <1>1 DEF Base, TypeOK
    <3> HIDE DEF p, i
    <3>3. WriteAt(disk[p].blocks, i, c) \in Seq(Clients \cup {NoClient})
      BY <1>1, <3>2, WriteAtType
    <3>4. /\ File(WriteAt(disk[p].blocks, i, c))
               \in [file : BOOLEAN, blocks : Seq(Clients \cup {NoClient})]
          /\ File(WriteAt(disk[p].blocks, i, c)).file
      BY <3>3 DEF File
    <3>5. disk' = [disk EXCEPT ![p] = File(WriteAt(disk[p].blocks, i, c))]
      BY <1>2, <2>1
    <3> QED
      BY <1>1, <3>1, <3>4, <3>5 DEF Base, TypeOK
  <2>2. CASE ~opened[c]
    BY <1>2, <2>2 DEF Base, TypeOK
  <2> QED
    BY <2>1, <2>2
<1>5. /\ pc'[c] \in {"write", "close"} /\ \A d \in Clients \ {c} : pc'[d] = pc[d]
      /\ written'[c] = i
      /\ \A d \in Clients \ {c} : written'[d] = written[d]
      /\ pc' \in [Clients -> {"idle", "mkdir", "create", "write"} \cup Late]
      /\ written' \in [Clients -> Nat]
  BY <1>1, <1>2, <1>3 DEF Base, TypeOK, Late
<1> HIDE DEF p, i
<1>6. TypeOK'
  BY <1>2, <1>4, <1>5 DEF Base, TypeOK
<1>7. Tree'
  BY <1>2, <1>4, <1>5 DEF Base, Tree
<1>8. Handles'
  <2>1. \A d \in Clients : target[d] \in Paths
    BY KeysArePaths DEF Base, TypeOK
  <2> QED
    BY <1>2, <1>4, <1>5, <2>1 DEF Base, Handles, AtWork
<1> QED
  BY <1>6, <1>7, <1>8 DEF Base

LEMMA DropBase ==
  ASSUME Base, NEW c \in Clients, Drop(c)
  PROVE  Base'
<1>1. pc[c] \in {"mkdir", "create", "write"}
  BY DEF Base, TypeOK, Drop
<1>2. /\ faults < MaxFaults /\ faults' = faults + 1
      /\ pc' = [pc EXCEPT ![c] = CASE pc[c] = "mkdir"  -> "late_mkdir"
                                   [] pc[c] = "create" -> "late_create"
                                   [] pc[c] = "write"  -> "late_write"]
      /\ UNCHANGED <<dirs, disk, target, opened, written, answer, mixed,
                     disturbed>>
  BY DEF Drop
<1>3. /\ \A d \in Clients \ {c} : pc'[d] = pc[d]
      /\ pc' \in [Clients -> {"idle", "mkdir", "create", "write"} \cup Late]
      /\ pc[c] = "mkdir" => pc'[c] = "late_mkdir"
      /\ pc[c] = "create" => pc'[c] = "late_create"
      /\ pc[c] = "write" => pc'[c] = "late_write"
  <2>1. CASE pc[c] = "mkdir"
    BY <1>2, <2>1 DEF Base, TypeOK, Late
  <2>2. CASE pc[c] = "create"
    BY <1>2, <2>2 DEF Base, TypeOK, Late
  <2>3. CASE pc[c] = "write"
    BY <1>2, <2>3 DEF Base, TypeOK, Late
  <2> QED
    BY <1>1, <2>1, <2>2, <2>3
<1>4. faults' \in 0..MaxFaults
  BY <1>2, LocalStoreAssumption DEF Base, TypeOK
<1>5. TypeOK'
  BY <1>2, <1>3, <1>4 DEF Base, TypeOK
<1>6. Tree'
  BY <1>1, <1>2, <1>3 DEF Base, Tree
<1>7. Handles'
  BY <1>1, <1>2, <1>3 DEF Base, Handles, AtWork
<1> QED
  BY <1>5, <1>6, <1>7 DEF Base

LEMMA DeleteBase ==
  ASSUME Base, NEW k \in Keys, delete(k)
  PROVE  Base'
<1>1. k \in Paths
  BY KeysArePaths
<1>2. /\ disk' = [disk EXCEPT ![k] = NoFile]
      /\ opened' = [c \in Clients |-> opened[c] /\ ~Writing(c, k)]
      /\ mixed' \subseteq mixed /\ disturbed' \subseteq disturbed \cup Clients
      /\ UNCHANGED <<dirs, pc, target, written, answer, faults>>
  BY DEF delete
<1>3. /\ disk' \in [Paths -> [file : BOOLEAN,
                              blocks : Seq(Clients \cup {NoClient})]]
      /\ \A q \in Paths : disk'[q].file <=> disk[q].file /\ q # k
  <2>1. <<>> \in Seq(Clients \cup {NoClient})
    OBVIOUS
  <2>2. NoFile \in [file : BOOLEAN, blocks : Seq(Clients \cup {NoClient})]
    BY <2>1 DEF NoFile
  <2> QED
    BY <1>1, <1>2, <2>2 DEF Base, TypeOK, NoFile
<1>4. opened' \in [Clients -> BOOLEAN]
  BY <1>2 DEF Base, TypeOK, Writing
<1>5. TypeOK'
  BY <1>2, <1>3, <1>4 DEF Base, TypeOK
<1>6. Tree'
  BY <1>2, <1>3 DEF Base, Tree
<1>7. Handles'
  <2> SUFFICES ASSUME NEW d \in Clients
               PROVE  /\ opened'[d] => pc'[d] \in AtWork /\ disk'[target'[d]].file
                      /\ pc'[d] \notin AtWork => written'[d] = 0
    BY DEF Handles
  <2>1. target[d] \in Paths
    BY KeysArePaths DEF Base, TypeOK
  <2>2. opened'[d] => opened[d] /\ ~Writing(d, k)
    BY <1>2
  <2>3. opened'[d] => target[d] # k
    BY <2>2 DEF Base, Handles, Writing, AtWork
  <2> QED
    BY <1>2, <1>3, <2>1, <2>2, <2>3 DEF Base, Handles
<1> QED
  BY <1>5, <1>6, <1>7 DEF Base

LEMMA NextBase == Base /\ [Next]_vars => Base'
<1> SUFFICES ASSUME Base, [Next]_vars
             PROVE  Base'
  OBVIOUS
<1>1. ASSUME NEW c \in Clients, Finish(c) \/ Abort(c) \/ Close(c)
      PROVE  Base'
  <2>1. target[c] \in Paths /\ mixed \subseteq Paths /\ faults \in 0..MaxFaults
    BY KeysArePaths DEF Base, TypeOK
  <2>2. faults < MaxFaults => faults + 1 \in 0..MaxFaults
    BY <2>1, LocalStoreAssumption
  <2> QED
    BY <1>1, <2>1, <2>2, LeaveBase DEF Finish, Abort, Close, LeaveUnfinished
<1>2. CASE UNCHANGED vars
  BY <1>2 DEF vars, put, Base, TypeOK, Tree, Handles
<1> QED
  BY <1>1, <1>2, StartBase, MakeDirsBase, CreateBase, WriteBase, DropBase,
     DeleteBase DEF Next

-----------------------------------------------------------------------------
(* Every step keeps account of whose blocks a file has.                    *)
Blame == Pieces /\ Undisturbed

(* Another put, or one that has no file, is as it was.                     *)
LEMMA OthersBlame ==
  ASSUME Base, Base', Blame, NEW c \in Clients,
         disk' = disk, mixed \subseteq mixed', disturbed' = disturbed,
         \A d \in Clients \ {c} :
           /\ pc'[d] = pc[d] /\ opened'[d] = opened[d]
           /\ target'[d] = target[d] /\ written'[d] = written[d],
         \/ ~opened'[c] /\ pc'[c] \notin AtWork
         \/ /\ opened'[c] = opened[c] /\ target'[c] = target[c]
            /\ written'[c] = written[c]
            /\ pc'[c] \in AtWork <=> pc[c] \in AtWork
  PROVE  Blame'
<1>1. ASSUME NEW d \in Clients, NEW p, Writing(d, p)'
      PROVE  /\ Writing(d, p) /\ pc'[d] \in AtWork
             /\ target'[d] = target[d] /\ written'[d] = written[d]
  BY <1>1 DEF Writing, AtWork
<1>2. ASSUME NEW d \in Clients, Alone(d), target'[d] = target[d],
             written'[d] = written[d]
      PROVE  Alone(d)'
  BY <1>1, <1>2 DEF Alone, SoFar
<1>3. Pieces'
  BY <1>1, <1>2 DEF Blame, Pieces
<1>4. Undisturbed'
  BY <1>2 DEF Blame, Undisturbed
<1> QED
  BY <1>3, <1>4 DEF Blame

LEMMA LeaveBlame ==
  ASSUME Base, Base', Blame, NEW c \in Clients, NEW result \in {"ok", "backend"},
         Leave(c, result), disk' = disk, mixed \subseteq mixed',
         disturbed' = disturbed
  PROVE  Blame'
<1>1. /\ target' = target /\ pc'[c] = "idle" /\ ~opened'[c]
      /\ \A d \in Clients \ {c} :
           pc'[d] = pc[d] /\ opened'[d] = opened[d] /\ written'[d] = written[d]
  BY LeaveType DEF Base
<1>2. pc'[c] \notin AtWork
  BY <1>1 DEF AtWork
<1> QED
  BY <1>1, <1>2, OthersBlame

LEMMA CreateBlame ==
  ASSUME Base, Base', Blame, NEW c \in Clients, CreateFile(c)
  PROVE  Blame'
<1> DEFINE p == target[c]
           others == {d \in Clients \ {c} : Writing(d, p)}
<1>1. p \in Keys /\ p \in Paths
  BY KeysArePaths DEF Base, TypeOK
<1>2. CASE p \in dirs
  BY <1>2, LeaveBlame DEF CreateFile
<1>3. CASE p \notin dirs
  <2>1. /\ pc[c] \in {"create", "late_create"}
        /\ disk' = [disk EXCEPT ![p] = File(<<>>)]
        /\ pc' = [pc EXCEPT ![c] = AfterCall(c)]
        /\ opened' = [opened EXCEPT ![c] = TRUE]
        /\ UNCHANGED <<target, written>>
        /\ mixed' = IF others = {} THEN mixed \ {p} ELSE mixed \cup {p}
        /\ disturbed' = IF others = {} THEN disturbed \ {c}
                                       ELSE disturbed \cup others \cup {c}
    BY <1>3 DEF CreateFile
  <2>2. AfterCall(c) \in {"write", "close"}
    BY DEF AfterCall
  <2>3. /\ pc'[c] \in AtWork /\ opened'[c]
        /\ \A d \in Clients \ {c} : pc'[d] = pc[d] /\ opened'[d] = opened[d]
    BY <2>1, <2>2 DEF Base, TypeOK, AtWork
  <2>4. /\ disk'[p] = File(<<>>)
        /\ \A q \in Paths \ {p} : disk'[q] = disk[q]
    BY <1>1, <2>1 DEF Base, TypeOK
  <2>5. written[c] = 0
    BY <2>1 DEF Base, Handles, AtWork
  <2>6. \A d \in Clients : target[d] \in Paths
    BY KeysArePaths DEF Base, TypeOK
  <2>7. ASSUME NEW d \in Clients \ {c}, NEW q
        PROVE  Writing(d, q)' <=> Writing(d, q)
    BY <2>1, <2>3 DEF Writing
  <2>8. \A q : Writing(c, q)' <=> q = p
    BY <2>1, <2>3 DEF Writing, AtWork
  <2> HIDE DEF p
  <2>9. ASSUME NEW d \in Clients \ {c}, target[d] # p, Alone(d)
        PROVE  Alone(d)'
    BY <2>1, <2>4, <2>6, <2>7, <2>8, <2>9 DEF Alone, SoFar
  <2>10. SoFar(c)' = <<>>
    BY <2>1, <2>5 DEF SoFar
  <2>11. others = {} => Alone(c)'
    BY <2>1, <2>4, <2>7, <2>8, <2>10, p = target[c] DEF Alone, p
  <2>12. Pieces'
    <3> SUFFICES ASSUME NEW d \in Clients, Writing(d, target[d])'
                 PROVE  target[d] \in mixed' \/ Alone(d)'
      BY <2>1 DEF Pieces
    <3>1. CASE d = c
      BY <2>1, <2>11, <3>1 DEF p
    <3>2. CASE d # c /\ target[d] = p
      <4>1. d \in others
        BY <2>1, <2>3, <3>2 DEF Writing
      <4> QED
        BY <2>1, <3>2, <4>1
    <3>3. CASE d # c /\ target[d] # p
      <4>1. target[d] \in mixed \/ Alone(d)
        BY <2>1, <2>3, <3>3 DEF Blame, Pieces, Writing
      <4> QED
        BY <2>1, <2>9, <3>3, <4>1
    <3> QED
      BY <3>1, <3>2, <3>3
  <2>13. Undisturbed'
    <3> SUFFICES ASSUME NEW d \in Clients, pc'[d] \in AtWork, d \notin disturbed'
                 PROVE  opened'[d] /\ Alone(d)'
      BY DEF Undisturbed
    <3>1. CASE d = c
      BY <2>1, <2>3, <2>11, <3>1
    <3>2. CASE d # c
      <4>1. opened[d] /\ Alone(d) /\ pc[d] \in AtWork
        <5>1. d \notin disturbed /\ pc[d] \in AtWork
          BY <2>1, <2>3, <3>2
        <5> QED
          BY <5>1 DEF Blame, Undisturbed
      <4>2. target[d] # p
        <5>1. target[d] = p => d \in others
          BY <3>2, <4>1 DEF Writing, AtWork
        <5> QED
          BY <2>1, <5>1
      <4> QED
        BY <2>3, <2>9, <3>2, <4>1, <4>2
    <3> QED
      BY <3>1, <3>2
  <2> QED
    BY <2>12, <2>13 DEF Blame
<1> QED
  BY <1>2, <1>3

LEMMA WriteBlame ==
  ASSUME Base, Base', Blame, NEW c \in Clients, WriteBlock(c)
  PROVE  Blame'
<1> DEFINE p == target[c]
           i == written[c] + 1
<1>1. p \in Keys /\ p \in Paths /\ written[c] \in Nat
  BY KeysArePaths DEF Base, TypeOK
<1>2. /\ pc[c] \in {"write", "late_write"}
      /\ pc' = [pc EXCEPT ![c] = AfterCall(c)]
      /\ written' = [written EXCEPT ![c] = i]
      /\ disk' = IF opened[c]
                 THEN [disk EXCEPT ![p] = File(WriteAt(@.blocks, i, c))]
                 ELSE disk
      /\ UNCHANGED <<target, opened, mixed, disturbed>>
  BY DEF WriteBlock
<1>3. /\ pc'[c] \in AtWork /\ pc[c] \in AtWork
      /\ \A d \in Clients \ {c} : pc'[d] = pc[d]
      /\ written'[c] = i
      /\ \A d \in Clients \ {c} : written'[d] = written[d]
  BY <1>2 DEF Base, TypeOK, AtWork, AfterCall
<1>4. \A d \in Clients : \A q : Writing(d, q)' <=> Writing(d, q)
  BY <1>2, <1>3 DEF Writing, AtWork
<1>5. ASSUME opened[c], Alone(c)
      PROVE  Alone(c)'
  <2>1. disk[p] = File(SoFar(c))
    BY <1>5 DEF Alone
  <2>2. disk'[p] = File(WriteAt(SoFar(c), i, c))
    BY <1>1, <1>2, <1>5, <2>1 DEF Base, TypeOK, File
  <2>3. WriteAt(SoFar(c), i, c) = SoFar(c)'
    BY <1>1, <1>3, BlockAppended DEF SoFar
  <2>4. \A d \in Clients : Writing(d, p)' => d = c
    BY <1>2, <1>3, <1>5 DEF Alone, Writing, AtWork
  <2> QED
    BY <1>2, <2>2, <2>3, <2>4 DEF Alone
<1>6. ASSUME NEW d \in Clients \ {c}, Alone(d)
      PROVE  Alone(d)'
  <2>1. opened[c] => target[d] # p
    BY <1>3, <1>6 DEF Alone, Writing, AtWork
  <2>2. disk'[target[d]] = disk[target[d]]
    <3>1. target[d] \in Paths
      BY KeysArePaths DEF Base, TypeOK
    <3> QED
      BY <1>1, <1>2, <2>1, <3>1 DEF Base, TypeOK
  <2> QED
    BY <1>2, <1>3, <1>4, <1>6, <2>2 DEF Alone, SoFar
<1>7. Pieces'
  <2> SUFFICES ASSUME NEW d \in Clients, Writing(d, target[d])'
               PROVE  target[d] \in mixed \/ Alone(d)'
    BY <1>2 DEF Pieces
  <2>1. target[d] \in mixed \/ Alone(d)
    BY <1>2, <1>3 DEF Blame, Pieces, Writing, AtWork
  <2>2. opened[d]
    BY <1>2 DEF Writing
  <2> QED
    BY <1>5, <1>6, <2>1, <2>2
<1>8. Undisturbed'
  BY <1>2, <1>3, <1>5, <1>6 DEF Blame, Undisturbed
<1> QED
  BY <1>7, <1>8 DEF Blame

LEMMA DeleteBlame ==
  ASSUME Base, Base', Blame, NEW k \in Keys, delete(k)
  PROVE  Blame'
<1>1. k \in Paths
  BY KeysArePaths
<1>2. /\ disk' = [disk EXCEPT ![k] = NoFile]
      /\ opened' = [c \in Clients |-> opened[c] /\ ~Writing(c, k)]
      /\ mixed' = mixed \ {k}
      /\ disturbed' = disturbed \cup {c \in Clients : Writing(c, k)}
      /\ UNCHANGED <<pc, target, written>>
  BY DEF delete
<1>3. ASSUME NEW d \in Clients, opened'[d]
      PROVE  opened[d] /\ target[d] # k
  BY <1>2, <1>3 DEF Base, Handles, Writing, AtWork
<1>4. \A d \in Clients : \A q : Writing(d, q)' => Writing(d, q)
  BY <1>2 DEF Writing
<1>5. ASSUME NEW d \in Clients, target[d] # k, Alone(d)
      PROVE  Alone(d)'
  <2>1. target[d] \in Paths
    BY KeysArePaths DEF Base, TypeOK
  <2>2. disk'[target[d]] = disk[target[d]]
    BY <1>1, <1>2, <1>5, <2>1 DEF Base, TypeOK
  <2> QED
    BY <1>2, <1>4, <1>5, <2>2 DEF Alone, SoFar
<1>6. Pieces'
  <2> SUFFICES ASSUME NEW d \in Clients, Writing(d, target[d])'
               PROVE  target[d] \in mixed' \/ Alone(d)'
    BY <1>2 DEF Pieces
  <2>1. target[d] # k
    BY <1>3 DEF Writing
  <2>2. target[d] \in mixed \/ Alone(d)
    BY <1>2 DEF Blame, Pieces, Writing
  <2> QED
    BY <1>2, <1>5, <2>1, <2>2
<1>7. Undisturbed'
  <2> SUFFICES ASSUME NEW d \in Clients, pc[d] \in AtWork, d \notin disturbed'
               PROVE  opened'[d] /\ Alone(d)'
    BY <1>2 DEF Undisturbed
  <2>1. opened[d] /\ Alone(d) /\ ~Writing(d, k)
    BY <1>2 DEF Blame, Undisturbed
  <2>2. target[d] # k
    BY <2>1 DEF Writing, AtWork
  <2> QED
    BY <1>2, <1>5, <2>1, <2>2
<1> QED
  BY <1>6, <1>7 DEF Blame

LEMMA NextLocal == LocalInv /\ [Next]_vars => LocalInv'
<1> SUFFICES ASSUME Base, Blame, [Next]_vars
             PROVE  Base' /\ Blame'
  BY DEF LocalInv, Base, Blame
<1>1. Base'
  BY NextBase
<1>2. ASSUME NEW c \in Clients, NEW k \in Keys, Start(c, k)
      PROVE  Blame'
  <2>1. /\ pc'[c] = "mkdir" /\ opened'[c] = opened[c] /\ ~opened[c]
        /\ \A d \in Clients \ {c} : pc'[d] = pc[d] /\ target'[d] = target[d]
        /\ UNCHANGED <<disk, opened, written, mixed, disturbed>>
    <3>1. /\ DOMAIN pc = Clients /\ DOMAIN target = Clients
          /\ opened[c] => pc[c] \in AtWork
      BY DEF Base, TypeOK, Handles
    <3>2. /\ pc[c] = "idle" /\ pc' = [pc EXCEPT ![c] = "mkdir"]
          /\ target' = [target EXCEPT ![c] = k]
          /\ UNCHANGED <<disk, opened, written, mixed, disturbed>>
      BY <1>2 DEF Start
    <3> QED
      BY <3>1, <3>2 DEF AtWork
  <2>2. pc'[c] \notin AtWork /\ ~opened'[c]
    BY <2>1 DEF AtWork
  <2>3. /\ disk' = disk /\ mixed \subseteq mixed' /\ disturbed' = disturbed
        /\ \A d \in Clients \ {c} :
             /\ pc'[d] = pc[d] /\ opened'[d] = opened[d]
             /\ target'[d] = target[d] /\ written'[d] = written[d]
    BY <2>1
  <2> QED
    BY <1>1, <2>2, <2>3, OthersBlame
<1>3. ASSUME NEW c \in Clients, MakeDirs(c)
      PROVE  Blame'
  <2>1. UNCHANGED <<disk, mixed, disturbed>> /\ pc[c] \notin AtWork
    BY <1>3 DEF MakeDirs, AtWork
  <2>2. CASE Leave(c, "backend")
    BY <1>1, <2>1, <2>2, LeaveBlame
  <2>3. CASE /\ pc' = [pc EXCEPT ![c] = "create"] \/ pc' = pc
             /\ UNCHANGED <<target, opened, written>>
    <3>1. /\ pc'[c] \notin AtWork
          /\ \A d \in Clients \ {c} : pc'[d] = pc[d]
      BY <2>1, <2>3 DEF Base, TypeOK, AtWork
    <3> QED
      BY <1>1, <2>1, <2>3, <3>1, OthersBlame
  <2> QED
    BY <1>3, <2>2, <2>3 DEF MakeDirs, put
<1>4. ASSUME NEW c \in Clients, Finish(c) \/ Abort(c) \/ Close(c)
      PROVE  Blame'
  BY <1>1, <1>4, LeaveBlame DEF Finish, Abort, Close, LeaveUnfinished
<1>5. ASSUME NEW c \in Clients, Drop(c)
      PROVE  Blame'
  <2>1. /\ pc'[c] \in AtWork <=> pc[c] \in AtWork
        /\ \A d \in Clients \ {c} : pc'[d] = pc[d]
    <3>1. pc[c] \in {"mkdir", "create", "write"}
      BY <1>5 DEF Base, TypeOK, Drop
    <3> QED
      BY <1>5, <3>1 DEF Base, TypeOK, Drop, AtWork
  <2> QED
    BY <1>1, <1>5, <2>1, OthersBlame DEF Drop
<1>6. CASE UNCHANGED vars
  BY <1>1, <1>6 DEF vars, put, Blame, Pieces, Undisturbed, Alone, SoFar, Writing
<1>7. ASSUME NEW c \in Clients, CreateFile(c) \/ WriteBlock(c)
      PROVE  Blame'
  BY <1>1, <1>7, CreateBlame, WriteBlame
<1>8. ASSUME NEW k \in Keys, delete(k)
      PROVE  Blame'
  BY <1>1, <1>8, DeleteBlame
<1>9. Next => Blame'
  BY <1>2, <1>3, <1>4, <1>5, <1>7, <1>8 DEF Next
<1> QED
  BY <1>1, <1>6, <1>9

-----------------------------------------------------------------------------
(* The inductive invariant of either backend.                              *)

(* In S3, an object that was put is there until another put or a delete    *)
(* overtakes it, and whoever has given up has not been told Ok.            *)
Requested ==
  \A c \in Clients :
    /\ c \in served /\ c \notin overtaken => objects[request[c]] = c
    /\ driver = "s3" /\ c \in given_up => answer[c] \in {"none", "backend"}

(* What there is on the disk is of puts that have begun.                   *)
Begun ==
  /\ \A c \in Clients : pc[c] # "idle" => target[c] \in begun
  /\ dirs \subseteq UNION {Prefixes(k) : k \in begun}
  /\ \A p \in Paths : disk[p].file => p \in begun
  /\ PutsFailForACause

StorageInv == StorageTypeOK /\ LocalInv /\ Requested /\ Begun

LEMMA StorageInitInv == StorageInit => StorageInv
<1> SUFFICES ASSUME StorageInit
             PROVE  StorageInv
  OBVIOUS
<1>1. LocalInv
  BY LocalInit DEF StorageInit
<1>2. StorageTypeOK /\ Requested
  BY <1>1 DEF StorageInit, S3!Init, LocalInv, StorageTypeOK, Requested
<1>3. Begun
  BY DEF StorageInit, Init, NoFile, Begun, PutsFailForACause
<1> QED
  BY <1>1, <1>2, <1>3 DEF StorageInv

LEMMA S3Step ==
  ASSUME StorageInv, driver = "s3", S3!Next, driver' = driver
  PROVE  /\ answer' \in [Clients -> {"none", "ok", "backend"}]
         /\ objects' \in [Keys -> Clients \cup {NoObject}]
         /\ request' \in [Clients -> Keys \cup {NoKey}]
         /\ served' \subseteq Clients /\ given_up' \subseteq Clients
         /\ overtaken' \subseteq Clients
         /\ \A c \in served' \cup given_up' : request'[c] # NoKey
         /\ Requested'
<1> DEFINE Types ==
             /\ answer' \in [Clients -> {"none", "ok", "backend"}]
             /\ objects' \in [Keys -> Clients \cup {NoObject}]
             /\ request' \in [Clients -> Keys \cup {NoKey}]
             /\ served' \subseteq Clients /\ given_up' \subseteq Clients
             /\ overtaken' \subseteq Clients
             /\ \A c \in served' \cup given_up' : request'[c] # NoKey
<1>1. /\ objects \in [Keys -> Clients \cup {NoObject}]
      /\ request \in [Clients -> Keys \cup {NoKey}]
      /\ served \subseteq Clients /\ given_up \subseteq Clients
      /\ overtaken \subseteq Clients
      /\ \A c \in served \cup given_up : request[c] # NoKey
      /\ answer \in [Clients -> {"none", "ok", "backend"}]
      /\ Requested
  BY DEF StorageInv, StorageTypeOK, TypeOK
<1>2. ASSUME NEW c \in Clients, NEW k \in Keys, S3!put(c, k)
      PROVE  Types /\ Requested'
  <2>1. /\ request[c] = NoKey /\ request' = [request EXCEPT ![c] = k]
        /\ answer' = [answer EXCEPT ![c] = "none"]
        /\ UNCHANGED <<objects, served, given_up, overtaken>>
    BY <1>2 DEF S3!put
  <2>2. Types
    BY <1>1, <2>1, StorageAssumption
  <2>3. Requested'
    BY <1>1, <2>1 DEF Requested
  <2> QED
    BY <2>2, <2>3
<1>3. ASSUME NEW c \in Clients, S3!Serve(c)
      PROVE  Types /\ Requested'
  <2> DEFINE k == request[c]
  <2>1. /\ k # NoKey /\ c \notin served
        /\ objects' = [objects EXCEPT ![k] = c]
        /\ served' = served \cup {c}
        /\ overtaken' = (overtaken \ {c}) \cup {d \in served : request[d] = k}
        /\ UNCHANGED <<request, given_up, answer>>
    BY <1>3 DEF S3!Serve, S3!Holders
  <2>2. k \in Keys
    BY <1>1, <2>1
  <2>3. Types
    BY <1>1, <2>1, <2>2
  <2>4. ASSUME NEW d \in Clients, d \in served', d \notin overtaken'
        PROVE  objects'[request'[d]] = d
    <3>1. CASE d = c
      BY <1>1, <2>1, <2>2, <3>1
    <3>2. CASE d # c
      <4>1. d \in served /\ d \notin overtaken /\ request[d] # k
        BY <2>1, <2>4, <3>2
      <4>2. objects[request[d]] = d /\ request[d] \in Keys
        BY <1>1, <4>1 DEF Requested
      <4> QED
        BY <1>1, <2>1, <2>2, <4>1, <4>2
    <3> QED
      BY <3>1, <3>2
  <2>5. Requested'
    BY <1>1, <2>1, <2>4 DEF Requested
  <2> QED
    BY <2>3, <2>5
<1>4. ASSUME NEW c \in Clients, S3!End(c),
             \/ answer' = answer
             \/ \E result \in {"none", "ok", "backend"} :
                  answer' = [answer EXCEPT ![c] = result]
      PROVE  Types /\ Requested'
  <2>1. /\ request' = [request EXCEPT ![c] = NoKey]
        /\ served' = served \ {c} /\ given_up' = given_up \ {c}
        /\ UNCHANGED <<objects, overtaken>>
    BY <1>4 DEF S3!End
  <2>2. answer' \in [Clients -> {"none", "ok", "backend"}]
    BY <1>1, <1>4
  <2>3. \A d \in Clients \ {c} : answer'[d] = answer[d]
    BY <1>1, <1>4
  <2>4. Types
    BY <1>1, <2>1, <2>2
  <2>5. Requested'
    BY <1>1, <2>1, <2>3 DEF Requested
  <2> QED
    BY <2>4, <2>5
<1>5. ASSUME NEW c \in Clients, S3!Return(c) \/ S3!Forget(c)
      PROVE  Types /\ Requested'
  BY <1>4, <1>5 DEF S3!Return, S3!Forget
<1>6. ASSUME NEW c \in Clients, S3!GiveUp(c)
      PROVE  Types /\ Requested'
  <2>1. PICK result \in {"none", "backend"} :
               answer' = [answer EXCEPT ![c] = result]
    BY <1>6 DEF S3!GiveUp, S3!map_error
  <2>2. CASE c \in served
    BY <1>4, <1>6, <2>1, <2>2 DEF S3!GiveUp
  <2>3. CASE c \notin served
    <3>1. /\ request[c] # NoKey /\ given_up' = given_up \cup {c}
          /\ UNCHANGED <<objects, request, served, overtaken>>
      BY <1>6, <2>3 DEF S3!GiveUp
    <3>2. Types
      BY <1>1, <2>1, <3>1
    <3>3. Requested'
      BY <1>1, <2>1, <3>1 DEF Requested
    <3> QED
      BY <3>2, <3>3
  <2> QED
    BY <2>2, <2>3
<1>7. ASSUME NEW k \in Keys, S3!delete(k)
      PROVE  Types /\ Requested'
  <2>1. /\ objects' = [objects EXCEPT ![k] = NoObject]
        /\ overtaken' = overtaken \cup {d \in served : request[d] = k}
        /\ UNCHANGED <<request, served, given_up, answer>>
    BY <1>7 DEF S3!delete, S3!Holders, S3!requests
  <2>2. Types
    BY <1>1, <2>1
  <2>3. ASSUME NEW d \in Clients, d \in served, d \notin overtaken'
        PROVE  objects'[request[d]] = d
    <3>1. d \notin overtaken /\ request[d] # k /\ request[d] \in Keys
      BY <1>1, <2>1, <2>3
    <3> QED
      BY <1>1, <2>1, <2>3, <3>1 DEF Requested
  <2>4. Requested'
    BY <1>1, <2>1, <2>3 DEF Requested
  <2> QED
    BY <2>2, <2>4
<1> QED
  BY <1>2, <1>3, <1>5, <1>6, <1>7 DEF S3!Next

(* The keys on which a put has begun grow with the puts at work.           *)
Beginning ==
  begun' = begun \cup {target'[c] : c \in {d \in Clients : pc'[d] # "idle"}}

(* A put that leaves with an error has a cause.                            *)
LEMMA LeavesForACause ==
  ASSUME StorageInv, driver = "local", driver' = driver, Beginning,
         NEW c \in Clients, NEW result, Leave(c, result),
         faults' \in Nat, faults' >= faults,
         result # "backend" \/ pc[c] \in Late \/ faults' > 0 \/ Crossed(target[c])
  PROVE  PutsFailForACause'
<1>1. /\ answer \in [Clients -> {"none", "ok", "backend"}]
      /\ faults \in Nat
  BY DEF StorageInv, LocalInv, TypeOK
<1>2. \A k : Crossed(k) => Crossed(k)'
  BY DEF Beginning, Crossed
<1>3. /\ target' = target
      /\ \A d \in Clients \ {c} : answer'[d] = answer[d]
      /\ answer'[c] = IF pc[c] \in Late THEN "none" ELSE result
  BY <1>1 DEF Leave
<1> SUFFICES ASSUME NEW d \in Clients, answer'[d] = "backend"
             PROVE  faults' > 0 \/ Crossed(target[d])'
  BY <1>3 DEF PutsFailForACause
<1>4. CASE d = c
  BY <1>2, <1>3, <1>4
<1>5. CASE d # c
  <2>1. faults > 0 \/ Crossed(target[d])
    BY <1>3, <1>5 DEF StorageInv, Begun, PutsFailForACause
  <2> QED
    BY <1>1, <1>2, <1>3, <2>1
<1> QED
  BY <1>4, <1>5

(* A put that goes on has not failed.                                      *)
LEMMA GoesOn ==
  ASSUME StorageInv, driver = "local", driver' = driver, Beginning,
         UNCHANGED <<target, answer>>, faults' \in Nat, faults' >= faults
  PROVE  PutsFailForACause'
<1>1. faults \in Nat
  BY DEF StorageInv, LocalInv, TypeOK
<1>2. \A k : Crossed(k) => Crossed(k)'
  BY DEF Beginning, Crossed
<1>3. \A d \in Clients : answer[d] = "backend" => faults > 0 \/ Crossed(target[d])
  BY DEF StorageInv, Begun, PutsFailForACause
<1> QED
  BY <1>1, <1>2, <1>3 DEF PutsFailForACause

LEMMA NextBegun ==
  ASSUME StorageInv, driver = "local", driver' = driver, Beginning, Next
  PROVE  Begun'
<1> DEFINE Disk == /\ dirs' \subseteq UNION {Prefixes(k) : k \in begun}
                   /\ \A p \in Paths : disk'[p].file => p \in begun
<1>1. /\ dirs \subseteq UNION {Prefixes(k) : k \in begun}
      /\ \A p \in Paths : disk[p].file => p \in begun
      /\ \A c \in Clients : pc[c] # "idle" => target[c] \in begun
  BY DEF StorageInv, Begun
<1>2. /\ target \in [Clients -> Keys] /\ faults \in Nat
      /\ disk \in [Paths -> [file : BOOLEAN,
                            blocks : Seq(Clients \cup {NoClient})]]
      /\ answer \in [Clients -> {"none", "ok", "backend"}]
      /\ \A c \in Clients : opened[c] => pc[c] \in AtWork
  BY DEF StorageInv, LocalInv, TypeOK, Handles
<1>3. ASSUME NEW c \in Clients, NEW k \in Keys, Start(c, k)
      PROVE  Disk /\ PutsFailForACause'
  <2>1. /\ target' = [target EXCEPT ![c] = k]
        /\ answer' = [answer EXCEPT ![c] = "none"]
        /\ UNCHANGED <<dirs, disk, faults>>
    BY <1>3 DEF Start
  <2>2. \A q : Crossed(q) => Crossed(q)'
    BY DEF Beginning, Crossed
  <2>3. \A d \in Clients : answer'[d] = "backend"
                            => answer[d] = "backend" /\ target'[d] = target[d]
    BY <1>2, <2>1
  <2>4. PutsFailForACause'
    BY <2>1, <2>2, <2>3 DEF StorageInv, Begun, PutsFailForACause
  <2> QED
    BY <1>1, <2>1, <2>4
<1>4. ASSUME NEW c \in Clients, MakeDirs(c)
      PROVE  Disk /\ PutsFailForACause'
  <2> DEFINE missing == Prefixes(target[c]) \ dirs
             top == CHOOSE p \in missing : \A q \in missing : Len(p) <= Len(q)
  <2>1. UNCHANGED <<disk, faults>> /\ target[c] \in begun
    BY <1>1, <1>4 DEF MakeDirs
  <2>2. missing # {} => top \in Prefixes(target[c])
    BY <1>2, TopFits DEF StorageInv, LocalInv
  <2>3. CASE dirs' = dirs /\ UNCHANGED <<target, answer>>
    BY <1>1, <1>2, <2>1, <2>3, GoesOn
  <2>4. CASE missing # {} /\ dirs' = dirs \cup {top} /\ UNCHANGED put
    <3> HIDE DEF top, missing
    <3>1. UNCHANGED <<target, answer>>
      BY <2>4 DEF put
    <3>2. PutsFailForACause'
      BY <1>2, <2>1, <3>1, GoesOn
    <3> QED
      BY <1>1, <2>1, <2>2, <2>4, <3>2
  <2>5. CASE missing # {} /\ disk[top].file /\ Leave(c, "backend") /\ dirs' = dirs
    <3> HIDE DEF top, missing
    <3>1. top \in Paths
      BY <1>2, <2>2, <2>5, PathsOfPrefixes
    <3>2. Crossed(target[c])
      BY <1>1, <2>2, <2>5, <3>1 DEF Crossed
    <3>3. PutsFailForACause'
      BY <1>2, <2>1, <2>5, <3>2, LeavesForACause
    <3> QED
      BY <1>1, <2>1, <2>5, <3>3
  <2> QED
    BY <1>4, <2>3, <2>4, <2>5 DEF MakeDirs
<1>5. ASSUME NEW c \in Clients, CreateFile(c)
      PROVE  Disk /\ PutsFailForACause'
  <2> DEFINE p == target[c]
  <2>1. UNCHANGED <<dirs, faults>> /\ p \in begun
    BY <1>1, <1>5 DEF CreateFile
  <2>2. CASE p \in dirs
    <3>1. Leave(c, "backend") /\ disk' = disk
      BY <1>5, <2>2 DEF CreateFile
    <3>2. Crossed(p)
      BY <1>1, <2>2 DEF Crossed
    <3>3. PutsFailForACause'
      BY <1>2, <2>1, <3>1, <3>2, LeavesForACause
    <3> QED
      BY <1>1, <2>1, <3>1, <3>3
  <2>3. CASE p \notin dirs
    <3>1. /\ disk' = [disk EXCEPT ![p] = File(<<>>)]
          /\ UNCHANGED <<target, answer>>
      BY <1>5, <2>3 DEF CreateFile
    <3>2. \A q \in Paths : disk'[q].file => disk[q].file \/ q = p
      BY <1>2, <3>1
    <3>3. PutsFailForACause'
      BY <1>2, <2>1, <3>1, GoesOn
    <3> QED
      BY <1>1, <2>1, <3>2, <3>3
  <2> QED
    BY <2>2, <2>3
<1>6. ASSUME NEW c \in Clients, WriteBlock(c)
      PROVE  Disk /\ PutsFailForACause'
  <2> DEFINE p == target[c]
             f == File(WriteAt(disk[p].blocks, written[c] + 1, c))
  <2>1. /\ disk' = IF opened[c] THEN [disk EXCEPT ![p] = f] ELSE disk
        /\ UNCHANGED <<dirs, target, answer, faults>>
        /\ p \in begun
    BY <1>1, <1>6 DEF WriteBlock
  <2> HIDE DEF p, f
  <2>2. \A q \in Paths : disk'[q].file => disk[q].file \/ q = p
    BY <1>2, <2>1
  <2>3. PutsFailForACause'
    BY <1>2, <2>1, GoesOn
  <2> QED
    BY <1>1, <2>1, <2>2, <2>3
<1>7. ASSUME NEW c \in Clients, Finish(c) \/ Abort(c) \/ Close(c)
      PROVE  Disk /\ PutsFailForACause'
  <2>1. UNCHANGED <<dirs, disk>>
    BY <1>7 DEF Finish, Abort, Close, LeaveUnfinished
  <2>2. ASSUME Finish(c)
       PROVE  PutsFailForACause'
    <3>1. faults' = faults /\ Leave(c, "ok")
      BY <2>2 DEF Finish
    <3> QED
      BY <1>2, <3>1, LeavesForACause
  <2>3. ASSUME Abort(c)
       PROVE  PutsFailForACause'
    <3>1. faults' = faults + 1 /\ Leave(c, "backend")
      BY <2>3 DEF Abort, LeaveUnfinished
    <3>2. faults' \in Nat /\ faults' >= faults /\ faults' > 0
      BY <1>2, <3>1
    <3> QED
      BY <3>1, <3>2, LeavesForACause
  <2>4. ASSUME Close(c)
       PROVE  PutsFailForACause'
    <3>1. pc[c] \in Late /\ faults' = faults /\ Leave(c, "backend")
      BY <2>4 DEF Close, LeaveUnfinished
    <3> QED
      BY <1>2, <3>1, LeavesForACause
  <2> QED
    BY <1>1, <1>7, <2>1, <2>2, <2>3, <2>4
<1>8. ASSUME NEW c \in Clients, Drop(c)
      PROVE  Disk /\ PutsFailForACause'
  <2>1. faults' = faults + 1 /\ UNCHANGED <<dirs, disk, target, answer>>
    BY <1>8 DEF Drop
  <2>2. faults' \in Nat /\ faults' >= faults
    BY <1>2, <2>1
  <2> QED
    BY <1>1, <2>1, <2>2, GoesOn
<1>9. ASSUME NEW k \in Keys, delete(k)
      PROVE  Disk /\ PutsFailForACause'
  <2>1. /\ disk' = [disk EXCEPT ![k] = NoFile]
        /\ UNCHANGED <<dirs, target, answer, faults>>
    BY <1>9 DEF delete
  <2>2. \A q \in Paths : disk'[q].file => disk[q].file
    BY <1>2, <2>1 DEF NoFile
  <2> QED
    BY <1>1, <1>2, <2>1, <2>2, GoesOn
<1>10. Disk /\ PutsFailForACause'
  BY <1>3, <1>4, <1>5, <1>6, <1>7, <1>8, <1>9 DEF Next
<1>11. begun \subseteq begun'
       /\ \A c \in Clients : pc'[c] # "idle" => target'[c] \in begun'
  BY DEF Beginning
<1>12. UNION {Prefixes(k) : k \in begun} \subseteq UNION {Prefixes(k) : k \in begun'}
  BY <1>11
<1> QED
  BY <1>10, <1>11, <1>12 DEF Begun

LEMMA StorageNextInv ==
  StorageInv /\ [StorageNext]_storage_vars => StorageInv'
<1> SUFFICES ASSUME StorageInv, [StorageNext]_storage_vars
             PROVE  StorageInv'
  OBVIOUS
<1>1. CASE driver = "local" /\ Next /\ Beginning /\ UNCHANGED <<driver, s3_vars>>
  <2>1. LocalInv'
    BY <1>1, NextLocal DEF StorageInv
  <2>2. begun' \subseteq Keys
    BY <1>1, <2>1 DEF StorageInv, StorageTypeOK, LocalInv, TypeOK, Beginning
  <2>3. StorageTypeOK'
    BY <1>1, <2>1, <2>2 DEF StorageInv, StorageTypeOK, LocalInv, s3_vars
  <2>4. Requested'
    BY <1>1 DEF StorageInv, Requested, s3_vars
  <2>5. Begun'
    BY <1>1, NextBegun
  <2> QED
    BY <2>1, <2>3, <2>4, <2>5 DEF StorageInv
<1>2. CASE /\ driver = "s3" /\ S3!Next
           /\ UNCHANGED <<driver, dirs, disk, pc, target, opened, written>>
           /\ UNCHANGED <<mixed, disturbed, faults, begun>>
  <2>1. /\ answer' \in [Clients -> {"none", "ok", "backend"}]
        /\ objects' \in [Keys -> Clients \cup {NoObject}]
        /\ request' \in [Clients -> Keys \cup {NoKey}]
        /\ served' \subseteq Clients /\ given_up' \subseteq Clients
        /\ overtaken' \subseteq Clients
        /\ \A c \in served' \cup given_up' : request'[c] # NoKey
        /\ Requested'
    BY <1>2, S3Step
  <2>2. TypeOK'
    BY <1>2, <2>1 DEF StorageInv, LocalInv, TypeOK
  <2>3. Tree' /\ Handles' /\ Pieces' /\ Undisturbed'
    BY <1>2 DEF StorageInv, LocalInv, Tree, Handles, Pieces, Undisturbed,
                Alone, SoFar, Writing
  <2>4. StorageTypeOK'
    BY <1>2, <2>1, <2>2 DEF StorageInv, StorageTypeOK
  <2>5. Begun'
    BY <1>2 DEF StorageInv, Begun, PutsFailForACause
  <2> QED
    BY <2>1, <2>2, <2>3, <2>4, <2>5 DEF StorageInv, LocalInv
<1>3. CASE UNCHANGED storage_vars
  <2>1. LocalInv'
    BY <1>3, NextLocal DEF StorageInv, storage_vars
  <2>2. StorageTypeOK' /\ Requested'
    BY <1>3, <2>1
    DEF StorageInv, StorageTypeOK, LocalInv, Requested, storage_vars, s3_vars,
        vars, put
  <2>3. Begun'
    BY <1>3
    DEF StorageInv, Begun, PutsFailForACause, Crossed, storage_vars, vars, put
  <2> QED
    BY <2>1, <2>2, <2>3 DEF StorageInv
<1> QED
  BY <1>1, <1>2, <1>3 DEF StorageNext, Beginning

LEMMA StorageAlways == StorageSpec => []StorageInv
BY StorageInitInv, StorageNextInv, PTL DEF StorageSpec

-----------------------------------------------------------------------------
(* Whichever backend there is, its state and that of the puts are of their *)
(* types, and on the disk a path is a file or a directory at most and lies *)
(* in directories.                                                         *)
THEOREM TypeCorrect == StorageSpec => []StorageTypeOK
<1>1. StorageInv => StorageTypeOK
  BY DEF StorageInv
<1> QED
  BY <1>1, StorageAlways, PTL

-----------------------------------------------------------------------------
(* What a file is when it is not whole.                                    *)
HasACause(p) ==
  \/ \E c \in Clients : disk[p] = File(Body(c)) \/ Writing(c, p)
  \/ p \in mixed

(* A file keeps its cause while it is not touched and whoever writes it    *)
(* goes on, or leaves it whole or blamed.                                  *)
LEMMA CauseStays ==
  ASSUME NEW p, HasACause(p), disk'[p] = disk[p], p \in mixed => p \in mixed',
         \A c \in Clients :
           Writing(c, p) => \/ Writing(c, p)' \/ p \in mixed'
                            \/ disk[p] = File(Body(c))
  PROVE  HasACause(p)'
BY DEF HasACause, Body

LEMMA NextCause ==
  ASSUME LocalInv, [Next]_vars, PiecesHaveACause
  PROVE  PiecesHaveACause'
<1> SUFFICES ASSUME NEW p \in Paths, disk'[p].file
             PROVE  HasACause(p)'
  BY DEF PiecesHaveACause, HasACause, Body
<1>1. disk[p].file => HasACause(p)
  BY DEF PiecesHaveACause, HasACause
<1>2. /\ pc \in [Clients -> {"idle", "mkdir", "create", "write"} \cup Late]
      /\ target \in [Clients -> Keys] /\ opened \in [Clients -> BOOLEAN]
      /\ disk \in [Paths -> [file : BOOLEAN, blocks : Seq(Clients \cup {NoClient})]]
  BY DEF LocalInv, TypeOK
(* c is not at work before, or goes on.                                    *)
<1>3. ASSUME NEW c \in Clients, disk' = disk, mixed' = mixed,
             \A d \in Clients \ {c} :
               pc'[d] = pc[d] /\ opened'[d] = opened[d] /\ target'[d] = target[d],
             \/ pc[c] \notin AtWork
             \/ /\ pc'[c] \in AtWork
                /\ opened'[c] = opened[c] /\ target'[c] = target[c]
      PROVE  HasACause(p)'
  <2>1. \A d \in Clients : Writing(d, p) => Writing(d, p)'
    BY <1>3 DEF Writing, AtWork
  <2> QED
    BY <1>1, <1>3, <2>1, CauseStays
<1>4. ASSUME NEW c \in Clients, NEW result \in {"ok", "backend"},
             Leave(c, result), disk' = disk, mixed \subseteq mixed',
             Writing(c, target[c]) =>
               \/ target[c] \in mixed'
               \/ disk[target[c]] = File(Body(c))
      PROVE  HasACause(p)'
  <2>1. \A d \in Clients \ {c} : pc'[d] = pc[d] /\ opened'[d] = opened[d]
    BY <1>4, LeaveType DEF LocalInv
  <2>2. \A d \in Clients : Writing(d, p) => \/ Writing(d, p)' \/ p \in mixed'
                                            \/ disk[p] = File(Body(d))
    BY <1>4, <2>1 DEF Writing, Leave
  <2> QED
    BY <1>1, <1>4, <2>2, CauseStays
<1>5. ASSUME NEW c \in Clients, NEW k \in Keys, Start(c, k)
      PROVE  HasACause(p)'
  BY <1>2, <1>3, <1>5 DEF Start, AtWork
<1>6. ASSUME NEW c \in Clients, MakeDirs(c)
      PROVE  HasACause(p)'
  <2>1. UNCHANGED <<disk, mixed>> /\ pc[c] \notin AtWork
    BY <1>6 DEF MakeDirs, AtWork
  <2>2. CASE Leave(c, "backend")
    BY <1>4, <2>1, <2>2 DEF Writing, AtWork
  <2>3. CASE /\ pc' = [pc EXCEPT ![c] = "create"] \/ pc' = pc
             /\ UNCHANGED <<target, opened>>
    BY <1>2, <1>3, <2>1, <2>3
  <2> QED
    BY <1>6, <2>2, <2>3 DEF MakeDirs, put
<1>7. ASSUME NEW c \in Clients, CreateFile(c)
      PROVE  HasACause(p)'
  <2>1. CASE target[c] \in dirs
    BY <1>4, <1>7, <2>1 DEF CreateFile, Writing
  <2>2. CASE target[c] \notin dirs
    <3>1. /\ disk' = [disk EXCEPT ![target[c]] = File(<<>>)]
          /\ pc' = [pc EXCEPT ![c] = AfterCall(c)]
          /\ opened' = [opened EXCEPT ![c] = TRUE]
          /\ target' = target /\ pc[c] \notin AtWork
          /\ mixed \ {target[c]} \subseteq mixed'
      BY <1>7, <2>2 DEF CreateFile, AtWork
    <3>2. CASE p = target[c]
      <4>1. pc'[c] \in AtWork /\ opened'[c]
        BY <1>2, <3>1 DEF AfterCall, AtWork
      <4>2. Writing(c, p)'
        BY <3>1, <3>2, <4>1 DEF Writing, AtWork
      <4> QED
        BY <4>2 DEF HasACause
    <3>3. CASE p # target[c]
      <4>1. disk'[p] = disk[p]
        BY <1>2, <3>1, <3>3
      <4>2. \A d \in Clients : Writing(d, p) => Writing(d, p)'
        BY <1>2, <3>1, <3>3 DEF Writing, AtWork
      <4> QED
        BY <1>1, <3>1, <3>3, <4>1, <4>2, CauseStays
    <3> QED
      BY <3>2, <3>3
  <2> QED
    BY <2>1, <2>2
<1>8. ASSUME NEW c \in Clients, WriteBlock(c)
      PROVE  HasACause(p)'
  <2>1. /\ pc[c] \in AtWork /\ pc' = [pc EXCEPT ![c] = AfterCall(c)]
        /\ UNCHANGED <<target, opened, mixed>>
        /\ \/ disk' = disk
           \/ opened[c] /\ \E file : disk' = [disk EXCEPT ![target[c]] = file]
    BY <1>8 DEF WriteBlock, AtWork
  <2>2. pc'[c] \in AtWork /\ \A d \in Clients \ {c} : pc'[d] = pc[d]
    BY <1>2, <2>1 DEF AfterCall, AtWork
  <2>3. CASE disk' = disk
    BY <1>3, <2>1, <2>2, <2>3
  <2>4. CASE opened[c] /\ p = target[c]
    <3>1. Writing(c, p)'
      BY <2>1, <2>2, <2>4 DEF Writing, AtWork
    <3> QED
      BY <3>1 DEF HasACause
  <2>5. CASE p # target[c] /\ disk' # disk
    <3>1. disk'[p] = disk[p]
      BY <1>2, <2>1, <2>5
    <3>2. \A d \in Clients : Writing(d, p) => Writing(d, p)'
      BY <2>1, <2>2 DEF Writing, AtWork
    <3> QED
      BY <1>1, <2>1, <3>1, <3>2, CauseStays
  <2> QED
    BY <2>1, <2>3, <2>4, <2>5
<1>9. ASSUME NEW c \in Clients, Finish(c)
      PROVE  HasACause(p)'
  <2>1. /\ written[c] = Size[c] /\ UNCHANGED <<disk, mixed>> /\ Leave(c, "ok")
    BY <1>9 DEF Finish
  <2>2. ASSUME Writing(c, target[c])
        PROVE  target[c] \in mixed \/ disk[target[c]] = File(Body(c))
    BY <2>1, <2>2 DEF LocalInv, Pieces, Alone, SoFar, Body
  <2> QED
    BY <1>4, <2>1, <2>2
<1>10. ASSUME NEW c \in Clients, Abort(c) \/ Close(c)
       PROVE  HasACause(p)'
  BY <1>4, <1>10 DEF Abort, Close, LeaveUnfinished
<1>11. ASSUME NEW c \in Clients, Drop(c)
       PROVE  HasACause(p)'
  <2>1. pc[c] \in {"mkdir", "create", "write"}
    BY <1>2, <1>11 DEF Drop
  <2>2. /\ pc[c] \in AtWork => pc'[c] \in AtWork
        /\ \A d \in Clients \ {c} : pc'[d] = pc[d]
    BY <1>2, <1>11, <2>1 DEF Drop, AtWork
  <2> QED
    BY <1>3, <1>11, <2>2 DEF Drop
<1>12. ASSUME NEW k \in Keys, delete(k)
       PROVE  HasACause(p)'
  <2>1. /\ disk' = [disk EXCEPT ![k] = NoFile]
        /\ opened' = [c \in Clients |-> opened[c] /\ ~Writing(c, k)]
        /\ mixed' = mixed \ {k} /\ UNCHANGED <<pc, target>>
    BY <1>12 DEF delete
  <2>2. p # k
    BY <1>2, <2>1 DEF NoFile
  <2>3. disk'[p] = disk[p]
    BY <1>2, <2>1, <2>2
  <2>4. \A d \in Clients : Writing(d, p) => Writing(d, p)'
    BY <2>1, <2>2 DEF Writing
  <2> QED
    BY <1>1, <2>1, <2>2, <2>3, <2>4, CauseStays
<1>13. CASE UNCHANGED vars
  <2>1. \A d \in Clients : Writing(d, p) => Writing(d, p)'
    BY <1>13 DEF vars, put, Writing
  <2> QED
    BY <1>1, <1>13, <2>1, CauseStays DEF vars
<1>14. Next => HasACause(p)'
  BY <1>5, <1>6, <1>7, <1>8, <1>9, <1>10, <1>11, <1>12 DEF Next
<1> QED
  BY <1>13, <1>14

(* A file that is not the whole body of a put is still being written, or   *)
(* was left by puts that overlapped or did not finish: no other way leads  *)
(* to an object in pieces.                                                 *)
THEOREM PiecesAreExplained == StorageSpec => []PiecesHaveACause
<1>1. StorageInit => PiecesHaveACause
  BY DEF StorageInit, Init, PiecesHaveACause, NoFile
<1>2. StorageInv /\ PiecesHaveACause /\ [StorageNext]_storage_vars
        => PiecesHaveACause'
  <2> SUFFICES ASSUME StorageInv, PiecesHaveACause,
                      [StorageNext]_storage_vars
               PROVE  PiecesHaveACause'
    OBVIOUS
  <2>1. CASE [Next]_vars
    BY <2>1, NextCause DEF StorageInv
  <2>2. CASE UNCHANGED <<disk, pc, target, opened, mixed>>
    BY <2>2 DEF PiecesHaveACause, Writing, Body
  <2> QED
    BY <2>1, <2>2 DEF StorageNext, storage_vars
<1> QED
  BY <1>1, <1>2, StorageAlways, PTL DEF StorageSpec

-----------------------------------------------------------------------------
(* The answers of both backends.                                           *)

(* Different clients have different bodies, and nobody an empty one.       *)
LEMMA Bodies ==
  ASSUME NEW c \in Clients
  PROVE  /\ Body(c) # <<>>
         /\ \A d \in Clients : File(Body(c)) = File(Body(d)) => c = d
<1>1. ASSUME NEW d \in Clients
      PROVE  1 \in DOMAIN Body(d) /\ Body(d)[1] = d
  BY LocalStoreAssumption DEF Body
<1>2. Body(c) # <<>>
  BY <1>1
<1>3. ASSUME NEW d \in Clients, File(Body(c)) = File(Body(d))
      PROVE  c = d
  <2>1. Body(c) = Body(d)
    BY <1>3 DEF File
  <2> QED
    BY <1>1, <2>1
<1> QED
  BY <1>2, <1>3

LEMMA ObjectOf ==
  ASSUME NEW f
  PROVE  /\ ~f.file => OnDisk(f) = NoObject
         /\ f.file => OnDisk(f) \in Clients \cup {InPieces}
         /\ f = File(<<>>) => OnDisk(f) = InPieces
         /\ \A c \in Clients : f = File(Body(c)) => OnDisk(f) = c
<1>1. ~f.file => OnDisk(f) = NoObject
  BY DEF OnDisk
<1>2. f.file => OnDisk(f) \in Clients \cup {InPieces}
  BY DEF OnDisk
<1>3. ASSUME f = File(<<>>)
      PROVE  OnDisk(f) = InPieces
  <2>1. f.file
    BY <1>3 DEF File
  <2>2. \A c \in Clients : f # File(Body(c))
    BY <1>3, Bodies DEF File
  <2> QED
    BY <2>1, <2>2 DEF OnDisk
<1>4. ASSUME NEW c \in Clients, f = File(Body(c))
      PROVE  OnDisk(f) = c
  <2>1. f.file
    BY <1>4 DEF File
  <2>2. \A d \in Clients : f = File(Body(d)) => d = c
    BY <1>4, Bodies
  <2>3. (CHOOSE d \in Clients : f = File(Body(d))) = c
    BY <1>4, <2>2
  <2> QED
    BY <1>4, <2>1, <2>3 DEF OnDisk
<1> QED
  BY <1>1, <1>2, <1>3, <1>4

(* Whatever puts have left half done, either backend gives the same answers*)
(* for the same objects, until a put begins on a nested key.               *)
THEOREM BackendsAnswerAlike == StorageSpec => []AnswersAgree
<1>1. ASSUME StorageInv, NEW k \in Keys, ~Crossed(k)
      PROVE  /\ exists_answer(k) <=> Object(k) # NoObject
             /\ get_answer(k) = IF Object(k) = NoObject THEN "not_found" ELSE "ok"
             /\ delete_answers(k) = {"ok"}
  <2>1. CASE driver = "s3"
    <3>1. Object(k) = objects[k]
      BY <2>1 DEF Object
    <3>2. delete_answers(k) = {"ok"}
      <4>1. S3!Deletion(k) # {} /\ \A r \in S3!Deletion(k) :
                                      S3!delete_reply(r) = "ok"
        BY DEF S3!Deletion, S3!delete_reply
      <4>2. S3!delete_answers(k) = {"ok"}
        BY <4>1 DEF S3!delete_answers
      <4> QED
        BY <2>1, <4>2 DEF delete_answers
    <3> QED
      BY <2>1, <3>1, <3>2
      DEF exists_answer, get_answer, S3!exists, S3!get, S3!map_error
  <2>2. CASE driver = "local"
    <3>1. /\ dirs \subseteq UNION {Prefixes(q) : q \in begun}
          /\ \A p \in Paths : disk[p].file => p \in begun
      BY <1>1 DEF StorageInv, Begun
    <3>2. k \notin dirs
      BY <1>1, <3>1 DEF Crossed
    <3>3. ~ThroughFile(k)
      BY <1>1, <3>1, PathsOfPrefixes DEF Crossed, ThroughFile
    <3>4. disk[k].file <=> Object(k) # NoObject
      <4>1. Object(k) = OnDisk(disk[k])
        BY <2>2 DEF Object
      <4> QED
        BY <4>1, ObjectOf, StorageAssumption
    <3> QED
      BY <2>2, <3>2, <3>3, <3>4
      DEF exists_answer, get_answer, delete_answers, exists, get, delete_reply
  <2> QED
    BY <1>1, <2>1, <2>2 DEF StorageInv, StorageTypeOK
<1>2. StorageInv => AnswersAgree
  BY <1>1 DEF AnswersAgree
<1> QED
  BY <1>2, StorageAlways, PTL

(* A put of the local backend fails only if a system call does, or because *)
(* of a put begun on a key that is nested with its own.                    *)
THEOREM FailuresHaveACause == StorageSpec => []PutsFailForACause
<1>1. StorageInv => PutsFailForACause
  BY DEF StorageInv, Begun
<1> QED
  BY <1>1, StorageAlways, PTL

-----------------------------------------------------------------------------
(* Either backend implements ObjectStore.                                  *)
AllObjects == [k \in Keys |-> Object(k)]
AllPutting == [c \in Clients |-> Putting(c)]
AllDisturbed == IF driver = "s3" THEN overtaken ELSE disturbed

(* The steps of the interface, in these terms.                             *)
LEMMA IsCall ==
  ASSUME NEW c \in Clients, AllPutting[c] = NoKey,
         answer' = [answer EXCEPT ![c] = "none"],
         AllObjects' = AllObjects, AllPutting' = AllPutting,
         AllDisturbed' = AllDisturbed
  PROVE  Interface!Next
<1>1. Interface!Call(c)
  BY DEF Interface!Call, AllObjects, AllPutting, AllDisturbed
<1> QED
  BY <1>1 DEF Interface!Next

LEMMA IsTake ==
  ASSUME NEW c \in Clients, NEW k \in Keys, AllPutting[c] = NoKey,
         AllPutting' = [AllPutting EXCEPT ![c] = k],
         NEW o \in {InPieces, c}, AllObjects' = [AllObjects EXCEPT ![k] = o],
         NEW hit, AllDisturbed' = (AllDisturbed \ {c}) \cup hit,
         hit \in SUBSET (IF {d \in Clients \ {c} : AllPutting[d] = k} = {}
                         THEN {}
                         ELSE {d \in Clients \ {c} : AllPutting[d] = k} \cup {c}),
         answer' = answer
  PROVE  Interface!Next
<1>1. Interface!Take(c, k)
  BY DEF Interface!Take, AllObjects, AllPutting, AllDisturbed
<1> QED
  BY <1>1 DEF Interface!Next

LEMMA IsChange ==
  ASSUME NEW c \in Clients, AllPutting[c] # NoKey,
         NEW o \in Clients \cup {InPieces},
         AllObjects' = [AllObjects EXCEPT ![AllPutting[c]] = o],
         AllPutting' = AllPutting, AllDisturbed' = AllDisturbed,
         answer' = answer
  PROVE  Interface!Next
<1>1. Interface!Change(c)
  BY DEF Interface!Change, AllObjects, AllPutting, AllDisturbed
<1> QED
  BY <1>1 DEF Interface!Next

LEMMA IsPutOk ==
  ASSUME NEW c \in Clients, AllPutting[c] # NoKey,
         c \notin AllDisturbed => AllObjects[AllPutting[c]] = c,
         AllPutting' = [AllPutting EXCEPT ![c] = NoKey],
         answer' = [answer EXCEPT ![c] = "ok"],
         AllObjects' = AllObjects, AllDisturbed' = AllDisturbed
  PROVE  Interface!Next
<1>1. Interface!PutOk(c)
  BY DEF Interface!PutOk, AllObjects, AllPutting, AllDisturbed
<1> QED
  BY <1>1 DEF Interface!Next

LEMMA IsPutEnds ==
  ASSUME NEW c \in Clients, NEW result \in {"none", "backend"},
         AllPutting' = [AllPutting EXCEPT ![c] = NoKey],
         answer' = [answer EXCEPT ![c] = result],
         AllObjects' = AllObjects, AllDisturbed' = AllDisturbed
  PROVE  Interface!Next
<1>1. Interface!PutEnds(c, result)
  BY DEF Interface!PutEnds, AllObjects, AllPutting, AllDisturbed
<1> QED
  BY <1>1 DEF Interface!Next

LEMMA IsDelete ==
  ASSUME NEW k \in Keys, AllObjects' = [AllObjects EXCEPT ![k] = NoObject],
         NEW hit \in SUBSET {c \in Clients : AllPutting[c] = k},
         AllDisturbed' = AllDisturbed \cup hit,
         AllPutting' = AllPutting, answer' = answer
  PROVE  Interface!Next
<1>1. Interface!Delete(k)
  BY DEF Interface!Delete, AllObjects, AllPutting, AllDisturbed
<1> QED
  BY <1>1 DEF Interface!Next

(* How the mapping follows the variables of the local backend ...          *)
LEMMA LocalPutting ==
  ASSUME driver = "local", driver' = driver, StorageInv,
         NEW c \in Clients, target' = target,
         \A d \in Clients \ {c} : pc'[d] = pc[d]
  PROVE  /\ AllPutting[c] = IF pc[c] \in AtWork THEN target[c] ELSE NoKey
         /\ pc'[c] \notin AtWork => AllPutting' = [AllPutting EXCEPT ![c] = NoKey]
         /\ pc'[c] \in AtWork =>
              AllPutting' = [AllPutting EXCEPT ![c] = target[c]]
         /\ (pc'[c] \in AtWork <=> pc[c] \in AtWork) => AllPutting' = AllPutting
BY DEF AllPutting, Putting, AtWork

LEMMA LocalObjects ==
  ASSUME driver = "local", driver' = driver, StorageInv
  PROVE  /\ disk' = disk => AllObjects' = AllObjects
         /\ \A k \in Keys : \A f :
              disk' = [disk EXCEPT ![k] = f]
                => AllObjects' = [AllObjects EXCEPT ![k] = OnDisk(f)]
<1>1. DOMAIN disk = Paths /\ Keys \subseteq Paths
  BY KeysArePaths DEF StorageInv, LocalInv, TypeOK
<1>2. /\ AllObjects = [k \in Keys |-> OnDisk(disk[k])]
      /\ AllObjects' = [k \in Keys |-> OnDisk(disk'[k])]
  BY DEF AllObjects, Object, OnDisk, Body
<1> QED
  BY <1>1, <1>2

LEMMA LocalDisturbed ==
  ASSUME driver = "local", driver' = driver
  PROVE  AllDisturbed = disturbed /\ AllDisturbed' = disturbed'
BY DEF AllDisturbed

(* ... and of S3.                                                          *)
LEMMA RemoteMapping ==
  ASSUME driver = "s3", driver' = driver
  PROVE  /\ AllObjects = [k \in Keys |-> objects[k]]
         /\ AllObjects' = [k \in Keys |-> objects'[k]]
         /\ AllPutting = [c \in Clients |->
                            IF c \in served THEN request[c] ELSE NoKey]
         /\ AllPutting' = [c \in Clients |->
                             IF c \in served' THEN request'[c] ELSE NoKey]
         /\ AllDisturbed = overtaken /\ AllDisturbed' = overtaken'
BY DEF AllObjects, Object, AllPutting, Putting, AllDisturbed

LEMMA LocalLeaves ==
  ASSUME driver = "local", driver' = driver, StorageInv, NEW c \in Clients,
         Leave(c, "backend"), disk' = disk, disturbed' = disturbed
  PROVE  Interface!Next
<1>1. /\ target' = target /\ pc'[c] = "idle"
      /\ \A d \in Clients \ {c} : pc'[d] = pc[d]
  BY LeaveType DEF StorageInv, LocalInv
<1>2. AllPutting' = [AllPutting EXCEPT ![c] = NoKey]
  BY <1>1, LocalPutting DEF AtWork
<1>3. AllObjects' = AllObjects /\ AllDisturbed' = AllDisturbed
  BY LocalObjects, LocalDisturbed
<1>4. PICK result \in {"none", "backend"} :
             answer' = [answer EXCEPT ![c] = result]
  BY DEF Leave
<1> QED
  BY <1>2, <1>3, <1>4, IsPutEnds

LEMMA LocalCreates ==
  ASSUME driver = "local", driver' = driver, StorageInv, NEW c \in Clients,
         CreateFile(c)
  PROVE  Interface!Next
<1> DEFINE p == target[c]
           others == {d \in Clients \ {c} : Writing(d, p)}
           holders == {d \in Clients \ {c} : AllPutting[d] = p}
<1>1. p \in Keys
  BY DEF StorageInv, LocalInv, TypeOK
<1>2. CASE p \in dirs
  BY <1>2, LocalLeaves DEF CreateFile
<1>3. CASE p \notin dirs
  <2>1. /\ pc[c] \in {"create", "late_create"}
        /\ disk' = [disk EXCEPT ![p] = File(<<>>)]
        /\ pc' = [pc EXCEPT ![c] = AfterCall(c)]
        /\ target' = target /\ answer' = answer
        /\ disturbed' = IF others = {} THEN disturbed \ {c}
                                       ELSE disturbed \cup others \cup {c}
    BY <1>3 DEF CreateFile
  <2>2. /\ pc[c] \notin AtWork /\ pc'[c] \in AtWork
        /\ \A d \in Clients \ {c} : pc'[d] = pc[d]
    BY <2>1 DEF StorageInv, LocalInv, TypeOK, AfterCall, AtWork
  <2>3. AllPutting[c] = NoKey /\ AllPutting' = [AllPutting EXCEPT ![c] = p]
    BY <2>1, <2>2, LocalPutting
  <2>4. AllObjects' = [AllObjects EXCEPT ![p] = InPieces]
    <3> DEFINE f == File(<<>>)
    <3>1. disk' = [disk EXCEPT ![p] = f]
      BY <2>1
    <3>2. OnDisk(f) = InPieces
      BY ObjectOf
    <3> HIDE DEF p, f
    <3>3. AllObjects' = [AllObjects EXCEPT ![p] = OnDisk(f)]
      BY <1>1, <3>1, LocalObjects
    <3> QED
      BY <3>2, <3>3
  <2>5. others \subseteq holders
    BY DEF Writing, AllPutting, Putting
  <2> DEFINE hit == IF others = {} THEN {} ELSE others \cup {c}
  <2>6. AllDisturbed' = (AllDisturbed \ {c}) \cup hit
    BY <2>1, LocalDisturbed
  <2>7. hit \in SUBSET (IF holders = {} THEN {} ELSE holders \cup {c})
    BY <2>5
  <2> HIDE DEF hit
  <2> QED
    BY <1>1, <2>1, <2>3, <2>4, <2>6, <2>7, IsTake
<1> QED
  BY <1>2, <1>3

LEMMA LocalWrites ==
  ASSUME driver = "local", driver' = driver, StorageInv, NEW c \in Clients,
         WriteBlock(c)
  PROVE  Interface!Next \/ UNCHANGED Interface!vars
<1> DEFINE p == target[c]
           f == File(WriteAt(disk[p].blocks, written[c] + 1, c))
<1>1. p \in Keys /\ p # NoKey
  BY StorageAssumption DEF StorageInv, LocalInv, TypeOK
<1>2. /\ pc[c] \in {"write", "late_write"}
      /\ pc' = [pc EXCEPT ![c] = AfterCall(c)]
      /\ disk' = IF opened[c] THEN [disk EXCEPT ![p] = f] ELSE disk
      /\ UNCHANGED <<target, answer, disturbed>>
  BY DEF WriteBlock
<1>3. /\ pc[c] \in AtWork /\ pc'[c] \in AtWork
      /\ \A d \in Clients \ {c} : pc'[d] = pc[d]
  BY <1>2 DEF StorageInv, LocalInv, TypeOK, AfterCall, AtWork
<1>4. AllPutting' = AllPutting /\ AllPutting[c] = p
  BY <1>2, <1>3, LocalPutting
<1>5. AllDisturbed' = AllDisturbed
  BY <1>2, LocalDisturbed
<1>6. CASE opened[c]
  <2>1. f.file
    BY DEF File
  <2> HIDE DEF f
  <2>2. AllObjects' = [AllObjects EXCEPT ![p] = OnDisk(f)]
    BY <1>1, <1>2, <1>6, LocalObjects
  <2>3. OnDisk(f) \in Clients \cup {InPieces}
    BY <2>1, ObjectOf
  <2> QED
    BY <1>1, <1>2, <1>4, <1>5, <2>2, <2>3, IsChange
<1>7. CASE ~opened[c]
  <2>1. AllObjects' = AllObjects
    BY <1>2, <1>7, LocalObjects
  <2> QED
    BY <1>2, <1>4, <1>5, <2>1
    DEF Interface!vars, AllObjects, AllPutting, AllDisturbed
<1> QED
  BY <1>6, <1>7

LEMMA LocalFinishes ==
  ASSUME driver = "local", driver' = driver, StorageInv, NEW c \in Clients,
         Finish(c)
  PROVE  Interface!Next
<1>1. /\ pc[c] = "write" /\ written[c] = Size[c] /\ Leave(c, "ok")
      /\ disk' = disk /\ disturbed' = disturbed
  BY DEF Finish
<1>2. /\ target' = target /\ pc'[c] = "idle"
      /\ \A d \in Clients \ {c} : pc'[d] = pc[d]
  BY <1>1, LeaveType DEF StorageInv, LocalInv
<1>3. /\ AllPutting' = [AllPutting EXCEPT ![c] = NoKey]
      /\ AllPutting[c] = target[c]
  BY <1>1, <1>2, LocalPutting DEF AtWork
<1>4. AllObjects' = AllObjects /\ AllDisturbed' = AllDisturbed
  BY <1>1, LocalObjects, LocalDisturbed
<1>5. answer' = [answer EXCEPT ![c] = "ok"]
  BY <1>1 DEF Leave, Late
<1>6. target[c] \in Keys /\ target[c] # NoKey
  BY StorageAssumption DEF StorageInv, LocalInv, TypeOK
<1>7. ASSUME c \notin AllDisturbed
      PROVE  AllObjects[target[c]] = c
  <2>1. Alone(c)
    BY <1>1, <1>7, LocalDisturbed
    DEF StorageInv, LocalInv, Undisturbed, AtWork
  <2>2. disk[target[c]] = File(Body(c))
    BY <1>1, <2>1 DEF Alone, SoFar, Body
  <2>3. OnDisk(disk[target[c]]) = c
    BY <2>2, ObjectOf
  <2> QED
    BY <1>6, <2>3 DEF AllObjects, Object
<1> QED
  BY <1>3, <1>4, <1>5, <1>6, <1>7, IsPutOk

LEMMA LocalImplements ==
  ASSUME driver = "local", driver' = driver, StorageInv, Next
  PROVE  Interface!Next \/ UNCHANGED Interface!vars
<1>1. pc \in [Clients -> {"idle", "mkdir", "create", "write"} \cup Late]
      /\ target \in [Clients -> Keys]
  BY DEF StorageInv, LocalInv, TypeOK
<1>2. ASSUME NEW c \in Clients, NEW k \in Keys, Start(c, k)
      PROVE  Interface!Next
  <2>1. /\ pc[c] = "idle" /\ pc'[c] = "mkdir"
        /\ \A d \in Clients \ {c} : pc'[d] = pc[d] /\ target'[d] = target[d]
        /\ answer' = [answer EXCEPT ![c] = "none"]
        /\ disk' = disk /\ disturbed' = disturbed
    BY <1>1, <1>2 DEF Start
  <2>2. AllPutting[c] = NoKey /\ AllPutting' = AllPutting
    BY <2>1 DEF AllPutting, Putting
  <2>3. AllObjects' = AllObjects /\ AllDisturbed' = AllDisturbed
    BY <2>1, LocalObjects, LocalDisturbed
  <2> QED
    BY <2>1, <2>2, <2>3, IsCall
<1>3. ASSUME NEW c \in Clients, UNCHANGED <<disk, disturbed, answer, target>>,
             \A d \in Clients \ {c} : pc'[d] = pc[d],
             pc'[c] \in AtWork <=> pc[c] \in AtWork
      PROVE  UNCHANGED Interface!vars
  <2>1. /\ AllPutting' = AllPutting /\ AllObjects' = AllObjects
        /\ AllDisturbed' = AllDisturbed
    BY <1>3, LocalPutting, LocalObjects, LocalDisturbed
  <2> QED
    BY <1>3, <2>1 DEF Interface!vars, AllObjects, AllPutting, AllDisturbed
<1>4. ASSUME NEW c \in Clients, MakeDirs(c)
      PROVE  Interface!Next \/ UNCHANGED Interface!vars
  <2>1. UNCHANGED <<disk, disturbed>> /\ pc[c] \notin AtWork
    BY <1>4 DEF MakeDirs, AtWork
  <2>2. CASE Leave(c, "backend")
    BY <2>1, <2>2, LocalLeaves
  <2>3. CASE /\ pc' = [pc EXCEPT ![c] = "create"] \/ pc' = pc
             /\ UNCHANGED <<target, answer>>
    <3>1. /\ pc'[c] \notin AtWork
          /\ \A d \in Clients \ {c} : pc'[d] = pc[d]
      BY <1>1, <2>1, <2>3 DEF AtWork
    <3> QED
      BY <1>3, <2>1, <2>3, <3>1
  <2> QED
    BY <1>4, <2>2, <2>3 DEF MakeDirs, put
<1>5. ASSUME NEW c \in Clients, Abort(c) \/ Close(c)
      PROVE  Interface!Next
  BY <1>5, LocalLeaves DEF Abort, Close, LeaveUnfinished
<1>6. ASSUME NEW c \in Clients, Drop(c)
      PROVE  UNCHANGED Interface!vars
  <2>1. pc[c] \in {"mkdir", "create", "write"}
    BY <1>1, <1>6 DEF Drop
  <2>2. /\ pc'[c] \in AtWork <=> pc[c] \in AtWork
        /\ \A d \in Clients \ {c} : pc'[d] = pc[d]
    BY <1>1, <1>6, <2>1 DEF Drop, AtWork
  <2> QED
    BY <1>3, <1>6, <2>2 DEF Drop
<1>7. ASSUME NEW k \in Keys, delete(k)
      PROVE  Interface!Next
  <2> DEFINE hit == {c \in Clients : Writing(c, k)}
  <2>1. /\ disk' = [disk EXCEPT ![k] = NoFile]
        /\ disturbed' = disturbed \cup hit
        /\ UNCHANGED <<pc, target, answer>>
    BY <1>7 DEF delete
  <2>2. AllObjects' = [AllObjects EXCEPT ![k] = NoObject]
    <3>1. OnDisk(NoFile) = NoObject
      BY ObjectOf DEF NoFile
    <3> QED
      BY <2>1, <3>1, LocalObjects
  <2>3. AllPutting' = AllPutting
    BY <2>1 DEF AllPutting, Putting
  <2>4. hit \in SUBSET {c \in Clients : AllPutting[c] = k}
    BY DEF Writing, AllPutting, Putting
  <2>5. AllDisturbed' = AllDisturbed \cup hit
    BY <2>1, LocalDisturbed
  <2> HIDE DEF hit
  <2> QED
    BY <2>1, <2>2, <2>3, <2>4, <2>5, IsDelete
<1>8. ASSUME NEW c \in Clients, CreateFile(c) \/ WriteBlock(c) \/ Finish(c)
      PROVE  Interface!Next \/ UNCHANGED Interface!vars
  BY <1>8, LocalCreates, LocalWrites, LocalFinishes
<1> QED
  BY <1>2, <1>4, <1>5, <1>6, <1>7, <1>8 DEF Next

LEMMA RemoteImplements ==
  ASSUME driver = "s3", driver' = driver, StorageInv, S3!Next
  PROVE  Interface!Next
<1>1. /\ objects \in [Keys -> Clients \cup {NoObject}]
      /\ request \in [Clients -> Keys \cup {NoKey}]
      /\ served \subseteq Clients /\ given_up \subseteq Clients
      /\ \A c \in served \cup given_up : request[c] # NoKey
      /\ answer \in [Clients -> {"none", "ok", "backend"}]
      /\ Requested
  BY DEF StorageInv, StorageTypeOK, TypeOK
<1>2. /\ AllObjects = [k \in Keys |-> objects[k]]
      /\ AllObjects' = [k \in Keys |-> objects'[k]]
      /\ AllPutting = [c \in Clients |->
                         IF c \in served THEN request[c] ELSE NoKey]
      /\ AllPutting' = [c \in Clients |->
                          IF c \in served' THEN request'[c] ELSE NoKey]
      /\ AllDisturbed = overtaken /\ AllDisturbed' = overtaken'
  BY RemoteMapping
<1>3. ASSUME NEW c \in Clients, NEW k \in Keys, S3!put(c, k)
      PROVE  Interface!Next
  <2>1. /\ request[c] = NoKey /\ request' = [request EXCEPT ![c] = k]
        /\ answer' = [answer EXCEPT ![c] = "none"]
        /\ UNCHANGED <<objects, served, given_up, overtaken>>
    BY <1>3 DEF S3!put
  <2>2. c \notin served
    BY <1>1, <2>1
  <2>3. AllPutting[c] = NoKey /\ AllPutting' = AllPutting
    BY <1>1, <1>2, <2>1, <2>2
  <2>4. AllObjects' = AllObjects /\ AllDisturbed' = AllDisturbed
    BY <1>2, <2>1
  <2> QED
    BY <2>1, <2>3, <2>4, IsCall
<1>4. ASSUME NEW c \in Clients, S3!Serve(c)
      PROVE  Interface!Next
  <2> DEFINE k == request[c]
             hit == {d \in served : request[d] = k}
             holders == {d \in Clients \ {c} : AllPutting[d] = k}
  <2>1. /\ k # NoKey /\ c \notin served
        /\ objects' = [objects EXCEPT ![k] = c]
        /\ served' = served \cup {c}
        /\ overtaken' = (overtaken \ {c}) \cup hit
        /\ UNCHANGED <<request, given_up, answer>>
    BY <1>4 DEF S3!Serve, S3!Holders
  <2>2. k \in Keys
    BY <1>1, <2>1
  <2>3. AllPutting[c] = NoKey /\ AllPutting' = [AllPutting EXCEPT ![c] = k]
    BY <1>2, <2>1
  <2>4. AllObjects' = [AllObjects EXCEPT ![k] = c]
    BY <1>1, <1>2, <2>1
  <2>5. hit \subseteq holders
    BY <1>1, <1>2, <2>1
  <2>6. hit \in SUBSET (IF holders = {} THEN {} ELSE holders \cup {c})
    BY <2>5
  <2>7. AllDisturbed' = (AllDisturbed \ {c}) \cup hit
    BY <1>2, <2>1
  <2> HIDE DEF k, hit
  <2> QED
    BY <2>1, <2>2, <2>3, <2>4, <2>6, <2>7, IsTake
<1>5. ASSUME NEW c \in Clients, S3!End(c)
      PROVE  /\ AllPutting' = [AllPutting EXCEPT ![c] = NoKey]
             /\ AllObjects' = AllObjects /\ AllDisturbed' = AllDisturbed
  <2>1. /\ request' = [request EXCEPT ![c] = NoKey]
        /\ served' = served \ {c} /\ UNCHANGED <<objects, overtaken>>
    BY <1>5 DEF S3!End
  <2> QED
    BY <1>1, <1>2, <2>1
<1>6. ASSUME NEW c \in Clients, S3!Return(c)
      PROVE  Interface!Next
  <2>1. /\ c \in served /\ S3!End(c)
        /\ answer' = [answer EXCEPT ![c] = "ok"]
    BY <1>6 DEF S3!Return
  <2>2. AllPutting[c] = request[c] /\ request[c] \in Keys
    BY <1>1, <1>2, <2>1
  <2>3. c \notin AllDisturbed => AllObjects[AllPutting[c]] = c
    BY <1>1, <1>2, <2>1, <2>2 DEF Requested
  <2>4. AllPutting[c] # NoKey
    BY <2>2, StorageAssumption
  <2> QED
    BY <1>5, <2>1, <2>3, <2>4, IsPutOk
<1>7. ASSUME NEW c \in Clients, S3!GiveUp(c)
      PROVE  Interface!Next
  <2>1. PICK result \in {"none", "backend"} :
               answer' = [answer EXCEPT ![c] = result]
    BY <1>7 DEF S3!GiveUp, S3!map_error
  <2>2. CASE c \in served
    <3>1. S3!End(c)
      BY <1>7, <2>2 DEF S3!GiveUp
    <3> QED
      BY <1>5, <2>1, <3>1, IsPutEnds
  <2>3. CASE c \notin served
    <3>1. UNCHANGED <<objects, request, served, overtaken>>
      BY <1>7, <2>3 DEF S3!GiveUp
    <3>2. AllPutting' = [AllPutting EXCEPT ![c] = NoKey]
      BY <1>2, <2>3, <3>1
    <3>3. AllObjects' = AllObjects /\ AllDisturbed' = AllDisturbed
      BY <1>2, <3>1
    <3> QED
      BY <2>1, <3>2, <3>3, IsPutEnds
  <2> QED
    BY <2>2, <2>3
<1>8. ASSUME NEW c \in Clients, S3!Forget(c)
      PROVE  Interface!Next
  <2>1. c \in given_up /\ S3!End(c) /\ answer' = answer
    BY <1>8 DEF S3!Forget
  <2>2. answer[c] \in {"none", "backend"}
    BY <1>1, <2>1 DEF Requested
  <2>3. answer' = [answer EXCEPT ![c] = answer[c]]
    BY <1>1, <2>1
  <2> QED
    BY <1>5, <2>1, <2>2, <2>3, IsPutEnds
<1>9. ASSUME NEW k \in Keys, S3!delete(k)
      PROVE  Interface!Next
  <2> DEFINE hit == {d \in served : request[d] = k}
  <2>1. /\ objects' = [objects EXCEPT ![k] = NoObject]
        /\ overtaken' = overtaken \cup hit
        /\ UNCHANGED <<request, served, given_up, answer>>
    BY <1>9 DEF S3!delete, S3!Holders, S3!requests
  <2>2. AllObjects' = [AllObjects EXCEPT ![k] = NoObject]
    BY <1>1, <1>2, <2>1
  <2>3. hit \in SUBSET {c \in Clients : AllPutting[c] = k}
    BY <1>1, <1>2
  <2>4. AllDisturbed' = AllDisturbed \cup hit /\ AllPutting' = AllPutting
    BY <1>2, <2>1
  <2> HIDE DEF hit
  <2> QED
    BY <2>1, <2>2, <2>3, <2>4, IsDelete
<1> QED
  BY <1>3, <1>4, <1>6, <1>7, <1>8, <1>9 DEF S3!Next

(* Either backend keeps the promise of the interface: an object changes    *)
(* only by the puts at work on it and by deletes, and a put that returns Ok*)
(* has stored its body, unless another put or a delete got at the object.  *)
THEOREM ImplementsTheInterface == StorageSpec => ImplementsObjectStore
<1>1. StorageInit => Interface!Init
  <2> SUFFICES ASSUME StorageInit
               PROVE  Interface!Init
    OBVIOUS
  <2>1. AllObjects = [k \in Keys |-> NoObject]
    <3>1. OnDisk(NoFile) = NoObject
      BY ObjectOf DEF NoFile
    <3>2. ASSUME NEW k \in Keys
          PROVE  Object(k) = NoObject
      BY <3>1, KeysArePaths DEF StorageInit, Init, S3!Init, Object
    <3> QED
      BY <3>2 DEF AllObjects
  <2>2. AllPutting = [c \in Clients |-> NoKey]
    BY DEF StorageInit, Init, S3!Init, AllPutting, Putting
  <2>3. AllDisturbed = {} /\ answer = [c \in Clients |-> "none"]
    BY DEF StorageInit, Init, S3!Init, AllDisturbed
  <2> QED
    BY <2>1, <2>2, <2>3
    DEF Interface!Init, AllObjects, AllPutting, AllDisturbed
<1>2. StorageInv /\ [StorageNext]_storage_vars
        => [Interface!Next]_(Interface!vars)
  <2> SUFFICES ASSUME StorageInv, [StorageNext]_storage_vars
               PROVE  Interface!Next \/ UNCHANGED Interface!vars
    OBVIOUS
  <2>1. CASE driver = "local" /\ Next /\ UNCHANGED driver
    BY <2>1, LocalImplements
  <2>2. CASE driver = "s3" /\ S3!Next /\ UNCHANGED driver
    BY <2>2, RemoteImplements
  <2>3. CASE UNCHANGED storage_vars
    <3>1. /\ AllObjects' = AllObjects /\ AllPutting' = AllPutting
          /\ AllDisturbed' = AllDisturbed /\ answer' = answer
      BY <2>3
      DEF storage_vars, vars, put, s3_vars, AllObjects, AllPutting,
          AllDisturbed, Object, Putting, OnDisk, Body
    <3> QED
      BY <3>1 DEF Interface!vars, AllObjects, AllPutting, AllDisturbed
  <2> QED
    BY <2>1, <2>2, <2>3 DEF StorageNext
<1> QED
  BY <1>1, <1>2, StorageAlways, PTL
  DEF StorageSpec, ImplementsObjectStore, Interface!Spec

=============================================================================
