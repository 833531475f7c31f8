-------------------------- MODULE ChangeLogProofs --------------------------
(***************************************************************************)
(* What holds of ChangeLog for any handlers, bounds and number of faults.  *)
(***************************************************************************)
EXTENDS ChangeLog, FiniteSetTheorems, TLAPS

(* The inductive invariant.  Shapes: what the types do not say of the      *)
(* parts.  Recorded: an entry is that of one change, and tells it as it    *)
(* was.  Due: a change about to be recorded is not in the log, and is one  *)
(* handler's.                                                              *)
Shapes ==
  /\ changes \in Seq(0..MaxChanges)
  /\ Len(changes) \in 1..(MaxChanges + 1)
  /\ IsFiniteSet(change_log)
  /\ pc \in [Writers -> {"idle", "editing", "looking", "undoing", "changed"}]
  /\ change \in [Writers -> Nat]
  /\ chosen \in [Writers -> Nat]

Recorded ==
  \A e \in change_log :
    /\ e.id \in 1..(Len(changes) - 1)
    /\ e.before = changes[e.id] /\ e.after = changes[e.id + 1]

Due ==
  \A w \in Pending :
    /\ change[w] \in Unrecorded
    /\ \A v \in Pending : change[v] = change[w] => v = w

Counted == Cardinality(Unrecorded) <= Cardinality(Pending) + faults

Inv == TypeOK /\ Shapes /\ Recorded /\ Due /\ Counted

LEMMA Numbers ==
  /\ MaxList \in Nat \ {0} /\ Limits \subseteq Nat
  /\ MaxChanges \in Nat /\ MaxTime \in Nat /\ MaxFaults \in Nat
BY ChangeLogAssumption

LEMMA ElementType ==
  ASSUME NEW S, NEW s \in Seq(S), NEW i \in DOMAIN s
  PROVE  s[i] \in S
OBVIOUS

LEMMA FinitePending == IsFiniteSet(Pending) /\ Cardinality(Pending) \in Nat
<1>1. IsFiniteSet(Writers) /\ Pending \in SUBSET Writers
  BY ChangeLogAssumption DEF Pending
<1> QED
  BY <1>1, FS_Subset, FS_CardinalityType

LEMMA FiniteUnrecorded ==
  ASSUME Shapes
  PROVE  IsFiniteSet(Unrecorded) /\ Cardinality(Unrecorded) \in Nat
<1>1. IsFiniteSet(1..(Len(changes) - 1))
  <2>1. 1 \in Int /\ Len(changes) - 1 \in Int
    BY Numbers DEF Shapes
  <2> QED
    BY <2>1, FS_Interval
<1>2. Unrecorded \in SUBSET (1..(Len(changes) - 1))
  BY DEF Unrecorded
<1> QED
  BY <1>1, <1>2, FS_Subset, FS_CardinalityType

(* A list that is not empty shows one entry at least, and no more than     *)
(* there are.                                                              *)
LEMMA ListedSome ==
  ASSUME Shapes, change_log # {}, NEW n \in Limits
  PROVE  /\ Cardinality(change_log) \in Nat \ {0}
         /\ Listed(n) \in 1..Cardinality(change_log)
<1> DEFINE size == Cardinality(change_log)
<1>1. size \in Nat \ {0}
  BY FS_CardinalityType, FS_EmptySet DEF Shapes
<1>2. Max({n, 1}) \in Nat \ {0}
  <2>1. n \in Nat
    BY Numbers
  <2>2. \E x \in {n, 1} : \A y \in {n, 1} : x >= y
    BY <2>1
  <2>3. Max({n, 1}) \in {n, 1} /\ \A y \in {n, 1} : Max({n, 1}) >= y
    BY <2>2 DEF Max
  <2> QED
    BY <2>1, <2>3
<1> DEFINE bounds == {Max({n, 1}), MaxList, size}
<1>3. bounds \subseteq Nat \ {0}
  BY <1>1, <1>2, Numbers
<1>4. \E x \in bounds : \A y \in bounds : x <= y
  BY <1>1, <1>2, Numbers
<1>5. Min(bounds) \in bounds /\ \A y \in bounds : Min(bounds) <= y
  BY <1>4 DEF Min
<1>6. Min(bounds) \in Nat \ {0} /\ Min(bounds) <= size
  BY <1>3, <1>5
<1> QED
  BY <1>1, <1>6 DEF Listed

(* The entry shown first is one of the log's.                              *)
LEMMA ShownIsLogged ==
  ASSUME Shapes, change_log # {}, NEW n \in Limits, NEW entries \in list_for(n)
  PROVE  Head(entries) \in change_log
<1> DEFINE size == Cardinality(change_log)
<1>1. size \in Nat \ {0} /\ Listed(n) \in 1..size
  BY ListedSome
<1>2. PICK s \in SetToSeqs(change_log) : entries = SubSeq(s, 1, Listed(n))
  BY DEF list_for
<1>3. s \in [1..size -> change_log]
  BY DEF SetToSeqs
<1>4. Head(entries) = s[1]
  <2>1. s \in Seq(change_log) /\ Len(s) = size
    BY <1>1, <1>3
  <2> QED
    BY <1>1, <1>2, <2>1
<1> QED
  BY <1>1, <1>3, <1>4

LEMMA InitInv == Init => Inv
<1> SUFFICES ASSUME Init
             PROVE  Inv
  OBVIOUS
<1>1. TypeOK
  BY Numbers DEF Init, TypeOK, Last
<1>2. Shapes
  BY Numbers, FS_EmptySet DEF Init, Shapes
<1>3. Recorded
  BY DEF Init, Recorded
<1>4. Unrecorded = {} /\ Pending = {}
  BY DEF Init, Unrecorded, Pending
<1>5. Due /\ Counted
  BY <1>4, FS_EmptySet DEF Init, Due, Counted
<1> QED
  BY <1>1, <1>2, <1>3, <1>5 DEF Inv

(* Steps that leave the entity, the log and the pending changes alone.     *)
LEMMA AsideInv ==
  ASSUME Inv, TypeOK', Shapes',
         UNCHANGED <<change_log, changes, faults>>, Pending' = Pending,
         \A w \in Pending : change'[w] = change[w]
  PROVE  Inv'
<1>1. Unrecorded' = Unrecorded
  BY DEF Unrecorded
<1>2. Recorded'
  BY DEF Inv, Recorded
<1>3. Due'
  BY <1>1 DEF Inv, Due
<1>4. Counted'
  BY <1>1 DEF Inv, Counted
<1> QED
  BY <1>2, <1>3, <1>4 DEF Inv

LEMMA BeginInv ==
  ASSUME Inv, NEW w \in Writers, NEW task \in {"editing", "looking"},
         Begin(w, task)
  PROVE  Inv'
<1>1. TypeOK'
  BY DEF Inv, TypeOK, Shapes, Begin
<1>2. Shapes'
  BY DEF Inv, Shapes, Begin
<1>3. Pending' = Pending
  BY DEF Inv, Shapes, Begin, Pending
<1> QED
  BY <1>1, <1>2, <1>3, AsideInv DEF Begin

LEMMA LookInv ==
  ASSUME Inv, NEW w \in Writers, Look(w)
  PROVE  Inv'
<1>0. PICK n \in Limits : \E entries \in list_for(n) :
        chosen' = [chosen EXCEPT ![w] = Head(entries).id]
  BY DEF Look
<1>1. PICK entries \in list_for(n) :
        chosen' = [chosen EXCEPT ![w] = Head(entries).id]
  BY <1>0
<1>2. Head(entries) \in change_log
  BY ShownIsLogged DEF Inv, Look
<1>3. Head(entries).id \in Nat
  BY <1>2, Numbers DEF Inv, TypeOK, ChangeEntry
<1>4. TypeOK'
  BY <1>1, <1>2 DEF Inv, TypeOK, Shapes, Look
<1>5. Shapes'
  BY <1>1, <1>3 DEF Inv, Shapes, Look
<1>6. Pending' = Pending
  BY DEF Inv, Shapes, Look, Pending
<1> QED
  BY <1>4, <1>5, <1>6, AsideInv DEF Look

LEMMA GiveUpInv ==
  ASSUME Inv, NEW w \in Writers, GiveUp(w)
  PROVE  Inv'
<1>1. TypeOK'
  <2>1. /\ pc' \in [Writers -> {"idle", "editing", "looking", "undoing", "changed"}]
        /\ stamp' \in [Writers -> 0..MaxTime]
    <3>1. 0 \in 0..MaxTime
      BY Numbers
    <3> QED
      BY <3>1 DEF Inv, TypeOK, GiveUp, Stop
  <2>2. \A v \in Writers :
          /\ pc'[v] = "changed" => change'[v] \in 1..(Len(changes) - 1)
          /\ pc'[v] = "undoing" => \E e \in change_log : e.id = chosen'[v]
    <3> SUFFICES ASSUME NEW v \in Writers, pc'[v] \in {"changed", "undoing"}
                 PROVE  /\ pc'[v] = "changed"
                             => change'[v] \in 1..(Len(changes) - 1)
                        /\ pc'[v] = "undoing"
                             => \E e \in change_log : e.id = chosen'[v]
      OBVIOUS
    <3>1. pc'[v] = pc[v] /\ change'[v] = change[v] /\ chosen'[v] = chosen[v]
      BY DEF Inv, Shapes, GiveUp, Stop
    <3> QED
      BY <3>1 DEF Inv, TypeOK
  <2>3. UNCHANGED <<value, change_log, now, changes, orderly, faults>>
    BY DEF GiveUp
  <2> QED
    BY <2>1, <2>2, <2>3 DEF Inv, TypeOK
<1>2. Shapes'
  BY DEF Inv, Shapes, GiveUp, Stop
<1>3. Pending' = Pending
  BY DEF Inv, Shapes, GiveUp, Stop, Pending
<1>4. \A v \in Pending : change'[v] = change[v]
  BY DEF Inv, Shapes, GiveUp, Stop, Pending
<1> QED
  BY <1>1, <1>2, <1>3, <1>4, AsideInv DEF GiveUp

LEMMA TickInv ==
  ASSUME Inv, Tick
  PROVE  Inv'
<1>1. TypeOK'
  BY Numbers DEF Inv, TypeOK, Tick, handlers
<1>2. Shapes'
  BY DEF Inv, Shapes, Tick, handlers
<1>3. Pending' = Pending
  BY DEF Tick, handlers, Pending
<1> QED
  BY <1>1, <1>2, <1>3, AsideInv DEF Tick, handlers

(* A change is one more that is not recorded, and one more that is due.    *)
LEMMA ChangeInv ==
  ASSUME Inv, NEW w \in Writers, NEW new \in 0..MaxChanges,
         pc[w] \in {"editing", "undoing"}, Change(w, new)
  PROVE  Inv'
<1> DEFINE n == Len(changes)
<1>1. /\ changes \in Seq(0..MaxChanges) /\ n \in Nat \ {0} /\ n <= MaxChanges
      /\ changes' = Append(changes, new) /\ Len(changes') = n + 1
      /\ \A i \in 1..n : changes'[i] = changes[i]
      /\ changes'[n + 1] = new
      /\ change' = [change EXCEPT ![w] = n]
      /\ pc' = [pc EXCEPT ![w] = "changed"]
      /\ value' = new
      /\ UNCHANGED <<change_log, now, stamp, chosen, orderly, faults>>
  BY Numbers DEF Inv, Shapes, Change
<1>2. /\ pc \in [Writers -> {"idle", "editing", "looking", "undoing", "changed"}]
      /\ change \in [Writers -> Nat] /\ chosen \in [Writers -> Nat]
  BY DEF Inv, Shapes
<1>3. TypeOK'
  <2>1. value' = Last(changes')
    BY <1>1 DEF Last
  <2>2. \A v \in Writers :
          /\ pc'[v] = "changed" => change'[v] \in 1..(Len(changes') - 1)
          /\ pc'[v] = "undoing" => \E e \in change_log' : e.id = chosen'[v]
    BY <1>1, <1>2 DEF Inv, TypeOK
  <2>3. \A i \in DOMAIN changes' : changes'[i] \in 0..MaxChanges
    <3>1. changes' \in Seq(0..MaxChanges)
      BY <1>1
    <3> QED
      BY <3>1, ElementType
  <2>4. pc' \in [Writers -> {"idle", "editing", "looking", "undoing", "changed"}]
    BY <1>1, <1>2
  <2> QED
    BY <2>1, <2>2, <2>3, <2>4, <1>1 DEF Inv, TypeOK
<1>4. Shapes'
  <2>1. changes' \in Seq(0..MaxChanges) /\ Len(changes') \in 1..(MaxChanges + 1)
    BY <1>1, Numbers
  <2> QED
    BY <2>1, <1>1, <1>2 DEF Inv, Shapes
<1>5. Recorded'
  <2> SUFFICES ASSUME NEW e \in change_log
               PROVE  /\ e.id \in 1..(Len(changes') - 1)
                      /\ e.before = changes'[e.id] /\ e.after = changes'[e.id + 1]
    BY <1>1 DEF Recorded
  <2>1. /\ e.id \in 1..(n - 1)
        /\ e.before = changes[e.id] /\ e.after = changes[e.id + 1]
    BY DEF Inv, Recorded
  <2> QED
    BY <2>1, <1>1
<1>6. /\ Unrecorded' = Unrecorded \cup {n} /\ n \notin Unrecorded
      /\ Pending' = Pending \cup {w} /\ w \notin Pending
  <2>1. 1..(Len(changes') - 1) = 1..(n - 1) \cup {n}
    BY <1>1
  <2>2. n \notin {e.id : e \in change_log} /\ n \notin 1..(n - 1)
    BY <1>1 DEF Inv, Recorded
  <2>3. /\ Unrecorded' = Unrecorded \cup {n} /\ n \notin Unrecorded
    BY <2>1, <2>2, <1>1 DEF Unrecorded
  <2>4. Pending' = Pending \cup {w} /\ w \notin Pending
    BY <1>1, <1>2 DEF Pending
  <2> QED
    BY <2>3, <2>4
<1>7. Due'
  <2>1. \A v \in Pending : v # w /\ change'[v] = change[v] /\ change[v] # n
    BY <1>1, <1>2, <1>6 DEF Inv, Due, Pending
  <2>2. change'[w] = n
    BY <1>1, <1>2
  <2> QED
    BY <2>1, <2>2, <1>6 DEF Inv, Due
<1>8. Counted'
  <2>1. Cardinality(Unrecorded') = Cardinality(Unrecorded) + 1
    BY <1>6, FiniteUnrecorded, FS_AddElement DEF Inv
  <2>2. Cardinality(Pending') = Cardinality(Pending) + 1
    BY <1>6, FinitePending, FS_AddElement
  <2>3. /\ Cardinality(Unrecorded) \in Nat /\ Cardinality(Pending) \in Nat
        /\ faults \in Nat
    BY FiniteUnrecorded, FinitePending, Numbers DEF Inv, TypeOK
  <2> QED
    BY <2>1, <2>2, <2>3, <1>1 DEF Inv, Counted
<1> QED
  BY <1>3, <1>4, <1>5, <1>7, <1>8 DEF Inv

LEMMA EditInv ==
  ASSUME Inv, NEW w \in Writers, Edit(w)
  PROVE  Inv'
<1>1. Len(changes) \in 0..MaxChanges
  BY Numbers DEF Inv, Shapes, Edit, Change
<1> QED
  BY <1>1, ChangeInv DEF Edit

(* What an undo writes back is a state.                                    *)
LEMMA UndoneIsState ==
  ASSUME Inv, NEW w \in Writers, Undo(w)
  PROVE  find(chosen[w]).before \in 0..MaxChanges
<1>1. \E e \in change_log : e.id = chosen[w]
  BY DEF Inv, TypeOK, Undo
<1>2. find(chosen[w]) \in change_log
  BY <1>1 DEF find
<1> QED
  BY <1>2 DEF Inv, TypeOK, ChangeEntry

LEMMA UndoInv ==
  ASSUME Inv, NEW w \in Writers, Undo(w)
  PROVE  Inv'
BY UndoneIsState, ChangeInv DEF Undo

(* What record writes is an entry, and that of its change.                 *)
LEMMA EntryIsGood ==
  ASSUME Inv, NEW w \in Writers, pc[w] = "changed"
  PROVE  /\ Entry(w) \in ChangeEntry
         /\ Entry(w).id = change[w]
         /\ change[w] \in 1..(Len(changes) - 1)
         /\ Entry(w).before = changes[change[w]]
         /\ Entry(w).after = changes[change[w] + 1]
<1>1. change[w] \in 1..(Len(changes) - 1) /\ stamp[w] \in 0..MaxTime
  BY DEF Inv, TypeOK
<1>2. /\ Len(changes) \in 1..(MaxChanges + 1)
      /\ changes \in Seq(0..MaxChanges)
  BY DEF Inv, Shapes
<1>3. /\ change[w] \in 1..MaxChanges
      /\ change[w] \in DOMAIN changes /\ change[w] + 1 \in DOMAIN changes
  <2> DEFINE n == change[w]
             m == Len(changes)
  <2>1. n \in 1..(m - 1) /\ m \in 1..(MaxChanges + 1)
    BY <1>1, <1>2
  <2>2. DOMAIN changes = 1..m
    BY <1>2
  <2> HIDE DEF n, m
  <2>3. n \in 1..MaxChanges /\ n \in 1..m /\ n + 1 \in 1..m
    BY <2>1, Numbers
  <2> QED
    BY <2>2, <2>3 DEF n
<1>4. /\ changes[change[w]] \in 0..MaxChanges
      /\ changes[change[w] + 1] \in 0..MaxChanges
  BY <1>2, <1>3, ElementType
<1> QED
  BY <1>1, <1>3, <1>4 DEF Entry, ChangeEntry

(* A handler that has stopped is idle, and the others go on.               *)
LEMMA StoppedShapes ==
  ASSUME Inv, NEW w \in Writers, Stop(w)
  PROVE  /\ pc' \in [Writers ->
                 {"idle", "editing", "looking", "undoing", "changed"}]
         /\ stamp' \in [Writers -> 0..MaxTime]
         /\ change' \in [Writers -> Nat] /\ chosen' \in [Writers -> Nat]
         /\ pc'[w] = "idle"
         /\ \A v \in Writers \ {w} :
              pc'[v] = pc[v] /\ change'[v] = change[v] /\ chosen'[v] = chosen[v]
         /\ Pending' = Pending \ {w}
<1>1. /\ pc \in [Writers -> {"idle", "editing", "looking", "undoing", "changed"}]
      /\ stamp \in [Writers -> 0..MaxTime]
      /\ change \in [Writers -> Nat] /\ chosen \in [Writers -> Nat]
  BY DEF Inv, TypeOK, Shapes
<1>2. 0 \in 0..MaxTime
  BY Numbers
<1> QED
  BY <1>1, <1>2 DEF Stop, Pending

(* A handler is over, with its change recorded or with a fault.            *)
LEMMA OverInv ==
  ASSUME Inv, NEW w \in Writers, pc[w] = "changed", Stop(w),
         change_log' \in {change_log, change_log \cup {Entry(w)}},
         faults' \in 0..MaxFaults,
         \/ faults' = faults + 1
         \/ faults' = faults /\ change_log' = change_log \cup {Entry(w)},
         UNCHANGED <<value, now, changes, orderly>>
  PROVE  Inv'
<1>1. /\ w \in Pending /\ change[w] \in Unrecorded
      /\ \A v \in Pending : change[v] = change[w] => v = w
  BY DEF Inv, Due, Pending
<1>2. TypeOK'
  <2>1. \A e, f \in change_log' : e.id = f.id => e = f
    <3>1. \A e \in change_log : e.id # change[w]
      BY <1>1 DEF Unrecorded
    <3> QED
      BY <3>1, EntryIsGood DEF Inv, TypeOK
  <2>2. \A v \in Writers :
          /\ pc'[v] = "changed" => change'[v] \in 1..(Len(changes') - 1)
          /\ pc'[v] = "undoing" => \E e \in change_log' : e.id = chosen'[v]
    <3> SUFFICES ASSUME NEW v \in Writers, pc'[v] \in {"changed", "undoing"}
                 PROVE  /\ pc'[v] = "changed"
                             => change'[v] \in 1..(Len(changes') - 1)
                        /\ pc'[v] = "undoing"
                             => \E e \in change_log' : e.id = chosen'[v]
      OBVIOUS
    <3>1. pc'[v] = pc[v] /\ change'[v] = change[v] /\ chosen'[v] = chosen[v]
      BY StoppedShapes
    <3>2. change_log \subseteq change_log'
      OBVIOUS
    <3> QED
      BY <3>1, <3>2 DEF Inv, TypeOK
  <2>3. change_log' \subseteq ChangeEntry
    BY EntryIsGood DEF Inv, TypeOK
  <2> QED
    BY <2>1, <2>2, <2>3, StoppedShapes DEF Inv, TypeOK, Last
<1>3. Shapes'
  <2>1. IsFiniteSet(change_log')
    <3>1. IsFiniteSet(change_log)
      BY DEF Inv, Shapes
    <3>2. IsFiniteSet(change_log \cup {Entry(w)})
      BY <3>1, FS_AddElement
    <3> QED
      BY <3>1, <3>2
  <2> QED
    BY <2>1, StoppedShapes DEF Inv, Shapes
<1>4. Recorded'
  BY EntryIsGood DEF Inv, Recorded
<1>5. \/ Unrecorded' = Unrecorded
      \/ Unrecorded' = Unrecorded \ {change[w]}
  BY EntryIsGood DEF Unrecorded
<1>6. change_log' # change_log => Unrecorded' = Unrecorded \ {change[w]}
  BY EntryIsGood DEF Unrecorded
<1>7. Due'
  <2> SUFFICES ASSUME NEW v \in Pending'
               PROVE  /\ change'[v] \in Unrecorded'
                      /\ \A u \in Pending' : change'[u] = change'[v] => u = v
    BY DEF Due
  <2>1. /\ v \in Pending /\ v # w /\ change'[v] = change[v]
        /\ \A u \in Pending' : u \in Pending /\ change'[u] = change[u]
    BY StoppedShapes DEF Pending
  <2> QED
    BY <1>1, <1>5, <2>1 DEF Inv, Due
<1>8. Counted'
  <2>1. /\ Cardinality(Unrecorded) \in Nat /\ Cardinality(Pending) \in Nat
        /\ faults \in Nat
    BY FiniteUnrecorded, FinitePending, Numbers DEF Inv, TypeOK
  <2>2. Cardinality(Pending') = Cardinality(Pending) - 1
    BY <1>1, StoppedShapes, FinitePending, FS_RemoveElement
  <2>3. Cardinality(Unrecorded \ {change[w]}) = Cardinality(Unrecorded) - 1
    BY <1>1, FiniteUnrecorded, FS_RemoveElement DEF Inv
  <2>4. CASE faults' = faults + 1
    <3>1. /\ Cardinality(Unrecorded') <= Cardinality(Unrecorded)
          /\ Cardinality(Unrecorded') \in Int
      <4>1. CASE Unrecorded' = Unrecorded
        BY <2>1, <4>1
      <4>2. CASE Unrecorded' = Unrecorded \ {change[w]}
        BY <2>1, <2>3, <4>2
      <4> QED
        BY <1>5, <4>1, <4>2
    <3>2. Cardinality(Unrecorded) <= Cardinality(Pending) + faults
      BY DEF Inv, Counted
    <3>3. Cardinality(Unrecorded') <= Cardinality(Pending') + faults'
      BY <2>1, <2>2, <2>4, <3>1, <3>2
    <3> QED
      BY <3>3 DEF Counted
  <2>5. CASE faults' = faults /\ change_log' = change_log \cup {Entry(w)}
    <3>1. change_log' # change_log
      BY <1>1, <2>5, EntryIsGood DEF Unrecorded
    <3> QED
      BY <1>6, <2>1, <2>2, <2>3, <2>5, <3>1 DEF Inv, Counted
  <2> QED
    BY <2>4, <2>5
<1> QED
  BY <1>2, <1>3, <1>4, <1>7, <1>8 DEF Inv

LEMMA RecordInv ==
  ASSUME Inv, NEW w \in Writers, record(w)
  PROVE  Inv'
<1>1. faults' \in 0..MaxFaults
  BY DEF Inv, TypeOK, record
<1> QED
  BY <1>1, OverInv DEF record

LEMMA RecordFailsInv ==
  ASSUME Inv, NEW w \in Writers, RecordFails(w)
  PROVE  Inv'
<1>1. faults' \in 0..MaxFaults
  BY Numbers DEF Inv, TypeOK, RecordFails
<1> QED
  BY <1>1, OverInv DEF RecordFails

LEMMA NextInv == Inv /\ [Next]_vars => Inv'
<1> SUFFICES ASSUME Inv, [Next]_vars
             PROVE  Inv'
  OBVIOUS
<1>1. CASE UNCHANGED vars
  BY <1>1
  DEF vars, handlers, Inv, TypeOK, Last, Shapes, Recorded, Due, Counted,
      Pending, Unrecorded
<1>2. CASE Next
  <2>1. CASE Tick
    BY <2>1, TickInv
  <2>2. ASSUME NEW w \in Writers,
               \/ Begin(w, "editing") \/ Begin(w, "looking")
               \/ Edit(w) \/ Look(w) \/ Undo(w)
               \/ record(w) \/ RecordFails(w) \/ GiveUp(w)
        PROVE  Inv'
    BY <2>2, BeginInv, EditInv, LookInv, UndoInv, RecordInv, RecordFailsInv,
       GiveUpInv
  <2> QED
    BY <1>2, <2>1, <2>2 DEF Next
<1> QED
  BY <1>1, <1>2

LEMMA SpecInv == Spec => []Inv
<1> QED
  BY InitInv, NextInv, PTL DEF Spec

(* ChangeLog is type correct: no two entries have one id, and what an undo *)
(* is to write back is in the log.                                         *)
THEOREM TypeCorrect == Spec => []TypeOK
<1>1. Inv => TypeOK
  BY DEF Inv
<1> QED
  BY <1>1, SpecInv, PTL

(* Whatever handlers do at a time, a change that is in no entry is about to*)
(* be recorded or is one of as many as there were faults, and every entry  *)
(* tells its change as it was.                                             *)
THEOREM NoSilentChange == Spec => []MissingHasACause
<1>1. Inv => MissingHasACause
  BY DEF Inv, Counted, Recorded, MissingHasACause
<1> QED
  BY <1>1, SpecInv, PTL

-----------------------------------------------------------------------------
(* What undo relies on.  OneByOne: while requests are orderly, one handler *)
(* is at work, its `now' is after every entry's, and entries are in the    *)
(* order of their changes.  Latest: what is to be undone is the last       *)
(* change.                                                                 *)
OneByOne ==
  orderly =>
    /\ \A v, w \in Writers : pc[v] # "idle" /\ pc[w] # "idle" => v = w
    /\ \A w \in Writers : pc[w] # "idle" =>
         \A e \in change_log : e.created_at < stamp[w]
    /\ \A e, f \in change_log : e.id < f.id => e.created_at < f.created_at
    /\ \A w \in Pending : change[w] = Len(changes) - 1

Latest ==
  orderly /\ faults = 0 =>
    \A w \in Writers : pc[w] = "undoing" => chosen[w] = Len(changes) - 1

UndoInvariant == OneByOne /\ Latest

LEMMA EntryTypes ==
  ASSUME Inv, NEW e \in change_log
  PROVE  e.id \in 1..(Len(changes) - 1) /\ e.created_at \in Nat
BY Numbers DEF Inv, TypeOK, ChangeEntry, Recorded

(* The entry shown first is as new as any.                                 *)
LEMMA ShownIsNewest ==
  ASSUME Inv, NEW n \in Limits, NEW entries \in list_for(n),
         NEW e \in change_log
  PROVE  Head(entries).created_at >= e.created_at
<1> DEFINE size == Cardinality(change_log)
<1>1. IsFiniteSet(change_log) /\ size \in Nat \ {0}
  BY FS_CardinalityType, FS_EmptySet DEF Inv, Shapes
<1>2. PICK s \in SetToSeqs(change_log) :
        /\ entries = SubSeq(s, 1, Listed(n))
        /\ \A i, j \in DOMAIN s : i < j => s[i].created_at >= s[j].created_at
  BY DEF list_for
<1>3. /\ s \in [1..size -> change_log]
      /\ \A i, j \in 1..size : i # j => s[i] # s[j]
  BY DEF SetToSeqs
<1>4. PICK i \in 1..size : s[i] = e
  <2>1. s \in Injection(1..size, change_log)
    BY <1>3 DEF Injection, IsInjective
  <2>2. Cardinality(1..size) = size
    BY <1>1, FS_Interval
  <2>3. s \in Surjection(1..size, change_log)
    BY <2>1, <2>2, <1>1, FS_Injection
  <2> QED
    BY <2>3 DEF Surjection
<1>5. Head(entries) = s[1]
  <2>1. s \in Seq(change_log) /\ Len(s) = size
    BY <1>1, <1>3
  <2> QED
    BY <1>1, <1>2, <2>1, ListedSome DEF Inv
<1>6. s[1].created_at \in Nat /\ 1 \in DOMAIN s /\ i \in DOMAIN s
  <2>1. 1 \in 1..size /\ DOMAIN s = 1..size
    BY <1>1, <1>3
  <2>2. s[1] \in change_log
    BY <1>3, <2>1
  <2> QED
    BY <2>1, <2>2, EntryTypes
<1>7. CASE i = 1
  BY <1>4, <1>5, <1>6, <1>7
<1>8. CASE 1 < i
  <2>1. s[1].created_at >= s[i].created_at
    BY <1>2, <1>6, <1>8
  <2> QED
    BY <2>1, <1>4, <1>5
<1> QED
  BY <1>1, <1>7, <1>8

(* Every change is in the log when none is about to be and nothing failed. *)
LEMMA AllRecorded ==
  ASSUME Inv, Pending = {}, faults = 0, NEW i \in 1..(Len(changes) - 1)
  PROVE  \E e \in change_log : e.id = i
<1>1. IsFiniteSet(Unrecorded) /\ Cardinality(Unrecorded) \in Nat
  BY FiniteUnrecorded DEF Inv
<1>2. Cardinality(Pending) = 0
  BY FS_EmptySet
<1>3. Unrecorded = {}
  BY <1>1, <1>2, FS_EmptySet DEF Inv, Counted
<1> QED
  BY <1>3 DEF Unrecorded

LEMMA BeginOrder ==
  ASSUME Inv, UndoInvariant, NEW w \in Writers,
         NEW task \in {"editing", "looking"}, Begin(w, task)
  PROVE  UndoInvariant'
<1>1. /\ pc \in [Writers -> {"idle", "editing", "looking", "undoing", "changed"}]
      /\ stamp \in [Writers -> 0..MaxTime]
  BY DEF Inv, TypeOK
<1>2. Pending' = Pending
  BY <1>1 DEF Begin, Pending
<1>3. OneByOne'
  BY <1>1, <1>2 DEF UndoInvariant, OneByOne, Begin
<1>4. Latest'
  BY <1>1 DEF UndoInvariant, Latest, Begin
<1> QED
  BY <1>3, <1>4 DEF UndoInvariant

LEMMA LookOrder ==
  ASSUME Inv, UndoInvariant, NEW w \in Writers, Look(w)
  PROVE  UndoInvariant'
<1>1. /\ pc \in [Writers -> {"idle", "editing", "looking", "undoing", "changed"}]
      /\ chosen \in [Writers -> Nat]
  BY DEF Inv, Shapes
<1>2. Pending' = Pending
  BY <1>1 DEF Look, Pending
<1>3. OneByOne'
  BY <1>1, <1>2 DEF UndoInvariant, OneByOne, Look
<1>4. ASSUME orderly, faults = 0
      PROVE  chosen'[w] = Len(changes) - 1
  <2>1. PICK n \in Limits : \E entries \in list_for(n) :
          chosen' = [chosen EXCEPT ![w] = Head(entries).id]
    BY DEF Look
  <2>2. PICK entries \in list_for(n) :
          chosen' = [chosen EXCEPT ![w] = Head(entries).id]
    BY <2>1
  <2> DEFINE shown == Head(entries)
  <2>3. shown \in change_log
    BY ShownIsLogged DEF Inv, Look
  <2>4. shown.id \in 1..(Len(changes) - 1) /\ shown.created_at \in Nat
    BY <2>3, EntryTypes
  <2>5. Len(changes) - 1 \in 1..(Len(changes) - 1)
    BY <2>4, Numbers DEF Inv, Shapes
  <2>6. Pending = {}
    BY <1>4, <1>1 DEF UndoInvariant, OneByOne, Look, Pending
  <2>7. PICK e \in change_log : e.id = Len(changes) - 1
    BY <1>4, <2>5, <2>6, AllRecorded
  <2>8. shown.created_at >= e.created_at /\ e.created_at \in Nat
    BY ShownIsNewest, EntryTypes
  <2>9. ~(shown.id < e.id)
    BY <1>4, <2>3, <2>4, <2>8 DEF UndoInvariant, OneByOne
  <2>10. shown.id = Len(changes) - 1
    BY <2>4, <2>5, <2>7, <2>9
  <2> QED
    BY <1>1, <2>2, <2>10
<1>5. Latest'
  BY <1>1, <1>4 DEF UndoInvariant, Latest, Look
<1> QED
  BY <1>3, <1>5 DEF UndoInvariant

LEMMA ChangeOrder ==
  ASSUME Inv, UndoInvariant, NEW w \in Writers, NEW new \in 0..MaxChanges,
         pc[w] \in {"editing", "undoing"}, Change(w, new)
  PROVE  UndoInvariant'
<1>1. /\ pc \in [Writers -> {"idle", "editing", "looking", "undoing", "changed"}]
      /\ change \in [Writers -> Nat]
      /\ changes \in Seq(0..MaxChanges) /\ Len(changes) \in Nat
  BY Numbers DEF Inv, Shapes
<1>2. /\ pc' = [pc EXCEPT ![w] = "changed"]
      /\ change' = [change EXCEPT ![w] = Len(changes)]
      /\ changes' = Append(changes, new)
      /\ UNCHANGED <<change_log, stamp, chosen, orderly, faults>>
  BY DEF Change
<1>3. Len(changes') - 1 = Len(changes) /\ change'[w] = Len(changes)
  BY <1>1, <1>2
<1>4. orderly => \A v \in Writers \ {w} : pc[v] = "idle" /\ pc'[v] = "idle"
  BY <1>1, <1>2 DEF UndoInvariant, OneByOne
<1>5. OneByOne'
  BY <1>1, <1>2, <1>3, <1>4 DEF UndoInvariant, OneByOne, Pending
<1>6. Latest'
  BY <1>1, <1>2, <1>4 DEF Latest
<1> QED
  BY <1>5, <1>6 DEF UndoInvariant

(* A handler stops, its change recorded or not.                            *)
LEMMA StopOrder ==
  ASSUME Inv, UndoInvariant, NEW w \in Writers, Stop(w),
         pc[w] # "idle",
         \/ change_log' = change_log
         \/ pc[w] = "changed" /\ change_log' = change_log \cup {Entry(w)},
         faults' = faults \/ faults' = faults + 1,
         UNCHANGED <<changes, orderly>>
  PROVE  UndoInvariant'
<1> SUFFICES ASSUME orderly
             PROVE  UndoInvariant'
  BY DEF UndoInvariant, OneByOne, Latest
<1>1. \A v \in Writers : pc'[v] = "idle"
  BY StoppedShapes DEF UndoInvariant, OneByOne
<1>2. \A e, f \in change_log' : e.id < f.id => e.created_at < f.created_at
  <2>1. CASE change_log' = change_log
    BY <2>1 DEF UndoInvariant, OneByOne
  <2>2. CASE pc[w] = "changed" /\ change_log' = change_log \cup {Entry(w)}
    <3>1. /\ Entry(w).id = Len(changes) - 1
          /\ Entry(w).created_at = stamp[w]
      BY <2>2 DEF Entry, UndoInvariant, OneByOne, Pending
    <3>2. Len(changes) \in Nat
      BY Numbers DEF Inv, Shapes
    <3>3. \A e \in change_log : /\ e.id \in 1..(Len(changes) - 1)
                                /\ e.created_at < stamp[w]
      BY EntryTypes DEF UndoInvariant, OneByOne
    <3> QED
      BY <2>2, <3>1, <3>2, <3>3 DEF UndoInvariant, OneByOne
  <2> QED
    BY <2>1, <2>2
<1>3. OneByOne' /\ Latest'
  BY <1>1, <1>2 DEF OneByOne, Latest, Pending
<1> QED
  BY <1>3 DEF UndoInvariant

LEMMA NextOrder == Inv /\ UndoInvariant /\ [Next]_vars => UndoInvariant'
<1> SUFFICES ASSUME Inv, UndoInvariant, [Next]_vars
             PROVE  UndoInvariant'
  OBVIOUS
<1>1. CASE Tick \/ UNCHANGED vars
  BY <1>1
  DEF Tick, vars, handlers, UndoInvariant, OneByOne, Latest, Pending
<1>2. ASSUME NEW w \in Writers, Begin(w, "editing") \/ Begin(w, "looking")
      PROVE  UndoInvariant'
  BY <1>2, BeginOrder
<1>3. ASSUME NEW w \in Writers, Look(w)
      PROVE  UndoInvariant'
  BY <1>3, LookOrder
<1>4. ASSUME NEW w \in Writers, Edit(w)
      PROVE  UndoInvariant'
  <2>1. Len(changes) \in 0..MaxChanges
    BY <1>4, Numbers DEF Inv, Shapes, Edit, Change
  <2> QED
    BY <1>4, <2>1, ChangeOrder DEF Edit
<1>5. ASSUME NEW w \in Writers, Undo(w)
      PROVE  UndoInvariant'
  BY <1>5, UndoneIsState, ChangeOrder DEF Undo
<1>6. ASSUME NEW w \in Writers, record(w) \/ RecordFails(w) \/ GiveUp(w)
      PROVE  UndoInvariant'
  BY <1>6, StopOrder DEF record, RecordFails, GiveUp
<1> QED
  BY <1>1, <1>2, <1>3, <1>4, <1>5, <1>6 DEF Next

LEMMA SpecOrder == Spec => [](Inv /\ UndoInvariant)
<1>1. Init => UndoInvariant
  BY DEF Init, UndoInvariant, OneByOne, Latest, Pending
<1> QED
  BY <1>1, InitInv, NextInv, NextOrder, PTL DEF Spec

(* As long as requests follow each other at different instants and none    *)
(* fails, an undo takes back the last change, whatever limit the list was  *)
(* asked for with and in which order the database sorts ties.              *)
THEOREM UndoIsUndo == Spec => UndoTakesBackTheLast
<1>1. ASSUME Inv, UndoInvariant, NEW w \in Writers, Undo(w), orderly,
             faults = 0
      PROVE  value' = changes[Len(changes) - 1]
  <2>1. chosen[w] = Len(changes) - 1 /\ value' = find(chosen[w]).before
    BY <1>1 DEF UndoInvariant, Latest, Undo, Change
  <2>2. \E e \in change_log : e.id = chosen[w]
    BY <1>1 DEF Inv, TypeOK, Undo
  <2>3. find(chosen[w]) \in change_log /\ find(chosen[w]).id = chosen[w]
    BY <2>2 DEF find
  <2> QED
    BY <1>1, <2>1, <2>3 DEF Inv, Recorded
<1>2. Inv /\ UndoInvariant =>
        [\A w \in Writers :
           Undo(w) /\ orderly /\ faults = 0 =>
             value' = changes[Len(changes) - 1]]_vars
  BY <1>1
<1> QED
  BY <1>2, SpecOrder, PTL DEF UndoTakesBackTheLast

=============================================================================
