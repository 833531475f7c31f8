----------------------------- MODULE LocalStore -----------------------------
(***************************************************************************)
(* The local disk backend of club-storage (crates/storage/src/local.rs).   *)
(* An object is a file under the root, its key the path.  put is four kinds*)
(* of system calls (create_dir_all, File::create, writes, flush) on tokio's*)
(* blocking pool, so that puts, deletes and reads of one key overlap.  A   *)
(* put whose future is dropped makes no new call, but the pool finishes the*)
(* one under way, at some later time.                                      *)
(*                                                                         *)
(* A key is the sequence of its segments; `.' segments, which the file     *)
(* system drops, are not used.  A body is a number of blocks, each written *)
(* by one system call; none is empty, because the file of an empty body    *)
(* could not be told from one that has just been created.  Reads look at   *)
(* the file in one step.                                                   *)
(***************************************************************************)
EXTENDS Integers, Sequences, FiniteSets

CONSTANTS
  Keys,       \* the valid keys the services use
  Clients,    \* the tasks that put objects
  Size,       \* Size[c]: the blocks of the body that c puts
  MaxFaults   \* bound: how many faults a behaviour has

ASSUME LocalStoreAssumption ==
  /\ Keys # {} /\ \A k \in Keys : k \in Seq(STRING) /\ k # <<>>
  /\ Size \in [Clients -> Nat \ {0}]
  /\ MaxFaults \in Nat

(* The paths of files and directories: the prefixes of keys.               *)
Prefixes(k) == {SubSeq(k, 1, n) : n \in 1..(Len(k) - 1)}
Paths == Keys \cup UNION {Prefixes(k) : k \in Keys}

NoFile == [file |-> FALSE, blocks |-> <<>>]
File(blocks) == [file |-> TRUE, blocks |-> blocks]

NoClient == "hole"    \* a block that was skipped by a write beyond the end

VARIABLES
  dirs,    \* the directories below the root
  disk,    \* disk[p]: the file at path p, as the writers of its blocks
  pc,      \* pc[c]: where c is in put
  target,  \* target[c]: the key c puts
  opened,  \* opened[c]: the file c has open is still the one at its path
  written, \* written[c]: the blocks c has written
  answer,  \* answer[c]: what the last put of c returned, if it has
  mixed,   \* history: the paths whose file has been left in pieces by puts
           \*   that overlapped or did not finish
  disturbed, \* history: the clients whose path another put or a delete has
             \*   used since they created it
  faults   \* the number of faults so far

put == <<pc, target, opened, written, answer>>
vars == <<dirs, disk, put, mixed, disturbed, faults>>

(* Whose future has been dropped while a call was under way; in "close" the*)
(* call is over, the handle not yet closed.                                *)
Late == {"late_mkdir", "late_create", "late_write", "close"}

Writing(c, p) ==
  pc[c] \in {"write", "late_write", "close"} /\ opened[c] /\ target[c] = p

Body(c) == [i \in 1..Size[c] |-> c]

(* Types, and the shape of the tree: a path is a file or a directory at    *)
(* most, and everything lies in directories.                               *)
TypeOK ==
  /\ dirs \subseteq Paths
  /\ disk \in [Paths -> [file : BOOLEAN, blocks : Seq(Clients \cup {NoClient})]]
  /\ pc \in [Clients -> {"idle", "mkdir", "create", "write"} \cup Late]
  /\ target \in [Clients -> Keys]
  /\ opened \in [Clients -> BOOLEAN]
  /\ written \in [Clients -> Nat]
  /\ \A c \in Clients : written[c] <= Size[c]
  /\ answer \in [Clients -> {"none", "ok", "backend"}]
  /\ mixed \subseteq Paths
  /\ disturbed \subseteq Clients
  /\ faults \in 0..MaxFaults
  /\ \A p \in dirs : ~disk[p].file
  /\ \A p \in Paths : p \in dirs \/ disk[p].file => Prefixes(p) \subseteq dirs

Init ==
  /\ dirs = {}
  /\ disk = [p \in Paths |-> NoFile]
  /\ pc = [c \in Clients |-> "idle"]
  /\ target = [c \in Clients |-> CHOOSE k \in Keys : TRUE]
  /\ opened = [c \in Clients |-> FALSE]
  /\ written = [c \in Clients |-> 0]
  /\ answer = [c \in Clients |-> "none"]
  /\ mixed = {}
  /\ disturbed = {}
  /\ faults = 0

-----------------------------------------------------------------------------
(* The answers of the operations that read, in the current state.          *)

(* The system calls on path p meet a file where a directory should be.     *)
ThroughFile(p) == \E q \in Prefixes(p) : disk[q].file

(* get: only ENOENT is NotFound; a directory, or a file on the way, is not.*)
get(k) ==
  CASE disk[k].file                   -> "ok"
    [] k \in dirs \/ ThroughFile(k)   -> "backend"
    [] OTHER                          -> "not_found"

(* exists: Path::exists, which does not ask what is there.                 *)
exists(k) == disk[k].file \/ k \in dirs

(* The answer of delete: remove_file fails on a directory, and its failure *)
(* with ENOTDIR is not a NotFound.                                         *)
delete_reply(k) ==
  IF k \in dirs \/ ThroughFile(k) THEN "backend" ELSE "ok"

-----------------------------------------------------------------------------
(* put is over for c: it returns, if there is anybody to return to.        *)
Leave(c, result) ==
  /\ answer' = [answer EXCEPT ![c] = IF pc[c] \in Late THEN "none" ELSE result]
  /\ pc' = [pc EXCEPT ![c] = "idle"]
  /\ opened' = [opened EXCEPT ![c] = FALSE]
  /\ written' = [written EXCEPT ![c] = 0]
  /\ UNCHANGED target

Start(c, k) ==
  /\ pc[c] = "idle"
  /\ pc' = [pc EXCEPT ![c] = "mkdir"]
  /\ target' = [target EXCEPT ![c] = k]
  /\ answer' = [answer EXCEPT ![c] = "none"]
  /\ UNCHANGED <<dirs, disk, opened, written, mixed, disturbed, faults>>

(* Mutant of MakeDirs: create_dir instead of create_dir_all, to which a    *)
(* directory that is there already is an error.                            *)
MakeDirs_once(c) ==
  LET parents == Prefixes(target[c])
  IN /\ pc[c] = "mkdir"
     /\ IF parents # {} /\ (parents \subseteq dirs \/ ThroughFile(target[c]))
        THEN Leave(c, "backend") /\ UNCHANGED dirs
        ELSE /\ dirs' = dirs \cup parents
             /\ pc' = [pc EXCEPT ![c] = "create"]
             /\ UNCHANGED <<target, opened, written, answer>>
     /\ UNCHANGED <<disk, mixed, disturbed, faults>>

(* create_dir_all, one directory at a time from the top.                   *)
MakeDirs(c) ==
  LET missing == Prefixes(target[c]) \ dirs
      top == CHOOSE p \in missing : \A q \in missing : Len(p) <= Len(q)
  IN /\ pc[c] \in {"mkdir", "late_mkdir"}
     /\ \/ /\ missing = {} /\ pc[c] = "mkdir"
           /\ pc' = [pc EXCEPT ![c] = "create"]
           /\ UNCHANGED <<dirs, target, opened, written, answer>>
        \/ /\ missing # {} /\ ~disk[top].file
           /\ dirs' = dirs \cup {top}
           /\ UNCHANGED put
        \/ /\ missing # {} /\ disk[top].file
           /\ Leave(c, "backend")
           /\ UNCHANGED dirs
     /\ UNCHANGED <<disk, mixed, disturbed, faults>>

(* The next call is a write, unless there is nobody to make it.            *)
AfterCall(c) == IF pc[c] \in Late THEN "close" ELSE "write"

(* Mutant of CreateFile: the file is opened without being truncated.       *)
CreateFile_keeps(c) ==
  LET p == target[c]
      others == {d \in Clients \ {c} : Writing(d, p)}
  IN /\ pc[c] \in {"create", "late_create"}
     /\ IF p \in dirs
        THEN Leave(c, "backend") /\ UNCHANGED <<disk, mixed, disturbed>>
        ELSE /\ disk' = [disk EXCEPT ![p] = File(@.blocks)]
             /\ pc' = [pc EXCEPT ![c] = AfterCall(c)]
             /\ opened' = [opened EXCEPT ![c] = TRUE]
             /\ mixed' = IF others = {} THEN mixed \ {p} ELSE mixed \cup {p}
             /\ disturbed' = IF others = {} THEN disturbed \ {c}
                                            ELSE disturbed \cup others \cup {c}
             /\ UNCHANGED <<target, written, answer>>
     /\ UNCHANGED <<dirs, faults>>

(* File::create: a new file, or the one that is there cut to nothing.      *)
CreateFile(c) ==
  LET p == target[c]
      others == {d \in Clients \ {c} : Writing(d, p)}
  IN /\ pc[c] \in {"create", "late_create"}
     /\ IF p \in dirs
        THEN Leave(c, "backend") /\ UNCHANGED <<disk, mixed, disturbed>>
        ELSE /\ disk' = [disk EXCEPT ![p] = File(<<>>)]
             /\ pc' = [pc EXCEPT ![c] = AfterCall(c)]
             /\ opened' = [opened EXCEPT ![c] = TRUE]
             /\ mixed' = IF others = {} THEN mixed \ {p} ELSE mixed \cup {p}
             /\ disturbed' = IF others = {} THEN disturbed \ {c}
                                            ELSE disturbed \cup others \cup {c}
             /\ UNCHANGED <<target, written, answer>>
     /\ UNCHANGED <<dirs, faults>>

(* A block written at position i of a file, which may have become shorter. *)
WriteAt(blocks, i, c) ==
  [j \in 1..(IF i > Len(blocks) THEN i ELSE Len(blocks)) |->
     IF j = i THEN c ELSE IF j <= Len(blocks) THEN blocks[j] ELSE NoClient]

(* One write of write_all, at the position of c's own handle.              *)
WriteBlock(c) ==
  LET p == target[c]
      i == written[c] + 1
  IN /\ pc[c] \in {"write", "late_write"}
     /\ i <= Size[c]
     /\ pc' = [pc EXCEPT ![c] = AfterCall(c)]
     /\ written' = [written EXCEPT ![c] = i]
     /\ disk' = IF opened[c]
                THEN [disk EXCEPT ![p] = File(WriteAt(@.blocks, i, c))]
                ELSE disk
     /\ UNCHANGED <<dirs, target, opened, answer, mixed, disturbed, faults>>

(* flush, and put returns Ok.                                              *)
Finish(c) ==
  /\ pc[c] = "write"
  /\ written[c] = Size[c]
  /\ Leave(c, "ok")
  /\ UNCHANGED <<dirs, disk, mixed, disturbed, faults>>

(* c leaves, and what it has written stays.                                *)
LeaveUnfinished(c) ==
  /\ mixed' = IF Writing(c, target[c]) THEN mixed \cup {target[c]} ELSE mixed
  /\ Leave(c, "backend")
  /\ UNCHANGED <<dirs, disk, disturbed>>

(* A system call fails, or the process stops.                              *)
Abort(c) ==
  /\ pc[c] \notin Late \cup {"idle"}
  /\ faults < MaxFaults
  /\ faults' = faults + 1
  /\ LeaveUnfinished(c)

(* The future of the put is dropped while a call is under way.             *)
Drop(c) ==
  /\ pc[c] \notin Late \cup {"idle"}
  /\ faults < MaxFaults
  /\ faults' = faults + 1
  /\ pc' = [pc EXCEPT ![c] = CASE @ = "mkdir"  -> "late_mkdir"
                              [] @ = "create" -> "late_create"
                              [] @ = "write"  -> "late_write"]
  /\ UNCHANGED <<dirs, disk, target, opened, written, answer, mixed, disturbed>>

(* The call has ended, and with it all that is left of the put.            *)
Close(c) ==
  /\ pc[c] \in Late
  /\ LeaveUnfinished(c)
  /\ UNCHANGED faults

(* delete of an object that is there.  Whoever has the file open goes on   *)
(* writing to it, but it is no longer at the path.                         *)
delete(k) ==
  LET users == {c \in Clients : Writing(c, k)}
  IN /\ disk[k].file
     /\ disk' = [disk EXCEPT ![k] = NoFile]
     /\ opened' = [c \in Clients |-> opened[c] /\ c \notin users]
     /\ mixed' = mixed \ {k}
     /\ disturbed' = disturbed \cup users
     /\ UNCHANGED <<dirs, pc, target, written, answer, faults>>

Next ==
  \/ \E c \in Clients :
       \/ \E k \in Keys : Start(c, k)
       \/ MakeDirs(c) \/ CreateFile(c) \/ WriteBlock(c) \/ Finish(c)
       \/ Abort(c) \/ Drop(c) \/ Close(c)
  \/ \E k \in Keys : delete(k)

Spec == Init /\ [][Next]_vars

-----------------------------------------------------------------------------
(* What a get can return is the whole body of some put, except while a put *)
(* is at work on it and after puts that overlapped or did not finish.      *)
PiecesHaveACause ==
  \A p \in Paths : disk[p].file =>
    \/ \E c \in Clients : disk[p] = File(Body(c)) \/ Writing(c, p)
    \/ p \in mixed

(* Deleting an object that is not there succeeds (traits.rs:32).           *)
DeleteAbsentSucceeds == \A k \in Keys : ~disk[k].file => delete_reply(k) = "ok"

=============================================================================
