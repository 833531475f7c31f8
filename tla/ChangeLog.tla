----------------------------- MODULE ChangeLog -----------------------------
(***************************************************************************)
(* The change log (crates/bus/src/audit.rs): a write operation records the *)
(* state of its entity before and after, an undo writes the state before   *)
(* back.  The handlers of the services are not in this repository; that    *)
(* each changes the entity in a transaction that locks it, and then calls  *)
(* record, is what audit.rs:3 asks of them and record lets them do: like   *)
(* enqueue it takes a &DatabaseConnection, so that its INSERT is a         *)
(* transaction of its own.                                                 *)
(*                                                                         *)
(* One entity; a state of it is a number, and every edit makes a new one.  *)
(* created_at is the `now' of the handler, which list_for sorts by.        *)
(***************************************************************************)
EXTENDS Integers, FiniteSets, SequencesExt

CONSTANTS
  Writers,    \* the handlers that may be at work on the entity
  MaxList,    \* the upper end of list_for's clamp: 200
  Limits,     \* the limits list_for is called with
  MaxChanges, \* bound: how many changes there are
  MaxTime,    \* bound: the last instant
  MaxFaults   \* bound: how many faults a behaviour has

ASSUME ChangeLogAssumption ==
  /\ IsFiniteSet(Writers)
  /\ MaxList \in Nat \ {0} /\ Limits \subseteq Nat
  /\ MaxChanges \in Nat /\ MaxTime \in Nat /\ MaxFaults \in Nat

VARIABLES
  value,      \* the state of the entity
  change_log, \* the rows of the table
  now,        \* the clock
  pc,         \* pc[w]: where handler w is
  stamp,      \* stamp[w]: the `now' w took when its request began
  change,     \* change[w]: what w has changed, still to be recorded
  chosen,     \* chosen[w]: the id of the entry that w is to undo
  changes,    \* history: the states the entity has had, oldest first
  orderly,    \* history: each request began after the one before was over,
              \*   and at a later instant
  faults      \* the number of faults so far

handlers == <<pc, stamp, change, chosen>>
vars == <<value, change_log, now, handlers, changes, orderly, faults>>

(* A row.  Its id, a fresh one, is here the number of the change; entity,  *)
(* action and actor_id are left out.                                       *)
ChangeEntry ==
  [id : 1..MaxChanges, before : 0..MaxChanges, after : 0..MaxChanges,
   created_at : 0..MaxTime]

(* Types, and: ids are primary keys, and the entity is in its last state.  *)
TypeOK ==
  /\ value = Last(changes)
  /\ change_log \subseteq ChangeEntry
  /\ \A e, f \in change_log : e.id = f.id => e = f
  /\ now \in 0..MaxTime
  /\ pc \in [Writers -> {"idle", "editing", "looking", "undoing", "changed"}]
  /\ stamp \in [Writers -> 0..MaxTime]
  /\ \A w \in Writers :
       /\ pc[w] = "changed" => change[w] \in 1..(Len(changes) - 1)
       /\ pc[w] = "undoing" => \E e \in change_log : e.id = chosen[w]
  /\ \A i \in DOMAIN changes : changes[i] \in 0..MaxChanges
  /\ orderly \in BOOLEAN
  /\ faults \in 0..MaxFaults

Init ==
  /\ value = 0
  /\ change_log = {}
  /\ now = 0
  /\ pc = [w \in Writers |-> "idle"]
  /\ stamp = [w \in Writers |-> 0]
  /\ change = [w \in Writers |-> 0]
  /\ chosen = [w \in Writers |-> 0]
  /\ changes = <<0>>
  /\ orderly = TRUE
  /\ faults = 0

-----------------------------------------------------------------------------
(* What the log answers.                                                   *)

(* How many rows LIMIT lets through.                                       *)
Listed(limit) ==
  Min({Max({limit, 1}), MaxList, Cardinality(change_log)})

(* Mutant of list_for: the oldest entries come first.                      *)
list_for_oldest(limit) ==
  {SubSeq(s, 1, Listed(limit)) : s \in {t \in SetToSeqs(change_log) :
     \A i, j \in DOMAIN t : i < j => t[i].created_at <= t[j].created_at}}

(* ORDER BY created_at DESC says nothing of entries that tie: the answers  *)
(* there may be.                                                           *)
list_for(limit) ==
  {SubSeq(s, 1, Listed(limit)) : s \in {t \in SetToSeqs(change_log) :
     \A i, j \in DOMAIN t : i < j => t[i].created_at >= t[j].created_at}}

find(id) == CHOOSE e \in change_log : e.id = id

-----------------------------------------------------------------------------
(* A request begins: its `now' is taken.                                   *)
Begin(w, task) ==
  /\ pc[w] = "idle"
  /\ pc' = [pc EXCEPT ![w] = task]
  /\ stamp' = [stamp EXCEPT ![w] = now]
  /\ orderly' = (/\ orderly
                 /\ \A v \in Writers : pc[v] = "idle"
                 /\ \A e \in change_log : e.created_at < now)
  /\ UNCHANGED <<value, change_log, now, change, chosen, changes, faults>>

(* The entity is changed, and the transaction commits.                     *)
Change(w, new) ==
  /\ Len(changes) <= MaxChanges
  /\ value' = new
  /\ changes' = Append(changes, new)
  /\ change' = [change EXCEPT ![w] = Len(changes)]
  /\ pc' = [pc EXCEPT ![w] = "changed"]
  /\ UNCHANGED <<change_log, now, stamp, chosen, orderly, faults>>

Edit(w) == pc[w] = "editing" /\ Change(w, Len(changes))

(* The user is shown the newest entries and chooses the first to be undone.*)
Look(w) ==
  /\ pc[w] = "looking" /\ change_log # {}
  /\ \E limit \in Limits : \E entries \in list_for(limit) :
       chosen' = [chosen EXCEPT ![w] = Head(entries).id]
  /\ pc' = [pc EXCEPT ![w] = "undoing"]
  /\ UNCHANGED <<value, change_log, now, stamp, change, changes, orderly,
                 faults>>

(* The `before' of the entry is written back (audit.rs:4).                 *)
Undo(w) == pc[w] = "undoing" /\ Change(w, find(chosen[w]).before)

(* A handler stops: nothing more comes of its request.                     *)
Stop(w) ==
  /\ pc' = [pc EXCEPT ![w] = "idle"]
  /\ stamp' = [stamp EXCEPT ![w] = 0]
  /\ change' = [change EXCEPT ![w] = 0]
  /\ chosen' = [chosen EXCEPT ![w] = 0]

(* Mutant of Entry: the id is that of the writer's request.                *)
Entry_request_id(w) ==
  [id |-> stamp[w] + 1,
   before |-> changes[change[w]], after |-> changes[change[w] + 1],
   created_at |-> stamp[w]]

(* What w hands to record.                                                 *)
Entry(w) ==
  [id |-> change[w],
   before |-> changes[change[w]], after |-> changes[change[w] + 1],
   created_at |-> stamp[w]]

(* Mutant of record: a change that leaves the latest state is not recorded.*)
record_latest_only(w) ==
  /\ pc[w] = "changed"
  /\ change_log' = IF change[w] = Len(changes) - 1
                   THEN change_log \cup {Entry(w)} ELSE change_log
  /\ Stop(w)
  /\ UNCHANGED <<value, now, changes, orderly, faults>>

(* The INSERT.                                                             *)
record(w) ==
  /\ pc[w] = "changed"
  /\ change_log' = change_log \cup {Entry(w)}
  /\ Stop(w)
  /\ UNCHANGED <<value, now, changes, orderly, faults>>

(* record returns an error, with the INSERT done or not, or the process    *)
(* stops before it.                                                        *)
RecordFails(w) ==
  /\ pc[w] = "changed" /\ faults < MaxFaults
  /\ faults' = faults + 1
  /\ change_log' \in {change_log, change_log \cup {Entry(w)}}
  /\ Stop(w)
  /\ UNCHANGED <<value, now, changes, orderly>>

(* A request that changes nothing ends.                                    *)
GiveUp(w) ==
  /\ pc[w] \in {"editing", "looking", "undoing"}
  /\ Stop(w)
  /\ UNCHANGED <<value, change_log, now, changes, orderly, faults>>

Tick ==
  /\ now < MaxTime
  /\ now' = now + 1
  /\ UNCHANGED <<value, change_log, handlers, changes, orderly, faults>>

Next ==
  \/ \E w \in Writers :
       \/ Begin(w, "editing") \/ Begin(w, "looking")
       \/ Edit(w) \/ Look(w) \/ Undo(w)
       \/ record(w) \/ RecordFails(w) \/ GiveUp(w)
  \/ Tick

Spec == Init /\ [][Next]_vars

-----------------------------------------------------------------------------
(* The changes that no entry tells of.                                     *)
Unrecorded ==
  (1..(Len(changes) - 1)) \ {e.id : e \in change_log}

Pending == {w \in Writers : pc[w] = "changed"}

(* Every change is recorded as it was, but for those about to be and one   *)
(* for each failure: in whatever order handlers change and record, none    *)
(* covers up the change of another (audit.rs:3).                           *)
MissingHasACause ==
  /\ Cardinality(Unrecorded) <= Cardinality(Pending) + faults
  /\ \A e \in change_log :
       e.before = changes[e.id] /\ e.after = changes[e.id + 1]

(* An undo takes back the last change, and so does the undo of an undo, as *)
(* long as requests follow each other, at different instants, and none     *)
(* fails.  (created_at is what the entries are sorted by: with two requests*)
(* in one instant, or two at a time, the entry that is shown first need not*)
(* be that of the last change.)                                            *)
UndoTakesBackTheLast ==
  [][\A w \in Writers :
       Undo(w) /\ orderly /\ faults = 0 => value' = changes[Len(changes) - 1]]_vars

=============================================================================
