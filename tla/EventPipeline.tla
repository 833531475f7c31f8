---------------------------- MODULE EventPipeline ----------------------------
(***************************************************************************)
(* An event from the service that changes its data to the service that     *)
(* handles it: ServiceWrite and Outbox joined by the table, Outbox and     *)
(* StreamGroup joined by the stream.  The XADD of a drainer is the only    *)
(* writer of the stream here; the group may be created before, while or    *)
(* after events are published.                                             *)
(***************************************************************************)
EXTENDS Integers, Sequences, FiniteSets

CONSTANTS
  BackoffBase, BackoffCap, MaxExponent,  \* as in Backoff
  Events, Drainers, Limit,               \* as in Outbox
  Consumers, Count,                      \* as in StreamGroup
  DrainFaults, GroupFaults,              \* the faults of each
  MaxDrainFaults, MaxGroupFaults         \* bounds: how many

VARIABLES
  write, saved,
  status, attempts, wait, last_error, log, pc, rows, age, drainFaults,
  last, start, pending, inbox, done, handled, groupFaults,
  times  \* times[e]: history, how often a consumer has handled event e

writeVars == <<write, saved>>
drainVars == <<status, attempts, wait, last_error, pc, rows, age, drainFaults>>
groupVars == <<last, start, pending, inbox, done, handled, groupFaults>>
vars == <<writeVars, drainVars, log, groupVars, times>>

(* Each event is that of one business write.                               *)
W == INSTANCE ServiceWrite WITH
  Requests <- Events, pc <- write,
  outbox <- {e \in Events : status[e] # "none"}

O == INSTANCE Outbox WITH
  FaultKinds <- DrainFaults, MaxFaults <- MaxDrainFaults, faults <- drainFaults

TheStream == "events"

G == INSTANCE StreamGroup WITH
  Streams <- {TheStream}, Messages <- Events, Broken <- {},
  MaxEntries <- Cardinality(Events) * (Cardinality(Drainers) + MaxDrainFaults),
  FaultKinds <- GroupFaults, MaxFaults <- MaxGroupFaults,
  stream <- [s \in {TheStream} |-> log], faults <- groupFaults

ASSUME EventPipelineAssumption ==
  /\ BackoffBase \in Nat \ {0} /\ BackoffCap \in Nat /\ MaxExponent \in 0..7
  /\ BackoffBase <= BackoffCap
  /\ BackoffCap <= BackoffBase * O!Pow2(MaxExponent)
  /\ Events \subseteq Nat /\ IsFiniteSet(Events) /\ IsFiniteSet(Drainers)
  /\ Limit \in Nat \ {0} /\ Count \in Nat \ {0}
  /\ DrainFaults \subseteq O!AllFaults /\ GroupFaults \subseteq G!AllFaults
  /\ MaxDrainFaults \in Nat /\ MaxGroupFaults \in Nat

Init == O!Init /\ W!Init /\ G!Init /\ times = [e \in Events |-> 0]

(* The service's transaction, and the INSERT in the middle of it.          *)
Begin(e) == UNCHANGED <<drainVars, log, groupVars, times>> /\ W!Begin(e)
Commit(e) == UNCHANGED <<drainVars, log, groupVars, times>> /\ W!Commit(e)
Rollback(e) == UNCHANGED <<drainVars, log, groupVars, times>> /\ W!Rollback(e)

Enqueue(e) ==
  /\ O!enqueue(e) \/ UNCHANGED <<drainVars, log>>
  /\ W!enqueue(e)
  /\ UNCHANGED <<groupVars, times>>

Drain(d) == O!DrainStep(d) /\ UNCHANGED <<writeVars, groupVars, times>>
DrainerCrash(d) == O!Crash(d) /\ UNCHANGED <<writeVars, groupVars, times>>
Tick == O!Tick /\ UNCHANGED <<writeVars, groupVars, times>>

EnsureGroup ==
  UNCHANGED <<writeVars, drainVars, log, times>> /\ G!ensure_group(TheStream)

(* A handling counts when it succeeds: a failure is a fault of the group.  *)
CountHandling(e) ==
  times' = IF groupFaults' = groupFaults
           THEN [times EXCEPT ![e] = @ + 1] ELSE times

Consume(c) ==
  /\ UNCHANGED <<writeVars, drainVars, log>>
  /\ \/ (G!read_group(c) \/ G!ack(c, TheStream)) /\ UNCHANGED times
     \/ \E h \in inbox[c] : G!Handle(c, h) /\ CountHandling(log[h.id])

ConsumerCrash(c) ==
  UNCHANGED <<writeVars, drainVars, log, times>> /\ G!Crash(c)

Next ==
  \/ \E e \in Events : Begin(e) \/ Enqueue(e) \/ Commit(e) \/ Rollback(e)
  \/ \E d \in Drainers : Drain(d) \/ DrainerCrash(d)
  \/ Tick
  \/ EnsureGroup
  \/ \E c \in Consumers : Consume(c) \/ ConsumerCrash(c)

Spec == Init /\ [][Next]_vars

Fairness ==
  /\ WF_vars(Tick)
  /\ \A d \in Drainers : WF_vars(Drain(d))
  /\ \A c \in Consumers : WF_vars(Consume(c))

FairSpec == Spec /\ Fairness

-----------------------------------------------------------------------------
(* The two halves do not multiply each other's repetitions: whatever fails *)
(* on the way, and however often consumers read, crash and acknowledge, an *)
(* event is handled no more often than the drainers and the faults of the  *)
(* draining side account for.                                              *)
HandledBounded ==
  \A e \in Events : times[e] <= Cardinality(Drainers) + drainFaults

(* The copies of e were all published before the group existed.            *)
Missed(e) ==
  /\ e \in O!Published
  /\ \A i \in DOMAIN log : log[i] = e => i <= start[TheStream]

(* An event the outbox has settled is still to be delivered, pending or    *)
(* handled, unless there is no group or the group has missed it: no fault  *)
(* on either side makes it vanish.                                         *)
SentIsAccountedFor ==
  \A e \in Events : status[e] = "sent" =>
    \/ start[TheStream] = G!NoGroup
    \/ Missed(e)
    \/ \E i \in DOMAIN log : /\ log[i] = e
                             /\ i > start[TheStream]
                             /\ \/ i > last[TheStream]
                                \/ \E h \in handled \cup G!Pending : h.id = i

(* The data of the change are saved, and the group exists before its event *)
(* is published.                                                           *)
Awaited(e) ==
  /\ e \in saved
  /\ start[TheStream] # G!NoGroup
  /\ e \notin O!Published

(* No change goes without its event being handled (lib.rs:7), in spite of  *)
(* the faults of the draining side, unless the consuming side has faults   *)
(* (see EventuallySettled of StreamGroup for those).                       *)
EndToEnd ==
  \A e \in Events :
    Awaited(e) ~> times[e] > 0 \/ groupFaults > 0

=============================================================================
