------------------------------- MODULE Outbox -------------------------------
(***************************************************************************)
(* The transactional outbox of club-bus (crates/bus/src/outbox.rs): rows   *)
(* are inserted by services and drained to a Redis stream by background    *)
(* tasks that call drain_once over and over.                               *)
(*                                                                         *)
(* A drainer is one such task: the replicas of a service each run one, and *)
(* nothing in fetch_due locks the rows it returns.  Every await of         *)
(* drain_once is a step of its own, so drainers interleave between the     *)
(* SELECT, the XADD and the UPDATE of a row, and may crash there.          *)
(*                                                                         *)
(* Time.  The code compares and adds timestamps.  The module keeps each    *)
(* timestamp as its distance from the current instant, which makes the     *)
(* state finite without a bound on time:                                   *)
(*   wait[e]  how long until available_at of row e (0 once it has passed)  *)
(*   age[d]   how long ago drainer d took the `now' of its round, up to    *)
(*            BackoffCap, beyond which no delay reaches.                   *)
(***************************************************************************)
EXTENDS Backoff, Sequences, FiniteSets

CONSTANTS
  Events,      \* outbox row ids; UUIDv7 ids are compared by ORDER BY id
  Drainers,    \* the tasks that call drain_once
  Limit,       \* the `limit' they pass
  FaultKinds,  \* what may go wrong in this instance (see AllFaults)
  MaxFaults    \* bound: how many faults a behaviour has

AllFaults ==
  { "publish_rejected",   \* XADD fails and the entry is not in the stream
    "publish_reply_lost", \* XADD is done, its reply is not received
    "db_rejected",        \* an UPDATE fails and the row is as it was
    "db_reply_lost",      \* an UPDATE is done, its reply is not received
    "crash" }             \* the process of a drainer stops and is restarted

ASSUME OutboxAssumption ==
  /\ Events \subseteq Nat
  /\ IsFiniteSet(Events)
  /\ IsFiniteSet(Drainers)
  /\ Limit \in Nat \ {0}
  /\ FaultKinds \subseteq AllFaults
  /\ MaxFaults \in Nat

VARIABLES
  status,     \* status[e]: "none" before the INSERT, then "pending" / "sent"
  attempts,   \* attempts[e]: the attempts column
  wait,       \* wait[e]: the available_at column
  last_error, \* last_error[e]: TRUE iff the last_error column is not NULL
  log,        \* the Redis stream: the ids of its entries, oldest first
  pc,         \* pc[d]: where drainer d is in drain_once
  rows,       \* rows[d]: the rows of the round d has still to finish
  age,        \* age[d]: the `now' of the round of d
  faults      \* the number of faults so far

table == <<status, attempts, wait, last_error>>
vars == <<status, attempts, wait, last_error, log, pc, rows, age, faults>>

Row == [id : Events, attempts : Nat]

TypeOK ==
  /\ status \in [Events -> {"none", "pending", "sent"}]
  /\ attempts \in [Events -> Nat]
  /\ wait \in [Events -> Nat]
  /\ last_error \in [Events -> BOOLEAN]
  /\ log \in Seq(Events)
  /\ pc \in [Drainers -> {"idle", "publish", "mark_sent", "mark_retry"}]
  /\ rows \in [Drainers -> SUBSET Row]
  /\ age \in [Drainers -> Nat]
  /\ faults \in 0..MaxFaults

Init ==
  /\ status = [e \in Events |-> "none"]
  /\ attempts = [e \in Events |-> 0]
  /\ wait = [e \in Events |-> 0]
  /\ last_error = [e \in Events |-> FALSE]
  /\ log = <<>>
  /\ pc = [d \in Drainers |-> "idle"]
  /\ rows = [d \in Drainers |-> {}]
  /\ age = [d \in Drainers |-> 0]
  /\ faults = 0

Fault(kind) ==
  /\ kind \in FaultKinds
  /\ faults < MaxFaults
  /\ faults' = faults + 1

Published == {log[i] : i \in DOMAIN log}

-----------------------------------------------------------------------------
(* The statements the library sends to the database and to Redis.          *)

(* A service inserts the row of an event.  Ids are drawn before the INSERT *)
(* commits, so rows become visible in any order of their ids.              *)
enqueue(e) ==
  /\ status[e] = "none"
  /\ status' = [status EXCEPT ![e] = "pending"]
  /\ attempts' = [attempts EXCEPT ![e] = 0]
  /\ wait' = [wait EXCEPT ![e] = 0]
  /\ last_error' = [last_error EXCEPT ![e] = FALSE]
  /\ UNCHANGED <<log, pc, rows, age, faults>>

Due == {e \in Events : status[e] = "pending" /\ wait[e] = 0}

(* Mutant of fetch_due: the filter on status is dropped.                   *)
fetch_due_any_status ==
  LET Ready == {x \in Events : status[x] # "none" /\ wait[x] = 0}
  IN {[id |-> e, attempts |-> attempts[e]] :
        e \in {x \in Ready : Cardinality({y \in Ready : y < x}) < Limit}}

(* Mutant of fetch_due: rows that carry an error are left out.             *)
fetch_due_unfailed ==
  LET Ready == {x \in Due : ~last_error[x]}
  IN {[id |-> e, attempts |-> attempts[e]] :
        e \in {x \in Ready : Cardinality({y \in Ready : y < x}) < Limit}}

(* Mutant of fetch_due: ORDER BY id descending.                            *)
fetch_due_newest ==
  {[id |-> e, attempts |-> attempts[e]] :
     e \in {x \in Due : Cardinality({y \in Due : y > x}) < Limit}}

(* The Limit due rows of the smallest ids, with the columns the loop reads.*)
fetch_due ==
  {[id |-> e, attempts |-> attempts[e]] :
     e \in {x \in Due : Cardinality({y \in Due : y < x}) < Limit}}

mark_sent(e) ==
  /\ status' = [status EXCEPT ![e] = "sent"]
  /\ last_error' = [last_error EXCEPT ![e] = FALSE]
  /\ UNCHANGED <<attempts, wait>>

(* Mutant of mark_retry: the row is written back whole, status included.   *)
mark_retry_reopens(e, count, delay) ==
  /\ status' = [status EXCEPT ![e] = "pending"]
  /\ attempts' = [attempts EXCEPT ![e] = count]
  /\ wait' = [wait EXCEPT ![e] = delay]
  /\ last_error' = [last_error EXCEPT ![e] = TRUE]

(* Mutant of mark_retry: a failed event is given up.                       *)
mark_retry_gives_up(e, count, delay) ==
  /\ status' = [status EXCEPT ![e] = "failed"]
  /\ attempts' = [attempts EXCEPT ![e] = count]
  /\ last_error' = [last_error EXCEPT ![e] = TRUE]
  /\ UNCHANGED wait

(* Writes the counters by id only: neither the status nor the version of   *)
(* the row is compared.                                                    *)
mark_retry(e, count, delay) ==
  /\ attempts' = [attempts EXCEPT ![e] = count]
  /\ wait' = [wait EXCEPT ![e] = delay]
  /\ last_error' = [last_error EXCEPT ![e] = TRUE]
  /\ UNCHANGED status

(* The stream's XADD.                                                      *)
publish(e) == log' = Append(log, e)

-----------------------------------------------------------------------------
(* drain_once, one step per await.                                         *)

(* r is the row the loop of d is at: rows are visited in the order of ids. *)
IsCurrent(d, r) == r \in rows[d] /\ \A q \in rows[d] : r.id <= q.id

(* The round of d is over: it returns, or its process is gone.             *)
Leave(d) ==
  /\ rows' = [rows EXCEPT ![d] = {}]
  /\ pc' = [pc EXCEPT ![d] = "idle"]
  /\ age' = [age EXCEPT ![d] = 0]

(* The loop of d is done with r and goes on to the next row, if any.       *)
Continue(d, r) ==
  IF rows[d] = {r}
  THEN Leave(d)
  ELSE /\ rows' = [rows EXCEPT ![d] = @ \ {r}]
       /\ pc' = [pc EXCEPT ![d] = "publish"]
       /\ UNCHANGED age

(* A round that finds no due row, or whose SELECT fails, changes nothing.  *)
(* The `now' that the code takes just before it awaits the SELECT is taken *)
(* here with it: the SELECT takes no time.                                 *)
DrainFetch(d) ==
  /\ pc[d] = "idle"
  /\ fetch_due # {}
  /\ rows' = [rows EXCEPT ![d] = fetch_due]
  /\ pc' = [pc EXCEPT ![d] = "publish"]
  /\ age' = [age EXCEPT ![d] = 0]
  /\ UNCHANGED <<table, log, faults>>

(* Mutant of DrainPublish: the Err arm, too, marks the row sent.           *)
DrainPublish_err_is_sent(d, r) ==
  /\ pc[d] = "publish"
  /\ IsCurrent(d, r)
  /\ \/ publish(r.id) /\ UNCHANGED faults
     \/ Fault("publish_rejected") /\ UNCHANGED log
     \/ Fault("publish_reply_lost") /\ publish(r.id)
  /\ pc' = [pc EXCEPT ![d] = "mark_sent"]
  /\ UNCHANGED <<table, rows, age>>

DrainPublish(d, r) ==
  /\ pc[d] = "publish"
  /\ IsCurrent(d, r)
  /\ \/ /\ publish(r.id)
        /\ pc' = [pc EXCEPT ![d] = "mark_sent"]
        /\ UNCHANGED faults
     \/ /\ \/ Fault("publish_rejected") /\ UNCHANGED log
           \/ Fault("publish_reply_lost") /\ publish(r.id)
        /\ pc' = [pc EXCEPT ![d] = "mark_retry"]
  /\ UNCHANGED <<table, rows, age>>

(* A failed UPDATE leaves the round at once by `?', with rows untried.     *)
DrainMarkSent(d, r) ==
  /\ pc[d] = "mark_sent"
  /\ IsCurrent(d, r)
  /\ \/ mark_sent(r.id) /\ Continue(d, r) /\ UNCHANGED faults
     \/ mark_sent(r.id) /\ Leave(d) /\ Fault("db_reply_lost")
     \/ UNCHANGED table /\ Leave(d) /\ Fault("db_rejected")
  /\ UNCHANGED log

(* The distance, from the present, of the instant `delay' after the `now'  *)
(* of the round.  The code stores that instant itself; the distances keep  *)
(* of an instant that has passed only that it has (available_at <= now).   *)
Remaining(delay, elapsed) == IF delay <= elapsed THEN 0 ELSE delay - elapsed

(* Mutant of DrainMarkRetry: the delay is that of the attempt before.      *)
DrainMarkRetry_short_delay(d, r) ==
  LET count == r.attempts + 1
      delay == Remaining(backoff_seconds(r.attempts), age[d])
  IN /\ pc[d] = "mark_retry"
     /\ IsCurrent(d, r)
     /\ \/ mark_retry(r.id, count, delay) /\ Continue(d, r) /\ UNCHANGED faults
        \/ mark_retry(r.id, count, delay) /\ Leave(d) /\ Fault("db_reply_lost")
        \/ UNCHANGED table /\ Leave(d) /\ Fault("db_rejected")
     /\ UNCHANGED log

(* Mutant of DrainMarkRetry: the attempt is not counted.                   *)
DrainMarkRetry_uncounted(d, r) ==
  LET delay == Remaining(backoff_seconds(r.attempts + 1), age[d])
  IN /\ pc[d] = "mark_retry"
     /\ IsCurrent(d, r)
     /\ \/ /\ mark_retry(r.id, r.attempts, delay)
           /\ Continue(d, r)
           /\ UNCHANGED faults
        \/ UNCHANGED table /\ Leave(d) /\ Fault("db_rejected")
     /\ UNCHANGED log

DrainMarkRetry(d, r) ==
  LET count == r.attempts + 1
      delay == Remaining(backoff_seconds(count), age[d])
  IN /\ pc[d] = "mark_retry"
     /\ IsCurrent(d, r)
     /\ \/ mark_retry(r.id, count, delay) /\ Continue(d, r) /\ UNCHANGED faults
        \/ mark_retry(r.id, count, delay) /\ Leave(d) /\ Fault("db_reply_lost")
        \/ UNCHANGED table /\ Leave(d) /\ Fault("db_rejected")
     /\ UNCHANGED log

Crash(d) ==
  /\ pc[d] # "idle"
  /\ Fault("crash")
  /\ Leave(d)
  /\ UNCHANGED <<table, log>>

(* One unit of time passes for everybody.                                  *)
Tick ==
  /\ wait' = [e \in Events |-> Remaining(wait[e], 1)]
  /\ age' = [d \in Drainers |->
               IF pc[d] = "idle" THEN 0 ELSE AtMost(age[d] + 1, BackoffCap)]
  /\ UNCHANGED <<status, attempts, last_error, log, pc, rows, faults>>

DrainStep(d) ==
  \/ DrainFetch(d)
  \/ \E r \in rows[d] : \/ DrainPublish(d, r)
                        \/ DrainMarkSent(d, r)
                        \/ DrainMarkRetry(d, r)

Next ==
  \/ \E e \in Events : enqueue(e)
  \/ \E d \in Drainers : DrainStep(d) \/ Crash(d)
  \/ Tick

Spec == Init /\ [][Next]_vars

(* Every task keeps calling drain_once and each of its awaits returns;     *)
(* time passes.  Nothing obliges a service to enqueue.                     *)
Fairness == WF_vars(Tick) /\ \A d \in Drainers : WF_vars(DrainStep(d))

FairSpec == Spec /\ Fairness

-----------------------------------------------------------------------------
(* No event is lost by the drain: a row is "sent" only when its event is   *)
(* in the stream, whatever drainers, crashes and lost replies do           *)
(* (drain_once marks after the XADD, on its Ok arm only).                  *)
SentWasPublished == \A e \in Events : status[e] = "sent" => e \in Published

(* A sent row is never due again: the late mark_retry of a drainer whose   *)
(* own publication failed must not put it back to "pending".               *)
SentIsFinal ==
  [][\A e \in Events : status[e] = "sent" => status'[e] = "sent"]_vars

(* Copies of an event in the stream.                                       *)
Copies(e) == Cardinality({i \in DOMAIN log : log[i] = e})

(* At-least-once stays close to once: each copy beyond one per drainer is  *)
(* paid for by a fault.  With one drainer and no fault the event is        *)
(* published exactly once.                                                 *)
DuplicatesBounded ==
  \A e \in Events : Copies(e) <= Cardinality(Drainers) + faults

(* An event whose row is already "sent" gets no further copy               *)
(* (crates/bus/tests/outbox_flow.rs:61).                                   *)
SentNotRepublished ==
  [][\A e \in Events : status[e] = "sent" => Copies(e)' = Copies(e)]_vars

(* Every enqueued event is eventually sent, once the faults stop.          *)
EventuallySent ==
  \A e \in Events : status[e] = "pending" ~> status[e] = "sent"

(* Outbox implements ReliableDelivery: the rows are the accepted events,   *)
(* the sent rows the settled ones.  An event has a copy per drainer and per*)
(* fault at most, and under Fairness each accepted event is delivered and  *)
(* settled, whichever rounds were left with rows untried.                  *)
Delivery == INSTANCE ReliableDelivery WITH
  MaxCopies <- Cardinality(Drainers) + MaxFaults,
  accepted <- {e \in Events : status[e] # "none"},
  settled <- {e \in Events : status[e] = "sent"}

ImplementsReliableDelivery == Delivery!Spec

=============================================================================
