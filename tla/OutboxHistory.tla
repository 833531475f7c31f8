---------------------------- MODULE OutboxHistory ----------------------------
(***************************************************************************)
(* Outbox with four history variables, for the properties that compare a  *)
(* step with earlier ones.  They restrict nothing: every step of Outbox is *)
(* a step here.                                                            *)
(***************************************************************************)
EXTENDS Outbox

VARIABLES
  failed,   \* failed[e]: how many publish calls for e returned Err
  since,    \* since[e]: time since the `now' of the round that last failed e
  owed,     \* owed[e]: the delay e owes for its failures, 0 without any
  visible   \* visible[d]: the rows that were due when d fetched its round

hvars == <<vars, failed, since, owed, visible>>

HInit ==
  /\ Init
  /\ failed = [e \in Events |-> 0]
  /\ since = [e \in Events |-> 0]
  /\ owed = [e \in Events |-> 0]
  /\ visible = [d \in Drainers |-> {}]

(* In this step the publish call of d for e returns Err / Ok.              *)
FailsNow(d, e) ==
  /\ pc[d] = "publish" /\ pc'[d] = "mark_retry"
  /\ \E r \in rows[d] : IsCurrent(d, r) /\ r.id = e

SucceedsNow(d, e) ==
  /\ pc[d] = "publish" /\ pc'[d] = "mark_sent"
  /\ \E r \in rows[d] : IsCurrent(d, r) /\ r.id = e

FetchesNow(d) == pc[d] = "idle" /\ pc'[d] = "publish"

(* The delay after one more failure (outbox.rs:75): the base at first, then*)
(* twice the one before, up to the cap.                                    *)
NextDelay(delay) ==
  IF delay = 0 THEN BackoffBase ELSE AtMost(2 * delay, BackoffCap)

(* What the history variables remember of a step of a service or a drainer.*)
Remember ==
  /\ failed' = [e \in Events |->
       failed[e] + Cardinality({d \in Drainers : FailsNow(d, e)})]
  /\ since' = [e \in Events |->
       IF \E d \in Drainers : FailsNow(d, e)
       THEN age[CHOOSE d \in Drainers : FailsNow(d, e)]
       ELSE since[e]]
  /\ owed' = [e \in Events |->
       IF \E d \in Drainers : FailsNow(d, e) THEN NextDelay(owed[e]) ELSE owed[e]]
  /\ visible' = [d \in Drainers |->
       IF FetchesNow(d) THEN Due
       ELSE IF pc'[d] = "idle" THEN {} ELSE visible[d]]

HNext ==
  \/ /\ Tick
     /\ since' = [e \in Events |-> AtMost(since[e] + 1, BackoffCap)]
     /\ UNCHANGED <<failed, owed, visible>>
  \/ /\ \/ \E e \in Events : enqueue(e)
        \/ \E d \in Drainers : DrainStep(d) \/ Crash(d)
     /\ Remember

HSpec == HInit /\ [][HNext]_hvars

FairHSpec == HSpec /\ Fairness

-----------------------------------------------------------------------------
(* The attempts column is the number of failed publications                *)
(* (outbox.rs:52), once every failure has been recorded.  It needs a single*)
(* drainer: the count is read by fetch_due and written back later.         *)
AttemptsExact ==
  (\A d \in Drainers : pc[d] # "mark_retry")
    => \A e \in Events : attempts[e] = failed[e]

(* Exponential backoff: a row is fetched again only when the delay it owes,*)
(* doubled with each of its failures up to the cap, is over, counted from  *)
(* the `now' of the round that failed last.                                *)
RetriesBackOff ==
  [][\A d \in Drainers : FetchesNow(d) =>
       \A r \in rows'[d] : failed[r.id] > 0 => since[r.id] >= owed[r.id]]_hvars

(* Events reach the stream in creation order (outbox.rs:106): none is      *)
(* published while an older one, due when the round was fetched, is still  *)
(* waiting, unless a publication of the older one failed.                  *)
OldestFirst ==
  [][\A d \in Drainers, f \in Events : SucceedsNow(d, f) =>
       \A e \in visible[d] : e < f => status[e] = "sent" \/ failed[e] > 0]_hvars

=============================================================================
