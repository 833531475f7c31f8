---------------------------- MODULE ServiceWrite ----------------------------
(***************************************************************************)
(* A service that changes its business data and enqueues the event of the  *)
(* change (crates/bus/src/outbox.rs, enqueue).  The services are not in    *)
(* this repository: the module takes from it what enqueue lets them do.    *)
(* Its parameter is a &DatabaseConnection, a pool, and not a transaction:  *)
(* the INSERT commits by itself, on a connection of its own, whatever      *)
(* becomes of the transaction the service has open.  The service calls it  *)
(* before it commits that transaction, and gives up when it fails.         *)
(***************************************************************************)
CONSTANT Requests  \* the business writes, each with its event

VARIABLES
  pc,     \* pc[r]: where the handler of r is
  saved,  \* the requests whose business transaction has committed
  outbox  \* the requests whose outbox row has committed

vars == <<pc, saved, outbox>>

TypeOK ==
  /\ pc \in [Requests -> {"idle", "open", "enqueued", "failed", "ended"}]
  /\ saved \in SUBSET Requests
  /\ outbox \in SUBSET Requests

Init ==
  /\ pc = [r \in Requests |-> "idle"]
  /\ saved = {}
  /\ outbox = {}

(* The handler opens its transaction and changes the data in it.           *)
Begin(r) ==
  /\ pc[r] = "idle"
  /\ pc' = [pc EXCEPT ![r] = "open"]
  /\ UNCHANGED <<saved, outbox>>

(* Mutant of enqueue: an INSERT that fails is logged and reported as Ok.   *)
enqueue_swallows_error(r) ==
  /\ pc[r] = "open"
  /\ outbox' \in {outbox, outbox \cup {r}}
  /\ pc' = [pc EXCEPT ![r] = "enqueued"]
  /\ UNCHANGED saved

(* The INSERT is done or not, and when it is done its reply may be lost.   *)
enqueue(r) ==
  /\ pc[r] = "open"
  /\ \/ outbox' = outbox \cup {r} /\ pc' = [pc EXCEPT ![r] = "enqueued"]
     \/ outbox' \in {outbox, outbox \cup {r}} /\ pc' = [pc EXCEPT ![r] = "failed"]
  /\ UNCHANGED saved

Commit(r) ==
  /\ pc[r] = "enqueued"
  /\ saved' = saved \cup {r}
  /\ pc' = [pc EXCEPT ![r] = "ended"]
  /\ UNCHANGED outbox

(* The handler returns an error, or its process stops: the database rolls  *)
(* the transaction back.                                                   *)
Rollback(r) ==
  /\ pc[r] \in {"open", "enqueued", "failed"}
  /\ pc' = [pc EXCEPT ![r] = "ended"]
  /\ UNCHANGED <<saved, outbox>>

Next ==
  \E r \in Requests : Begin(r) \/ enqueue(r) \/ Commit(r) \/ Rollback(r)

Spec == Init /\ [][Next]_vars

-----------------------------------------------------------------------------
(* The change and its event are one transaction (outbox.rs:81, lib.rs:7):  *)
(* when the handler has ended, both are in the database or neither is.     *)
SameTransaction ==
  \A r \in Requests : pc[r] = "ended" => (r \in saved <=> r \in outbox)

=============================================================================
