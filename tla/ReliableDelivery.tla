-------------------------- MODULE ReliableDelivery --------------------------
(***************************************************************************)
(* What the outbox promises to the services that enqueue into it           *)
(* (crates/bus/src/lib.rs:7, outbox.rs:1): an accepted event is delivered  *)
(* to the stream at least once, though not more than MaxCopies times,      *)
(* nothing else is ever delivered, and an event is settled after a         *)
(* delivery and for good.  How rows, rounds, retries and failures bring    *)
(* this about is left to Outbox, which implements it.                      *)
(***************************************************************************)
EXTENDS Naturals, Sequences, FiniteSets

CONSTANTS
  Events,
  MaxCopies  \* how often an event may be delivered

VARIABLES
  accepted,  \* the events handed over by services
  log,       \* the deliveries, oldest first
  settled    \* the events that need no further delivery

vars == <<accepted, log, settled>>

Copies(e) == Cardinality({i \in DOMAIN log : log[i] = e})

Init ==
  /\ accepted = {}
  /\ log = <<>>
  /\ settled = {}

Accept(e) ==
  /\ e \notin accepted
  /\ accepted' = accepted \cup {e}
  /\ UNCHANGED <<log, settled>>

Deliver(e) ==
  /\ e \in accepted
  /\ Copies(e) < MaxCopies
  /\ log' = Append(log, e)
  /\ UNCHANGED <<accepted, settled>>

Settle(e) ==
  /\ \E i \in DOMAIN log : log[i] = e
  /\ settled' = settled \cup {e}
  /\ UNCHANGED <<accepted, log>>

Next == \E e \in Events : Accept(e) \/ Deliver(e) \/ Settle(e)

SafeSpec == Init /\ [][Next]_vars

(* At least once: each accepted event is settled in the end, which it can  *)
(* be only after a delivery.  It is stated as an outcome and not as the    *)
(* fairness of Deliver and Settle: which of them an implementation can do  *)
(* at a moment is its own affair.                                          *)
EverySettled == \A e \in Events : e \in accepted ~> e \in settled

Spec == SafeSpec /\ EverySettled

=============================================================================
