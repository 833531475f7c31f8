----------------------------- MODULE StreamGroup -----------------------------
(***************************************************************************)
(* The consuming side of club-bus (crates/bus/src/client.rs, message.rs):  *)
(* services read the streams of the modules they follow as consumers of a  *)
(* group and acknowledge the messages they have handled.                   *)
(*                                                                         *)
(* The library keeps no state of its own.  What it changes is the state    *)
(* Redis keeps of a group (last, start, pending), modelled from the        *)
(* commands the library sends.  The loop around the library is a service's *)
(* and not in this repository; it is modelled from lib.rs:5: read, handle, *)
(* acknowledge what was handled with success.  The messages of one reply   *)
(* are handled in any order.                                               *)
(***************************************************************************)
EXTENDS Integers, Sequences

CONSTANTS
  Streams,     \* the streams the group reads, `events.{module}'
  Consumers,   \* the consumers of the group, one per replica
  Messages,    \* what an entry may carry
  Broken,      \* those of them without a `payload' field that is JSON
  Count,       \* the COUNT of a read, which Redis applies to each stream
  MaxEntries,  \* bound: entries per stream
  FaultKinds,  \* what may go wrong in this instance
  MaxFaults    \* bound: how many faults a behaviour has

AllFaults ==
  { "read_reply_lost",  \* XREADGROUP is done, its reply is not received
    "ack_reply_lost",   \* XACK is done, its reply is not received
    "handler_failed",   \* the service cannot handle a message
    "crash" }           \* the process of a consumer stops and is restarted

ASSUME StreamGroupAssumption ==
  /\ Broken \subseteq Messages
  /\ Count \in Nat \ {0}
  /\ MaxEntries \in Nat
  /\ FaultKinds \subseteq AllFaults
  /\ MaxFaults \in Nat

NoGroup == -1

VARIABLES
  stream,   \* stream[s]: the messages of s; an entry id is a position in it
  last,     \* last[s]: the last-delivered-id of the group, or NoGroup
  start,    \* start[s]: history, where the group started, or NoGroup
  pending,  \* pending[c]: the entries delivered to c and not acknowledged
  inbox,    \* inbox[c]: the entries read_group returned to c, to be handled
  done,     \* done[c]: the entries c has handled and will acknowledge
  handled,  \* history: the entries a consumer has handled with success
  faults    \* the number of faults so far

consumer == <<inbox, done>>
vars == <<stream, last, start, pending, inbox, done, handled, faults>>

(* The entries of s with an id in low+1..high.                             *)
Entries(s, low, high) == {[stream |-> s, id |-> i] : i \in (low + 1)..high}

Entry == UNION {Entries(s, 0, Len(stream[s])) : s \in Streams}

Pending == UNION {pending[c] : c \in Consumers}

TypeOK ==
  /\ stream \in [Streams -> Seq(Messages)]
  /\ last \in [Streams -> Int]
  /\ start \in [Streams -> Int]
  /\ \A s \in Streams : /\ NoGroup <= start[s]
                        /\ start[s] <= last[s]
                        /\ last[s] <= Len(stream[s])
                        /\ start[s] = NoGroup <=> last[s] = NoGroup
  /\ pending \in [Consumers -> SUBSET Entry]
  /\ inbox \in [Consumers -> SUBSET Entry]
  /\ done \in [Consumers -> SUBSET Entry]
  /\ handled \in SUBSET Entry
  /\ faults \in 0..MaxFaults

Init ==
  /\ stream = [s \in Streams |-> <<>>]
  /\ last = [s \in Streams |-> NoGroup]
  /\ start = [s \in Streams |-> NoGroup]
  /\ pending = [c \in Consumers |-> {}]
  /\ inbox = [c \in Consumers |-> {}]
  /\ done = [c \in Consumers |-> {}]
  /\ handled = {}
  /\ faults = 0

Fault(kind) ==
  /\ kind \in FaultKinds
  /\ faults < MaxFaults
  /\ faults' = faults + 1

-----------------------------------------------------------------------------
(* Bus::publish, and whatever else writes to the stream: only another      *)
(* writer's entry can be broken.                                           *)
publish(s, m) ==
  /\ Len(stream[s]) < MaxEntries
  /\ stream' = [stream EXCEPT ![s] = Append(@, m)]
  /\ UNCHANGED <<last, start, pending, consumer, handled, faults>>

(* Mutant of ensure_group: the group starts at the id after the last one.  *)
ensure_group_next_id(s) ==
  /\ last[s] = NoGroup
  /\ last' = [last EXCEPT ![s] = Len(stream[s]) + 1]
  /\ start' = [start EXCEPT ![s] = Len(stream[s]) + 1]
  /\ UNCHANGED <<stream, pending, consumer, handled, faults>>

(* XGROUP CREATE s group $ MKSTREAM.  When the group exists Redis answers  *)
(* BUSYGROUP, which is Ok for the library, and nothing changes.            *)
ensure_group(s) ==
  /\ last[s] = NoGroup
  /\ last' = [last EXCEPT ![s] = Len(stream[s])]
  /\ start' = [start EXCEPT ![s] = Len(stream[s])]
  /\ UNCHANGED <<stream, pending, consumer, handled, faults>>

(* What XREADGROUP ... STREAMS s > delivers of s: its Count next entries.  *)
FreshCount(s) ==
  LET available == Len(stream[s]) - last[s]
  IN IF available < Count THEN available ELSE Count

Fresh(s) == Entries(s, last[s], last[s] + FreshCount(s))

AllFresh == UNION {Fresh(s) : s \in Streams}

(* Mutant of parse_stream_reply: a broken entry ends the parsing of its    *)
(* stream instead of being skipped.                                        *)
parse_stream_reply_stops(entries) ==
  {e \in entries : \A f \in entries :
     f.stream = e.stream /\ f.id <= e.id => stream[f.stream][f.id] \notin Broken}

(* The messages of a reply: an entry without a payload is left out.        *)
parse_stream_reply(entries) ==
  {e \in entries : stream[e.stream][e.id] \notin Broken}

(* Mutant of read_group: with NOACK, nothing becomes pending.              *)
read_group_noack(c) ==
  /\ inbox[c] = {}
  /\ \A s \in Streams : last[s] # NoGroup
  /\ AllFresh # {}
  /\ last' = [s \in Streams |-> last[s] + FreshCount(s)]
  /\ \/ /\ inbox' = [inbox EXCEPT ![c] = parse_stream_reply(AllFresh)]
        /\ UNCHANGED faults
     \/ Fault("read_reply_lost") /\ UNCHANGED inbox
  /\ UNCHANGED <<stream, start, pending, done, handled>>

(* Mutant of read_group: the ids are `0', the consumer's own pending       *)
(* entries, once it has some, instead of `>'.                              *)
read_group_own_pending(c) ==
  LET again == pending[c]
      reply == IF again = {} THEN AllFresh ELSE again
  IN /\ inbox[c] = {}
     /\ \A s \in Streams : last[s] # NoGroup
     /\ reply # {}
     /\ last' = IF again = {}
                THEN [s \in Streams |-> last[s] + FreshCount(s)]
                ELSE last
     /\ pending' = [pending EXCEPT ![c] = @ \cup reply]
     /\ inbox' = [inbox EXCEPT ![c] = parse_stream_reply(reply)]
     /\ UNCHANGED <<stream, start, done, handled, faults>>

(* Mutant of read_group: c reads only when nothing is pending for it.      *)
read_group_waits(c) ==
  /\ pending[c] = {}
  /\ \A s \in Streams : last[s] # NoGroup
  /\ AllFresh # {}
  /\ last' = [s \in Streams |-> last[s] + FreshCount(s)]
  /\ pending' = [pending EXCEPT ![c] = AllFresh]
  /\ inbox' = [inbox EXCEPT ![c] = parse_stream_reply(AllFresh)]
  /\ UNCHANGED <<stream, start, done, handled, faults>>

(* XREADGROUP delivers in Redis what is new in every stream at once.  It   *)
(* fails (NOGROUP) if the group is missing on one of the streams, and      *)
(* blocks or answers Nil if nothing is new: both change nothing.           *)
read_group(c) ==
  /\ inbox[c] = {}
  /\ \A s \in Streams : last[s] # NoGroup
  /\ AllFresh # {}
  /\ last' = [s \in Streams |-> last[s] + FreshCount(s)]
  /\ pending' = [pending EXCEPT ![c] = @ \cup AllFresh]
  /\ \/ /\ inbox' = [inbox EXCEPT ![c] = parse_stream_reply(AllFresh)]
        /\ UNCHANGED faults
     \/ Fault("read_reply_lost") /\ UNCHANGED inbox
  /\ UNCHANGED <<stream, start, done, handled>>

(* The service handles a message.  A failure is logged and the message is  *)
(* left pending.                                                           *)
Handle(c, e) ==
  /\ e \in inbox[c]
  /\ inbox' = [inbox EXCEPT ![c] = @ \ {e}]
  /\ \/ /\ handled' = handled \cup {e}
        /\ done' = [done EXCEPT ![c] = @ \cup {e}]
        /\ UNCHANGED faults
     \/ Fault("handler_failed") /\ UNCHANGED <<handled, done>>
  /\ UNCHANGED <<stream, last, start, pending>>

(* Mutant of ack: everything of the stream that is pending for c goes.     *)
ack_all_of_stream(c, s) ==
  LET ids == {e \in done[c] : e.stream = s}
  IN /\ ids # {}
     /\ pending' = [pending EXCEPT ![c] = {e \in @ : e.stream # s}]
     /\ done' = [done EXCEPT ![c] = @ \ ids]
     /\ UNCHANGED <<stream, last, start, inbox, handled, faults>>

(* XACK of what c has handled of stream s; without ids nothing is sent.    *)
(* A call that fails is repeated by the service: XACK is idempotent.       *)
ack(c, s) ==
  LET ids == {e \in done[c] : e.stream = s}
  IN /\ ids # {}
     /\ pending' = [d \in Consumers |-> pending[d] \ ids]
     /\ \/ done' = [done EXCEPT ![c] = @ \ ids] /\ UNCHANGED faults
        \/ Fault("ack_reply_lost") /\ UNCHANGED done
     /\ UNCHANGED <<stream, last, start, inbox, handled>>

(* The process of c is gone with what it held; its successor has its name. *)
Crash(c) ==
  /\ inbox[c] \cup done[c] # {}
  /\ Fault("crash")
  /\ inbox' = [inbox EXCEPT ![c] = {}]
  /\ done' = [done EXCEPT ![c] = {}]
  /\ UNCHANGED <<stream, last, start, pending, handled>>

ConsumerStep(c) ==
  \/ read_group(c)
  \/ \E e \in inbox[c] : Handle(c, e)
  \/ \E s \in Streams : ack(c, s)

Next ==
  \/ \E s \in Streams : ensure_group(s) \/ \E m \in Messages : publish(s, m)
  \/ \E c \in Consumers : ConsumerStep(c) \/ Crash(c)

Spec == Init /\ [][Next]_vars

(* Consumers loop for ever.  A consumer that has handled messages          *)
(* acknowledges them, even while new ones keep coming.                     *)
Fairness ==
  \A c \in Consumers :
    /\ WF_vars(ConsumerStep(c))
    /\ \A s \in Streams : WF_vars(ack(c, s))

FairSpec == Spec /\ Fairness

-----------------------------------------------------------------------------
(* What the group has been given: all that follows its start.              *)
Delivered ==
  UNION {Entries(s, start[s], last[s]) : s \in {t \in Streams : start[t] # NoGroup}}

(* What the consumers' processes hold.                                     *)
Held == UNION {inbox[c] \cup done[c] : c \in Consumers}

(* Nothing is lost silently: an entry the group has been given is pending  *)
(* until a consumer has handled it, through crashes, lost replies and      *)
(* repeated ensure_group calls.                                            *)
NothingLost == Delivered \ Pending \subseteq handled

(* An entry is handled once at most: never by two consumers, never again   *)
(* (crates/bus/tests/bus_flow.rs:43), whatever fails.                      *)
HandledOnce ==
  \A c \in Consumers :
    /\ inbox[c] \cap handled = {}
    /\ \A d \in Consumers \ {c} : inbox[c] \cap inbox[d] = {}

(* Pending entries that no process holds: broken ones, failed ones, and    *)
(* those of crashed consumers and of lost replies.                         *)
Orphans == Pending \ Held

(* The library has no XAUTOCLAIM (lib.rs:6): an orphan stays one for ever, *)
(* the restart of its consumer included.                                   *)
OrphansStay == [][Orphans \subseteq Orphans']_vars

Subscribed == \A s \in Streams : last[s] # NoGroup

Published(e) == e.id <= Len(stream[e.stream]) /\ e.id > start[e.stream]

(* Once the group exists on every stream, each later entry is handled and  *)
(* acknowledged or becomes an orphan: none waits in Redis or in a process. *)
EventuallySettled ==
  \A s \in Streams, i \in 1..MaxEntries :
    LET e == [stream |-> s, id |-> i]
    IN Subscribed /\ Published(e) ~> e \in Delivered \ Held

(* Unless there are faults each of these entries is handled if it is not   *)
(* broken: a broken one does not take the others of its reply along.       *)
EventuallyHandled ==
  \A s \in Streams, i \in 1..MaxEntries :
    LET e == [stream |-> s, id |-> i]
    IN Subscribed /\ Published(e) /\ stream[s][i] \notin Broken
         ~> e \in handled \ Pending \/ faults > 0

=============================================================================
