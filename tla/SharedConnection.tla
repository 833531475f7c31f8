-------------------------- MODULE SharedConnection --------------------------
(***************************************************************************)
(* The connection of a Bus (crates/bus/src/client.rs).  Every clone of a   *)
(* Bus, and every call, uses one multiplexed ConnectionManager: requests go*)
(* out in the order of the calls and Redis answers them in that order.  A  *)
(* read_group that blocks therefore holds back every call made after it,   *)
(* whichever task of the process makes it.                                 *)
(*                                                                         *)
(* One unit of time is any fixed duration; a request that need not block is*)
(* answered before time passes.                                            *)
(*                                                                         *)
(* When the connection breaks, the calls that wait return an error and the *)
(* manager opens another.  Redis may learn of it later: until then it goes *)
(* on with the requests it has got on the old one, and answers nobody.     *)
(***************************************************************************)
EXTENDS Integers, Sequences, FiniteSets

CONSTANTS
  Readers,     \* the tasks that call read_group
  Callers,     \* those that call publish, ack or ping, which do not block
  Block,       \* the block_ms of a read, in units of time; 0: without limit
  MaxUnread,   \* bound: unread entries beyond it make no difference, since
               \*   a read takes them all
  MaxWait,     \* bound: the waiting time is not counted beyond it
  MaxBreaks    \* bound: how often a connection breaks

Tasks == Readers \cup Callers

ASSUME SharedConnectionAssumption ==
  /\ IsFiniteSet(Tasks)
  /\ Readers \cap Callers = {}
  /\ Block \in Nat
  /\ MaxUnread \in Nat \ {0}
  /\ MaxWait \in Nat /\ MaxBreaks \in Nat

Idle == -1

(* The connections, numbered in the order they are opened.                 *)
Connections == 0..MaxBreaks

VARIABLES
  current,  \* the connection in use: as many have broken
  queue,    \* queue[c]: the requests Redis has not answered on connection c,
            \*   oldest first
  waited,   \* waited[t]: how long t has been waiting for its answer, or Idle
  blocked,  \* blocked[c]: how long the oldest request of c has been blocking
  unread,   \* the entries of the stream not delivered to the group
  missed    \* history: how many answers with entries reached no one

vars == <<current, queue, waited, blocked, unread, missed>>

Init ==
  /\ current = 0
  /\ queue = [c \in Connections |-> <<>>]
  /\ waited = [t \in Tasks |-> Idle]
  /\ blocked = [c \in Connections |-> 0]
  /\ unread = 0
  /\ missed = 0

NoTimeout == -1

(* Mutant of response_timeout: the 500 ms default of redis is kept.        *)
response_timeout_default == 1

(* Bus::connect turns the response timeout off.                            *)
response_timeout == NoTimeout

(* Mutants of block_arg: a larger unit, and no time at all.                *)
block_arg_larger == 2 * Block
block_arg_zero == 0

(* The BLOCK argument that read_group sends.                               *)
block_arg == Block

AtMost(x, bound) == IF x <= bound THEN x ELSE bound

-----------------------------------------------------------------------------
(* A task calls the library: its request goes out last.                    *)
Call(t) ==
  /\ waited[t] = Idle
  /\ queue' = [queue EXCEPT ![current] = Append(@, t)]
  /\ waited' = [waited EXCEPT ![t] = 0]
  /\ UNCHANGED <<current, blocked, unread, missed>>

(* The oldest request of a connection is answered, and its task goes on.   *)
Answer(c, t) ==
  /\ queue[c] # <<>>
  /\ t = Head(queue[c])
  /\ queue' = [queue EXCEPT ![c] = Tail(@)]
  /\ waited' = IF c = current THEN [waited EXCEPT ![t] = Idle] ELSE waited
  /\ blocked' = [blocked EXCEPT ![c] = 0]
  /\ UNCHANGED current

(* publish, ack and ping; only publish adds an entry.                      *)
AnswerCaller(c, t) ==
  /\ t \in Callers
  /\ Answer(c, t)
  /\ unread' \in {unread, AtMost(unread + 1, MaxUnread)}
  /\ UNCHANGED missed

(* read_group with entries to deliver: they are gone from the stream for   *)
(* the group even if the task has stopped waiting for them.                *)
AnswerEntries(c, t) ==
  /\ t \in Readers
  /\ unread > 0
  /\ Answer(c, t)
  /\ unread' = 0
  /\ missed' = IF c = current /\ waited[t] # Idle THEN missed ELSE missed + 1

(* read_group with nothing to deliver is answered with Nil in the end.     *)
AnswerNil(c, t) ==
  /\ t \in Readers
  /\ unread = 0
  /\ block_arg # 0
  /\ blocked[c] >= block_arg
  /\ Answer(c, t)
  /\ UNCHANGED <<unread, missed>>

Serve ==
  \E c \in Connections, t \in Tasks :
    AnswerCaller(c, t) \/ AnswerEntries(c, t) \/ AnswerNil(c, t)

(* Another process publishes.                                              *)
PublishElsewhere ==
  /\ unread < MaxUnread
  /\ unread' = unread + 1
  /\ UNCHANGED <<current, queue, waited, blocked, missed>>

(* The connection breaks: every call that waits returns an error, and the  *)
(* next ones go out on a new connection.  Redis has got the first requests *)
(* of the old one.                                                         *)
Break ==
  /\ current < MaxBreaks
  /\ current' = current + 1
  /\ \E n \in 0..Len(queue[current]) :
       /\ queue' = [queue EXCEPT ![current] = SubSeq(@, 1, n)]
       /\ blocked' = [blocked EXCEPT ![current] = IF n = 0 THEN 0 ELSE @]
  /\ waited' = [t \in Tasks |-> Idle]
  /\ UNCHANGED <<unread, missed>>

(* Redis learns that a connection is broken.                               *)
Close(c) ==
  /\ c # current /\ queue[c] # <<>>
  /\ queue' = [queue EXCEPT ![c] = <<>>]
  /\ blocked' = [blocked EXCEPT ![c] = 0]
  /\ UNCHANGED <<current, waited, unread, missed>>

Blocking(c) ==
  /\ queue[c] # <<>>
  /\ Head(queue[c]) \in Readers
  /\ unread = 0
  /\ block_arg # 0 => blocked[c] < block_arg

(* Time passes, unless Redis has a request to answer now.  A response      *)
(* timeout makes tasks stop waiting; their requests stay where they are.   *)
Tick ==
  /\ \A c \in Connections : queue[c] = <<>> \/ Blocking(c)
  /\ waited' = [t \in Tasks |->
       IF \/ waited[t] = Idle
          \/ response_timeout # NoTimeout /\ waited[t] >= response_timeout
       THEN Idle
       ELSE AtMost(waited[t] + 1, MaxWait)]
  /\ blocked' = [c \in Connections |->
       IF Blocking(c) THEN AtMost(blocked[c] + 1, MaxWait) ELSE 0]
  /\ UNCHANGED <<current, queue, unread, missed>>

Next ==
  \/ \E t \in Tasks : Call(t)
  \/ Serve
  \/ PublishElsewhere
  \/ Break
  \/ \E c \in Connections : Close(c)
  \/ Tick

Spec == Init /\ [][Next]_vars

(* Redis answers what it can and time passes.  Nobody has to call or to    *)
(* publish, and no connection has to break.                                *)
FairSpec == Spec /\ WF_vars(Serve) /\ WF_vars(Tick)

-----------------------------------------------------------------------------
(* Head-of-line blocking is bounded: publish, ack and ping wait for the    *)
(* reads that other tasks of the process made before, one each, and for    *)
(* nothing else.                                                           *)
DelayBounded ==
  \A t \in Callers : waited[t] <= Cardinality(Readers) * Block

(* What Redis delivers is received: an answer with entries finds its task  *)
(* waiting, however long it blocked (client.rs:20-21, tests/bus_flow.rs:51)*)
(* - but for the reads that were under way when a connection broke, which  *)
(* take entries from the group for nobody, once each.                      *)
NothingMissed == missed <= current * Cardinality(Readers)

(* Every call returns, the blocking ones and those queued behind them.     *)
EveryCallReturns == \A t \in Tasks : waited[t] # Idle ~> waited[t] = Idle

=============================================================================
