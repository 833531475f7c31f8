-------------------------- MODULE StreamGroupProofs --------------------------
(***************************************************************************)
(* What holds of StreamGroup for any streams, consumers, messages, batch   *)
(* sizes and faults.                                                       *)
(***************************************************************************)
EXTENDS StreamGroup, TLAPS

(* The inductive invariant.  Custody: what a process still has to handle is*)
(* pending for it, and what it will acknowledge has been handled.  Apart:  *)
(* no entry is pending for two consumers.  Known: only delivered entries   *)
(* are pending or handled, so that those of a read are new to everybody.   *)
Custody ==
  \A c \in Consumers : inbox[c] \subseteq pending[c] /\ done[c] \subseteq handled

Apart ==
  \A c, d \in Consumers : c # d => pending[c] \cap pending[d] = {}

Known ==
  /\ \A c \in Consumers : pending[c] \subseteq Delivered
  /\ handled \subseteq Delivered

Unhandled == \A c \in Consumers : inbox[c] \cap handled = {}

Inv == TypeOK /\ Custody /\ Apart /\ Known /\ Unhandled /\ NothingLost

LEMMA PendingDef ==
  ASSUME NEW e
  PROVE  e \in Pending <=> \E c \in Consumers : e \in pending[c]
BY DEF Pending

(* Membership in the sets of entries the model is built from.              *)
LEMMA EntriesDef ==
  ASSUME NEW s, NEW low, NEW high, NEW e
  PROVE  e \in Entries(s, low, high)
           <=> \E i \in (low + 1)..high : e = [stream |-> s, id |-> i]
BY DEF Entries

LEMMA DeliveredDef ==
  ASSUME NEW e
  PROVE  e \in Delivered <=>
           \E s \in Streams : /\ start[s] # NoGroup
                              /\ \E i \in (start[s] + 1)..last[s] :
                                    e = [stream |-> s, id |-> i]
BY EntriesDef DEF Delivered

LEMMA EntryDef ==
  ASSUME NEW e
  PROVE  e \in Entry <=>
           \E s \in Streams : \E i \in 1..Len(stream[s]) :
             e = [stream |-> s, id |-> i]
BY EntriesDef DEF Entry

LEMMA HandledOnceFollows == Inv => HandledOnce
BY DEF Inv, Custody, Apart, Unhandled, HandledOnce

LEMMA InitInv == Init => Inv
<1> SUFFICES ASSUME Init
             PROVE  Inv
  OBVIOUS
<1>1. TypeOK
  BY StreamGroupAssumption DEF Init, TypeOK, NoGroup
<1>2. Delivered = {}
  BY DEF Init, Delivered
<1> QED
  BY <1>1, <1>2
  DEF Init, Inv, Custody, Apart, Known, Unhandled, NothingLost, Pending

(* A read extends the cursor of each stream, within the stream, by entries *)
(* that nobody has been given.                                             *)
LEMMA ReadIsFresh ==
  ASSUME TypeOK, \A s \in Streams : last[s] # NoGroup,
         last' = [s \in Streams |-> last[s] + FreshCount(s)],
         UNCHANGED <<stream, start>>
  PROVE  /\ \A s \in Streams : /\ FreshCount(s) \in Nat
                               /\ last[s] + FreshCount(s) <= Len(stream[s])
         /\ AllFresh \subseteq Entry
         /\ AllFresh \cap Delivered = {}
         /\ Delivered' = Delivered \cup AllFresh
<1>1. ASSUME NEW s \in Streams
      PROVE  /\ FreshCount(s) \in Nat
             /\ last[s] + FreshCount(s) <= Len(stream[s])
             /\ last[s] \in Nat /\ start[s] \in Nat /\ start[s] <= last[s]
             /\ Len(stream[s]) \in Nat
             /\ last'[s] = last[s] + FreshCount(s)
             /\ start[s] # NoGroup
  BY StreamGroupAssumption DEF TypeOK, FreshCount, NoGroup
<1>2. ASSUME NEW e
      PROVE  e \in AllFresh <=>
               \E s \in Streams : \E i \in (last[s] + 1)..(last[s] + FreshCount(s)) :
                 e = [stream |-> s, id |-> i]
  BY EntriesDef DEF AllFresh, Fresh
<1>3. ASSUME NEW e \in AllFresh
      PROVE  e \in Entry /\ e \notin Delivered
  <2>0. PICK s \in Streams :
          \E i \in (last[s] + 1)..(last[s] + FreshCount(s)) :
            e = [stream |-> s, id |-> i]
    BY <1>2
  <2>1. PICK i \in (last[s] + 1)..(last[s] + FreshCount(s)) :
          e = [stream |-> s, id |-> i]
    BY <2>0
  <2>2. i \in 1..Len(stream[s])
    BY <1>1
  <2>3. e \in Entry
    BY <2>1, <2>2, EntryDef
  <2>4. ASSUME NEW t \in Streams, NEW j \in (start[t] + 1)..last[t],
               e = [stream |-> t, id |-> j]
        PROVE  FALSE
    <3>1. t = s /\ j = i
      BY <2>1, <2>4
    <3> QED
      BY <1>1, <3>1
  <2> QED
    BY <2>3, <2>4, DeliveredDef
<1>4. ASSUME NEW e
      PROVE  e \in Delivered' <=>
               \E s \in Streams : \E i \in (start[s] + 1)..(last[s] + FreshCount(s)) :
                 e = [stream |-> s, id |-> i]
  <2>1. \A s \in Streams : Entries(s, start[s], last[s])'
          = Entries(s, start[s], last[s] + FreshCount(s))
    BY <1>1 DEF Entries
  <2>2. Delivered' = UNION {Entries(s, start[s], last[s] + FreshCount(s)) :
                              s \in Streams}
    <3>1. {t \in Streams : start[t] # NoGroup}' = Streams
      BY <1>1
    <3> QED
      BY <2>1, <3>1 DEF Delivered
  <2> QED
    BY <2>2, EntriesDef
<1>5. \A s \in Streams : \A i :
        i \in (start[s] + 1)..(last[s] + FreshCount(s))
          <=> \/ i \in (start[s] + 1)..last[s]
              \/ i \in (last[s] + 1)..(last[s] + FreshCount(s))
  BY <1>1
<1>6. ASSUME NEW e
      PROVE  e \in Delivered' <=> e \in Delivered \/ e \in AllFresh
  BY <1>1, <1>2, <1>4, <1>5, DeliveredDef
<1> QED
  BY <1>1, <1>3, <1>6

-----------------------------------------------------------------------------
LEMMA FaultType ==
  ASSUME TypeOK, NEW kind, Fault(kind)
  PROVE  faults' \in 0..MaxFaults
BY StreamGroupAssumption DEF TypeOK, Fault

(* What the steps that leave the streams and the group's position alone    *)
(* leave alone besides.                                                    *)
LEMMA SamePosition ==
  ASSUME UNCHANGED <<stream, last, start>>
  PROVE  Entry' = Entry /\ Delivered' = Delivered
BY DEF Entry, Delivered, Entries

LEMMA PublishInv ==
  ASSUME Inv, NEW s \in Streams, NEW m \in Messages, publish(s, m)
  PROVE  Inv'
<1>0. TypeOK
  BY DEF Inv
<1>1. /\ UNCHANGED <<last, start, pending, inbox, done, handled, faults>>
      /\ stream' = [stream EXCEPT ![s] = Append(@, m)]
  BY DEF publish, consumer
<1>2. ASSUME NEW t \in Streams
      PROVE  /\ stream'[t] \in Seq(Messages)
             /\ Len(stream[t]) \in Nat /\ Len(stream'[t]) \in Nat
             /\ Len(stream[t]) <= Len(stream'[t])
  <2>1. stream[t] \in Seq(Messages)
    BY <1>0 DEF TypeOK
  <2>2. stream'[t] = IF t = s THEN Append(stream[t], m) ELSE stream[t]
    BY <1>0, <1>1 DEF TypeOK
  <2> QED
    BY <2>1, <2>2
<1>3. Entry \subseteq Entry'
  <2> SUFFICES ASSUME NEW e \in Entry
               PROVE  e \in Entry'
    OBVIOUS
  <2>1. PICK t \in Streams : \E i \in 1..Len(stream[t]) :
               e = [stream |-> t, id |-> i]
    BY EntryDef
  <2>2. \E i \in 1..Len(stream'[t]) : e = [stream |-> t, id |-> i]
    BY <1>2, <2>1
  <2> QED
    BY <2>2 DEF Entry, Entries
<1>4. stream' \in [Streams -> Seq(Messages)]
  <2>1. DOMAIN stream' = Streams /\ stream' = [t \in Streams |-> stream'[t]]
    BY <1>0, <1>1 DEF TypeOK
  <2> QED
    BY <1>2, <2>1
<1>5. TypeOK'
  BY <1>0, <1>1, <1>2, <1>3, <1>4 DEF TypeOK
<1>6. Delivered' = Delivered /\ Pending' = Pending
  BY <1>1 DEF Delivered, Pending, Entries
<1> QED
  BY <1>1, <1>5, <1>6
  DEF Inv, Custody, Apart, Known, Unhandled, NothingLost

LEMMA EnsureGroupInv ==
  ASSUME Inv, NEW s \in Streams, ensure_group(s)
  PROVE  Inv'
<1>0. TypeOK
  BY DEF Inv
<1>1. /\ UNCHANGED <<stream, pending, inbox, done, handled, faults>>
      /\ \A t \in Streams :
           /\ last'[t] = IF t = s THEN Len(stream[s]) ELSE last[t]
           /\ start'[t] = IF t = s THEN Len(stream[s]) ELSE start[t]
      /\ Len(stream[s]) \in Nat
      /\ last[s] = NoGroup /\ start[s] = NoGroup
  BY <1>0 DEF ensure_group, consumer, TypeOK
<1>2. TypeOK'
  <2>1. Entry' = Entry
    BY <1>1 DEF Entry, Entries
  <2>2. last' \in [Streams -> Int] /\ start' \in [Streams -> Int]
    BY <1>0, <1>1 DEF ensure_group, TypeOK
  <2> QED
    BY <1>0, <1>1, <2>1, <2>2 DEF TypeOK, NoGroup
<1>3. Delivered' = Delivered
  <2>1. ASSUME NEW e
        PROVE  e \in Delivered' <=>
                 \E t \in Streams : /\ start'[t] # NoGroup
                                    /\ \E i \in (start'[t] + 1)..last'[t] :
                                          e = [stream |-> t, id |-> i]
    BY DEF Delivered, Entries
  <2>2. \A i : i \notin (start'[s] + 1)..last'[s]
    BY <1>1
  <2>3. ASSUME NEW e
        PROVE  e \in Delivered' <=> e \in Delivered
    BY <1>1, <2>1, <2>2, DeliveredDef
  <2> QED
    BY <2>3
<1> QED
  BY <1>1, <1>2, <1>3
  DEF Inv, Custody, Apart, Known, Unhandled, NothingLost, Pending

LEMMA ReadInv ==
  ASSUME Inv, NEW c \in Consumers, read_group(c)
  PROVE  Inv'
<1>0. TypeOK
  BY DEF Inv
<1>1. /\ \A s \in Streams : last[s] # NoGroup
      /\ last' = [s \in Streams |-> last[s] + FreshCount(s)]
      /\ UNCHANGED <<stream, start, done, handled>>
      /\ \A d \in Consumers :
           pending'[d] = IF d = c THEN pending[c] \cup AllFresh ELSE pending[d]
      /\ \A d \in Consumers :
           /\ d # c => inbox'[d] = inbox[d]
           /\ d = c => inbox'[d] = parse_stream_reply(AllFresh) \/ inbox'[d] = inbox[d]
  BY <1>0 DEF read_group, TypeOK
<1>2. /\ \A s \in Streams : /\ FreshCount(s) \in Nat
                             /\ last[s] + FreshCount(s) <= Len(stream[s])
      /\ AllFresh \subseteq Entry
      /\ AllFresh \cap Delivered = {}
      /\ Delivered' = Delivered \cup AllFresh
  BY <1>0, <1>1, ReadIsFresh
<1>3. parse_stream_reply(AllFresh) \subseteq AllFresh
  BY DEF parse_stream_reply
<1>4. TypeOK'
  <2>1. Entry' = Entry
    BY <1>1 DEF Entry, Entries
  <2>2. last' \in [Streams -> Int]
    BY <1>0, <1>1, <1>2 DEF TypeOK
  <2>3. \A s \in Streams : /\ NoGroup <= start'[s]
                           /\ start'[s] <= last'[s]
                           /\ last'[s] <= Len(stream'[s])
                           /\ start'[s] = NoGroup <=> last'[s] = NoGroup
    <3> SUFFICES ASSUME NEW s \in Streams
                 PROVE  /\ NoGroup <= start'[s]
                        /\ start'[s] <= last'[s]
                        /\ last'[s] <= Len(stream'[s])
                        /\ start'[s] = NoGroup <=> last'[s] = NoGroup
      OBVIOUS
    <3>1. last'[s] = last[s] + FreshCount(s) /\ start'[s] = start[s]
          /\ stream'[s] = stream[s]
      BY <1>1
    <3> QED
      BY <1>0, <1>1, <1>2, <3>1 DEF TypeOK, NoGroup
  <2>4. /\ pending' \in [Consumers -> SUBSET Entry]
        /\ inbox' \in [Consumers -> SUBSET Entry]
    <3>1. pending \in [Consumers -> SUBSET Entry] /\ inbox \in [Consumers -> SUBSET Entry]
      BY <1>0 DEF TypeOK
    <3>2. pending' = [pending EXCEPT ![c] = pending[c] \cup AllFresh]
      BY DEF read_group
    <3>3. \/ inbox' = [inbox EXCEPT ![c] = parse_stream_reply(AllFresh)]
          \/ inbox' = inbox
      BY DEF read_group
    <3>4. parse_stream_reply(AllFresh) \subseteq Entry
      BY <1>2, <1>3
    <3>5. pending' \in [Consumers -> SUBSET Entry]
      BY <1>2, <3>1, <3>2
    <3>6. inbox' \in [Consumers -> SUBSET Entry]
      BY <3>1, <3>3, <3>4
    <3> QED
      BY <3>5, <3>6
  <2>5. faults' \in 0..MaxFaults
    BY <1>0, FaultType DEF read_group, TypeOK
  <2> QED
    BY <1>0, <1>1, <2>1, <2>2, <2>3, <2>4, <2>5 DEF TypeOK
<1>5. Pending' = Pending \cup AllFresh
  <2>1. ASSUME NEW e
        PROVE  e \in Pending' <=> e \in Pending \/ e \in AllFresh
    BY <1>1 DEF Pending
  <2> QED
    BY <2>1
<1>6. Custody' /\ Apart' /\ Known' /\ Unhandled'
  BY <1>1, <1>2, <1>3 DEF Inv, Custody, Apart, Known, Unhandled
<1>7. NothingLost'
  BY <1>1, <1>2, <1>5 DEF Inv, NothingLost
<1> QED
  BY <1>4, <1>6, <1>7 DEF Inv

LEMMA HandleInv ==
  ASSUME Inv, NEW c \in Consumers, NEW e \in inbox[c], Handle(c, e)
  PROVE  Inv'
<1>0. TypeOK
  BY DEF Inv
<1>1. /\ UNCHANGED <<stream, last, start, pending>>
      /\ \A d \in Consumers :
           inbox'[d] = IF d = c THEN inbox[c] \ {e} ELSE inbox[d]
      /\ \/ /\ handled' = handled \cup {e}
            /\ \A d \in Consumers :
                 done'[d] = IF d = c THEN done[c] \cup {e} ELSE done[d]
         \/ UNCHANGED <<handled, done>>
  BY <1>0 DEF Handle, TypeOK
<1>2. e \in pending[c] /\ e \in Delivered /\ e \in Entry
  BY <1>0 DEF Inv, Custody, Known, TypeOK
<1>3. Entry' = Entry /\ Delivered' = Delivered /\ Pending' = Pending
  BY <1>1, SamePosition DEF Pending
<1>4. TypeOK'
  <2>1. /\ inbox' \in [Consumers -> SUBSET Entry]
        /\ done' \in [Consumers -> SUBSET Entry]
        /\ handled' \in SUBSET Entry
    <3>1. /\ inbox \in [Consumers -> SUBSET Entry]
          /\ done \in [Consumers -> SUBSET Entry]
          /\ handled \in SUBSET Entry
      BY <1>0 DEF TypeOK
    <3>2. inbox' = [inbox EXCEPT ![c] = inbox[c] \ {e}]
      BY DEF Handle
    <3>3. \/ /\ handled' = handled \cup {e}
             /\ done' = [done EXCEPT ![c] = done[c] \cup {e}]
          \/ UNCHANGED <<handled, done>>
      BY DEF Handle
    <3>4. inbox' \in [Consumers -> SUBSET Entry]
      BY <3>1, <3>2
    <3>5. done' \in [Consumers -> SUBSET Entry] /\ handled' \in SUBSET Entry
      BY <1>2, <3>1, <3>3
    <3> QED
      BY <3>4, <3>5
  <2>2. faults' \in 0..MaxFaults
    BY <1>0, FaultType DEF Handle, TypeOK
  <2> QED
    BY <1>0, <1>1, <1>3, <2>1, <2>2 DEF TypeOK
<1>5. Custody' /\ Apart' /\ Known' /\ NothingLost'
  BY <1>1, <1>2, <1>3 DEF Inv, Custody, Apart, Known, NothingLost
<1>6. Unhandled'
  <2>1. \A d \in Consumers \ {c} : e \notin inbox[d]
    BY <1>2 DEF Inv, Custody, Apart
  <2> QED
    BY <1>1, <2>1 DEF Inv, Unhandled
<1> QED
  BY <1>4, <1>5, <1>6 DEF Inv

LEMMA AckInv ==
  ASSUME Inv, NEW c \in Consumers, NEW s \in Streams, ack(c, s)
  PROVE  Inv'
<1> DEFINE ids == {e \in done[c] : e.stream = s}
<1>0. TypeOK
  BY DEF Inv
<1>1. /\ UNCHANGED <<stream, last, start, inbox, handled>>
      /\ \A d \in Consumers : pending'[d] = pending[d] \ ids
      /\ \A d \in Consumers : done'[d] \subseteq done[d]
      /\ pending' \in [Consumers -> SUBSET Entry]
      /\ done' \in [Consumers -> SUBSET Entry]
  BY <1>0 DEF ack, TypeOK
<1>2. ids \subseteq handled
  BY DEF Inv, Custody
<1>3. Entry' = Entry /\ Delivered' = Delivered
  BY <1>1, SamePosition
<1>4. faults' \in 0..MaxFaults
  BY <1>0, FaultType DEF ack, TypeOK
<1>5. TypeOK'
  BY <1>0, <1>1, <1>3, <1>4 DEF TypeOK
<1>6. Pending \subseteq Pending' \cup ids
  BY <1>1 DEF Pending
<1> HIDE DEF ids
<1>7. NothingLost'
  BY <1>1, <1>2, <1>3, <1>6 DEF Inv, NothingLost
<1>8. Custody' /\ Apart' /\ Known' /\ Unhandled'
  BY <1>1, <1>2, <1>3 DEF Inv, Custody, Apart, Known, Unhandled
<1> QED
  BY <1>5, <1>7, <1>8 DEF Inv

LEMMA CrashInv ==
  ASSUME Inv, NEW c \in Consumers, Crash(c)
  PROVE  Inv'
<1>0. TypeOK
  BY DEF Inv
<1>1. /\ UNCHANGED <<stream, last, start, pending, handled>>
      /\ \A d \in Consumers : /\ inbox'[d] \subseteq inbox[d]
                               /\ done'[d] \subseteq done[d]
      /\ inbox' \in [Consumers -> SUBSET Entry]
      /\ done' \in [Consumers -> SUBSET Entry]
  BY <1>0 DEF Crash, TypeOK
<1>2. Entry' = Entry /\ Delivered' = Delivered /\ Pending' = Pending
  BY <1>1, SamePosition DEF Pending
<1>3. faults' \in 0..MaxFaults
  BY <1>0, FaultType DEF Crash
<1>4. TypeOK'
  BY <1>0, <1>1, <1>2, <1>3 DEF TypeOK
<1> QED
  BY <1>1, <1>2, <1>4
  DEF Inv, Custody, Apart, Known, Unhandled, NothingLost

LEMMA NextInv == Inv /\ [Next]_vars => Inv'
<1>1. ASSUME Inv, UNCHANGED vars
      PROVE  Inv'
  <2>1. UNCHANGED <<stream, last, start, pending, inbox, done, handled, faults>>
    BY <1>1 DEF vars
  <2>2. Entry' = Entry /\ Delivered' = Delivered /\ Pending' = Pending
    BY <2>1, SamePosition DEF Pending
  <2> QED
    BY <1>1, <2>1, <2>2
    DEF Inv, TypeOK, Custody, Apart, Known, Unhandled, NothingLost
<1> QED
  BY <1>1, PublishInv, EnsureGroupInv, ReadInv, HandleInv, AckInv, CrashInv
  DEF Next, ConsumerStep

LEMMA SpecInv == Spec => []Inv
<1> QED
  BY InitInv, NextInv, PTL DEF Spec

(* Type correctness of the group, the bounds of its position included.     *)
THEOREM TypeCorrect == Spec => []TypeOK
<1>1. Inv => TypeOK
  BY DEF Inv
<1> QED
  BY <1>1, SpecInv, PTL

(* An entry the group has been given is pending until it has been handled, *)
(* whatever crashes and whichever replies are lost.                        *)
THEOREM NoSilentLoss == Spec => []NothingLost
<1>1. Inv => NothingLost
  BY DEF Inv
<1> QED
  BY <1>1, SpecInv, PTL

(* No entry is handled twice, by however many consumers.                   *)
THEOREM AtMostOnce == Spec => []HandledOnce
<1> QED
  BY HandledOnceFollows, SpecInv, PTL

-----------------------------------------------------------------------------
(* Nothing the library or a service does brings an orphan back.            *)
THEOREM OrphansForGood == Spec => OrphansStay
<1> DEFINE Stay == Orphans \subseteq Orphans'
<1>1. Inv /\ [Next]_vars => [Stay]_vars
  <2> SUFFICES ASSUME Inv, Next, NEW o, o \in Pending, o \notin Held
               PROVE  o \in Pending' /\ o \notin Held'
    BY DEF Orphans
  <2>0. TypeOK
    BY DEF Inv
  <2>1. \A c \in Consumers : o \notin inbox[c] /\ o \notin done[c]
    BY DEF Held
  <2>2. ASSUME \A c \in Consumers : pending[c] \subseteq pending'[c]
        PROVE  o \in Pending'
    BY <2>2 DEF Pending
  <2>3. ASSUME \A c \in Consumers : o \notin inbox'[c] /\ o \notin done'[c]
        PROVE  o \notin Held'
    BY <2>3 DEF Held
  <2>4. ASSUME NEW s \in Streams,
               ensure_group(s) \/ \E m \in Messages : publish(s, m)
        PROVE  o \in Pending' /\ o \notin Held'
    BY <2>1, <2>2, <2>3, <2>4 DEF ensure_group, publish, consumer
  <2>5. ASSUME NEW c \in Consumers, read_group(c)
        PROVE  o \in Pending' /\ o \notin Held'
    <3>1. /\ \A s \in Streams : last[s] # NoGroup
          /\ last' = [s \in Streams |-> last[s] + FreshCount(s)]
          /\ UNCHANGED <<stream, start>>
      BY <2>5 DEF read_group
    <3>2. AllFresh \cap Delivered = {}
      BY <2>0, <3>1, ReadIsFresh
    <3>3. o \in Delivered
      BY DEF Inv, Known, Pending
    <3>4. o \notin parse_stream_reply(AllFresh)
      BY <3>2, <3>3 DEF parse_stream_reply
    <3>5. \A d \in Consumers : /\ pending[d] \subseteq pending'[d]
                               /\ o \notin inbox'[d] /\ o \notin done'[d]
      BY <2>0, <2>1, <2>5, <3>4 DEF read_group, TypeOK
    <3> QED
      BY <2>2, <2>3, <3>5
  <2>6. ASSUME NEW c \in Consumers, NEW e \in inbox[c], Handle(c, e)
        PROVE  o \in Pending' /\ o \notin Held'
    BY <2>0, <2>1, <2>2, <2>3, <2>6 DEF Handle, TypeOK
  <2>7. ASSUME NEW c \in Consumers, NEW s \in Streams, ack(c, s)
        PROVE  o \in Pending' /\ o \notin Held'
    <3>1. \A d \in Consumers : o \notin inbox'[d] /\ o \notin done'[d]
      BY <2>0, <2>1, <2>7 DEF ack, TypeOK
    <3>2. \A d \in Consumers : o \in pending[d] => o \in pending'[d]
      BY <2>1, <2>7 DEF ack
    <3>3. o \in Pending'
      BY <3>2 DEF Pending
    <3> QED
      BY <2>3, <3>1, <3>3
  <2>8. ASSUME NEW c \in Consumers, Crash(c)
        PROVE  o \in Pending' /\ o \notin Held'
    BY <2>0, <2>1, <2>2, <2>3, <2>8 DEF Crash, TypeOK
  <2> QED
    BY <2>4, <2>5, <2>6, <2>7, <2>8 DEF Next, ConsumerStep
<1> QED
  BY <1>1, SpecInv, PTL DEF Spec, OrphansStay

=============================================================================
