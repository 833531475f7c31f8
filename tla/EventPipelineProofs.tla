------------------------- MODULE EventPipelineProofs -------------------------
(***************************************************************************)
(* What holds of EventPipeline for any events, drainers, consumers, batch  *)
(* sizes and faults.  The theorems about its parts are taken over from     *)
(* OutboxProofs and StreamGroupProofs, once each part is shown to behave in*)
(* the whole as its own module says.                                       *)
(***************************************************************************)
EXTENDS EventPipeline, FiniteSetTheorems, TLAPS

(* The parts with their theorems.  The history variables of OutboxHistory  *)
(* have no part in those that are used here.                               *)
OP == INSTANCE OutboxProofs WITH
  FaultKinds <- DrainFaults, MaxFaults <- MaxDrainFaults, faults <- drainFaults,
  failed <- 0, since <- 0, owed <- 0, visible <- 0

GP == INSTANCE StreamGroupProofs WITH
  Streams <- {TheStream}, Messages <- Events, Broken <- {},
  MaxEntries <- Cardinality(Events) * (Cardinality(Drainers) + MaxDrainFaults),
  FaultKinds <- GroupFaults, MaxFaults <- MaxGroupFaults,
  stream <- [s \in {TheStream} |-> log], faults <- groupFaults

(* What the parts know as finite and as a number of elements is that.      *)
LEMMA SameCounts ==
  /\ \A S : OP!Cardinality(S) = Cardinality(S)
  /\ \A S : O!Cardinality(S) = Cardinality(S)
  /\ \A S : OP!IsFiniteSet(S) <=> IsFiniteSet(S)
<1>1. ASSUME NEW S
      PROVE  OP!Cardinality(S) = Cardinality(S)
  BY DEF OP!Cardinality, Cardinality
<1>2. ASSUME NEW S
      PROVE  O!Cardinality(S) = Cardinality(S)
  BY DEF O!Cardinality, Cardinality
<1>3. ASSUME NEW S
      PROVE  OP!IsFiniteSet(S) <=> IsFiniteSet(S)
  BY DEF OP!IsFiniteSet, IsFiniteSet
<1> QED
  BY <1>1, <1>2, <1>3

(* The assumptions of the parts hold of the constants they are given.      *)
LEMMA DrainingFits ==
  /\ BackoffBase \in Nat \ {0} /\ BackoffCap \in Nat /\ MaxExponent \in 0..7
  /\ BackoffBase <= BackoffCap
  /\ BackoffCap <= BackoffBase * OP!Pow2(MaxExponent)
  /\ Events \subseteq Nat
  /\ OP!IsFiniteSet(Events) /\ OP!IsFiniteSet(Drainers)
  /\ Limit \in Nat \ {0} /\ DrainFaults \subseteq OP!AllFaults
  /\ MaxDrainFaults \in Nat
BY EventPipelineAssumption, SameCounts
DEF O!AllFaults, OP!AllFaults, O!Pow2, OP!Pow2

LEMMA ConsumingFits ==
  /\ {} \subseteq Events /\ Count \in Nat \ {0}
  /\ Cardinality(Events) * (Cardinality(Drainers) + MaxDrainFaults) \in Nat
  /\ GroupFaults \subseteq GP!AllFaults /\ MaxGroupFaults \in Nat
<1>1. Cardinality(Events) \in Nat /\ Cardinality(Drainers) \in Nat
  BY EventPipelineAssumption, FS_CardinalityType
<1>2. \A a, b, c \in Nat : a * (b + c) \in Nat
  OBVIOUS
<1> QED
  BY <1>1, <1>2, EventPipelineAssumption DEF G!AllFaults, GP!AllFaults

-----------------------------------------------------------------------------
(* The draining side.                                                      *)
LEMMA DrainerFetches ==
  ASSUME NEW d, O!DrainFetch(d)
  PROVE  OP!DrainFetch(d)
<1>1. O!Due = OP!Due
  BY DEF O!Due, OP!Due
<1>2. O!fetch_due = OP!fetch_due
  BY <1>1, SameCounts DEF O!fetch_due, OP!fetch_due
<1> QED
  BY <1>2 DEF O!DrainFetch, OP!DrainFetch, O!table, OP!table

LEMMA DrainerPublishes ==
  ASSUME NEW d, NEW r, O!DrainPublish(d, r)
  PROVE  OP!DrainPublish(d, r)
BY DEF O!DrainPublish, OP!DrainPublish, O!IsCurrent, OP!IsCurrent,
       O!publish, OP!publish, O!Fault, OP!Fault, O!table, OP!table

LEMMA RoundEnds ==
  /\ \A d : O!Leave(d) <=> OP!Leave(d)
  /\ \A d, r : O!Continue(d, r) <=> OP!Continue(d, r)
BY DEF O!Leave, OP!Leave, O!Continue, OP!Continue

LEMMA DrainerMarksSent ==
  ASSUME NEW d, NEW r, O!DrainMarkSent(d, r)
  PROVE  OP!DrainMarkSent(d, r)
BY RoundEnds
DEF O!DrainMarkSent, OP!DrainMarkSent, O!IsCurrent, OP!IsCurrent,
    O!mark_sent, OP!mark_sent, O!Fault, OP!Fault, O!table, OP!table

LEMMA DrainerMarksRetry ==
  ASSUME NEW d, NEW r, O!DrainMarkRetry(d, r)
  PROVE  OP!DrainMarkRetry(d, r)
<1>1. \A n : O!backoff_seconds(n) = OP!backoff_seconds(n)
  BY DEF O!backoff_seconds, OP!backoff_seconds, O!AtMost, OP!AtMost,
         O!Pow2, OP!Pow2, O!Clamp, OP!Clamp
<1>2. \A a, b : O!Remaining(a, b) = OP!Remaining(a, b)
  BY DEF O!Remaining, OP!Remaining
<1> QED
  BY <1>1, <1>2, RoundEnds
  DEF O!DrainMarkRetry, OP!DrainMarkRetry, O!IsCurrent, OP!IsCurrent,
      O!mark_retry, OP!mark_retry, O!Fault, OP!Fault, O!table, OP!table

LEMMA DrainerCrashes ==
  ASSUME NEW d, O!Crash(d)
  PROVE  OP!Crash(d)
BY RoundEnds DEF O!Crash, OP!Crash, O!Fault, OP!Fault, O!table, OP!table

LEMMA TimePasses ==
  ASSUME O!Tick
  PROVE  OP!Tick
BY DEF O!Tick, OP!Tick, O!Remaining, OP!Remaining, O!AtMost, OP!AtMost

LEMMA SameDraining == [O!Next]_(O!vars) => [OP!Next]_(OP!vars)
<1> SUFFICES ASSUME O!Next
             PROVE  OP!Next
  BY DEF O!vars, OP!vars
<1>1. CASE \E e \in Events : O!enqueue(e)
  BY <1>1 DEF O!enqueue, OP!enqueue, OP!Next
<1>2. CASE \E d \in Drainers : O!DrainStep(d) \/ O!Crash(d)
  <2>1. PICK d \in Drainers : O!DrainStep(d) \/ O!Crash(d)
    BY <1>2
  <2>2. OP!DrainStep(d) \/ OP!Crash(d)
    BY <2>1, DrainerFetches, DrainerPublishes, DrainerMarksSent,
       DrainerMarksRetry, DrainerCrashes
    DEF O!DrainStep, OP!DrainStep
  <2> QED
    BY <2>2 DEF OP!Next
<1>3. CASE O!Tick
  BY <1>3, TimePasses DEF OP!Next
<1> QED
  BY <1>1, <1>2, <1>3 DEF O!Next

LEMMA SameOutbox == O!Spec => OP!Spec
<1>1. O!Init => OP!Init
  BY DEF O!Init, OP!Init
<1> QED
  BY <1>1, SameDraining, PTL DEF O!Spec, OP!Spec

(* To the outbox, what services do besides enqueue, and what consumers do, *)
(* is nothing.                                                             *)
LEMMA DrainingSteps == [Next]_vars => [O!Next]_(O!vars)
<1> SUFFICES ASSUME [Next]_vars
             PROVE  O!Next \/ UNCHANGED O!vars
  OBVIOUS
<1>1. ASSUME UNCHANGED drainVars, log' = log
      PROVE  UNCHANGED O!vars
  BY <1>1 DEF drainVars, O!vars
<1>2. CASE \E e \in Events : Enqueue(e)
  BY <1>1, <1>2 DEF Enqueue, O!Next
<1>3. CASE \E e \in Events : Begin(e) \/ Commit(e) \/ Rollback(e)
  BY <1>1, <1>3 DEF Begin, Commit, Rollback
<1>4. CASE \E d \in Drainers : Drain(d) \/ DrainerCrash(d)
  BY <1>4 DEF Drain, DrainerCrash, O!Next
<1>5. CASE Tick
  BY <1>5 DEF Tick, O!Next
<1>6. CASE EnsureGroup \/ \E c \in Consumers : Consume(c) \/ ConsumerCrash(c)
  BY <1>1, <1>6 DEF EnsureGroup, Consume, ConsumerCrash
<1>7. CASE UNCHANGED vars
  BY <1>1, <1>7 DEF vars
<1> QED
  BY <1>2, <1>3, <1>4, <1>5, <1>6, <1>7 DEF Next

(* The draining side of the pipeline is the outbox, nothing more or less.  *)
THEOREM DrainsAsOutbox == Spec => O!Spec
<1>1. Init => O!Init
  BY DEF Init
<1> QED
  BY <1>1, DrainingSteps, PTL DEF Spec, O!Spec

(* What the outbox guarantees, of the pipeline's.                          *)
LEMMA DrainingHolds ==
  Spec => [](/\ OP!TypeOK /\ OP!Inv /\ OP!CopiesInv
             /\ OP!SentWasPublished /\ OP!DuplicatesBounded)
<1>1. OP!Spec => []OP!TypeOK
  BY OP!TypeCorrect, DrainingFits
<1>2. OP!Spec => []OP!Inv
  BY OP!SpecInv, DrainingFits
<1>3. OP!Spec => []OP!CopiesInv
  <2>1. OP!Init => OP!CopiesInv
    BY OP!InitCopies, DrainingFits
  <2>2. OP!CopiesInv /\ [OP!Next]_(OP!vars) => OP!CopiesInv'
    BY OP!NextCopies, DrainingFits
  <2> QED
    BY <2>1, <2>2, PTL DEF OP!Spec
<1>4. OP!Spec => []OP!SentWasPublished
  BY OP!NoLoss, DrainingFits
<1>5. OP!Spec => []OP!DuplicatesBounded
  BY OP!CopiesArePaidFor, DrainingFits
<1> QED
  BY <1>1, <1>2, <1>3, <1>4, <1>5, DrainsAsOutbox, SameOutbox, PTL

-----------------------------------------------------------------------------
(* The writing side.  What drainers do to a row adds none and takes none   *)
(* away, because the rows of a round exist.                                *)
LEMMA DrainersKeepRows ==
  ASSUME OP!TypeOK, OP!RowsExist,
         \E d \in Drainers : O!DrainStep(d) \/ O!Crash(d)
  PROVE  \A e \in Events : status'[e] = "none" <=> status[e] = "none"
<1>1. PICK d \in Drainers : O!DrainStep(d) \/ O!Crash(d)
  OBVIOUS
<1>2. CASE status' = status
  BY <1>2
<1>3. CASE \E r \in rows[d] : O!DrainMarkSent(d, r)
  <2>1. PICK r \in rows[d] : O!DrainMarkSent(d, r)
    BY <1>3
  <2>2. status[r.id] # "none"
    BY DEF OP!RowsExist
  <2>3. CASE UNCHANGED O!table
    BY <2>3 DEF O!table
  <2>4. CASE O!mark_sent(r.id)
    BY <2>2, <2>4 DEF O!mark_sent, OP!TypeOK
  <2> QED
    BY <2>1, <2>3, <2>4 DEF O!DrainMarkSent
<1>4. CASE O!DrainFetch(d) \/ O!Crash(d)
  BY <1>2, <1>4 DEF O!DrainFetch, O!Crash, O!table
<1>5. ASSUME NEW r \in rows[d], O!DrainPublish(d, r) \/ O!DrainMarkRetry(d, r)
      PROVE  status' = status
  BY <1>5 DEF O!DrainPublish, O!DrainMarkRetry, O!mark_retry, O!table
<1> QED
  BY <1>1, <1>2, <1>3, <1>4, <1>5 DEF O!DrainStep

LEMMA WritingSteps ==
  OP!TypeOK /\ OP!RowsExist /\ [Next]_vars => [W!Next]_(W!vars)
<1> SUFFICES ASSUME OP!TypeOK, OP!RowsExist, [Next]_vars
             PROVE  W!Next \/ UNCHANGED W!vars
  OBVIOUS
<1>1. ASSUME UNCHANGED writeVars,
             \A e \in Events : status'[e] = "none" <=> status[e] = "none"
      PROVE  UNCHANGED W!vars
  BY <1>1 DEF writeVars, W!vars
<1>2. CASE \E e \in Events : Begin(e) \/ Enqueue(e) \/ Commit(e) \/ Rollback(e)
  BY <1>2 DEF Begin, Enqueue, Commit, Rollback, W!Next
<1>3. CASE \E d \in Drainers : Drain(d) \/ DrainerCrash(d)
  BY <1>1, <1>3, DrainersKeepRows DEF Drain, DrainerCrash
<1>4. CASE Tick
  BY <1>1, <1>4 DEF Tick, O!Tick
<1>5. CASE EnsureGroup \/ \E c \in Consumers : Consume(c) \/ ConsumerCrash(c)
  BY <1>1, <1>5 DEF EnsureGroup, Consume, ConsumerCrash, drainVars
<1>6. CASE UNCHANGED vars
  BY <1>1, <1>6 DEF vars, drainVars
<1> QED
  BY <1>2, <1>3, <1>4, <1>5, <1>6 DEF Next

(* The services behave in the pipeline as they do alone: neither drainers  *)
(* nor consumers add a row to the table or take one away.                  *)
THEOREM WritesAsService == Spec => W!Spec
<1>1. Init => W!Init
  BY DEF Init
<1>2. OP!Inv => OP!RowsExist
  BY DEF OP!Inv
<1> QED
  BY <1>1, <1>2, WritingSteps, DrainingHolds, PTL DEF Spec, W!Spec

(* A change that is saved has a row: this half of SameTransaction holds,   *)
(* because the service enqueues before it commits.                         *)
SavedIsEnqueued == \A e \in saved : e \in Events /\ status[e] # "none"

(* What it rests on: a handler that has enqueued has its row.              *)
Enqueued ==
  /\ W!TypeOK
  /\ \A e \in Events : e \in saved \/ write[e] = "enqueued" => status[e] # "none"

LEMMA NextEnqueued == Enqueued /\ [W!Next]_(W!vars) => Enqueued'
<1> DEFINE Table == {e \in Events : status[e] # "none"}
<1> SUFFICES ASSUME Enqueued, [W!Next]_(W!vars)
             PROVE  Enqueued'
  OBVIOUS
<1>1. /\ write \in [Events -> {"idle", "open", "enqueued", "failed", "ended"}]
      /\ saved \subseteq Events
      /\ \A e \in Events : e \in saved \/ write[e] = "enqueued" => e \in Table
  BY DEF Enqueued, W!TypeOK
<1>2. /\ write' \in [Events -> {"idle", "open", "enqueued", "failed", "ended"}]
      /\ saved' \subseteq Events
      /\ \A e \in Events :
           e \in saved' \/ write'[e] = "enqueued" => e \in Table'
  <2> HIDE DEF Table
  <2>1. CASE UNCHANGED W!vars
    BY <1>1, <2>1 DEF W!vars, Table
  <2>2. CASE \E e \in Events : W!Begin(e)
    BY <1>1, <2>2 DEF W!Begin, Table
  <2>3. CASE \E e \in Events : W!enqueue(e)
    BY <1>1, <2>3 DEF W!enqueue, Table
  <2>4. CASE \E e \in Events : W!Commit(e)
    BY <1>1, <2>4 DEF W!Commit, Table
  <2>5. CASE \E e \in Events : W!Rollback(e)
    BY <1>1, <2>5 DEF W!Rollback, Table
  <2> QED
    BY <2>1, <2>2, <2>3, <2>4, <2>5 DEF W!Next
<1> QED
  BY <1>2 DEF Enqueued, W!TypeOK

(* No saved change is without its event, whatever drainers and consumers   *)
(* do and whichever replies of the INSERT are lost (outbox.rs:81).         *)
THEOREM SavedHasItsRow == Spec => []SavedIsEnqueued
<1>1. W!Init => Enqueued
  BY DEF W!Init, Enqueued, W!TypeOK
<1>2. Enqueued => SavedIsEnqueued
  BY DEF Enqueued, W!TypeOK, SavedIsEnqueued
<1> QED
  BY <1>1, <1>2, NextEnqueued, WritesAsService, PTL DEF W!Spec

-----------------------------------------------------------------------------
(* The stream never outgrows the room the consuming side is given: each    *)
(* event has a copy per drainer and per fault at most.                     *)
Fits == Len(log) <= Cardinality(Events) * (Cardinality(Drainers) + MaxDrainFaults)

(* The copies of the i-th entry's event up to that entry.                  *)
UpTo(i) == {j \in 1..Len(log) : j <= i /\ log[j] = log[i]}

LEMMA LogFits ==
  ASSUME OP!CopiesInv, OP!DuplicatesBounded
  PROVE  Fits
<1> DEFINE N == Len(log)
           K == Cardinality(Drainers) + MaxDrainFaults
           Room == Events \X (1..K)
           f == [i \in 1..N |-> <<log[i], Cardinality(UpTo(i))>>]
<1>1. /\ log \in Seq(Events) /\ N \in Nat /\ DOMAIN log = 1..N
      /\ drainFaults \in 0..MaxDrainFaults
  BY DEF OP!CopiesInv, OP!TypeOK
<1>2. K \in Nat /\ Cardinality(Drainers) \in Nat
  BY EventPipelineAssumption, FS_CardinalityType
<1>3. IsFiniteSet(1..N)
  <2>1. 1 \in Int /\ N \in Int
    BY <1>1
  <2> QED
    BY <2>1, FS_Interval
<1>4. ASSUME NEW i \in 1..N
      PROVE  IsFiniteSet(UpTo(i)) /\ Cardinality(UpTo(i)) \in 1..K
  <2>1. UpTo(i) \in SUBSET (1..N)
    BY DEF UpTo
  <2>2. IsFiniteSet(UpTo(i)) /\ Cardinality(UpTo(i)) \in Nat
    BY <1>3, <2>1, FS_Subset, FS_CardinalityType
  <2>3. i \in UpTo(i)
    BY DEF UpTo
  <2>4. Cardinality(UpTo(i)) # 0
    BY <2>2, <2>3, FS_EmptySet
  <2> DEFINE copies == {j \in DOMAIN log : log[j] = log[i]}
  <2>5. Cardinality(UpTo(i)) <= Cardinality(copies)
    <3>1. IsFiniteSet(copies)
      <4>1. copies \in SUBSET (1..N)
        BY <1>1
      <4> QED
        BY <1>3, <4>1, FS_Subset
    <3>2. UpTo(i) \in SUBSET copies
      BY <1>1 DEF UpTo
    <3> QED
      BY <3>1, <3>2, FS_Subset
  <2>6. /\ Cardinality(copies) <= Cardinality(Drainers) + drainFaults
        /\ Cardinality(copies) \in Nat
    <3>1. log[i] \in Events
      BY <1>1
    <3>2. Cardinality(copies) <= Cardinality(Drainers) + drainFaults
      BY <3>1, SameCounts DEF OP!DuplicatesBounded, OP!Copies
    <3>3. Cardinality(copies) \in Nat
      BY <1>1, <3>1, OP!CopiesType, DrainingFits, SameCounts
    <3> QED
      BY <3>2, <3>3
  <2>7. drainFaults \in Int /\ drainFaults <= MaxDrainFaults
    BY <1>1
  <2>8. MaxDrainFaults \in Int
    BY EventPipelineAssumption
  <2>9. Cardinality(copies) <= Cardinality(Drainers) + MaxDrainFaults
    <3> HIDE DEF copies
    <3> QED
      BY <1>2, <2>6, <2>7, <2>8
  <2>10. Cardinality(copies) <= K
    BY <2>9
  <2> HIDE DEF copies, K
  <2>11. Cardinality(UpTo(i)) \in 1..K
    BY <1>2, <2>2, <2>4, <2>5, <2>6, <2>10
  <2> QED
    BY <2>2, <2>11
<1>5. ASSUME NEW i \in 1..N, NEW j \in 1..N, i < j, f[i] = f[j]
      PROVE  FALSE
  <2>1. log[i] = log[j] /\ Cardinality(UpTo(i)) = Cardinality(UpTo(j))
    BY <1>5
  <2>2. UpTo(i) \in SUBSET UpTo(j)
    <3>1. \A k \in 1..N : k <= i => k <= j
      BY <1>1, <1>5
    <3> QED
      BY <2>1, <3>1 DEF UpTo
  <2>3. j \in UpTo(j) /\ j \notin UpTo(i)
    BY <1>1, <1>5 DEF UpTo
  <2>4. UpTo(i) = UpTo(j)
    BY <1>4, <2>1, <2>2, FS_Subset
  <2> QED
    BY <2>3, <2>4
<1>6. f \in Injection(1..N, Room)
  <2>1. f \in [1..N -> Room]
    BY <1>1, <1>4
  <2>2. \A i, j \in 1..N : f[i] = f[j] => i = j
    <3> HIDE DEF f
    <3> SUFFICES ASSUME NEW i \in 1..N, NEW j \in 1..N, f[i] = f[j], i # j
                 PROVE  FALSE
      OBVIOUS
    <3>1. i < j \/ j < i
      BY <1>1
    <3> QED
      BY <1>5, <3>1
  <2> HIDE DEF f, Room, N
  <2> QED
    BY <2>1, <2>2 DEF Injection, IsInjective
<1>7. IsFiniteSet(Room) /\ Cardinality(Room) = Cardinality(Events) * K
  <2>1. IsFiniteSet(1..K) /\ Cardinality(1..K) = K
    <3>1. 1 \in Int /\ K \in Int
      BY <1>2
    <3>2. /\ IsFiniteSet(1..K)
          /\ Cardinality(1..K) = IF 1 > K THEN 0 ELSE K - 1 + 1
      BY <3>1, FS_Interval
    <3> HIDE DEF K
    <3> QED
      BY <1>2, <3>2
  <2> HIDE DEF K
  <2> QED
    BY <2>1, EventPipelineAssumption, FS_Product
<1>8. Cardinality(1..N) <= Cardinality(Room)
  <2> HIDE DEF N, Room, f
  <2> QED
    BY <1>6, <1>7, FS_Injection
<1>9. Cardinality(1..N) = N
  <2>1. Cardinality(1..N) = IF 1 > N THEN 0 ELSE N - 1 + 1
    <3>1. 1 \in Int /\ N \in Int
      BY <1>1
    <3> QED
      BY <3>1, FS_Interval
  <2> HIDE DEF N
  <2> QED
    BY <1>1, <2>1
<1> QED
  BY <1>7, <1>8, <1>9 DEF Fits

LEMMA AlwaysFits == Spec => []Fits
<1>1. OP!CopiesInv /\ OP!DuplicatesBounded => Fits
  BY LogFits
<1> QED
  BY <1>1, DrainingHolds, PTL

-----------------------------------------------------------------------------
(* The consuming side.                                                     *)
LEMMA GroupReads ==
  ASSUME NEW c, G!read_group(c)
  PROVE  GP!read_group(c)
<1>1. \A s : G!Fresh(s) = GP!Fresh(s) /\ G!FreshCount(s) = GP!FreshCount(s)
  BY DEF G!Fresh, GP!Fresh, G!FreshCount, GP!FreshCount, G!Entries, GP!Entries
<1>2. G!AllFresh = GP!AllFresh
  BY <1>1 DEF G!AllFresh, GP!AllFresh
<1> QED
  BY <1>1, <1>2
  DEF G!read_group, GP!read_group, G!NoGroup, GP!NoGroup, G!Fault, GP!Fault,
      G!parse_stream_reply, GP!parse_stream_reply

LEMMA SameConsuming == [G!Next]_(G!vars) => [GP!Next]_(GP!vars)
<1> SUFFICES ASSUME G!Next
             PROVE  GP!Next
  BY DEF G!vars, GP!vars
<1>1. CASE \E s \in {TheStream} : \/ G!ensure_group(s)
                                  \/ \E m \in Events : G!publish(s, m)
  BY <1>1
  DEF GP!Next, G!ensure_group, GP!ensure_group, G!publish, GP!publish,
      G!NoGroup, GP!NoGroup, G!consumer, GP!consumer
<1>2. ASSUME NEW c \in Consumers, G!Crash(c)
      PROVE  GP!Next
  BY <1>2 DEF G!Crash, GP!Crash, G!Fault, GP!Fault, GP!Next
<1>3. ASSUME NEW c \in Consumers, G!ConsumerStep(c)
      PROVE  GP!Next
  <2>1. CASE G!read_group(c)
    BY <2>1, GroupReads DEF GP!ConsumerStep, GP!Next
  <2>2. CASE \E e \in inbox[c] : G!Handle(c, e)
    <3>1. \E e \in inbox[c] : GP!Handle(c, e)
      BY <2>2 DEF G!Handle, GP!Handle, G!Fault, GP!Fault
    <3> QED
      BY <3>1 DEF GP!ConsumerStep, GP!Next
  <2>3. CASE \E s \in {TheStream} : G!ack(c, s)
    <3>1. \E s \in {TheStream} : GP!ack(c, s)
      BY <2>3 DEF G!ack, GP!ack, G!Fault, GP!Fault
    <3> QED
      BY <3>1 DEF GP!ConsumerStep, GP!Next
  <2> QED
    BY <1>3, <2>1, <2>2, <2>3 DEF G!ConsumerStep
<1> QED
  BY <1>1, <1>2, <1>3 DEF G!Next

LEMMA SameGroup == G!Spec => GP!Spec
<1>1. G!Init => GP!Init
  BY DEF G!Init, GP!Init, G!NoGroup, GP!NoGroup
<1> QED
  BY <1>1, SameConsuming, PTL DEF G!Spec, GP!Spec

(* A consumer does in the pipeline what it does in the group.              *)
LEMMA ConsumerSteps ==
  ASSUME NEW c, Consume(c)
  PROVE  G!ConsumerStep(c)
BY DEF Consume, G!ConsumerStep

(* To the group, the XADD of a drainer is an entry of the stream, and what *)
(* else the draining side and the services do is nothing.                  *)
LEMMA ConsumingSteps ==
  OP!TypeOK /\ Fits' /\ [Next]_vars => [G!Next]_(G!vars)
<1> SUFFICES ASSUME OP!TypeOK, Fits', [Next]_vars
             PROVE  G!Next \/ UNCHANGED G!vars
  OBVIOUS
<1>1. ASSUME UNCHANGED groupVars, log' = log
      PROVE  UNCHANGED G!vars
  BY <1>1 DEF groupVars, G!vars
<1>2. ASSUME UNCHANGED groupVars, NEW e \in Events, log' = Append(log, e)
      PROVE  G!Next
  <2>1. log \in Seq(Events)
    BY DEF OP!TypeOK
  <2>2. Len(log) < Cardinality(Events) * (Cardinality(Drainers) + MaxDrainFaults)
    <3>1. Len(log') = Len(log) + 1 /\ Len(log) \in Nat
      BY <1>2, <2>1
    <3> QED
      BY <3>1, ConsumingFits DEF Fits
  <2>3. G!publish(TheStream, e)
    BY <1>2, <2>2 DEF G!publish, G!consumer, groupVars
  <2> QED
    BY <2>3 DEF G!Next
<1>3. CASE \E e \in Events : Begin(e) \/ Enqueue(e) \/ Commit(e) \/ Rollback(e)
  <2>1. UNCHANGED groupVars /\ log' = log
    BY <1>3 DEF Begin, Enqueue, Commit, Rollback, O!enqueue
  <2> QED
    BY <1>1, <2>1
<1>4. ASSUME NEW d \in Drainers, Drain(d)
      PROVE  G!Next \/ UNCHANGED G!vars
  <2>1. UNCHANGED groupVars
    BY <1>4 DEF Drain
  <2>2. log' = log \/ \E r \in rows[d] : log' = Append(log, r.id)
    BY <1>4 DEF Drain, O!DrainStep, O!DrainFetch, O!DrainPublish,
                O!DrainMarkSent, O!DrainMarkRetry, O!publish
  <2>3. \A r \in rows[d] : r.id \in Events
    BY OP!CurrentRow, DrainingFits
  <2> QED
    BY <1>1, <1>2, <2>1, <2>2, <2>3
<1>5. CASE Tick \/ \E d \in Drainers : DrainerCrash(d)
  <2>1. UNCHANGED groupVars /\ log' = log
    BY <1>5 DEF Tick, DrainerCrash, O!Tick, O!Crash
  <2> QED
    BY <1>1, <2>1
<1>6. CASE EnsureGroup \/ \E c \in Consumers : Consume(c) \/ ConsumerCrash(c)
  BY <1>6, ConsumerSteps DEF EnsureGroup, ConsumerCrash, G!Next
<1>7. CASE UNCHANGED vars
  BY <1>1, <1>7 DEF vars
<1> QED
  BY <1>3, <1>4, <1>5, <1>6, <1>7 DEF Next

(* The consuming side of the pipeline is the group, and what the drainers  *)
(* publish never exceeds what it expects.                                  *)
THEOREM ConsumesAsGroup == Spec => G!Spec
<1>1. Init => G!Init
  BY DEF Init
<1> QED
  BY <1>1, ConsumingSteps, DrainingHolds, AlwaysFits, PTL DEF Spec, G!Spec

LEMMA ConsumingHolds == Spec => [](GP!TypeOK /\ GP!NothingLost /\ GP!HandledOnce)
<1>1. GP!Spec => []GP!TypeOK
  BY GP!TypeCorrect, ConsumingFits
<1>2. GP!Spec => []GP!NothingLost
  BY GP!NoSilentLoss, ConsumingFits
<1>3. GP!Spec => []GP!HandledOnce
  BY GP!AtMostOnce, ConsumingFits
<1> QED
  BY <1>1, <1>2, <1>3, ConsumesAsGroup, SameGroup, PTL

-----------------------------------------------------------------------------
(* A sent event has not vanished, whatever fails on either side: it is     *)
(* still to be delivered, pending or handled, unless the group was created *)
(* after its copies.                                                       *)
THEOREM SentNeverVanishes == Spec => []SentIsAccountedFor
<1>1. ASSUME OP!TypeOK, OP!SentWasPublished, GP!TypeOK, GP!NothingLost
      PROVE  SentIsAccountedFor
  <2> SUFFICES ASSUME NEW e \in Events, status[e] = "sent",
                      start[TheStream] # G!NoGroup, ~Missed(e)
               PROVE  \E i \in DOMAIN log :
                        /\ log[i] = e
                        /\ i > start[TheStream]
                        /\ \/ i > last[TheStream]
                           \/ \E h \in handled \cup G!Pending : h.id = i
    BY DEF SentIsAccountedFor
  <2>1. e \in O!Published
    BY <1>1 DEF OP!SentWasPublished, OP!Published, O!Published
  <2>2. /\ DOMAIN log \subseteq Nat
        /\ start[TheStream] \in Int /\ last[TheStream] \in Int
    <3>1. DOMAIN log \subseteq Nat
      <4>1. log \in Seq(Events)
        BY <1>1 DEF OP!TypeOK
      <4>2. DOMAIN log = 1..Len(log)
        BY <4>1
      <4> QED
        BY <4>2
    <3>2. start[TheStream] \in Int /\ last[TheStream] \in Int
      BY <1>1 DEF GP!TypeOK
    <3> QED
      BY <3>1, <3>2
  <2>3. PICK i \in DOMAIN log : log[i] = e /\ ~(i <= start[TheStream])
    BY <2>1 DEF Missed
  <2>4. i \in Int /\ i > start[TheStream]
    BY <2>2, <2>3
  <2>5. CASE i <= last[TheStream]
    <3> DEFINE h == [stream |-> TheStream, id |-> i]
    <3>1. i \in (start[TheStream] + 1)..last[TheStream]
      BY <2>2, <2>4, <2>5
    <3>2. start[TheStream] # GP!NoGroup
      BY DEF G!NoGroup, GP!NoGroup
    <3>3. h \in GP!Delivered
      BY <3>1, <3>2, GP!DeliveredDef, ConsumingFits
    <3>4. h \in handled \cup GP!Pending
      BY <1>1, <3>3 DEF GP!NothingLost
    <3>5. GP!Pending = G!Pending
      BY DEF GP!Pending, G!Pending
    <3>6. h.id = i
      OBVIOUS
    <3> HIDE DEF h
    <3> QED
      BY <2>3, <2>4, <3>4, <3>5, <3>6
  <2>6. CASE ~(i <= last[TheStream])
    BY <2>2, <2>3, <2>4, <2>6
  <2> QED
    BY <2>5, <2>6
<1> QED
  BY <1>1, DrainingHolds, ConsumingHolds, PTL

-----------------------------------------------------------------------------
(* How often an event is handled.                                          *)
HandledOf(e) == {h \in handled : log[h.id] = e}

(* The history variable counts entries: no entry is counted twice, because *)
(* none that is handled comes back to an inbox.                            *)
Handlings ==
  /\ times \in [Events -> Nat]
  /\ \A e \in Events : times[e] = Cardinality(HandledOf(e))

(* Different handled entries of an event are different copies of it.       *)
LEMMA HandledAreCopies ==
  ASSUME OP!TypeOK, GP!TypeOK, NEW e \in Events
  PROVE  /\ IsFiniteSet(HandledOf(e)) /\ Cardinality(HandledOf(e)) \in Nat
         /\ Cardinality(HandledOf(e)) <= OP!Copies(e) /\ OP!Copies(e) \in Nat
<1> DEFINE H == HandledOf(e)
           copies == {i \in DOMAIN log : log[i] = e}
           f == [h \in H |-> h.id]
<1>1. ASSUME NEW h \in H
      PROVE  h = [stream |-> TheStream, id |-> h.id] /\ h.id \in copies
  <2>1. h \in GP!Entry /\ log[h.id] = e
    BY DEF GP!TypeOK, HandledOf
  <2>2. PICK i \in 1..Len(log) : h = [stream |-> TheStream, id |-> i]
    BY <2>1, GP!EntryDef, ConsumingFits
  <2>3. h.id = i /\ DOMAIN log = 1..Len(log)
    BY <2>2 DEF OP!TypeOK
  <2> QED
    BY <2>1, <2>2, <2>3
<1>2. f \in Injection(H, copies)
  <2>1. f \in [H -> copies]
    BY <1>1
  <2>2. \A g, h \in H : f[g] = f[h] => g = h
    BY <1>1
  <2> HIDE DEF f, H, copies
  <2> QED
    BY <2>1, <2>2 DEF Injection, IsInjective
<1>3. IsFiniteSet(copies) /\ Cardinality(copies) \in Nat
  <2>1. log \in Seq(Events)
    BY DEF OP!TypeOK
  <2> QED
    BY <2>1, OP!CopiesType, DrainingFits, SameCounts
<1>4. /\ IsFiniteSet(H) /\ Cardinality(H) <= Cardinality(copies)
      /\ Cardinality(H) \in Nat
  <2> HIDE DEF f, H, copies
  <2> QED
    BY <1>2, <1>3, FS_Injection, FS_CardinalityType
<1>5. OP!Copies(e) = Cardinality(copies)
  BY SameCounts DEF OP!Copies
<1> HIDE DEF copies
<1> QED
  BY <1>3, <1>4, <1>5

(* What a successful handling adds.                                        *)
LEMMA HandleCounts ==
  ASSUME OP!TypeOK, GP!TypeOK, GP!HandledOnce, Handlings, log' = log,
         NEW c \in Consumers, NEW h \in inbox[c],
         G!Handle(c, h), CountHandling(log[h.id])
  PROVE  Handlings'
<1>1. times \in [Events -> Nat]
  BY DEF Handlings
<1>2. h \notin handled
  BY DEF GP!HandledOnce
<1>3. log[h.id] \in Events
  <2>1. h \in GP!Entry
    BY DEF GP!TypeOK
  <2>2. PICK i \in 1..Len(log) : h = [stream |-> TheStream, id |-> i]
    BY <2>1, GP!EntryDef, ConsumingFits
  <2> QED
    BY <2>2 DEF OP!TypeOK
<1>4. groupFaults \in Nat
  BY ConsumingFits DEF GP!TypeOK
<1>5. CASE groupFaults' = groupFaults
  <2>1. handled' = handled \cup {h}
    BY <1>4, <1>5 DEF G!Handle, G!Fault
  <2>2. times' = [times EXCEPT ![log[h.id]] = @ + 1]
    BY <1>5 DEF CountHandling
  <2>3. ASSUME NEW e \in Events
        PROVE  times'[e] = Cardinality(HandledOf(e)')
    <3>1. times[e] = Cardinality(HandledOf(e)) /\ IsFiniteSet(HandledOf(e))
      BY HandledAreCopies DEF Handlings
    <3>2. CASE e = log[h.id]
      <4>1. HandledOf(e)' = HandledOf(e) \cup {h} /\ h \notin HandledOf(e)
        BY <1>2, <2>1, <3>2 DEF HandledOf
      <4>2. times'[e] = times[e] + 1
        BY <1>1, <2>2, <3>2
      <4> QED
        BY <3>1, <4>1, <4>2, FS_AddElement
    <3>3. CASE e # log[h.id]
      <4>1. HandledOf(e)' = HandledOf(e)
        BY <2>1, <3>3 DEF HandledOf
      <4>2. times'[e] = times[e]
        BY <1>1, <2>2, <3>3
      <4> QED
        BY <3>1, <4>1, <4>2
    <3> QED
      BY <3>2, <3>3
  <2>4. times' \in [Events -> Nat]
    BY <1>1, <1>3, <2>2
  <2> QED
    BY <2>3, <2>4 DEF Handlings
<1>6. CASE groupFaults' # groupFaults
  <2>1. handled' = handled /\ times' = times
    BY <1>6 DEF G!Handle, CountHandling
  <2> QED
    BY <2>1 DEF Handlings, HandledOf
<1> QED
  BY <1>5, <1>6

LEMMA NextHandlings ==
  ASSUME OP!TypeOK, GP!TypeOK, GP!HandledOnce, Handlings, [Next]_vars
  PROVE  Handlings'
<1>1. ASSUME UNCHANGED <<handled, times>>, log' = log
      PROVE  Handlings'
  BY <1>1 DEF Handlings, HandledOf
<1>2. ASSUME UNCHANGED <<handled, times>>, NEW e \in Events, log' = Append(log, e)
      PROVE  Handlings'
  <2>1. \A h \in handled : log'[h.id] = log[h.id]
    <3> SUFFICES ASSUME NEW h \in handled
                 PROVE  log'[h.id] = log[h.id]
      OBVIOUS
    <3>1. h \in GP!Entry
      BY DEF GP!TypeOK
    <3>2. PICK i \in 1..Len(log) : h = [stream |-> TheStream, id |-> i]
      BY <3>1, GP!EntryDef, ConsumingFits
    <3> QED
      BY <1>2, <3>2 DEF OP!TypeOK
  <2>2. \A f : HandledOf(f)' = HandledOf(f)
    BY <1>2, <2>1 DEF HandledOf
  <2> QED
    BY <1>2, <2>2 DEF Handlings
<1>3. CASE \E e \in Events : Begin(e) \/ Enqueue(e) \/ Commit(e) \/ Rollback(e)
  <2>1. UNCHANGED <<handled, times>> /\ log' = log
    BY <1>3 DEF Begin, Enqueue, Commit, Rollback, O!enqueue, groupVars
  <2> QED
    BY <1>1, <2>1
<1>4. ASSUME NEW d \in Drainers, Drain(d)
      PROVE  Handlings'
  <2>1. UNCHANGED <<handled, times>>
    BY <1>4 DEF Drain, groupVars
  <2>2. log' = log \/ \E r \in rows[d] : log' = Append(log, r.id)
    BY <1>4 DEF Drain, O!DrainStep, O!DrainFetch, O!DrainPublish,
                O!DrainMarkSent, O!DrainMarkRetry, O!publish
  <2>3. \A r \in rows[d] : r.id \in Events
    BY OP!CurrentRow, DrainingFits
  <2> QED
    BY <1>1, <1>2, <2>1, <2>2, <2>3
<1>5. CASE Tick \/ \E d \in Drainers : DrainerCrash(d)
  <2>1. UNCHANGED <<handled, times>> /\ log' = log
    BY <1>5 DEF Tick, DrainerCrash, O!Tick, O!Crash, groupVars
  <2> QED
    BY <1>1, <2>1
<1>6. CASE EnsureGroup \/ \E c \in Consumers : ConsumerCrash(c)
  <2>1. UNCHANGED <<handled, times>> /\ log' = log
    BY <1>6 DEF EnsureGroup, ConsumerCrash, G!ensure_group, G!Crash
  <2> QED
    BY <1>1, <2>1
<1>7. ASSUME NEW c \in Consumers, Consume(c)
      PROVE  Handlings'
  <2>1. log' = log
    BY <1>7 DEF Consume
  <2>2. CASE (G!read_group(c) \/ G!ack(c, TheStream)) /\ UNCHANGED times
    <3>1. handled' = handled
      BY <2>2 DEF G!read_group, G!ack
    <3> QED
      BY <1>1, <2>1, <2>2, <3>1
  <2>3. CASE \E h \in inbox[c] : G!Handle(c, h) /\ CountHandling(log[h.id])
    BY <2>1, <2>3, HandleCounts
  <2> QED
    BY <1>7, <2>2, <2>3 DEF Consume
<1>8. CASE UNCHANGED vars
  BY <1>1, <1>8 DEF vars, groupVars
<1> QED
  BY <1>3, <1>4, <1>5, <1>6, <1>7, <1>8 DEF Next

LEMMA AlwaysHandlings == Spec => []Handlings
<1>1. Init => Handlings
  <2> SUFFICES ASSUME Init
               PROVE  Handlings
    OBVIOUS
  <2>1. handled = {} /\ times = [e \in Events |-> 0]
    BY DEF Init, G!Init
  <2>2. \A e : HandledOf(e) = {}
    BY <2>1 DEF HandledOf
  <2> QED
    BY <2>1, <2>2, FS_EmptySet DEF Handlings
<1>2. OP!TypeOK /\ GP!TypeOK /\ GP!HandledOnce /\ Handlings /\ [Next]_vars
      => Handlings'
  BY NextHandlings
<1> QED
  BY <1>1, <1>2, DrainingHolds, ConsumingHolds, PTL DEF Spec

(* The repetitions of the two halves do not multiply: an event is handled  *)
(* at most once per drainer and per fault of the draining side, however    *)
(* many consumers there are and whatever fails on their side.              *)
THEOREM HandlingsArePaidFor == Spec => []HandledBounded
<1>1. ASSUME OP!TypeOK, OP!DuplicatesBounded, GP!TypeOK, Handlings
      PROVE  HandledBounded
  <2> SUFFICES ASSUME NEW e \in Events
               PROVE  times[e] <= Cardinality(Drainers) + drainFaults
    BY <1>1 DEF HandledBounded
  <2>1. times[e] <= OP!Copies(e) /\ times[e] \in Nat /\ OP!Copies(e) \in Nat
    BY <1>1, HandledAreCopies DEF Handlings
  <2>2. OP!Copies(e) <= Cardinality(Drainers) + drainFaults
    BY <1>1, SameCounts DEF OP!DuplicatesBounded
  <2>3. Cardinality(Drainers) + drainFaults \in Nat
    <3>1. Cardinality(Drainers) \in Nat
      BY EventPipelineAssumption, FS_CardinalityType
    <3> QED
      BY <1>1, <3>1, EventPipelineAssumption DEF OP!TypeOK
  <2> QED
    BY <2>1, <2>2, <2>3
<1> QED
  BY <1>1, DrainingHolds, ConsumingHolds, AlwaysHandlings, PTL

=============================================================================
