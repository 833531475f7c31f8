---------------------------- MODULE OutboxProofs ----------------------------
(***************************************************************************)
(* What holds of Outbox, and of Outbox with its history variables, for any *)
(* events, drainers, batch size, delays and faults.                        *)
(***************************************************************************)
EXTENDS OutboxHistory, FiniteSetTheorems, TLAPS

-----------------------------------------------------------------------------
(* As far as the clamp goes, the powers are those of two.                  *)
LEMMA PowersOfTwo ==
  /\ Pow2(0) = 1
  /\ \A k \in 0..MaxExponent : Pow2(k) \in Nat /\ Pow2(k) >= 1
  /\ \A k \in 0..MaxExponent : k < MaxExponent => Pow2(k + 1) = 2 * Pow2(k)
<1>1. MaxExponent \in {0, 1, 2, 3, 4, 5, 6, 7}
  BY BackoffAssumption
<1>2. \A k \in 0..MaxExponent :
        Pow2(k) = <<1, 2, 4, 8, 16, 32, 64, 128>>[k + 1]
  BY BackoffAssumption DEF Pow2
<1>3. \A k \in 0..MaxExponent : k \in {0, 1, 2, 3, 4, 5, 6, 7}
  BY BackoffAssumption
<1>4. Pow2(0) = 1
  BY <1>1, <1>2
<1>5. ASSUME NEW k \in 0..MaxExponent
      PROVE  /\ Pow2(k) \in Nat /\ Pow2(k) >= 1
             /\ k < MaxExponent => Pow2(k + 1) = 2 * Pow2(k)
  <2>1. Pow2(k) = <<1, 2, 4, 8, 16, 32, 64, 128>>[k + 1]
    BY <1>2
  <2>2. k < MaxExponent =>
          Pow2(k + 1) = <<1, 2, 4, 8, 16, 32, 64, 128>>[k + 2]
    BY <1>1, <1>2
  <2>3. k \in {0, 1, 2, 3, 4, 5, 6, 7} /\ MaxExponent <= 7
    BY <1>1, <1>3
  <2> QED
    BY <2>1, <2>2, <2>3, <1>1
<1> QED
  BY <1>4, <1>5

(* The delay of backoff_seconds lies between its base and its cap, however *)
(* many attempts there have been (outbox.rs:75): a row always waits, and   *)
(* never for longer than the cap.                                          *)
THEOREM BackoffBounds ==
  ASSUME NEW n \in Int
  PROVE  /\ backoff_seconds(n) \in Nat
         /\ BackoffBase <= backoff_seconds(n)
         /\ backoff_seconds(n) <= BackoffCap
<1> DEFINE k == Clamp(n - 1, 0, MaxExponent)
<1>1. k \in 0..MaxExponent
  BY BackoffAssumption DEF Clamp
<1>2. Pow2(k) \in Nat /\ Pow2(k) >= 1
  BY <1>1, PowersOfTwo
<1> HIDE DEF k
<1>3. /\ BackoffBase * Pow2(k) \in Nat
      /\ BackoffBase * Pow2(k) >= BackoffBase
  <2>1. \A b, p \in Nat : p >= 1 => b * p \in Nat /\ b * p >= b
    OBVIOUS
  <2> QED
    BY <1>2, <2>1, BackoffAssumption
<1>4. backoff_seconds(n) = AtMost(BackoffBase * Pow2(k), BackoffCap)
  BY DEF backoff_seconds, k
<1> QED
  BY <1>3, <1>4, BackoffAssumption DEF AtMost

(* The first delay is the base, and each further failure doubles it up to  *)
(* the cap: the clamp of the exponent never shows.                         *)
LEMMA BackoffDoubles ==
  /\ backoff_seconds(1) = BackoffBase
  /\ \A n \in Nat \ {0} :
       backoff_seconds(n + 1) = AtMost(2 * backoff_seconds(n), BackoffCap)
<1>1. backoff_seconds(1) = BackoffBase
  <2>1. Clamp(1 - 1, 0, MaxExponent) = 0
    BY BackoffAssumption DEF Clamp
  <2>2. BackoffBase * Pow2(0) = BackoffBase
    BY PowersOfTwo, BackoffAssumption
  <2> QED
    BY <2>1, <2>2, BackoffAssumption DEF backoff_seconds, AtMost
<1>2. ASSUME NEW n \in Nat \ {0}
      PROVE  backoff_seconds(n + 1) = AtMost(2 * backoff_seconds(n), BackoffCap)
  <2>1. CASE n - 1 < MaxExponent
    <3> DEFINE p == Pow2(n - 1)
               product == BackoffBase * p
    <3>1. /\ Clamp(n - 1, 0, MaxExponent) = n - 1
          /\ Clamp((n + 1) - 1, 0, MaxExponent) = n
      BY <2>1, BackoffAssumption DEF Clamp
    <3>2. n - 1 \in 0..MaxExponent /\ (n - 1) + 1 = n
      BY <2>1, BackoffAssumption
    <3>3. p \in Nat /\ Pow2(n) = 2 * p
      BY <2>1, <3>2, PowersOfTwo
    <3>4. product \in Nat /\ BackoffBase * Pow2(n) = 2 * product
      <4>1. \A b, q \in Nat : b * q \in Nat /\ b * (2 * q) = 2 * (b * q)
        OBVIOUS
      <4> HIDE DEF p
      <4> QED
        BY <3>3, <4>1, BackoffAssumption
    <3>5. /\ backoff_seconds(n) = AtMost(product, BackoffCap)
          /\ backoff_seconds(n + 1) = AtMost(2 * product, BackoffCap)
      BY <3>1, <3>4 DEF backoff_seconds
    <3> HIDE DEF product
    <3> QED
      BY <3>4, <3>5, BackoffAssumption DEF AtMost
  <2>2. CASE ~(n - 1 < MaxExponent)
    <3> DEFINE product == BackoffBase * Pow2(MaxExponent)
    <3>1. /\ Clamp(n - 1, 0, MaxExponent) = MaxExponent
          /\ Clamp((n + 1) - 1, 0, MaxExponent) = MaxExponent
      BY <2>2, BackoffAssumption DEF Clamp
    <3>2. product \in Nat
      <4>1. \A b, q \in Nat : b * q \in Nat
        OBVIOUS
      <4>2. Pow2(MaxExponent) \in Nat
        BY PowersOfTwo, BackoffAssumption
      <4> QED
        BY <4>1, <4>2, BackoffAssumption
    <3>3. /\ backoff_seconds(n) = AtMost(product, BackoffCap)
          /\ backoff_seconds(n + 1) = AtMost(product, BackoffCap)
      BY <3>1 DEF backoff_seconds
    <3>4. BackoffCap <= product
      BY BackoffAssumption
    <3> HIDE DEF product
    <3> QED
      BY <3>2, <3>3, <3>4, BackoffAssumption DEF AtMost
  <2> QED
    BY <2>1, <2>2
<1> QED
  BY <1>1, <1>2

(* What is left of a delay is a duration.                                  *)
LEMMA RemainingType ==
  ASSUME NEW delay \in Nat, NEW elapsed \in Nat
  PROVE  Remaining(delay, elapsed) \in Nat
BY DEF Remaining

(* fetch_due returns rows of the table.                                    *)
LEMMA FetchedRows ==
  ASSUME TypeOK
  PROVE  /\ fetch_due \in SUBSET Row
         /\ \A r \in fetch_due : /\ r.id \in Events /\ wait[r.id] = 0
                                 /\ status[r.id] = "pending"
<1>1. \A e \in Events : [id |-> e, attempts |-> attempts[e]] \in Row
  BY DEF TypeOK, Row
<1> DEFINE First == {x \in Due : Cardinality({y \in Due : y < x}) < Limit}
<1>2. First \subseteq Due
  OBVIOUS
<1>3. \A x \in Due : x \in Events /\ status[x] = "pending" /\ wait[x] = 0
  BY DEF Due
<1>4. fetch_due = {[id |-> e, attempts |-> attempts[e]] : e \in First}
  BY DEF fetch_due
<1> HIDE DEF First
<1> QED
  BY <1>1, <1>2, <1>3, <1>4

(* The row a drainer is at.                                                *)
LEMMA CurrentRow ==
  ASSUME TypeOK, NEW d \in Drainers, NEW r \in rows[d]
  PROVE  r \in Row /\ r.id \in Events /\ r.attempts \in Nat
BY DEF TypeOK, Row

-----------------------------------------------------------------------------
(* How a round ends or goes on, for the types of its variables.            *)
LEMMA LeaveType ==
  ASSUME TypeOK, NEW d \in Drainers, Leave(d)
  PROVE  /\ pc' \in [Drainers -> {"idle", "publish", "mark_sent", "mark_retry"}]
         /\ rows' \in [Drainers -> SUBSET Row]
         /\ age' \in [Drainers -> Nat]
BY DEF TypeOK, Leave

LEMMA ContinueType ==
  ASSUME TypeOK, NEW d \in Drainers, NEW r \in rows[d], Continue(d, r)
  PROVE  /\ pc' \in [Drainers -> {"idle", "publish", "mark_sent", "mark_retry"}]
         /\ rows' \in [Drainers -> SUBSET Row]
         /\ age' \in [Drainers -> Nat]
<1>1. CASE rows[d] = {r}
  BY <1>1, LeaveType DEF Continue
<1>2. CASE rows[d] # {r}
  <2>1. /\ rows' = [rows EXCEPT ![d] = rows[d] \ {r}]
        /\ pc' = [pc EXCEPT ![d] = "publish"]
        /\ age' = age
    BY <1>2 DEF Continue
  <2>2. rows' \in [Drainers -> SUBSET Row]
    BY <2>1 DEF TypeOK
  <2> QED
    BY <2>1, <2>2 DEF TypeOK
<1> QED
  BY <1>1, <1>2

LEMMA FaultType ==
  ASSUME TypeOK, NEW kind, Fault(kind)
  PROVE  faults' \in 0..MaxFaults
BY OutboxAssumption DEF TypeOK, Fault

LEMMA InitType == Init => TypeOK
BY OutboxAssumption DEF Init, TypeOK

LEMMA NextType == TypeOK /\ [Next]_vars => TypeOK'
<1> SUFFICES ASSUME TypeOK, [Next]_vars
             PROVE  TypeOK'
  OBVIOUS
<1>1. ASSUME NEW e \in Events, enqueue(e)
      PROVE  TypeOK'
  BY <1>1 DEF TypeOK, enqueue
<1>2. ASSUME NEW d \in Drainers, DrainFetch(d)
      PROVE  TypeOK'
  <2>1. rows' \in [Drainers -> SUBSET Row]
    BY <1>2, FetchedRows DEF DrainFetch, TypeOK
  <2>2. /\ pc' \in [Drainers -> {"idle", "publish", "mark_sent", "mark_retry"}]
        /\ age' \in [Drainers -> Nat]
    BY <1>2 DEF DrainFetch, TypeOK
  <2> QED
    BY <1>2, <2>1, <2>2 DEF DrainFetch, TypeOK, table
<1>3. ASSUME NEW d \in Drainers, NEW r \in rows[d], DrainPublish(d, r)
      PROVE  TypeOK'
  <2>1. log' \in Seq(Events)
    <3>1. log \in Seq(Events) /\ r.id \in Events
      BY CurrentRow DEF TypeOK
    <3>2. log' = log \/ log' = Append(log, r.id)
      BY <1>3 DEF DrainPublish, publish
    <3> QED
      BY <3>1, <3>2
  <2>2. faults' \in 0..MaxFaults
    BY <1>3, FaultType DEF DrainPublish, TypeOK
  <2>3. pc' \in [Drainers -> {"idle", "publish", "mark_sent", "mark_retry"}]
    BY <1>3 DEF DrainPublish, TypeOK
  <2> QED
    BY <1>3, <2>1, <2>2, <2>3 DEF DrainPublish, TypeOK, table
<1>4. ASSUME NEW d \in Drainers, NEW r \in rows[d], DrainMarkSent(d, r)
      PROVE  TypeOK'
  <2>1. /\ status' \in [Events -> {"none", "pending", "sent"}]
        /\ attempts' \in [Events -> Nat]
        /\ wait' \in [Events -> Nat]
        /\ last_error' \in [Events -> BOOLEAN]
    BY <1>4 DEF DrainMarkSent, mark_sent, TypeOK, table
  <2>2. /\ pc' \in [Drainers -> {"idle", "publish", "mark_sent", "mark_retry"}]
        /\ rows' \in [Drainers -> SUBSET Row]
        /\ age' \in [Drainers -> Nat]
    BY <1>4, LeaveType, ContinueType DEF DrainMarkSent
  <2>3. faults' \in 0..MaxFaults
    BY <1>4, FaultType DEF DrainMarkSent, TypeOK
  <2> QED
    BY <1>4, <2>1, <2>2, <2>3 DEF DrainMarkSent, TypeOK
<1>5. ASSUME NEW d \in Drainers, NEW r \in rows[d], DrainMarkRetry(d, r)
      PROVE  TypeOK'
  <2> DEFINE delay == Remaining(backoff_seconds(r.attempts + 1), age[d])
  <2>1. r.attempts + 1 \in Nat /\ delay \in Nat
    <3>1. r.attempts \in Nat
      BY CurrentRow
    <3>2. age[d] \in Nat
      BY DEF TypeOK
    <3>3. r.attempts + 1 \in Nat
      BY <3>1
    <3>4. backoff_seconds(r.attempts + 1) \in Nat
      BY <3>3, BackoffBounds
    <3> QED
      BY <3>2, <3>3, <3>4, RemainingType
  <2> HIDE DEF delay
  <2>2. \/ mark_retry(r.id, r.attempts + 1, delay)
        \/ UNCHANGED table
    BY <1>5 DEF DrainMarkRetry, delay
  <2>3. /\ status' \in [Events -> {"none", "pending", "sent"}]
        /\ attempts' \in [Events -> Nat]
        /\ wait' \in [Events -> Nat]
        /\ last_error' \in [Events -> BOOLEAN]
    <3>1. /\ status \in [Events -> {"none", "pending", "sent"}]
          /\ attempts \in [Events -> Nat]
          /\ wait \in [Events -> Nat]
          /\ last_error \in [Events -> BOOLEAN]
      BY DEF TypeOK
    <3>2. CASE UNCHANGED table
      BY <3>1, <3>2 DEF table
    <3>3. CASE mark_retry(r.id, r.attempts + 1, delay)
      <4>1. status' \in [Events -> {"none", "pending", "sent"}]
        BY <3>1, <3>3 DEF mark_retry
      <4>2. attempts' \in [Events -> Nat]
        BY <2>1, <3>1, <3>3 DEF mark_retry
      <4>3. wait' \in [Events -> Nat]
        BY <2>1, <3>1, <3>3 DEF mark_retry
      <4>4. last_error' \in [Events -> BOOLEAN]
        BY <3>1, <3>3 DEF mark_retry
      <4> QED
        BY <4>1, <4>2, <4>3, <4>4
    <3> QED
      BY <2>2, <3>2, <3>3
  <2>4. /\ pc' \in [Drainers -> {"idle", "publish", "mark_sent", "mark_retry"}]
        /\ rows' \in [Drainers -> SUBSET Row]
        /\ age' \in [Drainers -> Nat]
    BY <1>5, LeaveType, ContinueType DEF DrainMarkRetry
  <2>5. faults' \in 0..MaxFaults
    BY <1>5, FaultType DEF DrainMarkRetry, TypeOK
  <2> QED
    BY <1>5, <2>3, <2>4, <2>5 DEF DrainMarkRetry, TypeOK
<1>6. ASSUME NEW d \in Drainers, Crash(d)
      PROVE  TypeOK'
  BY <1>6, LeaveType, FaultType DEF Crash, TypeOK, table
<1>7. CASE Tick
  <2>1. wait' \in [Events -> Nat]
    BY <1>7, RemainingType DEF Tick, TypeOK
  <2>2. age' \in [Drainers -> Nat]
    BY <1>7, BackoffAssumption DEF Tick, TypeOK, AtMost
  <2> QED
    BY <1>7, <2>1, <2>2 DEF Tick, TypeOK
<1>8. CASE UNCHANGED vars
  BY <1>8 DEF TypeOK, vars
<1> QED
  BY <1>1, <1>2, <1>3, <1>4, <1>5, <1>6, <1>7, <1>8 DEF Next, DrainStep

(* Type correctness of the outbox.                                         *)
THEOREM TypeCorrect == Spec => []TypeOK
<1> QED
  BY InitType, NextType, PTL DEF Spec

-----------------------------------------------------------------------------
(* The inductive invariant.  SentWasPublished is not inductive: mark_sent  *)
(* needs to know that the row it marks was published by the step before,   *)
(* and a publication is a legal delivery only for a row that exists.       *)
Confirmed ==
  \A d \in Drainers : \A r \in rows[d] :
    pc[d] = "mark_sent" /\ IsCurrent(d, r) => r.id \in Published

RowsExist == \A d \in Drainers : \A r \in rows[d] : status[r.id] # "none"

Inv == TypeOK /\ SentWasPublished /\ Confirmed /\ RowsExist

LEMMA PublishedByAppend ==
  ASSUME NEW e \in Events, log \in Seq(Events), publish(e)
  PROVE  Published' = Published \cup {e}
<1>1. /\ DOMAIN log' = 1..(Len(log) + 1)
      /\ DOMAIN log = 1..Len(log)
      /\ Len(log) \in Nat
      /\ \A i \in 1..Len(log) : log'[i] = log[i]
      /\ log'[Len(log) + 1] = e
  BY DEF publish
<1> QED
  BY <1>1 DEF Published

(* What a step that ends or continues a round leaves of the rounds.        *)
LEMMA RoundShrinks ==
  ASSUME TypeOK, NEW d \in Drainers, NEW r \in rows[d],
         Leave(d) \/ Continue(d, r)
  PROVE  /\ \A c \in Drainers : rows'[c] \subseteq rows[c]
         /\ pc'[d] # "mark_sent"
         /\ \A c \in Drainers \ {d} : pc'[c] = pc[c] /\ rows'[c] = rows[c]
BY DEF TypeOK, Leave, Continue

LEMMA InitInv == Init => Inv
BY InitType DEF Init, Inv, SentWasPublished, Confirmed, RowsExist

LEMMA NextInv == Inv /\ [Next]_vars => Inv'
<1> SUFFICES ASSUME Inv, [Next]_vars
             PROVE  Inv'
  OBVIOUS
<1>0. TypeOK /\ TypeOK'
  BY NextType DEF Inv
<1>1. ASSUME NEW e \in Events, enqueue(e)
      PROVE  Inv'
  <2>1. /\ Published' = Published
        /\ pc' = pc /\ rows' = rows
        /\ \A f \in Events : status'[f] = IF f = e THEN "pending" ELSE status[f]
    BY <1>0, <1>1 DEF enqueue, Published, TypeOK
  <2>2. \A d \in Drainers : \A r \in rows[d] : r.id \in Events
    BY <1>0, CurrentRow
  <2> QED
    BY <1>0, <2>1, <2>2
    DEF Inv, SentWasPublished, Confirmed, RowsExist, IsCurrent
<1>2. ASSUME NEW d \in Drainers, DrainFetch(d)
      PROVE  Inv'
  <2>1. /\ Published' = Published
        /\ status' = status
        /\ pc' = [pc EXCEPT ![d] = "publish"]
        /\ rows' = [rows EXCEPT ![d] = fetch_due]
    BY <1>2 DEF DrainFetch, Published, table
  <2>2. \A r \in fetch_due : status[r.id] # "none"
    BY <1>0, FetchedRows
  <2>3. /\ pc'[d] = "publish" /\ rows'[d] = fetch_due
        /\ \A c \in Drainers \ {d} : pc'[c] = pc[c] /\ rows'[c] = rows[c]
    BY <1>0, <2>1 DEF TypeOK
  <2>4. Confirmed'
    BY <2>1, <2>3 DEF Inv, Confirmed, IsCurrent
  <2>5. RowsExist'
    BY <2>1, <2>2, <2>3 DEF Inv, RowsExist
  <2> QED
    BY <1>0, <2>1, <2>4, <2>5 DEF Inv, SentWasPublished
<1>3. ASSUME NEW d \in Drainers, NEW r \in rows[d], DrainPublish(d, r)
      PROVE  Inv'
  <2>1. status' = status /\ rows' = rows
    BY <1>3 DEF DrainPublish, table
  <2>2. /\ r.id \in Events
        /\ log \in Seq(Events)
    BY <1>0, CurrentRow DEF TypeOK
  <2>3. Published \subseteq Published'
    <3>1. CASE publish(r.id)
      BY <2>2, <3>1, PublishedByAppend
    <3>2. CASE log' = log
      BY <3>2 DEF Published
    <3> QED
      BY <1>3, <3>1, <3>2 DEF DrainPublish
  <2>4. ASSUME NEW c \in Drainers, NEW q \in rows[c],
               pc'[c] = "mark_sent", IsCurrent(c, q)'
        PROVE  q.id \in Published'
    <3>1. IsCurrent(c, q)
      BY <2>1, <2>4 DEF IsCurrent
    <3>2. CASE c # d
      <4>1. pc[c] = "mark_sent"
        BY <1>0, <1>3, <2>4, <3>2 DEF DrainPublish, TypeOK
      <4> QED
        BY <2>3, <3>1, <4>1 DEF Inv, Confirmed
    <3>3. CASE c = d
      <4>1. publish(r.id)
        BY <1>0, <1>3, <2>4, <3>3 DEF DrainPublish, TypeOK
      <4>2. IsCurrent(d, r)
        BY <1>3 DEF DrainPublish
      <4>3. q.id \in Nat /\ r.id \in Nat
        BY <1>0, <3>3, CurrentRow, OutboxAssumption
      <4>4. q.id = r.id
        BY <3>1, <3>3, <4>2, <4>3 DEF IsCurrent
      <4> QED
        BY <2>2, <4>1, <4>4, PublishedByAppend
    <3> QED
      BY <3>2, <3>3
  <2>5. Confirmed'
    BY <2>1, <2>4 DEF Confirmed
  <2>6. SentWasPublished' /\ RowsExist'
    BY <2>1, <2>3 DEF Inv, SentWasPublished, RowsExist
  <2> QED
    BY <1>0, <2>5, <2>6 DEF Inv
<1>4. ASSUME NEW d \in Drainers, NEW r \in rows[d], DrainMarkSent(d, r)
      PROVE  Inv'
  <2>1. /\ Published' = Published
        /\ Leave(d) \/ Continue(d, r)
        /\ mark_sent(r.id) \/ UNCHANGED table
    BY <1>4 DEF DrainMarkSent, Published
  <2>2. r.id \in Events /\ r.id \in Published
    BY <1>0, <1>4, CurrentRow DEF DrainMarkSent, Inv, Confirmed
  <2>3. \A f \in Events : status'[f] = status[f] \/ (f = r.id /\ status'[f] = "sent")
    BY <1>0, <2>1, <2>2 DEF mark_sent, TypeOK, table
  <2>4. SentWasPublished'
    BY <2>1, <2>2, <2>3 DEF Inv, SentWasPublished
  <2>5. /\ \A c \in Drainers : rows'[c] \subseteq rows[c]
        /\ pc'[d] # "mark_sent"
        /\ \A c \in Drainers \ {d} : pc'[c] = pc[c] /\ rows'[c] = rows[c]
    BY <1>0, <2>1, RoundShrinks
  <2>6. Confirmed'
    BY <2>1, <2>5 DEF Inv, Confirmed, IsCurrent
  <2>7. RowsExist'
    <3>1. \A c \in Drainers : \A q \in rows[c] : q.id \in Events
      BY <1>0, CurrentRow
    <3> QED
      BY <2>3, <2>5, <3>1 DEF Inv, RowsExist
  <2> QED
    BY <1>0, <2>4, <2>6, <2>7 DEF Inv
<1>5. ASSUME NEW d \in Drainers, NEW r \in rows[d], DrainMarkRetry(d, r)
      PROVE  Inv'
  <2>1. /\ Published' = Published
        /\ Leave(d) \/ Continue(d, r)
        /\ status' = status
    BY <1>5 DEF DrainMarkRetry, mark_retry, Published, table
  <2>2. /\ \A c \in Drainers : rows'[c] \subseteq rows[c]
        /\ pc'[d] # "mark_sent"
        /\ \A c \in Drainers \ {d} : pc'[c] = pc[c] /\ rows'[c] = rows[c]
    BY <1>0, <2>1, RoundShrinks
  <2> QED
    BY <1>0, <2>1, <2>2
    DEF Inv, SentWasPublished, Confirmed, RowsExist, IsCurrent
<1>6. ASSUME NEW d \in Drainers, Crash(d)
      PROVE  Inv'
  <2>1. Published' = Published /\ status' = status
    BY <1>6 DEF Crash, Published, table
  <2>2. /\ rows'[d] = {}
        /\ \A c \in Drainers \ {d} : pc'[c] = pc[c] /\ rows'[c] = rows[c]
    BY <1>0, <1>6 DEF Crash, Leave, TypeOK
  <2> QED
    BY <1>0, <2>1, <2>2
    DEF Inv, SentWasPublished, Confirmed, RowsExist, IsCurrent
<1>7. CASE Tick
  BY <1>0, <1>7
  DEF Tick, Inv, SentWasPublished, Confirmed, RowsExist, IsCurrent, Published
<1>8. CASE UNCHANGED vars
  BY <1>0, <1>8
  DEF vars, Inv, SentWasPublished, Confirmed, RowsExist, IsCurrent, Published
<1> QED
  BY <1>1, <1>2, <1>3, <1>4, <1>5, <1>6, <1>7, <1>8 DEF Next, DrainStep

LEMMA SpecInv == Spec => []Inv
<1> QED
  BY InitInv, NextInv, PTL DEF Spec

(* No event is lost by the drain: whatever the drainers, crashes and lost  *)
(* replies, a row is "sent" only when its event is in the stream.          *)
THEOREM NoLoss == Spec => []SentWasPublished
<1>1. Inv => SentWasPublished
  BY DEF Inv
<1> QED
  BY <1>1, SpecInv, PTL

-----------------------------------------------------------------------------
(* A sent row stays sent: neither a late mark_retry nor an enqueue brings  *)
(* it back.                                                                *)
THEOREM SentForGood == Spec => SentIsFinal
<1> DEFINE Kept == \A e \in Events : status[e] = "sent" => status'[e] = "sent"
<1>1. TypeOK /\ [Next]_vars => [Kept]_vars
  <2> SUFFICES ASSUME TypeOK, Next
               PROVE  Kept
    OBVIOUS
  <2>1. ASSUME NEW e \in Events, enqueue(e)
        PROVE  Kept
    BY <2>1 DEF enqueue, TypeOK
  <2>2. ASSUME NEW d \in Drainers, NEW r \in rows[d], DrainMarkSent(d, r)
        PROVE  Kept
    BY <2>2 DEF DrainMarkSent, mark_sent, TypeOK, table
  <2>3. ASSUME status' = status
        PROVE  Kept
    BY <2>3
  <2>4. CASE \E d \in Drainers : DrainFetch(d) \/ Crash(d)
    BY <2>3, <2>4 DEF DrainFetch, Crash, table
  <2>5. ASSUME NEW d \in Drainers, NEW r \in rows[d],
               DrainPublish(d, r) \/ DrainMarkRetry(d, r)
        PROVE  Kept
    BY <2>3, <2>5 DEF DrainPublish, DrainMarkRetry, mark_retry, table
  <2>6. CASE Tick
    BY <2>3, <2>6 DEF Tick
  <2> QED
    BY <2>1, <2>2, <2>4, <2>5, <2>6 DEF Next, DrainStep
<1> QED
  BY <1>1, TypeCorrect, PTL DEF Spec, SentIsFinal

-----------------------------------------------------------------------------
(* How often the drainers publish an event.                                *)

(* The drainers that have published e and are about to mark it sent.       *)
AtSent(e) ==
  {d \in Drainers :
     pc[d] = "mark_sent" /\ \E r \in rows[d] : IsCurrent(d, r) /\ r.id = e}

(* The drainers whose round has still to publish e.                        *)
Todo(e) ==
  {d \in Drainers :
     \E r \in rows[d] : r.id = e /\ (pc[d] = "publish" \/ ~IsCurrent(d, r))}

(* A round visits an event once.                                           *)
Unique == \A d \in Drainers : \A q, r \in rows[d] : q.id = r.id => q = r

(* Until e is marked sent, a copy is either about to be marked or paid for *)
(* by a fault; from then on only rounds that hold the row still publish.   *)
Counted ==
  \A e \in Events :
    /\ status[e] # "sent" =>
         Copies(e) <= faults + Cardinality(AtSent(e))
    /\ status[e] = "sent" =>
         Copies(e) + Cardinality(Todo(e)) <= faults + Cardinality(Drainers)

CopiesInv == TypeOK /\ Unique /\ Counted

-----------------------------------------------------------------------------
LEMMA CopiesType ==
  ASSUME NEW s \in Seq(Events), NEW e \in Events
  PROVE  /\ IsFiniteSet({i \in DOMAIN s : s[i] = e})
         /\ Cardinality({i \in DOMAIN s : s[i] = e}) \in Nat
<1>1. Len(s) \in Nat /\ DOMAIN s = 1..Len(s)
  OBVIOUS
<1>2. IsFiniteSet(1..Len(s))
  <2>1. 1 \in Int /\ Len(s) \in Int
    BY <1>1
  <2> QED
    BY <2>1, FS_Interval
<1>3. {i \in DOMAIN s : s[i] = e} \in SUBSET (1..Len(s))
  BY <1>1
<1> QED
  BY <1>2, <1>3, FS_Subset, FS_CardinalityType

(* An XADD adds a copy of its event and none of another.                   *)
LEMMA CopiesByAppend ==
  ASSUME TypeOK, NEW e \in Events, NEW f \in Events, publish(f)
  PROVE  Copies(e)' = IF e = f THEN Copies(e) + 1 ELSE Copies(e)
<1> DEFINE old == {i \in DOMAIN log : log[i] = e}
           new == {i \in DOMAIN log' : log'[i] = e}
<1>1. /\ log \in Seq(Events) /\ Len(log) \in Nat
      /\ DOMAIN log = 1..Len(log)
      /\ DOMAIN log' = 1..(Len(log) + 1)
      /\ \A i \in 1..Len(log) : log'[i] = log[i]
      /\ log'[Len(log) + 1] = f
  BY DEF TypeOK, publish
<1>2. IsFiniteSet(old)
  BY <1>1, CopiesType
<1>3. CASE e = f
  <2>1. new = old \cup {Len(log) + 1}
    BY <1>1, <1>3
  <2>2. Len(log) + 1 \notin old
    BY <1>1
  <2> QED
    BY <1>2, <1>3, <2>1, <2>2, FS_AddElement DEF Copies
<1>4. CASE e # f
  <2>1. new = old
    BY <1>1, <1>4
  <2> QED
    BY <1>4, <2>1 DEF Copies
<1> QED
  BY <1>3, <1>4

(* The groups of drainers are finite, so that they can be counted.         *)
LEMMA GroupsType ==
  ASSUME NEW e
  PROVE  /\ IsFiniteSet(Drainers) /\ Cardinality(Drainers) \in Nat
         /\ IsFiniteSet(AtSent(e)) /\ Cardinality(AtSent(e)) \in Nat
         /\ IsFiniteSet(Todo(e)) /\ Cardinality(Todo(e)) \in Nat
<1>1. IsFiniteSet(Drainers)
  BY OutboxAssumption
<1>2. AtSent(e) \in SUBSET Drainers /\ Todo(e) \in SUBSET Drainers
  BY DEF AtSent, Todo
<1> QED
  BY <1>1, <1>2, FS_Subset, FS_CardinalityType

LEMMA NextGroupsType ==
  ASSUME NEW e
  PROVE  /\ IsFiniteSet(AtSent(e)') /\ Cardinality(AtSent(e)') \in Nat
         /\ IsFiniteSet(Todo(e)') /\ Cardinality(Todo(e)') \in Nat
<1>1. IsFiniteSet(Drainers)
  BY OutboxAssumption
<1>2. AtSent(e)' \in SUBSET Drainers /\ Todo(e)' \in SUBSET Drainers
  BY DEF AtSent, Todo
<1> QED
  BY <1>1, <1>2, FS_Subset, FS_CardinalityType

LEMMA CountsType ==
  ASSUME TypeOK, NEW e \in Events
  PROVE  /\ Copies(e) \in Nat /\ faults \in Nat
         /\ Cardinality(Drainers) \in Nat
         /\ Cardinality(AtSent(e)) \in Nat /\ Cardinality(AtSent(e)') \in Nat
         /\ Cardinality(Todo(e)) \in Nat /\ Cardinality(Todo(e)') \in Nat
<1>1. Copies(e) \in Nat
  <2>1. log \in Seq(Events)
    BY DEF TypeOK
  <2> QED
    BY <2>1, CopiesType DEF Copies
<1>2. faults \in Nat
  BY OutboxAssumption DEF TypeOK
<1> QED
  BY <1>1, <1>2, GroupsType, NextGroupsType

(* A round is at one row.                                                  *)
LEMMA OneCurrent ==
  ASSUME TypeOK, NEW d \in Drainers, NEW q \in rows[d], NEW r \in rows[d],
         IsCurrent(d, q), IsCurrent(d, r)
  PROVE  q.id = r.id
<1>1. q.id \in Nat /\ r.id \in Nat
  BY CurrentRow, OutboxAssumption
<1> QED
  BY <1>1 DEF IsCurrent

(* Nobody is in both groups.                                               *)
LEMMA GroupsFit ==
  ASSUME TypeOK, Unique, NEW e
  PROVE  Cardinality(AtSent(e)) + Cardinality(Todo(e)) <= Cardinality(Drainers)
<1>1. AtSent(e) \cap Todo(e) = {}
  BY DEF AtSent, Todo, Unique
<1>2. Cardinality(AtSent(e) \cup Todo(e)) =
        Cardinality(AtSent(e)) + Cardinality(Todo(e))
  <2>1. Cardinality(AtSent(e) \cup Todo(e)) =
          Cardinality(AtSent(e)) + Cardinality(Todo(e))
            - Cardinality(AtSent(e) \cap Todo(e))
    BY GroupsType, FS_Union
  <2> QED
    BY <1>1, <2>1, GroupsType, FS_EmptySet
<1>3. AtSent(e) \cup Todo(e) \in SUBSET Drainers
  BY DEF AtSent, Todo
<1> QED
  BY <1>2, <1>3, GroupsType, FS_Subset

-----------------------------------------------------------------------------
(* A step of d changes the groups by d at most.                            *)
Only(d) == \A c \in Drainers \ {d} : pc'[c] = pc[c] /\ rows'[c] = rows[c]

LEMMA OthersStay ==
  ASSUME NEW d \in Drainers, Only(d), NEW e
  PROVE  /\ AtSent(e)' \ {d} = AtSent(e) \ {d}
         /\ Todo(e)' \ {d} = Todo(e) \ {d}
BY DEF Only, AtSent, Todo, IsCurrent

LEMMA AtSentStays ==
  ASSUME NEW d \in Drainers, Only(d), NEW e,
         d \notin AtSent(e), d \notin AtSent(e)'
  PROVE  Cardinality(AtSent(e)') = Cardinality(AtSent(e))
<1>1. AtSent(e)' = AtSent(e)
  BY OthersStay
<1> QED
  BY <1>1

LEMMA AtSentGains ==
  ASSUME NEW d \in Drainers, Only(d), NEW e,
         d \notin AtSent(e), d \in AtSent(e)'
  PROVE  Cardinality(AtSent(e)') = Cardinality(AtSent(e)) + 1
<1>1. AtSent(e)' = AtSent(e) \cup {d}
  BY OthersStay
<1> QED
  BY <1>1, GroupsType, FS_AddElement

LEMMA AtSentLoses ==
  ASSUME NEW d \in Drainers, Only(d), NEW e, d \notin AtSent(e)'
  PROVE  Cardinality(AtSent(e)) <= Cardinality(AtSent(e)') + 1
<1>1. AtSent(e)' = AtSent(e) \ {d}
  BY OthersStay
<1>2. Cardinality(AtSent(e) \ {d}) =
        IF d \in AtSent(e) THEN Cardinality(AtSent(e)) - 1
        ELSE Cardinality(AtSent(e))
  BY GroupsType, FS_RemoveElement
<1> QED
  BY <1>1, <1>2, GroupsType

LEMMA TodoShrinks ==
  ASSUME NEW d \in Drainers, Only(d), NEW e, d \in Todo(e)' => d \in Todo(e)
  PROVE  Cardinality(Todo(e)') <= Cardinality(Todo(e))
<1>1. Todo(e)' \in SUBSET Todo(e)
  BY OthersStay
<1> QED
  BY <1>1, GroupsType, FS_Subset

LEMMA TodoLoses ==
  ASSUME NEW d \in Drainers, Only(d), NEW e,
         d \in Todo(e), d \notin Todo(e)'
  PROVE  Cardinality(Todo(e)') + 1 <= Cardinality(Todo(e))
<1>1. Todo(e)' = Todo(e) \ {d}
  BY OthersStay
<1>2. Cardinality(Todo(e) \ {d}) = Cardinality(Todo(e)) - 1
  BY GroupsType, FS_RemoveElement
<1> QED
  BY <1>1, <1>2, GroupsType

(* Finishing a row, or the round, gives d nothing more to publish.         *)
LEMMA FinishShrinks ==
  ASSUME TypeOK, Unique, NEW d \in Drainers, NEW r \in rows[d],
         IsCurrent(d, r), Leave(d) \/ Continue(d, r), NEW e
  PROVE  /\ Only(d)
         /\ d \notin AtSent(e)'
         /\ Cardinality(Todo(e)') <= Cardinality(Todo(e))
<1>1. Only(d) /\ pc'[d] # "mark_sent"
  BY RoundShrinks DEF Only
<1>2. d \notin AtSent(e)'
  BY <1>1 DEF AtSent
<1>3. rows'[d] \subseteq rows[d] \ {r}
  BY DEF TypeOK, Leave, Continue
<1>4. ASSUME d \in Todo(e)'
      PROVE  d \in Todo(e)
  <2>1. PICK q \in rows'[d] : q.id = e
    BY <1>4 DEF Todo
  <2>2. q \in rows[d] /\ q # r
    BY <1>3
  <2>3. ~IsCurrent(d, q)
    BY <2>2, OneCurrent DEF Unique
  <2> QED
    BY <2>1, <2>2, <2>3 DEF Todo
<1> QED
  BY <1>1, <1>2, <1>4, TodoShrinks

-----------------------------------------------------------------------------
LEMMA InitCopies == Init => CopiesInv
<1> SUFFICES ASSUME Init
             PROVE  CopiesInv
  OBVIOUS
<1>1. TypeOK /\ Unique
  BY InitType DEF Init, Unique
<1>2. ASSUME NEW e \in Events
      PROVE  Copies(e) <= faults + Cardinality(AtSent(e))
  <2>1. {i \in DOMAIN log : log[i] = e} = {} /\ faults = 0
    BY DEF Init
  <2> QED
    BY <2>1, GroupsType, FS_EmptySet DEF Copies
<1> QED
  BY <1>1, <1>2 DEF Init, CopiesInv, Counted

(* A round holds an event once, whatever step is taken.                    *)
LEMMA NextUnique ==
  ASSUME TypeOK, Unique, [Next]_vars
  PROVE  Unique'
<1>1. ASSUME NEW d \in Drainers, DrainFetch(d)
      PROVE  Unique'
  <2> DEFINE First == {x \in Due : Cardinality({y \in Due : y < x}) < Limit}
  <2>1. fetch_due = {[id |-> e, attempts |-> attempts[e]] : e \in First}
    BY DEF fetch_due
  <2> HIDE DEF First
  <2>2. \A q, r \in fetch_due : q.id = r.id => q = r
    BY <2>1
  <2>3. rows' = [rows EXCEPT ![d] = fetch_due]
    BY <1>1 DEF DrainFetch
  <2> QED
    BY <2>2, <2>3 DEF Unique, TypeOK
<1>2. ASSUME NEW d \in Drainers, NEW r \in rows[d], Leave(d) \/ Continue(d, r)
      PROVE  Unique'
  <2>1. \A c \in Drainers : rows'[c] \subseteq rows[c]
    BY <1>2, RoundShrinks
  <2> QED
    BY <2>1 DEF Unique
<1>3. ASSUME NEW d \in Drainers, Crash(d)
      PROVE  Unique'
  BY <1>3 DEF Crash, Leave, TypeOK, Unique
<1>4. ASSUME UNCHANGED rows
      PROVE  Unique'
  BY <1>4 DEF Unique
<1> QED
  BY <1>1, <1>2, <1>3, <1>4
  DEF Next, DrainStep, DrainPublish, DrainMarkSent, DrainMarkRetry, enqueue,
      Tick, vars

(* An XADD: its drainer has one event less to publish, and is about to     *)
(* mark it sent or has met a fault.                                        *)
LEMMA PublishCounted ==
  ASSUME CopiesInv, NEW d \in Drainers, NEW r \in rows[d], DrainPublish(d, r)
  PROVE  Counted'
<1> SUFFICES ASSUME NEW e \in Events
             PROVE  /\ status'[e] # "sent" =>
                         Copies(e)' <= faults' + Cardinality(AtSent(e)')
                    /\ status'[e] = "sent" =>
                         Copies(e)' + Cardinality(Todo(e)')
                           <= faults' + Cardinality(Drainers)
  BY DEF Counted
<1>0. TypeOK /\ Unique /\ Counted
  BY DEF CopiesInv
<1>1. status' = status /\ rows' = rows /\ pc[d] = "publish" /\ IsCurrent(d, r)
  BY DEF DrainPublish, table
<1>2. Only(d)
  BY <1>0 DEF DrainPublish, TypeOK, Only
<1>3. r.id \in Events
  BY <1>0, CurrentRow
<1>4. /\ Copies(e) \in Nat /\ faults \in Nat /\ Cardinality(Drainers) \in Nat
      /\ Cardinality(AtSent(e)) \in Nat /\ Cardinality(AtSent(e)') \in Nat
      /\ Cardinality(Todo(e)) \in Nat /\ Cardinality(Todo(e)') \in Nat
  BY <1>0, CountsType
<1>5. d \notin AtSent(e)
  BY <1>1 DEF AtSent
<1>6. \/ publish(r.id) /\ pc'[d] = "mark_sent" /\ faults' = faults
      \/ publish(r.id) /\ pc'[d] = "mark_retry" /\ faults' = faults + 1
      \/ log' = log /\ pc'[d] = "mark_retry" /\ faults' = faults + 1
  BY <1>0 DEF DrainPublish, Fault, TypeOK
<1>7. CASE r.id # e
  <2>1. Copies(e)' = Copies(e)
    BY <1>0, <1>3, <1>6, <1>7, CopiesByAppend DEF Copies
  <2>2. d \notin AtSent(e)'
    <3>1. \A q \in rows[d] : IsCurrent(d, q)' => q.id # e
      BY <1>0, <1>1, <1>7, OneCurrent DEF IsCurrent
    <3> QED
      BY <1>1, <3>1 DEF AtSent
  <2>3. d \in Todo(e)' => d \in Todo(e)
    BY <1>1 DEF Todo
  <2>4. Cardinality(AtSent(e)') = Cardinality(AtSent(e))
    BY <1>2, <1>5, <2>2, AtSentStays
  <2>5. Cardinality(Todo(e)') <= Cardinality(Todo(e))
    BY <1>2, <2>3, TodoShrinks
  <2>6. faults' \in Nat /\ faults <= faults'
    BY <1>4, <1>6
  <2>7. CASE status[e] # "sent"
    BY <1>0, <1>1, <1>4, <2>1, <2>4, <2>6, <2>7 DEF Counted
  <2>8. CASE status[e] = "sent"
    <3>1. Copies(e) + Cardinality(Todo(e)) <= faults + Cardinality(Drainers)
      BY <1>0, <2>8 DEF Counted
    <3> QED
      BY <1>1, <1>4, <2>1, <2>5, <2>6, <2>8, <3>1
  <2> QED
    BY <2>7, <2>8
<1>8. CASE r.id = e
  <2>1. Copies(e)' = Copies(e) \/ Copies(e)' = Copies(e) + 1
    BY <1>0, <1>3, <1>6, <1>8, CopiesByAppend DEF Copies
  <2>2. d \in Todo(e) /\ d \notin Todo(e)'
    <3>1. d \in Todo(e)
      BY <1>1, <1>8 DEF Todo
    <3>2. \A q \in rows[d] : q.id = e => IsCurrent(d, q)'
      BY <1>0, <1>1, <1>8 DEF Unique, IsCurrent
    <3> QED
      BY <1>1, <1>6, <3>1, <3>2 DEF Todo
  <2>3. Cardinality(Todo(e)') + 1 <= Cardinality(Todo(e))
    BY <1>2, <2>2, TodoLoses
  <2>4. faults' \in Nat /\ faults <= faults'
    BY <1>4, <1>6
  <2>5. CASE status[e] = "sent"
    <3>1. Copies(e) + Cardinality(Todo(e)) <= faults + Cardinality(Drainers)
      BY <1>0, <2>5 DEF Counted
    <3> QED
      BY <1>1, <1>4, <2>1, <2>3, <2>4, <2>5, <3>1
  <2>6. CASE status[e] # "sent"
    <3>1. Copies(e) <= faults + Cardinality(AtSent(e))
      BY <1>0, <2>6 DEF Counted
    <3>2. CASE pc'[d] = "mark_sent"
      <4>1. IsCurrent(d, r)'
        BY <1>1 DEF IsCurrent
      <4>2. d \in AtSent(e)'
        BY <1>1, <1>8, <3>2, <4>1 DEF AtSent
      <4>3. Cardinality(AtSent(e)') = Cardinality(AtSent(e)) + 1
        BY <1>2, <1>5, <4>2, AtSentGains
      <4> QED
        BY <1>1, <1>4, <2>1, <2>4, <2>6, <3>1, <4>3
    <3>3. CASE pc'[d] = "mark_retry"
      <4>1. d \notin AtSent(e)'
        BY <3>3 DEF AtSent
      <4>2. Cardinality(AtSent(e)') = Cardinality(AtSent(e))
        BY <1>2, <1>5, <4>1, AtSentStays
      <4>3. faults' = faults + 1
        BY <1>6, <3>3
      <4> QED
        BY <1>1, <1>4, <2>1, <2>6, <3>1, <4>2, <4>3
    <3> QED
      BY <1>6, <3>2, <3>3
  <2> QED
    BY <2>5, <2>6
<1> QED
  BY <1>7, <1>8

(* The end of a row or of a round: what was about to be marked is marked,  *)
(* or a fault has hit it.                                                  *)
LEMMA FinishCounted ==
  ASSUME CopiesInv, NEW d \in Drainers, NEW r \in rows[d], IsCurrent(d, r),
         Leave(d) \/ Continue(d, r), UNCHANGED log,
         faults' = faults \/ faults' = faults + 1,
         \A e \in Events : status'[e] = "sent" \/ status'[e] = status[e],
         \A e \in Events : d \in AtSent(e) /\ status'[e] # "sent" =>
                             faults' = faults + 1
  PROVE  Counted'
<1> SUFFICES ASSUME NEW e \in Events
             PROVE  /\ status'[e] # "sent" =>
                         Copies(e)' <= faults' + Cardinality(AtSent(e)')
                    /\ status'[e] = "sent" =>
                         Copies(e)' + Cardinality(Todo(e)')
                           <= faults' + Cardinality(Drainers)
  BY DEF Counted
<1>0. TypeOK /\ Unique /\ Counted
  BY DEF CopiesInv
<1>1. /\ Copies(e) \in Nat /\ faults \in Nat /\ Cardinality(Drainers) \in Nat
      /\ Cardinality(AtSent(e)) \in Nat /\ Cardinality(AtSent(e)') \in Nat
      /\ Cardinality(Todo(e)) \in Nat /\ Cardinality(Todo(e)') \in Nat
  BY <1>0, CountsType
<1>2. Copies(e)' = Copies(e)
  BY DEF Copies
<1>3. /\ Only(d)
      /\ d \notin AtSent(e)'
      /\ Cardinality(Todo(e)') <= Cardinality(Todo(e))
  BY <1>0, FinishShrinks
<1>4. CASE status'[e] = "sent"
  <2>1. CASE status[e] = "sent"
    <3>1. Copies(e) + Cardinality(Todo(e)) <= faults + Cardinality(Drainers)
      BY <1>0, <2>1 DEF Counted
    <3> QED
      BY <1>1, <1>2, <1>3, <1>4, <3>1
  <2>2. CASE status[e] # "sent"
    <3>1. Copies(e) <= faults + Cardinality(AtSent(e))
      BY <1>0, <2>2 DEF Counted
    <3>2. Cardinality(AtSent(e)) + Cardinality(Todo(e)) <= Cardinality(Drainers)
      BY <1>0, GroupsFit
    <3> QED
      BY <1>1, <1>2, <1>3, <1>4, <3>1, <3>2
  <2> QED
    BY <2>1, <2>2
<1>5. CASE status'[e] # "sent"
  <2>1. Copies(e) <= faults + Cardinality(AtSent(e))
    BY <1>0, <1>5 DEF Counted
  <2>2. CASE d \in AtSent(e)
    <3>1. faults' = faults + 1
      BY <1>5, <2>2
    <3>2. Cardinality(AtSent(e)) <= Cardinality(AtSent(e)') + 1
      BY <1>3, AtSentLoses
    <3> QED
      BY <1>1, <1>2, <1>5, <2>1, <3>1, <3>2
  <2>3. CASE d \notin AtSent(e)
    <3>1. Cardinality(AtSent(e)') = Cardinality(AtSent(e))
      BY <1>3, <2>3, AtSentStays
    <3> QED
      BY <1>1, <1>2, <1>5, <2>1, <3>1
  <2> QED
    BY <2>2, <2>3
<1> QED
  BY <1>4, <1>5

LEMMA MarkSentCounted ==
  ASSUME CopiesInv, NEW d \in Drainers, NEW r \in rows[d], DrainMarkSent(d, r)
  PROVE  Counted'
<1>0. TypeOK /\ IsCurrent(d, r) /\ r.id \in Events
  BY CurrentRow DEF CopiesInv, DrainMarkSent
<1>1. /\ Leave(d) \/ Continue(d, r)
      /\ UNCHANGED log
      /\ faults' = faults \/ faults' = faults + 1
      /\ mark_sent(r.id) \/ (UNCHANGED table /\ faults' = faults + 1)
  BY DEF DrainMarkSent, Fault
<1>2. \A e \in Events : status'[e] = "sent" \/ status'[e] = status[e]
  BY <1>0, <1>1 DEF mark_sent, table, TypeOK
<1>3. ASSUME NEW e \in Events, d \in AtSent(e), status'[e] # "sent"
      PROVE  faults' = faults + 1
  <2>1. e = r.id
    BY <1>0, <1>3, OneCurrent DEF AtSent
  <2> QED
    BY <1>0, <1>1, <1>3, <2>1 DEF mark_sent, TypeOK
<1> QED
  BY <1>0, <1>1, <1>2, <1>3, FinishCounted

LEMMA MarkRetryCounted ==
  ASSUME CopiesInv, NEW d \in Drainers, NEW r \in rows[d], DrainMarkRetry(d, r)
  PROVE  Counted'
<1>1. /\ IsCurrent(d, r)
      /\ Leave(d) \/ Continue(d, r)
      /\ UNCHANGED <<log, status>>
      /\ faults' = faults \/ faults' = faults + 1
  BY DEF DrainMarkRetry, Fault, mark_retry, table
<1>2. \A e : d \notin AtSent(e)
  BY DEF DrainMarkRetry, AtSent
<1> QED
  BY <1>1, <1>2, FinishCounted

(* A crash ends a round at any row.                                        *)
LEMMA CrashCounted ==
  ASSUME CopiesInv, NEW d \in Drainers, Crash(d)
  PROVE  Counted'
<1> SUFFICES ASSUME NEW e \in Events
             PROVE  /\ status'[e] # "sent" =>
                         Copies(e)' <= faults' + Cardinality(AtSent(e)')
                    /\ status'[e] = "sent" =>
                         Copies(e)' + Cardinality(Todo(e)')
                           <= faults' + Cardinality(Drainers)
  BY DEF Counted
<1>0. TypeOK /\ Counted
  BY DEF CopiesInv
<1>1. /\ Copies(e) \in Nat /\ faults \in Nat /\ Cardinality(Drainers) \in Nat
      /\ Cardinality(AtSent(e)) \in Nat /\ Cardinality(AtSent(e)') \in Nat
      /\ Cardinality(Todo(e)) \in Nat /\ Cardinality(Todo(e)') \in Nat
  BY <1>0, CountsType
<1>2. status' = status /\ Copies(e)' = Copies(e) /\ faults' = faults + 1
  BY DEF Crash, Fault, table, Copies
<1>3. Only(d) /\ rows'[d] = {}
  BY <1>0 DEF Crash, Leave, TypeOK, Only
<1>4. d \notin AtSent(e)' /\ d \notin Todo(e)'
  BY <1>3 DEF AtSent, Todo
<1>5. /\ Cardinality(AtSent(e)) <= Cardinality(AtSent(e)') + 1
      /\ Cardinality(Todo(e)') <= Cardinality(Todo(e))
  BY <1>3, <1>4, AtSentLoses, TodoShrinks
<1>6. CASE status[e] = "sent"
  BY <1>0, <1>1, <1>2, <1>5, <1>6 DEF Counted
<1>7. CASE status[e] # "sent"
  BY <1>0, <1>1, <1>2, <1>5, <1>7 DEF Counted
<1> QED
  BY <1>6, <1>7

(* A SELECT returns no row that is sent.                                   *)
LEMMA FetchCounted ==
  ASSUME CopiesInv, NEW d \in Drainers, DrainFetch(d)
  PROVE  Counted'
<1> SUFFICES ASSUME NEW e \in Events
             PROVE  /\ status'[e] # "sent" =>
                         Copies(e)' <= faults' + Cardinality(AtSent(e)')
                    /\ status'[e] = "sent" =>
                         Copies(e)' + Cardinality(Todo(e)')
                           <= faults' + Cardinality(Drainers)
  BY DEF Counted
<1>0. TypeOK /\ Counted
  BY DEF CopiesInv
<1>1. /\ Copies(e) \in Nat /\ faults \in Nat /\ Cardinality(Drainers) \in Nat
      /\ Cardinality(AtSent(e)) \in Nat /\ Cardinality(AtSent(e)') \in Nat
      /\ Cardinality(Todo(e)) \in Nat /\ Cardinality(Todo(e)') \in Nat
  BY <1>0, CountsType
<1>2. status' = status /\ Copies(e)' = Copies(e) /\ faults' = faults
  BY DEF DrainFetch, table, Copies
<1>3. /\ Only(d) /\ pc[d] = "idle" /\ pc'[d] = "publish"
      /\ rows'[d] = fetch_due
  BY <1>0 DEF DrainFetch, TypeOK, Only
<1>4. CASE status[e] # "sent"
  <2>1. Cardinality(AtSent(e)') = Cardinality(AtSent(e))
    BY <1>3, AtSentStays DEF AtSent
  <2> QED
    BY <1>0, <1>1, <1>2, <1>4, <2>1 DEF Counted
<1>5. CASE status[e] = "sent"
  <2>1. d \notin Todo(e)'
    BY <1>0, <1>3, <1>5, FetchedRows DEF Todo
  <2>2. Cardinality(Todo(e)') <= Cardinality(Todo(e))
    BY <1>3, <2>1, TodoShrinks
  <2> QED
    BY <1>0, <1>1, <1>2, <1>5, <2>2 DEF Counted
<1> QED
  BY <1>4, <1>5

(* Steps of nobody's round: an INSERT, time, stuttering.                   *)
LEMMA AsideCounted ==
  ASSUME CopiesInv, UNCHANGED <<log, pc, rows, faults>>,
         \A e \in Events : status'[e] = "sent" <=> status[e] = "sent"
  PROVE  Counted'
<1>1. \A e : AtSent(e)' = AtSent(e) /\ Todo(e)' = Todo(e)
  BY DEF AtSent, Todo, IsCurrent
<1>2. \A e : Copies(e)' = Copies(e)
  BY DEF Copies
<1> QED
  BY <1>1, <1>2 DEF CopiesInv, Counted

LEMMA NextCopies == CopiesInv /\ [Next]_vars => CopiesInv'
<1> SUFFICES ASSUME CopiesInv, [Next]_vars
             PROVE  CopiesInv'
  OBVIOUS
<1>0. TypeOK' /\ Unique'
  BY NextType, NextUnique DEF CopiesInv
<1>1. ASSUME NEW e \in Events, enqueue(e)
      PROVE  Counted'
  <2>1. \A f \in Events : status'[f] = "sent" <=> status[f] = "sent"
    BY <1>1 DEF enqueue, CopiesInv, TypeOK
  <2> QED
    BY <1>1, <2>1, AsideCounted DEF enqueue
<1>2. ASSUME Tick \/ UNCHANGED vars
      PROVE  Counted'
  <2>1. /\ UNCHANGED <<log, pc, rows, faults>>
        /\ \A e \in Events : status'[e] = "sent" <=> status[e] = "sent"
    BY <1>2 DEF Tick, vars
  <2> QED
    BY <2>1, AsideCounted
<1>3. ASSUME NEW d \in Drainers, DrainStep(d) \/ Crash(d)
      PROVE  Counted'
  <2>1. CASE \E r \in rows[d] : DrainPublish(d, r)
    BY <2>1, PublishCounted
  <2>2. CASE \E r \in rows[d] : DrainMarkSent(d, r)
    BY <2>2, MarkSentCounted
  <2>3. CASE \E r \in rows[d] : DrainMarkRetry(d, r)
    BY <2>3, MarkRetryCounted
  <2>4. CASE DrainFetch(d)
    BY <2>4, FetchCounted
  <2>5. CASE Crash(d)
    BY <2>5, CrashCounted
  <2> QED
    BY <1>3, <2>1, <2>2, <2>3, <2>4, <2>5 DEF DrainStep
<1>4. Counted'
  <2>1. CASE \E e \in Events : enqueue(e)
    BY <1>1, <2>1
  <2>2. CASE \E d \in Drainers : DrainStep(d) \/ Crash(d)
    BY <1>3, <2>2
  <2> QED
    BY <1>2, <2>1, <2>2 DEF Next
<1> QED
  BY <1>0, <1>4 DEF CopiesInv

LEMMA CopiesBounded ==
  ASSUME CopiesInv
  PROVE  DuplicatesBounded
<1> SUFFICES ASSUME NEW e \in Events
             PROVE  Copies(e) <= Cardinality(Drainers) + faults
  BY DEF DuplicatesBounded
<1>1. /\ Copies(e) \in Nat /\ faults \in Nat /\ Cardinality(Drainers) \in Nat
      /\ Cardinality(AtSent(e)) \in Nat /\ Cardinality(Todo(e)) \in Nat
  BY CountsType DEF CopiesInv
<1>2. Cardinality(AtSent(e)) + Cardinality(Todo(e)) <= Cardinality(Drainers)
  BY GroupsFit DEF CopiesInv
<1>3. CASE status[e] = "sent"
  BY <1>1, <1>3 DEF CopiesInv, Counted
<1>4. CASE status[e] # "sent"
  BY <1>1, <1>2, <1>4 DEF CopiesInv, Counted
<1> QED
  BY <1>3, <1>4

(* Each copy of an event beyond one per drainer is paid for by a fault,    *)
(* however drainers interleave between SELECT, XADD and UPDATE.            *)
THEOREM CopiesArePaidFor == Spec => []DuplicatesBounded
<1> QED
  BY CopiesBounded, InitCopies, NextCopies, PTL DEF Spec

-----------------------------------------------------------------------------
(* Both modules count copies alike.                                        *)
LEMMA SameCopies == \A e : Delivery!Copies(e) = Copies(e)
<1>1. \A S : Delivery!Cardinality(S) = Cardinality(S)
  BY DEF Delivery!Cardinality, Cardinality
<1> QED
  BY <1>1 DEF Delivery!Copies, Copies

LEMMA NextCopiesBounded ==
  ASSUME CopiesInv'
  PROVE  DuplicatesBounded'
BY CopiesBounded, PTL

(* The safety of the refinement: an INSERT accepts an event, an XADD       *)
(* delivers it and there is room for the copy, the UPDATE of mark_sent     *)
(* settles it, and every other step is none of the abstract                *)
(* specification's business.                                               *)
THEOREM ImplementsSafely == Spec => Delivery!SafeSpec
<1> DEFINE accepted == {e \in Events : status[e] # "none"}
           settled == {e \in Events : status[e] = "sent"}
<1>1. Init => Delivery!Init
  BY DEF Init, Delivery!Init
<1>2. Inv /\ CopiesInv /\ CopiesInv' /\ [Next]_vars
      => [Delivery!Next]_(Delivery!vars)
  <2> SUFFICES ASSUME Inv, CopiesInv, CopiesInv', [Next]_vars
               PROVE  Delivery!Next \/ UNCHANGED Delivery!vars
    OBVIOUS
  <2>0. TypeOK
    BY DEF Inv
  <2>1. ASSUME NEW e \in Events, enqueue(e)
        PROVE  Delivery!Accept(e)
    <3>1. \A f \in Events : status'[f] = IF f = e THEN "pending" ELSE status[f]
      BY <2>0, <2>1 DEF enqueue, TypeOK
    <3>2. status[e] = "none" /\ log' = log
      BY <2>1 DEF enqueue
    <3> QED
      BY <3>1, <3>2 DEF Delivery!Accept
  <2>2. ASSUME NEW d \in Drainers, NEW r \in rows[d], DrainPublish(d, r)
        PROVE  Delivery!Deliver(r.id) \/ UNCHANGED Delivery!vars
    <3>1. status' = status /\ (publish(r.id) \/ log' = log)
      BY <2>2 DEF DrainPublish, table
    <3>2. r.id \in Events /\ r.id \in accepted
      BY <2>0, CurrentRow DEF Inv, RowsExist
    <3>3. ASSUME publish(r.id)
          PROVE  Delivery!Copies(r.id) < Cardinality(Drainers) + MaxFaults
      <4>1. Copies(r.id)' = Copies(r.id) + 1
        BY <2>0, <3>2, <3>3, CopiesByAppend
      <4>2. Copies(r.id)' <= Cardinality(Drainers) + faults'
        BY <3>2, NextCopiesBounded DEF DuplicatesBounded
      <4>3. /\ Copies(r.id) \in Nat /\ Cardinality(Drainers) \in Nat
            /\ faults' \in 0..MaxFaults
        BY <2>0, <3>2, CountsType DEF CopiesInv, TypeOK
      <4>4. Delivery!Copies(r.id) = Copies(r.id)
        BY SameCopies
      <4> QED
        BY <4>1, <4>2, <4>3, <4>4, OutboxAssumption
    <3> QED
      BY <3>1, <3>2, <3>3 DEF publish, Delivery!Deliver, Delivery!vars
  <2>3. ASSUME NEW d \in Drainers, NEW r \in rows[d], DrainMarkSent(d, r)
        PROVE  Delivery!Settle(r.id) \/ UNCHANGED Delivery!vars
    <3>1. log' = log
      BY <2>3 DEF DrainMarkSent
    <3>2. CASE UNCHANGED table
      BY <3>1, <3>2 DEF table, Delivery!vars
    <3>3. CASE mark_sent(r.id)
      <4>1. r.id \in Events
        BY <2>0, CurrentRow
      <4>2. \E i \in DOMAIN log : log[i] = r.id
        BY <2>3 DEF DrainMarkSent, Inv, Confirmed, Published
      <4>3. status[r.id] # "none"
        BY DEF Inv, RowsExist
      <4>4. \A f \in Events : status'[f] = IF f = r.id THEN "sent" ELSE status[f]
        BY <2>0, <3>3, <4>1 DEF mark_sent, TypeOK
      <4>5. settled' = settled \cup {r.id} /\ accepted' = accepted
        BY <4>1, <4>3, <4>4
      <4> QED
        BY <3>1, <4>2, <4>5 DEF Delivery!Settle
    <3> QED
      BY <2>3, <3>2, <3>3 DEF DrainMarkSent
  <2>4. ASSUME status' = status, log' = log
        PROVE  UNCHANGED Delivery!vars
    BY <2>4 DEF Delivery!vars
  <2>5. ASSUME NEW d \in Drainers, NEW r \in rows[d], DrainMarkRetry(d, r)
        PROVE  UNCHANGED Delivery!vars
    BY <2>4, <2>5 DEF DrainMarkRetry, mark_retry, table
  <2>6. ASSUME NEW d \in Drainers, DrainFetch(d) \/ Crash(d)
        PROVE  UNCHANGED Delivery!vars
    BY <2>4, <2>6 DEF DrainFetch, Crash, table
  <2>7. CASE Tick \/ UNCHANGED vars
    BY <2>4, <2>7 DEF Tick, vars
  <2>8. ASSUME NEW d \in Drainers, NEW r \in rows[d]
        PROVE  r.id \in Events
    BY <2>0, CurrentRow
  <2> QED
    BY <2>1, <2>2, <2>3, <2>5, <2>6, <2>7, <2>8
    DEF Next, DrainStep, Delivery!Next
<1> QED
  BY <1>1, <1>2, SpecInv, InitCopies, NextCopies, PTL DEF Spec, Delivery!SafeSpec

-----------------------------------------------------------------------------
(* With a single drainer, a round holds no row that is sent already.       *)
RowsPending == \A d \in Drainers : \A r \in rows[d] : status[r.id] = "pending"

LEMMA NextRowsPending ==
  ASSUME NEW d, Drainers = {d}, TypeOK, Unique, RowsPending, [Next]_vars
  PROVE  RowsPending'
<1>1. ASSUME NEW e \in Events, enqueue(e)
      PROVE  RowsPending'
  <2>1. rows' = rows /\ \A f \in Events : status[f] = "pending" => status'[f] = "pending"
    BY <1>1 DEF enqueue, TypeOK
  <2> QED
    BY <2>1, CurrentRow DEF RowsPending
<1>2. ASSUME DrainFetch(d)
      PROVE  RowsPending'
  <2>1. rows'[d] = fetch_due /\ status' = status
    BY <1>2 DEF DrainFetch, TypeOK, table
  <2> QED
    BY <2>1, FetchedRows DEF RowsPending
<1>3. ASSUME NEW r \in rows[d], DrainMarkSent(d, r)
      PROVE  RowsPending'
  <2>1. /\ Leave(d) \/ Continue(d, r)
        /\ \A f \in Events : f # r.id => status'[f] = status[f]
    BY <1>3 DEF DrainMarkSent, mark_sent, table, TypeOK
  <2>2. rows'[d] \subseteq rows[d] \ {r}
    BY <2>1 DEF TypeOK, Leave, Continue
  <2>3. \A q \in rows[d] \ {r} : q.id \in Events /\ q.id # r.id
    BY CurrentRow DEF Unique
  <2> QED
    BY <2>1, <2>2, <2>3 DEF RowsPending
<1>4. ASSUME status' = status, rows'[d] \subseteq rows[d]
      PROVE  RowsPending'
  BY <1>4 DEF RowsPending
<1>5. ASSUME NEW r \in rows[d], DrainMarkRetry(d, r)
      PROVE  RowsPending'
  <2>1. status' = status /\ (Leave(d) \/ Continue(d, r))
    BY <1>5 DEF DrainMarkRetry, mark_retry, table
  <2> QED
    BY <1>4, <2>1, RoundShrinks
<1>6. ASSUME Crash(d)
      PROVE  RowsPending'
  BY <1>4, <1>6 DEF Crash, Leave, table, TypeOK
<1>7. ASSUME NEW r \in rows[d], DrainPublish(d, r)
      PROVE  RowsPending'
  BY <1>4, <1>7 DEF DrainPublish, table
<1>8. CASE Tick \/ UNCHANGED vars
  BY <1>4, <1>8 DEF Tick, vars
<1> QED
  BY <1>1, <1>2, <1>3, <1>5, <1>6, <1>7, <1>8 DEF Next, DrainStep

(* With a single drainer, a sent event gets no further copy, whatever      *)
(* fails.  Two drainers may both have fetched its row.                     *)
THEOREM SentIsNotPublishedAgain ==
  ASSUME NEW d, Drainers = {d}
  PROVE  Spec => SentNotRepublished
<1> DEFINE Kept == \A e \in Events : status[e] = "sent" => Copies(e)' = Copies(e)
<1>1. Init => RowsPending
  BY DEF Init, RowsPending
<1>2. CopiesInv /\ RowsPending /\ [Next]_vars => RowsPending'
  BY NextRowsPending DEF CopiesInv
<1>3. CopiesInv /\ RowsPending /\ [Next]_vars => [Kept]_vars
  <2> SUFFICES ASSUME TypeOK, RowsPending, Next, NEW e \in Events,
                      status[e] = "sent"
               PROVE  Copies(e)' = Copies(e)
    BY DEF CopiesInv
  <2>1. ASSUME log' = log
        PROVE  Copies(e)' = Copies(e)
    BY <2>1 DEF Copies
  <2>2. ASSUME NEW r \in rows[d], DrainPublish(d, r)
        PROVE  Copies(e)' = Copies(e)
    <3>1. r.id \in Events /\ r.id # e
      BY CurrentRow DEF RowsPending
    <3>2. publish(r.id) \/ log' = log
      BY <2>2 DEF DrainPublish
    <3> QED
      BY <2>1, <3>1, <3>2, CopiesByAppend
  <2>3. CASE Tick \/ \E f \in Events : enqueue(f)
    BY <2>1, <2>3 DEF Tick, enqueue
  <2>4. CASE \E r \in rows[d] : DrainMarkSent(d, r) \/ DrainMarkRetry(d, r)
    BY <2>1, <2>4 DEF DrainMarkSent, DrainMarkRetry
  <2>5. CASE DrainFetch(d) \/ Crash(d)
    BY <2>1, <2>5 DEF DrainFetch, Crash
  <2> QED
    BY <2>2, <2>3, <2>4, <2>5 DEF Next, DrainStep
<1> QED
  BY <1>1, <1>2, <1>3, InitCopies, NextCopies, PTL DEF Spec, SentNotRepublished

-----------------------------------------------------------------------------
(* The history variables: every step of HSpec is one of Spec.              *)
Steps == Inv /\ CopiesInv

HistoryOK ==
  /\ failed \in [Events -> Nat]
  /\ since \in [Events -> Nat]
  /\ visible \in [Drainers -> SUBSET Events]

LEMMA HNextNext == [HNext]_hvars => [Next]_vars
BY DEF HNext, Next, hvars

LEMMA HSpecSteps == HSpec => []Steps
<1>1. HInit => Inv /\ CopiesInv
  BY InitInv, InitCopies DEF HInit
<1> QED
  BY <1>1, HNextNext, NextInv, NextCopies, PTL DEF HSpec, Steps

(* Who fails, fetches or ends in a step of a drainer.                      *)
LEMMA FailuresType ==
  ASSUME NEW e
  PROVE  /\ IsFiniteSet({d \in Drainers : FailsNow(d, e)})
         /\ Cardinality({d \in Drainers : FailsNow(d, e)}) \in Nat
<1>1. {d \in Drainers : FailsNow(d, e)} \in SUBSET Drainers
  OBVIOUS
<1> QED
  BY <1>1, OutboxAssumption, FS_Subset, FS_CardinalityType

LEMMA HInitHistory == HInit => HistoryOK
BY DEF HInit, HistoryOK

LEMMA HNextHistory ==
  ASSUME TypeOK, HistoryOK, [HNext]_hvars
  PROVE  HistoryOK'
<1>1. CASE Tick /\ since' = [e \in Events |-> AtMost(since[e] + 1, BackoffCap)]
           /\ UNCHANGED <<failed, owed, visible>>
  BY <1>1, BackoffAssumption DEF HistoryOK, AtMost
<1>2. CASE UNCHANGED hvars
  BY <1>2 DEF hvars, HistoryOK
<1>3. ASSUME Remember
      PROVE  HistoryOK'
  <2>1. failed' \in [Events -> Nat]
    <3>1. \A e \in Events :
            failed[e] + Cardinality({d \in Drainers : FailsNow(d, e)}) \in Nat
      <4> SUFFICES ASSUME NEW e \in Events
                   PROVE  failed[e] + Cardinality({d \in Drainers : FailsNow(d, e)})
                            \in Nat
        OBVIOUS
      <4>1. failed[e] \in Nat
        BY DEF HistoryOK
      <4>2. Cardinality({d \in Drainers : FailsNow(d, e)}) \in Nat
        BY FailuresType
      <4> QED
        BY <4>1, <4>2
    <3> QED
      BY <1>3, <3>1 DEF Remember
  <2>2. since' \in [Events -> Nat]
    <3>1. ASSUME NEW e \in Events
          PROVE  since'[e] \in Nat
      <4>1. CASE \E d \in Drainers : FailsNow(d, e)
        <5>1. (CHOOSE d \in Drainers : FailsNow(d, e)) \in Drainers
          BY <4>1
        <5> QED
          BY <1>3, <4>1, <5>1 DEF Remember, TypeOK
      <4>2. CASE ~ \E d \in Drainers : FailsNow(d, e)
        BY <1>3, <4>2 DEF Remember, HistoryOK
      <4> QED
        BY <4>1, <4>2
    <3>2. since' = [e \in Events |-> since'[e]]
      BY <1>3 DEF Remember
    <3> QED
      BY <3>1, <3>2
  <2>3. visible' \in [Drainers -> SUBSET Events]
    BY <1>3 DEF Remember, HistoryOK, Due
  <2> QED
    BY <2>1, <2>2, <2>3 DEF HistoryOK
<1> QED
  BY <1>1, <1>2, <1>3 DEF HNext

-----------------------------------------------------------------------------
(* What the history variables say of the drainer that steps, and keep of   *)
(* the others.                                                             *)
LEMMA Remembered ==
  ASSUME TypeOK, HistoryOK, Remember
  PROVE  /\ \A e \in Events : /\ failed[e] \in Nat /\ failed'[e] \in Nat
                               /\ failed[e] <= failed'[e]
         /\ \A d \in Drainers, e \in Events : FailsNow(d, e) => failed'[e] > 0
         /\ \A d \in Drainers :
              visible'[d] = IF FetchesNow(d) THEN Due
                            ELSE IF pc'[d] = "idle" THEN {} ELSE visible[d]
<1>1. ASSUME NEW e \in Events
      PROVE  /\ failed[e] \in Nat /\ failed'[e] \in Nat
             /\ failed[e] <= failed'[e]
             /\ \A d \in Drainers : FailsNow(d, e) => failed'[e] > 0
  <2> DEFINE now == {d \in Drainers : FailsNow(d, e)}
  <2>1. failed'[e] = failed[e] + Cardinality(now) /\ failed[e] \in Nat
    BY DEF Remember, HistoryOK
  <2>2. IsFiniteSet(now) /\ Cardinality(now) \in Nat
    BY FailuresType
  <2>3. ASSUME NEW d \in Drainers, FailsNow(d, e)
        PROVE  Cardinality(now) # 0
    <3>1. d \in now
      BY <2>3
    <3> QED
      BY <2>2, <3>1, FS_EmptySet
  <2> HIDE DEF now
  <2> QED
    BY <2>1, <2>2, <2>3
<1> QED
  BY <1>1 DEF Remember

(* The rows a round has left, of those that were due when it was fetched:  *)
(* the others are sent, have failed or are younger.                        *)
Visited ==
  \A d \in Drainers : pc[d] # "idle" =>
    \A e \in visible[d] :
      \/ status[e] = "sent"
      \/ failed[e] > 0
      \/ \E r \in rows[d] : r.id = e
      \/ \A r \in rows[d] : r.id < e

(* A failure is counted before it is recorded.                             *)
Failures ==
  \A d \in Drainers : \A r \in rows[d] :
    pc[d] = "mark_retry" /\ IsCurrent(d, r) => failed[r.id] > 0

(* fetch_due takes the oldest: a due row it leaves is younger than all it  *)
(* takes.                                                                  *)
LEMMA FetchedFirst ==
  ASSUME TypeOK, NEW e \in Due
  PROVE  (\E r \in fetch_due : r.id = e) \/ (\A r \in fetch_due : r.id < e)
<1> DEFINE Before(x) == {y \in Due : y < x}
           First == {x \in Due : Cardinality(Before(x)) < Limit}
<1>0. fetch_due = {[id |-> x, attempts |-> attempts[x]] : x \in First}
  BY DEF fetch_due
<1>1. \A r \in fetch_due : r.id \in First
  <2> HIDE DEF First
  <2> QED
    BY <1>0
<1>2. CASE e \in First
  <2>1. [id |-> e, attempts |-> attempts[e]] \in fetch_due
    BY <1>0, <1>2
  <2> QED
    BY <2>1
<1>3. CASE e \notin First
  <2> SUFFICES ASSUME NEW x \in First
               PROVE  x < e
    <3> HIDE DEF First
    <3> QED
      BY <1>1
  <2>1. e \in Nat /\ x \in Nat /\ Due \subseteq Nat /\ x # e
    BY <1>3, OutboxAssumption DEF Due
  <2>2. \A z : IsFiniteSet(Before(z)) /\ Cardinality(Before(z)) \in Nat
    <3>1. \A z : Before(z) \in SUBSET Events
      BY DEF Due
    <3> QED
      BY <3>1, OutboxAssumption, FS_Subset, FS_CardinalityType
  <2>3. CASE e < x
    <3>1. Before(e) \in SUBSET Before(x)
      <4>1. \A y \in Nat : y < e => y < x
        BY <2>1, <2>3
      <4> QED
        BY <2>1, <4>1
    <3>2. Cardinality(Before(e)) <= Cardinality(Before(x))
      BY <2>2, <3>1, FS_Subset
    <3>3. ~(Cardinality(Before(e)) < Limit) /\ Cardinality(Before(x)) < Limit
      BY <1>3
    <3> HIDE DEF Before
    <3> QED
      BY <2>2, <3>2, <3>3, OutboxAssumption
  <2> QED
    BY <2>1, <2>3
<1> QED
  BY <1>2, <1>3

LEMMA SentStays ==
  ASSUME TypeOK, [Next]_vars, NEW e \in Events, status[e] = "sent"
  PROVE  status'[e] = "sent"
<1>1. CASE \E f \in Events : enqueue(f)
  BY <1>1 DEF enqueue, TypeOK
<1>2. CASE \E d \in Drainers : \E r \in rows[d] : DrainMarkSent(d, r)
  BY <1>2 DEF DrainMarkSent, mark_sent, TypeOK, table
<1>3. CASE status' = status
  BY <1>3
<1>4. CASE \E d \in Drainers : \/ DrainFetch(d) \/ Crash(d)
                              \/ \E r \in rows[d] : DrainPublish(d, r)
  BY <1>3, <1>4 DEF DrainFetch, Crash, DrainPublish, table
<1>5. CASE \E d \in Drainers : \E r \in rows[d] : DrainMarkRetry(d, r)
  BY <1>3, <1>5 DEF DrainMarkRetry, mark_retry, table
<1>6. CASE Tick \/ UNCHANGED vars
  BY <1>3, <1>6 DEF Tick, vars
<1> QED
  BY <1>1, <1>2, <1>4, <1>5, <1>6 DEF Next, DrainStep

(* A round that a step leaves as it is.                                    *)
LEMMA SameRound ==
  ASSUME TypeOK, HistoryOK, Visited, Failures, [Next]_vars, Remember,
         NEW c \in Drainers, pc'[c] = pc[c], rows'[c] = rows[c]
  PROVE  /\ pc'[c] # "idle" => \A e \in visible'[c] :
              \/ status'[e] = "sent"
              \/ failed'[e] > 0
              \/ \E r \in rows'[c] : r.id = e
              \/ \A r \in rows'[c] : r.id < e
         /\ \A r \in rows'[c] :
              pc'[c] = "mark_retry" /\ IsCurrent(c, r)' => failed'[r.id] > 0
<1>1. \A e \in Events : /\ failed[e] \in Nat /\ failed'[e] \in Nat
                        /\ failed[e] <= failed'[e]
                        /\ status[e] = "sent" => status'[e] = "sent"
  BY Remembered, SentStays
<1>2. pc'[c] # "idle" => visible'[c] = visible[c] /\ visible[c] \subseteq Events
  BY Remembered DEF FetchesNow, HistoryOK
<1>3. \A r \in rows[c] : r.id \in Events
  BY CurrentRow
<1> QED
  BY <1>1, <1>2, <1>3 DEF Visited, Failures, IsCurrent

LEMMA NextVisited ==
  ASSUME TypeOK, Unique, HistoryOK, Visited, Failures, [HNext]_hvars
  PROVE  Visited' /\ Failures'
<1>0. [Next]_vars
  BY HNextNext
<1>1. ASSUME Remember, NEW d \in Drainers, Only(d),
             pc'[d] # "idle" => \A e \in visible'[d] :
               \/ status'[e] = "sent"
               \/ failed'[e] > 0
               \/ \E r \in rows'[d] : r.id = e
               \/ \A r \in rows'[d] : r.id < e,
             \A r \in rows'[d] :
               pc'[d] = "mark_retry" /\ IsCurrent(d, r)' => failed'[r.id] > 0
      PROVE  Visited' /\ Failures'
  <2>1. \A c \in Drainers \ {d} : pc'[c] = pc[c] /\ rows'[c] = rows[c]
    BY <1>1 DEF Only
  <2>2. Visited'
    BY <1>0, <1>1, <2>1, SameRound DEF Visited
  <2>3. Failures'
    BY <1>0, <1>1, <2>1, SameRound DEF Failures
  <2> QED
    BY <2>2, <2>3
<1>2. ASSUME Remember, NEW d \in Drainers, DrainFetch(d)
      PROVE  Visited' /\ Failures'
  <2>1. /\ Only(d) /\ pc[d] = "idle" /\ pc'[d] = "publish"
        /\ rows'[d] = fetch_due
    BY <1>2 DEF DrainFetch, TypeOK, Only
  <2>2. visible'[d] = Due
    BY <1>2, <2>1, Remembered DEF FetchesNow
  <2> QED
    BY <1>1, <1>2, <2>1, <2>2, FetchedFirst
<1>3. ASSUME Remember, NEW d \in Drainers, NEW r \in rows[d], DrainPublish(d, r)
      PROVE  Visited' /\ Failures'
  <2>1. /\ Only(d) /\ pc[d] = "publish" /\ pc'[d] \in {"mark_sent", "mark_retry"}
        /\ rows' = rows /\ status' = status /\ IsCurrent(d, r)
    BY <1>3 DEF DrainPublish, TypeOK, Only, table
  <2>2. visible'[d] = visible[d] /\ visible[d] \subseteq Events
    BY <1>3, <2>1, Remembered DEF FetchesNow, HistoryOK
  <2>3. \A e \in Events : failed[e] > 0 => failed'[e] > 0
    BY <1>3, Remembered
  <2>4. \A e \in visible'[d] :
          \/ status'[e] = "sent"
          \/ failed'[e] > 0
          \/ \E q \in rows'[d] : q.id = e
          \/ \A q \in rows'[d] : q.id < e
    BY <2>1, <2>2, <2>3 DEF Visited
  <2>5. ASSUME NEW q \in rows'[d], pc'[d] = "mark_retry", IsCurrent(d, q)'
        PROVE  failed'[q.id] > 0
    <3>1. q \in rows[d] /\ IsCurrent(d, q) /\ q.id \in Events
      BY <2>1, <2>5, CurrentRow DEF IsCurrent
    <3>2. FailsNow(d, q.id)
      BY <2>1, <2>5, <3>1 DEF FailsNow
    <3> QED
      BY <1>3, <3>1, <3>2, Remembered
  <2> QED
    BY <1>1, <1>3, <2>1, <2>4, <2>5
<1>4. ASSUME Remember, NEW d \in Drainers, NEW r \in rows[d],
             IsCurrent(d, r), pc[d] # "idle",
             Leave(d) \/ (/\ Continue(d, r)
                          /\ status'[r.id] = "sent" \/ failed[r.id] > 0)
      PROVE  Visited' /\ Failures'
  <2>1. /\ Only(d) /\ pc'[d] \in {"idle", "publish"}
        /\ pc'[d] = "publish" =>
             /\ rows'[d] = rows[d] \ {r}
             /\ status'[r.id] = "sent" \/ failed[r.id] > 0
    BY <1>4 DEF Leave, Continue, TypeOK, Only
  <2>2. ASSUME pc'[d] # "idle", NEW e \in visible'[d]
        PROVE  \/ status'[e] = "sent"
               \/ failed'[e] > 0
               \/ \E q \in rows'[d] : q.id = e
               \/ \A q \in rows'[d] : q.id < e
    <3>1. \A f \in Events : failed[f] > 0 => failed'[f] > 0
      BY <1>4, Remembered
    <3>2. pc[d] # "idle" /\ e \in visible[d] /\ e \in Events
      BY <1>4, <2>1, <2>2, Remembered DEF FetchesNow, HistoryOK
    <3>3. status[e] = "sent" => status'[e] = "sent"
      BY <1>0, <3>2, SentStays
    <3>4. CASE \E q \in rows[d] : q.id = e
      <4>1. PICK q \in rows[d] : q.id = e
        BY <3>4
      <4>2. CASE q = r
        BY <2>1, <2>2, <3>1, <3>2, <4>1, <4>2
      <4>3. CASE q # r
        BY <2>1, <2>2, <4>1, <4>3
      <4> QED
        BY <4>2, <4>3
    <3> QED
      BY <2>1, <2>2, <3>1, <3>2, <3>3, <3>4 DEF Visited
  <2> QED
    BY <1>1, <1>4, <2>1, <2>2
<1>5. ASSUME Remember, NEW d \in Drainers, NEW r \in rows[d],
             DrainMarkSent(d, r) \/ DrainMarkRetry(d, r)
      PROVE  Visited' /\ Failures'
  <2>1. r.id \in Events
    BY CurrentRow
  <2>2. CASE DrainMarkSent(d, r)
    <3>1. Leave(d) \/ (Continue(d, r) /\ status'[r.id] = "sent")
      BY <2>1, <2>2 DEF DrainMarkSent, mark_sent, TypeOK
    <3> QED
      BY <1>4, <1>5, <2>2, <3>1 DEF DrainMarkSent
  <2>3. CASE DrainMarkRetry(d, r)
    <3>1. failed[r.id] > 0 /\ (Leave(d) \/ Continue(d, r))
      BY <2>3 DEF DrainMarkRetry, Failures
    <3> QED
      BY <1>4, <1>5, <2>3, <3>1 DEF DrainMarkRetry
  <2> QED
    BY <1>5, <2>2, <2>3
<1>6. ASSUME Remember, NEW d \in Drainers, Crash(d)
      PROVE  Visited' /\ Failures'
  <2>1. Only(d) /\ pc'[d] = "idle"
    BY <1>6 DEF Crash, Leave, TypeOK, Only
  <2> QED
    BY <1>1, <1>6, <2>1
<1>7. ASSUME Remember, NEW f \in Events, enqueue(f)
      PROVE  Visited' /\ Failures'
  <2>1. pc' = pc /\ rows' = rows
    BY <1>7 DEF enqueue
  <2> QED
    BY <1>0, <1>7, <2>1, SameRound DEF Visited, Failures
<1>8. CASE Tick /\ UNCHANGED <<failed, owed, visible>>
  BY <1>8 DEF Tick, Visited, Failures, IsCurrent
<1>9. CASE UNCHANGED hvars
  BY <1>9 DEF hvars, vars, Visited, Failures, IsCurrent
<1> QED
  BY <1>2, <1>3, <1>5, <1>6, <1>7, <1>8, <1>9 DEF HNext, DrainStep

(* Events reach the stream in creation order (outbox.rs:106), whatever the *)
(* other drainers do and whatever fails: a round publishes none while an   *)
(* older one that it saw is waiting, unless the older one failed.          *)
THEOREM PublishedInOrder == HSpec => OldestFirst
<1> DEFINE Ordered ==
      \A d \in Drainers, f \in Events : SucceedsNow(d, f) =>
        \A e \in visible[d] : e < f => status[e] = "sent" \/ failed[e] > 0
<1>1. HInit => HistoryOK /\ Visited /\ Failures
  BY HInitHistory DEF HInit, Init, Visited, Failures
<1>2. /\ Steps /\ HistoryOK /\ Visited /\ Failures /\ [HNext]_hvars
      => HistoryOK' /\ Visited' /\ Failures'
  BY HNextHistory, NextVisited DEF Steps, CopiesInv
<1>3. Steps /\ HistoryOK /\ Visited => Ordered
  <2> SUFFICES ASSUME Steps, HistoryOK, Visited,
                      NEW d \in Drainers, NEW f \in Events, SucceedsNow(d, f),
                      NEW e \in visible[d], e < f
               PROVE  status[e] = "sent" \/ failed[e] > 0
    OBVIOUS
  <2>1. PICK q \in rows[d] : IsCurrent(d, q) /\ q.id = f
    BY DEF SucceedsNow
  <2>2. e \in Nat /\ f \in Nat
    BY OutboxAssumption DEF HistoryOK
  <2>3. ~ \E r \in rows[d] : r.id = e
    <3>1. \A r \in rows[d] : f <= r.id
      BY <2>1 DEF IsCurrent
    <3> QED
      BY <2>2, <3>1
  <2>4. ~ \A r \in rows[d] : r.id < e
    BY <2>1, <2>2
  <2>5. pc[d] # "idle"
    BY DEF SucceedsNow
  <2> QED
    BY <2>3, <2>4, <2>5 DEF Visited
<1>4. Steps /\ HistoryOK /\ Visited => [Ordered]_hvars
  BY <1>3
<1> QED
  BY <1>1, <1>2, <1>4, HSpecSteps, PTL DEF HSpec, OldestFirst

-----------------------------------------------------------------------------
(* A single drainer whose statements and process do not fail: every failure*)
(* of a publication is recorded before the next row.                       *)
Failing(e) ==
  \E d \in Drainers :
    pc[d] = "mark_retry" /\ \E r \in rows[d] : IsCurrent(d, r) /\ r.id = e

(* The columns a round has read are still those of the table, and the      *)
(* attempts are the failures but for the one about to be recorded.         *)
Recorded ==
  /\ \A d \in Drainers : \A r \in rows[d] : r.attempts = attempts[r.id]
  /\ \A e \in Events : /\ Failing(e) => failed[e] = attempts[e] + 1
                       /\ ~Failing(e) => failed[e] = attempts[e]
                       /\ status[e] = "none" => attempts[e] = 0

(* The delay of the last failure ends no earlier than available_at, and    *)
(* starts at the `now' of the round that met it.                           *)
Delayed ==
  /\ \A d \in Drainers, e \in Events : Failing(e) => since[e] = age[d]
  /\ \A e \in Events : ~Failing(e) /\ failed[e] > 0 =>
       backoff_seconds(failed[e]) <= wait[e] + since[e]

Accounted == Recorded /\ Delayed

OnlyPublishingFails == FaultKinds \subseteq {"publish_rejected", "publish_reply_lost"}

LEMMA SingleRemember ==
  ASSUME NEW d, Drainers = {d}, HistoryOK, Remember, NEW e \in Events
  PROVE  /\ failed'[e] = IF FailsNow(d, e) THEN failed[e] + 1 ELSE failed[e]
         /\ since'[e] = IF FailsNow(d, e) THEN age[d] ELSE since[e]
<1>1. CASE FailsNow(d, e)
  <2>1. {c \in Drainers : FailsNow(c, e)} = {d}
    BY <1>1
  <2>2. (CHOOSE c \in Drainers : FailsNow(c, e)) = d
    BY <1>1
  <2>3. Cardinality({d}) = 1
    BY FS_Singleton
  <2> QED
    BY <1>1, <2>1, <2>2, <2>3 DEF Remember
<1>2. CASE ~FailsNow(d, e)
  <2>1. {c \in Drainers : FailsNow(c, e)} = {}
    BY <1>2
  <2>2. Cardinality({}) = 0
    BY FS_EmptySet
  <2> QED
    BY <1>2, <2>1, <2>2 DEF Remember, HistoryOK
<1> QED
  BY <1>1, <1>2

(* A step in which no publication fails and nothing is recorded.           *)
LEMMA QuietAccounted ==
  ASSUME NEW d, Drainers = {d}, TypeOK, HistoryOK, Accounted, Remember,
         wait' = wait, attempts' = attempts,
         \A e \in Events : status'[e] = "none" => status[e] = "none",
         pc[d] # "mark_retry", pc'[d] # "mark_retry",
         \A r \in rows'[d] : r.attempts = attempts[r.id]
  PROVE  Accounted'
<1>1. \A e : ~Failing(e) /\ ~Failing(e)'
  BY DEF Failing
<1>2. \A e \in Events : failed'[e] = failed[e] /\ since'[e] = since[e]
  BY SingleRemember DEF FailsNow
<1>3. Recorded'
  BY <1>1, <1>2 DEF Accounted, Recorded
<1>4. Delayed'
  BY <1>1, <1>2 DEF Accounted, Delayed
<1> QED
  BY <1>3, <1>4 DEF Accounted

LEMMA EnqueueAccounted ==
  ASSUME NEW d, Drainers = {d}, Inv, HistoryOK, Accounted, Remember,
         NEW f \in Events, enqueue(f)
  PROVE  Accounted'
<1>0. TypeOK
  BY DEF Inv
<1>1. /\ pc' = pc /\ rows' = rows /\ age' = age /\ status[f] = "none"
      /\ \A e \in Events : e # f =>
           /\ status'[e] = status[e] /\ attempts'[e] = attempts[e]
           /\ wait'[e] = wait[e]
      /\ attempts'[f] = 0 /\ wait'[f] = 0 /\ status'[f] = "pending"
  BY <1>0 DEF enqueue, TypeOK
<1>2. \A e : Failing(e)' <=> Failing(e)
  BY <1>1 DEF Failing, IsCurrent
<1>3. \A r \in rows[d] : r.id # f /\ r.id \in Events
  BY <1>0, <1>1, CurrentRow DEF Inv, RowsExist
<1>4. ~Failing(f) /\ failed[f] = 0
  <2>1. ~Failing(f)
    BY <1>3 DEF Failing
  <2> QED
    BY <1>1, <2>1 DEF Accounted, Recorded
<1>5. \A e \in Events : failed'[e] = failed[e] /\ since'[e] = since[e]
  BY <1>1, SingleRemember DEF FailsNow
<1>6. Recorded'
  BY <1>1, <1>2, <1>3, <1>4, <1>5 DEF Accounted, Recorded
<1>7. Delayed'
  <2>1. \A e \in Events : Failing(e) => since'[e] = age'[d]
    BY <1>1, <1>5 DEF Accounted, Delayed
  <2>2. ASSUME NEW e \in Events, ~Failing(e), failed'[e] > 0
        PROVE  backoff_seconds(failed'[e]) <= wait'[e] + since'[e]
    <3>1. e # f
      BY <1>4, <1>5, <2>2
    <3> QED
      BY <1>1, <1>5, <2>2, <3>1 DEF Accounted, Delayed
  <2> QED
    BY <1>2, <2>1, <2>2 DEF Delayed
<1> QED
  BY <1>6, <1>7 DEF Accounted

LEMMA PublishAccounted ==
  ASSUME NEW d, Drainers = {d}, TypeOK, HistoryOK, Accounted, Remember,
         NEW r \in rows[d], DrainPublish(d, r)
  PROVE  Accounted'
<1>1. /\ pc[d] = "publish" /\ pc'[d] \in {"mark_sent", "mark_retry"}
      /\ IsCurrent(d, r) /\ rows' = rows /\ age' = age
      /\ status' = status /\ attempts' = attempts /\ wait' = wait
  BY DEF DrainPublish, TypeOK, table
<1>2. CASE pc'[d] = "mark_sent"
  <2>1. \A q \in rows'[d] : q.attempts = attempts[q.id]
    BY <1>1 DEF Accounted, Recorded
  <2> QED
    BY <1>1, <1>2, <2>1, QuietAccounted
<1>3. CASE pc'[d] = "mark_retry"
  <2>1. \A e : ~Failing(e)
    BY <1>1 DEF Failing
  <2>2. \A e : Failing(e)' <=> FailsNow(d, e)
    BY <1>1, <1>3 DEF Failing, FailsNow, IsCurrent
  <2>3. \A e \in Events :
          /\ failed'[e] = IF FailsNow(d, e) THEN failed[e] + 1 ELSE failed[e]
          /\ since'[e] = IF FailsNow(d, e) THEN age[d] ELSE since[e]
    BY SingleRemember
  <2>4. ASSUME NEW e \in Events
        PROVE  /\ Failing(e)' => failed'[e] = attempts'[e] + 1
               /\ ~Failing(e)' => failed'[e] = attempts'[e]
               /\ status'[e] = "none" => attempts'[e] = 0
               /\ Failing(e)' => since'[e] = age'[d]
               /\ ~Failing(e)' /\ failed'[e] > 0 =>
                    backoff_seconds(failed'[e]) <= wait'[e] + since'[e]
    <3>1. /\ failed[e] = attempts[e]
          /\ status[e] = "none" => attempts[e] = 0
          /\ failed[e] > 0 => backoff_seconds(failed[e]) <= wait[e] + since[e]
      BY <2>1 DEF Accounted, Recorded, Delayed
    <3> QED
      BY <1>1, <2>2, <2>3, <3>1
  <2>5. Recorded'
    <3>1. \A q \in rows'[d] : q.attempts = attempts'[q.id]
      BY <1>1 DEF Accounted, Recorded
    <3> QED
      BY <2>4, <3>1 DEF Recorded
  <2>6. Delayed'
    BY <2>4 DEF Delayed
  <2> QED
    BY <2>5, <2>6 DEF Accounted
<1> QED
  BY <1>1, <1>2, <1>3

LEMMA MarkRetryAccounted ==
  ASSUME NEW d, Drainers = {d}, TypeOK, Unique, HistoryOK, Accounted, Remember,
         OnlyPublishingFails, RowsExist, NEW r \in rows[d], DrainMarkRetry(d, r)
  PROVE  Accounted'
<1> DEFINE delay == Remaining(backoff_seconds(r.attempts + 1), age[d])
<1>0. r.id \in Events /\ r.attempts \in Nat /\ age[d] \in Nat
  BY CurrentRow DEF TypeOK
<1>1. /\ pc[d] = "mark_retry" /\ IsCurrent(d, r)
      /\ mark_retry(r.id, r.attempts + 1, delay) /\ Continue(d, r)
  <2>1. ~Fault("db_reply_lost") /\ ~Fault("db_rejected")
    BY DEF OnlyPublishingFails, Fault
  <2> QED
    BY <2>1 DEF DrainMarkRetry
<1> HIDE DEF delay
<1>2. /\ pc'[d] # "mark_retry" /\ rows'[d] \subseteq rows[d] \ {r}
      /\ status' = status
      /\ attempts'[r.id] = r.attempts + 1 /\ wait'[r.id] = delay
      /\ \A e \in Events : e # r.id =>
           attempts'[e] = attempts[e] /\ wait'[e] = wait[e]
  BY <1>0, <1>1 DEF mark_retry, Continue, Leave, TypeOK
<1>3. \A e : (Failing(e) <=> e = r.id) /\ ~Failing(e)'
  BY <1>1, <1>2, OneCurrent DEF Failing
<1>4. \A e \in Events : failed'[e] = failed[e] /\ since'[e] = since[e]
  BY <1>1, SingleRemember DEF FailsNow
<1>5. r.attempts = attempts[r.id] /\ failed[r.id] = r.attempts + 1
      /\ since[r.id] = age[d]
  BY <1>0, <1>3 DEF Accounted, Recorded, Delayed
<1>6. backoff_seconds(r.attempts + 1) <= delay + age[d]
  <2>1. backoff_seconds(r.attempts + 1) \in Nat
    BY <1>0, BackoffBounds
  <2> QED
    BY <1>0, <2>1 DEF delay, Remaining
<1>7. Recorded'
  <2>1. ASSUME NEW q \in rows'[d]
        PROVE  q.attempts = attempts'[q.id]
    <3>1. q \in rows[d] /\ q.id # r.id /\ q.id \in Events
      BY <1>2, CurrentRow DEF Unique
    <3> QED
      BY <1>2, <3>1 DEF Accounted, Recorded
  <2>2. ASSUME NEW e \in Events
        PROVE  /\ failed'[e] = attempts'[e]
               /\ status'[e] = "none" => attempts'[e] = 0
    <3>1. CASE e = r.id
      BY <1>2, <1>4, <1>5, <3>1 DEF RowsExist
    <3>2. CASE e # r.id
      BY <1>2, <1>3, <1>4, <3>2 DEF Accounted, Recorded
    <3> QED
      BY <3>1, <3>2
  <2> QED
    BY <1>3, <2>1, <2>2 DEF Recorded
<1>8. Delayed'
  <2>1. ASSUME NEW e \in Events, failed'[e] > 0
        PROVE  backoff_seconds(failed'[e]) <= wait'[e] + since'[e]
    <3>1. CASE e = r.id
      BY <1>2, <1>4, <1>5, <1>6, <3>1
    <3>2. CASE e # r.id
      BY <1>2, <1>3, <1>4, <2>1, <3>2 DEF Accounted, Delayed
    <3> QED
      BY <3>1, <3>2
  <2> QED
    BY <1>3, <2>1 DEF Delayed
<1> QED
  BY <1>7, <1>8 DEF Accounted

LEMMA TickAccounted ==
  ASSUME NEW d, Drainers = {d}, TypeOK, HistoryOK, Accounted, Tick,
         since' = [e \in Events |-> AtMost(since[e] + 1, BackoffCap)],
         failed' = failed
  PROVE  Accounted'
<1>1. /\ status' = status /\ attempts' = attempts /\ pc' = pc /\ rows' = rows
      /\ \A e \in Events : /\ wait'[e] = Remaining(wait[e], 1)
                           /\ since'[e] = AtMost(since[e] + 1, BackoffCap)
      /\ pc[d] # "idle" => age'[d] = AtMost(age[d] + 1, BackoffCap)
  BY DEF Tick
<1>2. \A e : Failing(e)' <=> Failing(e)
  BY <1>1 DEF Failing, IsCurrent
<1>3. Recorded'
  BY <1>1, <1>2 DEF Accounted, Recorded
<1>4. Delayed'
  <2>1. ASSUME NEW e \in Events, Failing(e)
        PROVE  since'[e] = age'[d]
    <3>1. pc[d] # "idle"
      BY <2>1 DEF Failing
    <3>2. since[e] = age[d]
      BY <2>1 DEF Accounted, Delayed
    <3> QED
      BY <1>1, <3>1, <3>2
  <2>2. ASSUME NEW e \in Events, ~Failing(e), failed[e] > 0
        PROVE  backoff_seconds(failed[e]) <= wait'[e] + since'[e]
    <3>1. backoff_seconds(failed[e]) <= wait[e] + since[e]
      BY <2>2 DEF Accounted, Delayed
    <3>2. /\ backoff_seconds(failed[e]) \in Nat
          /\ backoff_seconds(failed[e]) <= BackoffCap
      BY BackoffBounds DEF HistoryOK
    <3>3. wait[e] \in Nat /\ since[e] \in Nat
      BY DEF TypeOK, HistoryOK
    <3>4. wait'[e] = Remaining(wait[e], 1) /\ since'[e] = AtMost(since[e] + 1, BackoffCap)
      BY <1>1
    <3> QED
      BY <3>1, <3>2, <3>3, <3>4, BackoffAssumption DEF Remaining, AtMost
  <2> QED
    BY <1>2, <2>1, <2>2 DEF Delayed
<1> QED
  BY <1>3, <1>4 DEF Accounted

LEMMA NextAccounted ==
  ASSUME NEW d, Drainers = {d}, OnlyPublishingFails,
         Inv, Unique, HistoryOK, Accounted, [HNext]_hvars
  PROVE  Accounted'
<1>0. TypeOK /\ RowsExist
  BY DEF Inv
<1>1. ASSUME Remember, DrainFetch(d)
      PROVE  Accounted'
  <2>1. /\ pc[d] = "idle" /\ pc'[d] = "publish" /\ rows'[d] = fetch_due
        /\ wait' = wait /\ attempts' = attempts /\ status' = status
    BY <1>0, <1>1 DEF DrainFetch, TypeOK, table
  <2>2. \A r \in fetch_due : r.attempts = attempts[r.id]
    <3> DEFINE First == {x \in Due : Cardinality({y \in Due : y < x}) < Limit}
    <3>1. fetch_due = {[id |-> e, attempts |-> attempts[e]] : e \in First}
      BY DEF fetch_due
    <3> HIDE DEF First
    <3> QED
      BY <3>1
  <2> QED
    BY <1>0, <1>1, <2>1, <2>2, QuietAccounted
<1>2. ASSUME Remember, NEW r \in rows[d], DrainMarkSent(d, r)
      PROVE  Accounted'
  <2>1. /\ pc[d] = "mark_sent" /\ r.id \in Events
        /\ mark_sent(r.id) \/ UNCHANGED table
        /\ Leave(d) \/ Continue(d, r)
    BY <1>0, <1>2, CurrentRow DEF DrainMarkSent
  <2>2. /\ wait' = wait /\ attempts' = attempts
        /\ \A e \in Events : status'[e] = "none" => status[e] = "none"
    BY <1>0, <2>1 DEF mark_sent, table, TypeOK
  <2>3. pc'[d] # "mark_retry" /\ rows'[d] \subseteq rows[d]
    BY <1>0, <2>1 DEF Leave, Continue, TypeOK
  <2>4. \A q \in rows'[d] : q.attempts = attempts[q.id]
    BY <2>3 DEF Accounted, Recorded
  <2> QED
    BY <1>0, <1>2, <2>1, <2>2, <2>3, <2>4, QuietAccounted
<1>3. ~Crash(d)
  BY DEF Crash, Fault, OnlyPublishingFails
<1>4. CASE UNCHANGED hvars
  BY <1>4 DEF hvars, vars, Accounted, Recorded, Delayed, Failing, IsCurrent
<1> QED
  BY <1>0, <1>1, <1>2, <1>3, <1>4, EnqueueAccounted, PublishAccounted,
     MarkRetryAccounted, TickAccounted
  DEF HNext, DrainStep

LEMMA SpecAccounted ==
  ASSUME NEW d, Drainers = {d}, OnlyPublishingFails
  PROVE  HSpec => [](Steps /\ HistoryOK /\ Accounted)
<1>1. HInit => HistoryOK /\ Accounted
  BY HInitHistory DEF HInit, Init, Accounted, Recorded, Delayed, Failing
<1>2. Steps /\ HistoryOK /\ Accounted /\ [HNext]_hvars => HistoryOK' /\ Accounted'
  BY HNextHistory, NextAccounted DEF Steps, CopiesInv
<1> QED
  BY <1>1, <1>2, HSpecSteps, PTL DEF HSpec

(* The attempts column counts the failed publications (outbox.rs:52), when *)
(* one drainer runs and its statements and process do not fail; two        *)
(* drainers overwrite each other's count.                                  *)
THEOREM AttemptsCountFailures ==
  ASSUME NEW d, Drainers = {d}, OnlyPublishingFails
  PROVE  HSpec => []AttemptsExact
<1>1. Accounted => AttemptsExact
  BY DEF Accounted, Recorded, Failing, AttemptsExact
<1> QED
  BY <1>1, SpecAccounted, PTL

(* The delay an event owes, doubled failure by failure, is what            *)
(* backoff_seconds computes from the number of its failures.               *)
Owing ==
  \A e \in Events :
    /\ failed[e] = 0 => owed[e] = 0
    /\ failed[e] > 0 => owed[e] = backoff_seconds(failed[e])

LEMMA NextOwing ==
  ASSUME NEW d, Drainers = {d}, HistoryOK, Owing, [HNext]_hvars
  PROVE  Owing'
<1>1. CASE UNCHANGED <<failed, owed>>
  BY <1>1 DEF Owing
<1>2. CASE Remember
  <2> SUFFICES ASSUME NEW e \in Events
               PROVE  /\ failed'[e] = 0 => owed'[e] = 0
                      /\ failed'[e] > 0 => owed'[e] = backoff_seconds(failed'[e])
    BY DEF Owing
  <2>1. failed'[e] = IF FailsNow(d, e) THEN failed[e] + 1 ELSE failed[e]
    BY <1>2, SingleRemember
  <2>2. owed'[e] = IF FailsNow(d, e) THEN NextDelay(owed[e]) ELSE owed[e]
    BY <1>2 DEF Remember
  <2>3. failed[e] \in Nat
    BY DEF HistoryOK
  <2>4. CASE FailsNow(d, e) /\ failed[e] = 0
    <3>1. owed'[e] = BackoffBase /\ failed'[e] = 1
      BY <2>1, <2>2, <2>4 DEF Owing, NextDelay
    <3> QED
      BY <3>1, BackoffDoubles
  <2>5. CASE FailsNow(d, e) /\ failed[e] # 0
    <3>1. failed[e] \in Nat \ {0} /\ failed[e] > 0
      BY <2>3, <2>5
    <3>2. owed[e] = backoff_seconds(failed[e]) /\ owed[e] # 0
      <4>1. owed[e] = backoff_seconds(failed[e])
        BY <3>1 DEF Owing
      <4>2. /\ backoff_seconds(failed[e]) \in Nat
            /\ BackoffBase <= backoff_seconds(failed[e])
        BY <2>3, BackoffBounds
      <4> QED
        BY <4>1, <4>2, BackoffAssumption
    <3>3. owed'[e] = AtMost(2 * backoff_seconds(failed[e]), BackoffCap)
      BY <2>2, <2>5, <3>2 DEF NextDelay
    <3>4. failed'[e] = failed[e] + 1
      BY <2>1, <2>5
    <3> QED
      BY <3>1, <3>3, <3>4, BackoffDoubles
  <2>6. CASE ~FailsNow(d, e)
    BY <2>1, <2>2, <2>6 DEF Owing
  <2> QED
    BY <2>4, <2>5, <2>6
<1> QED
  BY <1>1, <1>2 DEF HNext, hvars

LEMMA SpecOwing ==
  ASSUME NEW d, Drainers = {d}
  PROVE  HSpec => []Owing
<1>1. HInit => HistoryOK /\ Owing
  BY HInitHistory DEF HInit, Owing
<1>2. Steps /\ HistoryOK /\ Owing /\ [HNext]_hvars => HistoryOK' /\ Owing'
  BY HNextHistory, NextOwing DEF Steps, CopiesInv
<1> QED
  BY <1>1, <1>2, HSpecSteps, PTL DEF HSpec

(* A failed publication is tried again only when its exponential delay has *)
(* passed, counted from the round that failed, under the same hypotheses.  *)
THEOREM RetriesWaitTheirDelay ==
  ASSUME NEW one, Drainers = {one}, OnlyPublishingFails
  PROVE  HSpec => RetriesBackOff
<1> DEFINE Waits ==
      \A d \in Drainers : FetchesNow(d) =>
        \A r \in rows'[d] : failed[r.id] > 0 => since[r.id] >= owed[r.id]
<1>1. ASSUME TypeOK, HistoryOK, Accounted, Owing, [Next]_vars, NEW d \in Drainers,
             FetchesNow(d), NEW r \in rows'[d], failed[r.id] > 0
      PROVE  since[r.id] >= owed[r.id]
  <2>1. DrainFetch(d)
    <3>1. pc[d] = "idle" /\ pc'[d] = "publish" /\ d = one
      BY <1>1 DEF FetchesNow
    <3> QED
      BY <1>1, <3>1
      DEF Next, DrainStep, DrainPublish, DrainMarkSent, DrainMarkRetry, Crash,
          enqueue, Tick, vars
  <2>2. r \in fetch_due
    BY <1>1, <2>1 DEF DrainFetch, TypeOK
  <2>3. r.id \in Events /\ wait[r.id] = 0
    BY <1>1, <2>2, FetchedRows
  <2>4. ~Failing(r.id)
    BY <1>1 DEF FetchesNow, Failing
  <2>5. backoff_seconds(failed[r.id]) <= wait[r.id] + since[r.id]
    BY <1>1, <2>3, <2>4 DEF Accounted, Delayed
  <2>6. backoff_seconds(failed[r.id]) \in Nat /\ since[r.id] \in Nat
    BY <1>1, <2>3, BackoffBounds DEF HistoryOK
  <2>7. owed[r.id] = backoff_seconds(failed[r.id])
    BY <1>1, <2>3, <2>6 DEF Owing
  <2> QED
    BY <2>3, <2>5, <2>6, <2>7
<1>2. Steps /\ HistoryOK /\ Accounted /\ Owing /\ [HNext]_hvars => [Waits]_hvars
  BY <1>1, HNextNext DEF Steps, Inv
<1>3. HSpec => [](Steps /\ HistoryOK /\ Accounted)
  BY SpecAccounted
<1>4. HSpec => []Owing
  BY SpecOwing
<1> QED
  BY <1>2, <1>3, <1>4, PTL DEF HSpec, RetriesBackOff

=============================================================================
