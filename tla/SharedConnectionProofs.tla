----------------------- MODULE SharedConnectionProofs -----------------------
(***************************************************************************)
(* What holds of SharedConnection for any tasks, any number of breaks and  *)
(* any bounds.                                                             *)
(***************************************************************************)
EXTENDS SharedConnection, FiniteSetTheorems, TLAPS

-----------------------------------------------------------------------------
(* Queues of tasks.                                                        *)

In(s) == {s[i] : i \in DOMAIN s}

Distinct(s) == \A i, j \in DOMAIN s : s[i] = s[j] => i = j

(* Those who come before t in s.                                           *)
Earlier(s, t) ==
  {x \in In(s) : \E i, j \in DOMAIN s : i < j /\ s[i] = x /\ s[j] = t}

LEMMA AppendFacts ==
  ASSUME NEW S, NEW s \in Seq(S), NEW t \in S, Distinct(s), t \notin In(s)
  PROVE  /\ Append(s, t) \in Seq(S)
         /\ Distinct(Append(s, t))
         /\ In(Append(s, t)) = In(s) \cup {t}
         /\ \A u \in In(s) : Earlier(Append(s, t), u) = Earlier(s, u)
         /\ s # <<>> => Head(Append(s, t)) = Head(s)
         /\ s = <<>> => Head(Append(s, t)) = t
         /\ Append(s, t) # <<>>
<1> DEFINE a == Append(s, t)
<1>1. /\ a \in Seq(S) /\ Len(s) \in Nat
      /\ DOMAIN s = 1..Len(s) /\ DOMAIN a = 1..(Len(s) + 1)
      /\ \A i \in 1..Len(s) : a[i] = s[i]
      /\ a[Len(s) + 1] = t
      /\ a # <<>>
  OBVIOUS
<1>2. /\ s # <<>> => Head(a) = Head(s)
      /\ s = <<>> => Head(a) = t
  <2>1. Head(a) = a[1]
    BY <1>1
  <2>2. CASE s # <<>>
    <3>1. Head(s) = s[1] /\ 1 \in 1..Len(s)
      BY <2>2
    <3> QED
      BY <1>1, <2>1, <2>2, <3>1
  <2>3. CASE s = <<>>
    BY <1>1, <2>1, <2>3
  <2> QED
    BY <2>2, <2>3
<1> HIDE DEF a
<1>3. In(a) = In(s) \cup {t}
  BY <1>1 DEF In
<1>4. Distinct(a)
  <2> SUFFICES ASSUME NEW i \in DOMAIN a, NEW j \in DOMAIN a, a[i] = a[j]
               PROVE  i = j
    BY DEF Distinct
  <2>1. \A k \in 1..Len(s) : a[k] # t
    BY <1>1 DEF In
  <2> QED
    BY <1>1, <2>1 DEF Distinct
<1>5. ASSUME NEW u \in In(s)
      PROVE  Earlier(a, u) = Earlier(s, u)
  <2>1. u # t
    OBVIOUS
  <2>2. \A i, j \in DOMAIN a :
          i < j /\ a[j] = u => i \in 1..Len(s) /\ j \in 1..Len(s)
    BY <1>1, <2>1
  <2>3. ASSUME NEW x \in Earlier(a, u)
        PROVE  x \in Earlier(s, u)
    <3>1. PICK i \in DOMAIN a, j \in DOMAIN a : i < j /\ a[i] = x /\ a[j] = u
      BY DEF Earlier
    <3>2. i \in 1..Len(s) /\ j \in 1..Len(s)
      BY <2>2, <3>1
    <3> QED
      BY <1>1, <3>1, <3>2 DEF Earlier, In
  <2>4. ASSUME NEW x \in Earlier(s, u)
        PROVE  x \in Earlier(a, u)
    <3>1. PICK i \in DOMAIN s, j \in DOMAIN s : i < j /\ s[i] = x /\ s[j] = u
      BY DEF Earlier
    <3>2. i \in DOMAIN a /\ j \in DOMAIN a /\ a[i] = x /\ a[j] = u
      BY <1>1, <3>1
    <3> QED
      BY <1>3, <3>1, <3>2 DEF Earlier, In
  <2> QED
    BY <2>3, <2>4
<1> QED
  BY <1>1, <1>2, <1>3, <1>4, <1>5 DEF a

LEMMA TailFacts ==
  ASSUME NEW S, NEW s \in Seq(S), s # <<>>, Distinct(s)
  PROVE  /\ Tail(s) \in Seq(S)
         /\ Distinct(Tail(s))
         /\ In(Tail(s)) = In(s) \ {Head(s)}
         /\ Head(s) \in In(s) /\ Head(s) \in S
         /\ \A u \in In(s) \ {Head(s)} :
              /\ Head(s) \in Earlier(s, u)
              /\ Earlier(Tail(s), u) = Earlier(s, u) \ {Head(s)}
<1> DEFINE t == Tail(s)
           h == Head(s)
<1>1. /\ t \in Seq(S) /\ Len(s) \in Nat \ {0}
      /\ DOMAIN s = 1..Len(s) /\ DOMAIN t = 1..(Len(s) - 1)
      /\ \A i \in 1..(Len(s) - 1) : t[i] = s[i + 1]
      /\ h = s[1] /\ 1 \in DOMAIN s
      /\ h \in S
  OBVIOUS
<1> HIDE DEF t, h
<1>2. Distinct(t)
  <2> SUFFICES ASSUME NEW i \in DOMAIN t, NEW j \in DOMAIN t, t[i] = t[j]
               PROVE  i = j
    BY DEF Distinct
  <2>1. /\ i \in Int /\ j \in Int
        /\ i + 1 \in DOMAIN s /\ j + 1 \in DOMAIN s
        /\ s[i + 1] = s[j + 1]
    BY <1>1
  <2>2. i + 1 = j + 1
    BY <2>1 DEF Distinct
  <2> QED
    BY <2>1, <2>2
<1>3. \A i \in DOMAIN s : s[i] # h => i - 1 \in DOMAIN t /\ t[i - 1] = s[i]
  BY <1>1
<1>4. \A i \in DOMAIN t : i + 1 \in DOMAIN s /\ t[i] = s[i + 1] /\ t[i] # h
  <2> SUFFICES ASSUME NEW i \in DOMAIN t
               PROVE  i + 1 \in DOMAIN s /\ t[i] = s[i + 1] /\ t[i] # h
    OBVIOUS
  <2>1. i \in Nat \ {0} /\ i + 1 \in DOMAIN s /\ t[i] = s[i + 1]
    BY <1>1
  <2>2. i + 1 # 1
    BY <2>1
  <2> QED
    BY <1>1, <2>1, <2>2 DEF Distinct
<1>5. h \in In(s)
  BY <1>1 DEF In
<1>6. In(t) = In(s) \ {h}
  <2>1. ASSUME NEW x \in In(t)
        PROVE  x \in In(s) \ {h}
    BY <1>4 DEF In
  <2>2. ASSUME NEW x \in In(s) \ {h}
        PROVE  x \in In(t)
    BY <1>3 DEF In
  <2> QED
    BY <2>1, <2>2
<1>7. ASSUME NEW u \in In(s) \ {h}
      PROVE  h \in Earlier(s, u) /\ Earlier(t, u) = Earlier(s, u) \ {h}
  <2>1. h \in Earlier(s, u)
    <3>1. PICK j \in DOMAIN s : s[j] = u
      BY DEF In
    <3>2. 1 < j
      BY <1>1, <3>1
    <3> QED
      BY <1>1, <1>5, <3>1, <3>2 DEF Earlier
  <2>2. ASSUME NEW x \in Earlier(t, u)
        PROVE  x \in Earlier(s, u) \ {h}
    <3>1. PICK i \in DOMAIN t, j \in DOMAIN t : i < j /\ t[i] = x /\ t[j] = u
      BY DEF Earlier
    <3>2. /\ i + 1 \in DOMAIN s /\ j + 1 \in DOMAIN s /\ i + 1 < j + 1
          /\ s[i + 1] = x /\ s[j + 1] = u /\ x # h
      BY <1>1, <1>4, <3>1
    <3> QED
      BY <3>2 DEF Earlier, In
  <2>3. ASSUME NEW x \in Earlier(s, u) \ {h}
        PROVE  x \in Earlier(t, u)
    <3>1. PICK i \in DOMAIN s, j \in DOMAIN s : i < j /\ s[i] = x /\ s[j] = u
      BY DEF Earlier
    <3>2. /\ i - 1 \in DOMAIN t /\ j - 1 \in DOMAIN t /\ i - 1 < j - 1
          /\ t[i - 1] = x /\ t[j - 1] = u
      BY <1>1, <1>3, <3>1
    <3> QED
      BY <3>2 DEF Earlier, In
  <2> QED
    BY <2>1, <2>2, <2>3
<1> QED
  BY <1>1, <1>2, <1>5, <1>6, <1>7 DEF t, h

LEMMA PrefixFacts ==
  ASSUME NEW S, NEW s \in Seq(S), Distinct(s), NEW n \in 0..Len(s)
  PROVE  /\ SubSeq(s, 1, n) \in Seq(S)
         /\ Distinct(SubSeq(s, 1, n))
         /\ In(SubSeq(s, 1, n)) \subseteq In(s)
<1> DEFINE p == SubSeq(s, 1, n)
<1>1. /\ p \in Seq(S) /\ DOMAIN s = 1..Len(s) /\ DOMAIN p = 1..n
      /\ \A i \in 1..n : p[i] = s[i] /\ i \in 1..Len(s)
  OBVIOUS
<1> HIDE DEF p
<1>2. Distinct(p)
  BY <1>1 DEF Distinct
<1>3. In(p) \subseteq In(s)
  BY <1>1 DEF In
<1> QED
  BY <1>1, <1>2, <1>3 DEF p

LEMMA EmptyFacts == Distinct(<<>>) /\ In(<<>>) = {}
BY DEF Distinct, In

-----------------------------------------------------------------------------
(* The state: a task waits exactly while its request is in the queue of the*)
(* connection in use, once; the next connections are unused.               *)
Shape ==
  /\ current \in Connections
  /\ queue \in [Connections -> Seq(Tasks)]
  /\ waited \in [Tasks -> Nat \cup {Idle}]
  /\ blocked \in [Connections -> Nat]
  /\ unread \in Nat
  /\ missed \in Nat

Once == \A c \in Connections : Distinct(queue[c])

Unused == \A c \in Connections : c > current => queue[c] = <<>> /\ blocked[c] = 0

Waiting == \A t \in Tasks : waited[t] # Idle <=> t \in In(queue[current])

Orderly == Shape /\ Once /\ Unused /\ Waiting

LEMMA Parameters ==
  /\ MaxBreaks \in Nat /\ MaxWait \in Nat /\ MaxUnread \in Nat /\ Block \in Nat
  /\ IsFiniteSet(Readers) /\ Cardinality(Readers) \in Nat
  /\ Readers \subseteq Tasks /\ Callers \subseteq Tasks
  /\ \A t \in Tasks : t \in Callers <=> t \notin Readers
<1>1. Readers \in SUBSET Tasks
  BY DEF Tasks
<1>2. IsFiniteSet(Readers) /\ Cardinality(Readers) \in Nat
  BY <1>1, SharedConnectionAssumption, FS_Subset, FS_CardinalityType
<1> QED
  BY <1>2, SharedConnectionAssumption DEF Tasks

LEMMA InitOrderly == Init => Orderly
<1> SUFFICES ASSUME Init
             PROVE  Orderly
  OBVIOUS
<1>1. Shape
  BY Parameters DEF Init, Shape, Connections, Idle
<1>2. Once /\ Unused /\ Waiting
  BY <1>1, EmptyFacts DEF Init, Once, Unused, Waiting, Shape, Connections
<1> QED
  BY <1>1, <1>2 DEF Orderly

LEMMA CallOrderly ==
  ASSUME Orderly, NEW t \in Tasks, Call(t)
  PROVE  Orderly'
<1> DEFINE s == queue[current]
<1>1. /\ s \in Seq(Tasks) /\ Distinct(s) /\ t \notin In(s)
      /\ current \in Connections
  BY DEF Orderly, Shape, Once, Waiting, Call
<1>2. /\ queue'[current] = Append(s, t) /\ queue'[current] \in Seq(Tasks)
      /\ Distinct(queue'[current])
      /\ In(queue'[current]) = In(s) \cup {t}
  BY <1>1, AppendFacts DEF Orderly, Shape, Call
<1>3. \A c \in Connections \ {current} : queue'[c] = queue[c]
  BY DEF Orderly, Shape, Call
<1>4. Shape'
  BY <1>2 DEF Orderly, Shape, Call
<1>5. Once'
  BY <1>2, <1>3 DEF Orderly, Once
<1>6. Unused'
  BY <1>3, Parameters DEF Orderly, Shape, Unused, Call, Connections
<1>7. Waiting'
  <2>1. \A u \in Tasks : waited'[u] = IF u = t THEN 0 ELSE waited[u]
    BY DEF Orderly, Shape, Call
  <2> QED
    BY <1>2, <2>1 DEF Orderly, Waiting, Idle, Call
<1> QED
  BY <1>4, <1>5, <1>6, <1>7 DEF Orderly

(* What an answer does to the queues.                                      *)
LEMMA AnswerFacts ==
  ASSUME Orderly, NEW c \in Connections, NEW t \in Tasks, Answer(c, t)
  PROVE  /\ c <= current
         /\ t \in In(queue[c])
         /\ queue'[c] \in Seq(Tasks) /\ Distinct(queue'[c])
         /\ In(queue'[c]) = In(queue[c]) \ {t}
         /\ \A u \in In(queue[c]) \ {t} :
              /\ t \in Earlier(queue[c], u)
              /\ Earlier(queue'[c], u) = Earlier(queue[c], u) \ {t}
         /\ \A b \in Connections \ {c} : queue'[b] = queue[b]
<1>1. /\ queue[c] \in Seq(Tasks) /\ Distinct(queue[c]) /\ queue[c] # <<>>
      /\ t = Head(queue[c]) /\ queue'[c] = Tail(queue[c])
      /\ \A b \in Connections \ {c} : queue'[b] = queue[b]
  BY DEF Orderly, Shape, Once, Answer
<1>2. c <= current
  <2>1. c \in Int /\ current \in Int
    BY Parameters DEF Orderly, Shape, Connections
  <2> QED
    BY <1>1, <2>1 DEF Orderly, Unused
<1>3. /\ Tail(queue[c]) \in Seq(Tasks)
      /\ Distinct(Tail(queue[c]))
      /\ In(Tail(queue[c])) = In(queue[c]) \ {t}
      /\ t \in In(queue[c])
      /\ \A u \in In(queue[c]) \ {t} :
           /\ t \in Earlier(queue[c], u)
           /\ Earlier(Tail(queue[c]), u) = Earlier(queue[c], u) \ {t}
  BY <1>1, TailFacts
<1> QED
  BY <1>1, <1>2, <1>3

LEMMA AnswerOrderly ==
  ASSUME Orderly, NEW c \in Connections, NEW t \in Tasks, Answer(c, t),
         unread' \in Nat, missed' \in Nat
  PROVE  Orderly'
<1>1. /\ c <= current
      /\ t \in In(queue[c])
      /\ queue'[c] \in Seq(Tasks) /\ Distinct(queue'[c])
      /\ In(queue'[c]) = In(queue[c]) \ {t}
      /\ \A b \in Connections \ {c} : queue'[b] = queue[b]
  BY AnswerFacts
<1>2. Shape'
  <2>1. queue' \in [Connections -> Seq(Tasks)]
    BY <1>1 DEF Orderly, Shape, Answer
  <2>2. waited' \in [Tasks -> Nat \cup {Idle}] /\ blocked' \in [Connections -> Nat]
    BY DEF Orderly, Shape, Answer
  <2> QED
    BY <2>1, <2>2 DEF Orderly, Shape, Answer
<1>3. Once'
  BY <1>1 DEF Orderly, Once
<1>4. Unused'
  <2>1. c \in Int /\ current \in Int /\ Connections \subseteq Int
    BY Parameters DEF Orderly, Shape, Connections
  <2>2. \A b \in Connections \ {c} : blocked'[b] = blocked[b]
    BY DEF Orderly, Shape, Answer
  <2> QED
    BY <1>1, <2>1, <2>2 DEF Orderly, Unused, Answer
<1>5. Waiting'
  <2>1. current' = current /\ current \in Connections
    BY DEF Answer, Orderly, Shape
  <2>2. CASE c = current
    <3>1. \A u \in Tasks : waited'[u] = IF u = t THEN Idle ELSE waited[u]
      BY <2>2 DEF Orderly, Shape, Answer
    <3> QED
      BY <1>1, <2>1, <2>2, <3>1 DEF Orderly, Waiting
  <2>3. CASE c # current
    BY <1>1, <2>1, <2>3 DEF Orderly, Waiting, Answer
  <2> QED
    BY <2>2, <2>3
<1> QED
  BY <1>2, <1>3, <1>4, <1>5 DEF Orderly

(* What a break leaves on the old connection.                              *)
LEMMA BreakFacts ==
  ASSUME Orderly, Break
  PROVE  /\ current' = current + 1 /\ current' \in Connections
         /\ queue' \in [Connections -> Seq(Tasks)]
         /\ blocked' \in [Connections -> Nat]
         /\ Distinct(queue'[current])
         /\ In(queue'[current]) \subseteq In(queue[current])
         /\ \A b \in Connections \ {current} :
              queue'[b] = queue[b] /\ blocked'[b] = blocked[b]
         /\ queue'[current'] = <<>> /\ blocked'[current'] = 0
<1>1. PICK n \in 0..Len(queue[current]) :
        /\ queue' = [queue EXCEPT ![current] = SubSeq(@, 1, n)]
        /\ blocked' = [blocked EXCEPT ![current] = IF n = 0 THEN 0 ELSE @]
  BY DEF Break
<1>2. /\ current \in Connections /\ current < MaxBreaks /\ current' = current + 1
      /\ current' \in Connections /\ current' > current /\ current' # current
  BY Parameters DEF Break, Orderly, Shape, Connections
<1>3. queue[current] \in Seq(Tasks) /\ Distinct(queue[current])
  BY <1>2 DEF Orderly, Shape, Once
<1>4. /\ SubSeq(queue[current], 1, n) \in Seq(Tasks)
      /\ Distinct(SubSeq(queue[current], 1, n))
      /\ In(SubSeq(queue[current], 1, n)) \subseteq In(queue[current])
  BY <1>3, PrefixFacts
<1>5. queue'[current] = SubSeq(queue[current], 1, n)
  BY <1>1, <1>2 DEF Orderly, Shape
<1>6. /\ queue' \in [Connections -> Seq(Tasks)]
      /\ \A b \in Connections \ {current} : queue'[b] = queue[b]
  BY <1>1, <1>4 DEF Orderly, Shape
<1>7. /\ blocked' \in [Connections -> Nat]
      /\ \A b \in Connections \ {current} : blocked'[b] = blocked[b]
  BY <1>1 DEF Orderly, Shape
<1>8. queue'[current'] = <<>> /\ blocked'[current'] = 0
  BY <1>2, <1>6, <1>7 DEF Orderly, Unused
<1> QED
  BY <1>2, <1>4, <1>5, <1>6, <1>7, <1>8

LEMMA BreakOrderly ==
  ASSUME Orderly, Break
  PROVE  Orderly'
<1>1. /\ current' = current + 1 /\ current' \in Connections
      /\ queue' \in [Connections -> Seq(Tasks)]
      /\ blocked' \in [Connections -> Nat]
      /\ Distinct(queue'[current])
      /\ \A b \in Connections \ {current} :
           queue'[b] = queue[b] /\ blocked'[b] = blocked[b]
      /\ queue'[current'] = <<>> /\ blocked'[current'] = 0
  BY BreakFacts
<1>2. Shape'
  BY <1>1 DEF Orderly, Shape, Break
<1>3. Once'
  BY <1>1 DEF Orderly, Once
<1>4. Unused'
  <2>1. current \in Int /\ Connections \subseteq Int
    BY Parameters DEF Orderly, Shape, Connections
  <2> SUFFICES ASSUME NEW b \in Connections, b > current'
               PROVE  queue'[b] = <<>> /\ blocked'[b] = 0
    BY DEF Unused
  <2>2. b # current /\ b > current
    BY <1>1, <2>1
  <2> QED
    BY <1>1, <2>2 DEF Orderly, Unused
<1>5. Waiting'
  BY <1>1, EmptyFacts DEF Waiting, Break
<1> QED
  BY <1>2, <1>3, <1>4, <1>5 DEF Orderly

LEMMA CloseOrderly ==
  ASSUME Orderly, NEW c \in Connections, Close(c)
  PROVE  Orderly'
<1>1. /\ queue'[c] = <<>> /\ blocked'[c] = 0
      /\ queue' \in [Connections -> Seq(Tasks)]
      /\ blocked' \in [Connections -> Nat]
      /\ \A b \in Connections \ {c} :
           queue'[b] = queue[b] /\ blocked'[b] = blocked[b]
      /\ UNCHANGED <<current, waited, unread, missed>> /\ c # current
  BY DEF Orderly, Shape, Close
<1>2. Shape'
  BY <1>1 DEF Orderly, Shape
<1>3. Once'
  BY <1>1, EmptyFacts DEF Orderly, Once
<1>4. Unused' /\ Waiting'
  BY <1>1 DEF Orderly, Shape, Unused, Waiting
<1> QED
  BY <1>2, <1>3, <1>4 DEF Orderly

(* No response timeout: time ends nobody's waiting.                        *)
LEMMA TickFacts ==
  ASSUME Orderly, Tick
  PROVE  /\ UNCHANGED <<current, queue, unread, missed>>
         /\ waited' \in [Tasks -> Nat \cup {Idle}]
         /\ blocked' \in [Connections -> Nat]
         /\ \A t \in Tasks : waited[t] = Idle => waited'[t] = Idle
         /\ \A t \in Tasks : waited[t] # Idle =>
              waited'[t] # Idle /\ waited'[t] <= waited[t] + 1
         /\ \A c \in Connections :
              blocked'[c] = IF Blocking(c) THEN AtMost(blocked[c] + 1, MaxWait)
                            ELSE 0
<1>1. ASSUME NEW t \in Tasks
      PROVE  /\ waited'[t] \in Nat \cup {Idle}
             /\ waited[t] = Idle => waited'[t] = Idle
             /\ waited[t] # Idle =>
                  waited'[t] # Idle /\ waited'[t] <= waited[t] + 1
  <2>1. waited[t] \in Nat \cup {Idle}
    BY DEF Orderly, Shape
  <2>2. waited'[t] = IF waited[t] = Idle THEN Idle
                     ELSE AtMost(waited[t] + 1, MaxWait)
    BY DEF Tick, response_timeout
  <2> QED
    BY <2>1, <2>2, Parameters DEF AtMost, Idle
<1>2. waited' = [t \in Tasks |-> waited'[t]]
  BY DEF Tick
<1>3. waited' \in [Tasks -> Nat \cup {Idle}]
  BY <1>1, <1>2
<1>4. blocked' \in [Connections -> Nat]
  BY Parameters DEF Tick, Orderly, Shape, AtMost
<1> QED
  BY <1>1, <1>3, <1>4 DEF Tick

LEMMA TickOrderly ==
  ASSUME Orderly, Tick
  PROVE  Orderly'
<1>1. /\ UNCHANGED <<current, queue, unread, missed>>
      /\ waited' \in [Tasks -> Nat \cup {Idle}]
      /\ blocked' \in [Connections -> Nat]
      /\ \A t \in Tasks : waited[t] = Idle <=> waited'[t] = Idle
      /\ \A c \in Connections : queue[c] = <<>> => blocked'[c] = 0
  BY TickFacts DEF Blocking
<1> QED
  BY <1>1 DEF Orderly, Shape, Once, Unused, Waiting

(* What Redis serves, as one Answer.                                       *)
LEMMA ServeFacts ==
  ASSUME Orderly, Serve
  PROVE  \E c \in Connections, t \in Tasks :
           /\ Answer(c, t) /\ unread' \in Nat /\ missed' \in Nat
           /\ \/ missed' = missed
              \/ t \in Readers /\ c # current /\ missed' = missed + 1
<1>1. PICK c \in Connections, t \in Tasks :
        AnswerCaller(c, t) \/ AnswerEntries(c, t) \/ AnswerNil(c, t)
  BY DEF Serve
<1>2. Answer(c, t)
  BY <1>1 DEF AnswerCaller, AnswerEntries, AnswerNil
<1>3. unread' \in Nat
  BY <1>1, Parameters
  DEF AnswerCaller, AnswerEntries, AnswerNil, AtMost, Orderly, Shape
<1>4. c = current => waited[t] # Idle
  BY <1>2, AnswerFacts DEF Orderly, Waiting
<1>5. \/ missed' = missed
      \/ t \in Readers /\ c # current /\ missed' = missed + 1
  BY <1>1, <1>4 DEF AnswerCaller, AnswerEntries, AnswerNil
<1>6. missed' \in Nat
  BY <1>5 DEF Orderly, Shape
<1> QED
  BY <1>2, <1>3, <1>5, <1>6

LEMMA NextOrderly == Orderly /\ [Next]_vars => Orderly'
<1> SUFFICES ASSUME Orderly, [Next]_vars
             PROVE  Orderly'
  OBVIOUS
<1>1. CASE \E t \in Tasks : Call(t)
  BY <1>1, CallOrderly
<1>2. CASE Serve
  BY <1>2, ServeFacts, AnswerOrderly
<1>3. CASE PublishElsewhere
  BY <1>3 DEF PublishElsewhere, Orderly, Shape, Once, Unused, Waiting
<1>4. CASE Break
  BY <1>4, BreakOrderly
<1>5. CASE \E c \in Connections : Close(c)
  BY <1>5, CloseOrderly
<1>6. CASE Tick
  BY <1>6, TickOrderly
<1>7. CASE UNCHANGED vars
  BY <1>7 DEF vars, Orderly, Shape, Once, Unused, Waiting
<1> QED
  BY <1>1, <1>2, <1>3, <1>4, <1>5, <1>6, <1>7 DEF Next

-----------------------------------------------------------------------------
(* The reads that were under way when a connection broke, and have not been*)
(* answered.                                                               *)
Stranded ==
  {p \in Connections \X Readers : p[1] < current /\ p[2] \in In(queue[p[1]])}

(* Each break strands a read per reader at most, and each of those misses  *)
(* at most one answer.                                                     *)
Paid == missed + Cardinality(Stranded) <= current * Cardinality(Readers)

LEMMA StrandedType ==
  /\ IsFiniteSet(Stranded) /\ Cardinality(Stranded) \in Nat
  /\ IsFiniteSet(Stranded') /\ Cardinality(Stranded') \in Nat
<1>1. IsFiniteSet(Connections)
  <2>1. 0 \in Int /\ MaxBreaks \in Int
    BY Parameters
  <2> QED
    BY <2>1, FS_Interval DEF Connections
<1>2. IsFiniteSet(Connections \X Readers)
  BY <1>1, Parameters, FS_Product
<1>3. /\ Stranded \in SUBSET (Connections \X Readers)
      /\ Stranded' \in SUBSET (Connections \X Readers)
  BY DEF Stranded
<1> QED
  BY <1>2, <1>3, FS_Subset, FS_CardinalityType

LEMMA InitPaid == Init => Paid
<1> SUFFICES ASSUME Init
             PROVE  Paid
  OBVIOUS
<1>1. Stranded = {}
  BY EmptyFacts DEF Init, Stranded
<1>2. Cardinality(Stranded) = 0
  BY <1>1, FS_EmptySet
<1>3. 0 * Cardinality(Readers) = 0
  BY Parameters
<1> QED
  BY <1>2, <1>3 DEF Init, Paid

(* A step that strands no read and misses nothing.                         *)
LEMMA QuietPaid ==
  ASSUME Orderly, Paid, current' = current, missed' = missed,
         Stranded' \subseteq Stranded
  PROVE  Paid'
<1>1. Cardinality(Stranded') <= Cardinality(Stranded)
  <2>1. Stranded' \in SUBSET Stranded
    OBVIOUS
  <2> QED
    BY <2>1, StrandedType, FS_Subset
<1>2. current * Cardinality(Readers) \in Nat /\ missed \in Nat
  <2>1. current \in Nat /\ Cardinality(Readers) \in Nat
    BY Parameters DEF Orderly, Shape, Connections
  <2>2. \A a, b \in Nat : a * b \in Nat
    OBVIOUS
  <2> QED
    BY <2>1, <2>2 DEF Orderly, Shape
<1>3. missed + Cardinality(Stranded') <= current * Cardinality(Readers)
  BY <1>1, <1>2, StrandedType DEF Paid
<1> QED
  BY <1>3 DEF Paid

LEMMA ServePaid ==
  ASSUME Orderly, Paid, Serve
  PROVE  Paid'
<1>1. PICK c \in Connections, t \in Tasks :
        /\ Answer(c, t)
        /\ \/ missed' = missed
           \/ t \in Readers /\ c # current /\ missed' = missed + 1
  BY ServeFacts
<1>2. /\ c <= current /\ t \in In(queue[c])
      /\ In(queue'[c]) = In(queue[c]) \ {t}
      /\ \A b \in Connections \ {c} : queue'[b] = queue[b]
      /\ current' = current /\ current \in Nat /\ c \in Nat
  <2>1. current' = current /\ current \in Nat /\ c \in Nat
    BY <1>1, Parameters DEF Answer, Orderly, Shape, Connections
  <2> QED
    BY <1>1, <2>1, AnswerFacts
<1>3. Stranded' \subseteq Stranded
  BY <1>2 DEF Stranded
<1>4. CASE missed' = missed
  BY <1>2, <1>3, <1>4, QuietPaid
<1>5. CASE t \in Readers /\ c # current /\ missed' = missed + 1
  <2>1. c < current
    BY <1>2, <1>5
  <2>2. <<c, t>> \in Stranded /\ <<c, t>> \notin Stranded'
    BY <1>2, <1>5, <2>1 DEF Stranded
  <2>3. Stranded' \in SUBSET (Stranded \ {<<c, t>>})
    BY <1>3, <2>2
  <2>4. /\ IsFiniteSet(Stranded \ {<<c, t>>})
        /\ Cardinality(Stranded \ {<<c, t>>}) = Cardinality(Stranded) - 1
    BY <2>2, StrandedType, FS_RemoveElement
  <2>5. Cardinality(Stranded') <= Cardinality(Stranded) - 1
    BY <2>3, <2>4, FS_Subset
  <2>6. current * Cardinality(Readers) \in Nat /\ missed \in Nat
    <3>1. \A a, b \in Nat : a * b \in Nat
      OBVIOUS
    <3> QED
      BY <1>2, <3>1, Parameters DEF Orderly, Shape
  <2>7. missed' + Cardinality(Stranded') <= current * Cardinality(Readers)
    BY <1>5, <2>5, <2>6, StrandedType DEF Paid
  <2> QED
    BY <1>2, <2>7 DEF Paid
<1> QED
  BY <1>1, <1>4, <1>5

LEMMA BreakPaid ==
  ASSUME Orderly, Paid, Break
  PROVE  Paid'
<1> DEFINE now == {current} \X Readers
<1>1. /\ current' = current + 1 /\ current \in Nat
      /\ missed' = missed /\ missed \in Nat
      /\ \A b \in Connections \ {current} : queue'[b] = queue[b]
      /\ Connections \subseteq Nat
  BY BreakFacts, Parameters DEF Break, Orderly, Shape, Connections
<1>2. Stranded' \in SUBSET (Stranded \cup now)
  <2> SUFFICES ASSUME NEW p \in Stranded'
               PROVE  p \in Stranded \cup now
    OBVIOUS
  <2>1. /\ p \in Connections \X Readers /\ p[1] < current + 1
        /\ p[2] \in In(queue'[p[1]])
    BY <1>1 DEF Stranded
  <2>2. p[1] \in Connections /\ p[2] \in Readers /\ p = <<p[1], p[2]>>
    BY <2>1
  <2>3. CASE p[1] = current
    BY <2>2, <2>3
  <2>4. CASE p[1] # current
    <3>1. p[1] < current
      <4>1. p[1] \in Nat /\ p[1] < current + 1
        BY <1>1, <2>1, <2>2
      <4>2. \A a, b \in Nat : a < b + 1 /\ a # b => a < b
        OBVIOUS
      <4> QED
        BY <1>1, <2>4, <4>1, <4>2
    <3>2. queue'[p[1]] = queue[p[1]]
      BY <1>1, <2>2, <2>4
    <3> QED
      BY <2>1, <3>1, <3>2 DEF Stranded
  <2> QED
    BY <2>3, <2>4
<1>3. IsFiniteSet(now) /\ Cardinality(now) = Cardinality(Readers)
  <2>1. IsFiniteSet({current}) /\ Cardinality({current}) = 1
    BY FS_Singleton
  <2>2. /\ IsFiniteSet(now)
        /\ Cardinality(now) = Cardinality({current}) * Cardinality(Readers)
    BY <2>1, Parameters, FS_Product
  <2>3. 1 * Cardinality(Readers) = Cardinality(Readers)
    BY Parameters
  <2> QED
    BY <2>1, <2>2, <2>3
<1>4. /\ IsFiniteSet(Stranded \cup now)
      /\ Cardinality(Stranded \cup now) <= Cardinality(Stranded) + Cardinality(Readers)
  <2>1. /\ IsFiniteSet(Stranded \cup now)
        /\ Cardinality(Stranded \cup now) =
             Cardinality(Stranded) + Cardinality(now)
               - Cardinality(Stranded \cap now)
    BY <1>3, StrandedType, FS_Union
  <2>2. Cardinality(Stranded \cap now) \in Nat
    BY StrandedType, FS_Intersection, FS_CardinalityType
  <2> QED
    BY <1>3, <2>1, <2>2, StrandedType, Parameters
<1>5. Cardinality(Stranded') <= Cardinality(Stranded) + Cardinality(Readers)
  <2>1. Cardinality(Stranded') <= Cardinality(Stranded \cup now)
    BY <1>2, <1>4, FS_Subset
  <2>2. Cardinality(Stranded \cup now) \in Nat
    BY <1>4, FS_CardinalityType
  <2> QED
    BY <1>4, <2>1, <2>2, StrandedType, Parameters
<1>6. /\ (current + 1) * Cardinality(Readers) =
           current * Cardinality(Readers) + Cardinality(Readers)
      /\ current * Cardinality(Readers) \in Nat
  <2>1. \A a, b \in Nat : a * b \in Nat /\ (a + 1) * b = a * b + b
    OBVIOUS
  <2> QED
    BY <1>1, <2>1, Parameters
<1>7. missed + Cardinality(Stranded') <= (current + 1) * Cardinality(Readers)
  BY <1>1, <1>5, <1>6, StrandedType, Parameters DEF Paid
<1> QED
  BY <1>1, <1>7 DEF Paid

LEMMA NextPaid == Orderly /\ Paid /\ [Next]_vars => Paid'
<1> SUFFICES ASSUME Orderly, Paid, [Next]_vars
             PROVE  Paid'
  OBVIOUS
<1>0. current \in Connections /\ Connections \subseteq Nat
  BY Parameters DEF Orderly, Shape, Connections
<1>1. CASE \E t \in Tasks : Call(t)
  <2>1. /\ current' = current /\ missed' = missed
        /\ \A b \in Connections \ {current} : queue'[b] = queue[b]
    BY <1>1 DEF Call, Orderly, Shape
  <2>2. \A b \in Connections : b < current => queue'[b] = queue[b]
    <3>1. \A b \in Connections : b < current => b # current
      BY <1>0
    <3> QED
      BY <2>1, <3>1
  <2>3. Stranded' \subseteq Stranded
    BY <2>1, <2>2 DEF Stranded
  <2> QED
    BY <2>1, <2>3, QuietPaid
<1>2. CASE Serve
  BY <1>2, ServePaid
<1>3. CASE PublishElsewhere \/ Tick \/ UNCHANGED vars
  <2>1. UNCHANGED current /\ UNCHANGED missed /\ UNCHANGED queue
    BY <1>3 DEF PublishElsewhere, Tick, vars
  <2> QED
    BY <2>1, QuietPaid DEF Stranded
<1>4. CASE Break
  BY <1>4, BreakPaid
<1>5. CASE \E c \in Connections : Close(c)
  <2>1. PICK c \in Connections : Close(c)
    BY <1>5
  <2>2. /\ current' = current /\ missed' = missed /\ queue'[c] = <<>>
        /\ \A b \in Connections \ {c} : queue'[b] = queue[b]
    BY <2>1 DEF Close, Orderly, Shape
  <2>3. Stranded' \subseteq Stranded
    BY <2>2, EmptyFacts DEF Stranded
  <2> QED
    BY <2>2, <2>3, QuietPaid
<1> QED
  BY <1>1, <1>2, <1>3, <1>4, <1>5 DEF Next

(* What Redis delivers reaches a task that waits for it; only the reads    *)
(* that were under way when a connection broke miss theirs, one per reader *)
(* and break at most (client.rs:20-21).                                    *)
THEOREM MissedOnlyByBreaks == Spec => []NothingMissed
<1>1. Orderly /\ Paid => NothingMissed
  <2> SUFFICES ASSUME Orderly, Paid
               PROVE  missed <= current * Cardinality(Readers)
    BY DEF NothingMissed
  <2>1. current \in Nat /\ missed \in Nat /\ Cardinality(Readers) \in Nat
    BY Parameters DEF Orderly, Shape, Connections
  <2>2. \A a, b \in Nat : a * b \in Nat
    OBVIOUS
  <2> QED
    BY <2>1, <2>2, StrandedType DEF Paid
<1> QED
  BY <1>1, InitOrderly, NextOrderly, InitPaid, NextPaid, PTL DEF Spec

-----------------------------------------------------------------------------
(* The reads whose requests are ahead of t's on the connection in use.     *)
Ahead(t) == {r \in Readers : r \in Earlier(queue[current], t)}

(* No request blocks longer than it asked for, and only reads block.       *)
BlockShape ==
  /\ blocked[current] <= Block
  /\ queue[current] = <<>> \/ Head(queue[current]) \in Callers
       => blocked[current] = 0

(* What a caller has waited, with the most it can still have to wait: the  *)
(* reads ahead of it, less the part that the first has blocked already.    *)
Budget ==
  \A t \in Callers : waited[t] # Idle =>
    waited[t] + Cardinality(Ahead(t)) * Block
      <= Cardinality(Readers) * Block + blocked[current]

Timely == BlockShape /\ Budget

LEMMA AheadType ==
  ASSUME NEW t
  PROVE  /\ IsFiniteSet(Ahead(t)) /\ Cardinality(Ahead(t)) \in Nat
         /\ Cardinality(Ahead(t)) <= Cardinality(Readers)
         /\ IsFiniteSet(Ahead(t)') /\ Cardinality(Ahead(t)') \in Nat
         /\ Cardinality(Ahead(t)') <= Cardinality(Readers)
<1>1. Ahead(t) \in SUBSET Readers /\ Ahead(t)' \in SUBSET Readers
  BY DEF Ahead
<1> QED
  BY <1>1, Parameters, FS_Subset, FS_CardinalityType

LEMMA Products ==
  /\ \A a, b \in Nat : a * b \in Nat
  /\ \A a, b, c \in Nat : a <= b => a * c <= b * c
  /\ \A a, b \in Nat : (a + 1) * b = a * b + b
<1>1. \A a, b \in Nat : a * b \in Nat /\ (a + 1) * b = a * b + b
  OBVIOUS
<1>2. ASSUME NEW a \in Nat, NEW b \in Nat, NEW c \in Nat, a <= b
      PROVE  a * c <= b * c
  <2>1. PICK d \in Nat : b = a + d
    <3>1. b - a \in Nat /\ b = a + (b - a)
      BY <1>2
    <3> QED
      BY <3>1
  <2>2. b * c = a * c + d * c
    BY <2>1
  <2>3. d * c \in Nat /\ a * c \in Nat
    BY <1>1
  <2> QED
    BY <2>2, <2>3
<1> QED
  BY <1>1, <1>2

LEMMA InitTimely == Init => Timely
BY Parameters DEF Init, Timely, BlockShape, Budget, Tasks, Connections

(* A step that changes nothing of the connection in use.                   *)
LEMMA ElsewhereTimely ==
  ASSUME Orderly, Timely, current' = current, waited' = waited,
         queue'[current] = queue[current], blocked'[current] = blocked[current]
  PROVE  Timely'
<1>1. BlockShape'
  BY DEF Timely, BlockShape
<1>2. \A t \in Callers : Ahead(t)' = Ahead(t)
  BY DEF Ahead
<1>3. Budget'
  BY <1>2 DEF Timely, Budget
<1> QED
  BY <1>1, <1>3 DEF Timely

LEMMA CallTimely ==
  ASSUME Orderly, Timely, NEW t \in Tasks, Call(t)
  PROVE  Timely'
<1> DEFINE s == queue[current]
<1>1. /\ s \in Seq(Tasks) /\ Distinct(s) /\ t \notin In(s)
      /\ current \in Connections /\ current' = current
      /\ blocked'[current] = blocked[current] /\ blocked[current] \in Nat
      /\ queue'[current] = Append(s, t)
  BY DEF Orderly, Shape, Once, Waiting, Call
<1>2. /\ \A u \in In(s) : Earlier(Append(s, t), u) = Earlier(s, u)
      /\ s # <<>> => Head(Append(s, t)) = Head(s)
  BY <1>1, AppendFacts
<1>4. BlockShape'
  <2>1. queue'[current] # <<>>
    BY <1>1, AppendFacts
  <2> QED
    BY <1>1, <1>2, <2>1 DEF Timely, BlockShape
<1>5. ASSUME NEW u \in Callers, waited'[u] # Idle
      PROVE  waited'[u] + Cardinality(Ahead(u)') * Block
               <= Cardinality(Readers) * Block + blocked'[current]
  <2>1. waited'[u] = IF u = t THEN 0 ELSE waited[u]
    BY Parameters DEF Orderly, Shape, Call
  <2>2. CASE u = t
    <3>1. Cardinality(Ahead(u)') * Block <= Cardinality(Readers) * Block
      BY AheadType, Parameters, Products
    <3>2. /\ Cardinality(Ahead(u)') * Block \in Nat
          /\ Cardinality(Readers) * Block \in Nat
      BY AheadType, Parameters, Products
    <3> QED
      BY <1>1, <2>1, <2>2, <3>1, <3>2
  <2>3. CASE u # t
    <3>1. u \in In(s) /\ waited[u] # Idle /\ waited'[u] = waited[u]
      BY <1>5, <2>1, <2>3, Parameters DEF Orderly, Waiting
    <3>2. Ahead(u)' = Ahead(u)
      BY <1>1, <1>2, <3>1 DEF Ahead
    <3> QED
      BY <1>1, <3>1, <3>2 DEF Timely, Budget
  <2> QED
    BY <2>2, <2>3
<1>6. Budget'
  BY <1>1, <1>5 DEF Budget
<1> QED
  BY <1>4, <1>6 DEF Timely

LEMMA AnswerTimely ==
  ASSUME Orderly, Timely, NEW c \in Connections, NEW h \in Tasks, Answer(c, h)
  PROVE  Timely'
<1>1. current' = current /\ current \in Connections
  BY DEF Answer, Orderly, Shape
<1>2. CASE c # current
  <2>1. /\ waited' = waited
        /\ queue'[current] = queue[current]
        /\ blocked'[current] = blocked[current]
    BY <1>1, <1>2 DEF Answer, Orderly, Shape
  <2> QED
    BY <1>1, <2>1, ElsewhereTimely
<1>3. CASE c = current
  <2>1. /\ blocked'[current] = 0 /\ h = Head(queue[current])
        /\ blocked[current] \in Nat
    BY <1>1, <1>3 DEF Answer, Orderly, Shape
  <2>2. /\ In(queue'[current]) = In(queue[current]) \ {h}
        /\ \A u \in In(queue[current]) \ {h} :
             /\ h \in Earlier(queue[current], u)
             /\ Earlier(queue'[current], u) = Earlier(queue[current], u) \ {h}
    BY <1>3, AnswerFacts
  <2>3. BlockShape'
    BY <1>1, <2>1, Parameters DEF BlockShape
  <2>4. ASSUME NEW t \in Callers, waited'[t] # Idle
        PROVE  waited'[t] + Cardinality(Ahead(t)') * Block
                 <= Cardinality(Readers) * Block + blocked'[current]
    <3>1. t # h /\ waited'[t] = waited[t] /\ waited[t] \in Nat \cup {Idle}
      BY <1>3, <2>4, Parameters DEF Answer, Orderly, Shape
    <3>2. /\ t \in In(queue[current]) \ {h} /\ waited[t] \in Nat
          /\ waited[t] # Idle
      BY <2>4, <3>1, Parameters DEF Orderly, Waiting
    <3>3. Ahead(t)' = Ahead(t) \ {h} /\ (h \in Readers => h \in Ahead(t))
      BY <1>1, <2>2, <3>2 DEF Ahead
    <3>4. waited[t] + Cardinality(Ahead(t)) * Block
            <= Cardinality(Readers) * Block + blocked[current]
      BY <3>2 DEF Timely, Budget
    <3>5. CASE h \in Readers
      <4>1. Cardinality(Ahead(t)') = Cardinality(Ahead(t)) - 1
        BY <3>3, <3>5, AheadType, FS_RemoveElement
      <4>2. Cardinality(Ahead(t)) * Block
              = Cardinality(Ahead(t)') * Block + Block
        <5>1. Cardinality(Ahead(t)) = Cardinality(Ahead(t)') + 1
          BY <4>1, AheadType
        <5> QED
          BY <5>1, AheadType, Parameters, Products
      <4>3. /\ Cardinality(Ahead(t)') * Block \in Nat
            /\ Cardinality(Readers) * Block \in Nat
        BY AheadType, Parameters, Products
      <4>4. blocked[current] <= Block
        BY DEF Timely, BlockShape
      <4> HIDE DEF Ahead
      <4> QED
        BY <2>1, <3>1, <3>2, <3>4, <4>2, <4>3, <4>4, Parameters
    <3>6. CASE h \notin Readers
      <4>1. Ahead(t)' = Ahead(t)
        BY <3>3, <3>6 DEF Ahead
      <4>2. blocked[current] = 0
        BY <2>1, <3>6, Parameters DEF Timely, BlockShape
      <4> QED
        BY <2>1, <3>1, <3>4, <4>1, <4>2
    <3> QED
      BY <3>5, <3>6
  <2>5. Budget'
    BY <1>1, <2>4 DEF Budget
  <2> QED
    BY <2>3, <2>5 DEF Timely
<1> QED
  BY <1>2, <1>3

(* Nobody waits on a new connection.                                       *)
LEMMA BreakTimely ==
  ASSUME Orderly, Timely, Break
  PROVE  Timely'
<1>1. queue'[current'] = <<>> /\ blocked'[current'] = 0
  BY BreakFacts
<1>2. BlockShape'
  BY <1>1, Parameters DEF BlockShape
<1>3. Budget'
  BY Parameters DEF Budget, Break
<1> QED
  BY <1>2, <1>3 DEF Timely

(* Time passes only while a read blocks at the head of the queue.          *)
LEMMA TickTimely ==
  ASSUME Block \in 1..MaxWait, Orderly, Timely, Tick
  PROVE  Timely'
<1>1. /\ current' = current /\ queue' = queue /\ current \in Connections
      /\ waited' \in [Tasks -> Nat \cup {Idle}]
      /\ \A t \in Tasks : waited[t] = Idle => waited'[t] = Idle
      /\ \A t \in Tasks : waited[t] # Idle => waited'[t] <= waited[t] + 1
      /\ blocked'[current] =
           IF Blocking(current) THEN AtMost(blocked[current] + 1, MaxWait)
           ELSE 0
      /\ blocked[current] \in Nat
  BY TickFacts DEF Orderly, Shape
<1>2. \A t : Ahead(t)' = Ahead(t)
  BY <1>1 DEF Ahead
<1>3. CASE Blocking(current)
  <2>1. /\ queue[current] # <<>> /\ Head(queue[current]) \in Readers
        /\ blocked[current] < Block
    BY <1>3, Parameters DEF Blocking, block_arg
  <2>2. blocked'[current] = blocked[current] + 1
    BY <1>1, <1>3, <2>1, Parameters DEF AtMost
  <2>3. BlockShape'
    <3>1. Head(queue[current]) \notin Callers
      BY <2>1, Parameters
    <3> QED
      BY <1>1, <2>1, <2>2, <3>1, Parameters DEF BlockShape
  <2>4. ASSUME NEW t \in Callers, waited'[t] # Idle
        PROVE  waited'[t] + Cardinality(Ahead(t)') * Block
                 <= Cardinality(Readers) * Block + blocked'[current]
    <3>1. /\ waited[t] # Idle /\ waited'[t] <= waited[t] + 1
          /\ waited[t] \in Nat /\ waited'[t] \in Nat
      BY <1>1, <2>4, Parameters DEF Orderly, Shape
    <3>2. waited[t] + Cardinality(Ahead(t)) * Block
            <= Cardinality(Readers) * Block + blocked[current]
      BY <3>1 DEF Timely, Budget
    <3>3. /\ Cardinality(Ahead(t)) * Block \in Nat
          /\ Cardinality(Readers) * Block \in Nat
      BY AheadType, Parameters, Products
    <3> QED
      BY <1>1, <1>2, <2>2, <3>1, <3>2, <3>3
  <2>5. Budget'
    BY <1>1, <2>4 DEF Budget
  <2> QED
    BY <2>3, <2>5 DEF Timely
<1>4. CASE ~ Blocking(current)
  <2>1. queue[current] = <<>> /\ blocked'[current] = 0
    BY <1>1, <1>4 DEF Tick
  <2>2. BlockShape'
    BY <1>1, <2>1, Parameters DEF BlockShape
  <2>3. \A t \in Tasks : waited'[t] = Idle
    BY <1>1, <2>1, EmptyFacts DEF Orderly, Waiting
  <2>4. Budget'
    BY <2>3, Parameters DEF Budget
  <2> QED
    BY <2>2, <2>4 DEF Timely
<1> QED
  BY <1>3, <1>4

LEMMA NextTimely ==
  ASSUME Block \in 1..MaxWait
  PROVE  Orderly /\ Timely /\ [Next]_vars => Timely'
<1> SUFFICES ASSUME Orderly, Timely, [Next]_vars
             PROVE  Timely'
  OBVIOUS
<1>1. CASE \E t \in Tasks : Call(t)
  BY <1>1, CallTimely
<1>2. CASE Serve
  BY <1>2, ServeFacts, AnswerTimely
<1>3. CASE PublishElsewhere \/ UNCHANGED vars
  <2>1. current' = current /\ waited' = waited /\ queue' = queue
        /\ blocked' = blocked
    BY <1>3 DEF PublishElsewhere, vars
  <2> QED
    BY <2>1, ElsewhereTimely
<1>4. CASE Break
  BY <1>4, BreakTimely
<1>5. CASE \E c \in Connections : Close(c)
  <2>1. /\ current' = current /\ waited' = waited
        /\ queue'[current] = queue[current]
        /\ blocked'[current] = blocked[current]
    BY <1>5 DEF Close, Orderly, Shape
  <2> QED
    BY <2>1, ElsewhereTimely
<1>6. CASE Tick
  BY <1>6, TickTimely
<1> QED
  BY <1>1, <1>2, <1>3, <1>4, <1>5, <1>6 DEF Next

LEMMA TimelyBounds ==
  ASSUME Orderly, Timely
  PROVE  DelayBounded
<1> SUFFICES ASSUME NEW t \in Callers
             PROVE  waited[t] <= Cardinality(Readers) * Block
  BY DEF DelayBounded
<1>1. /\ Cardinality(Readers) * Block \in Nat
      /\ Cardinality(Ahead(t)) * Block \in Nat
      /\ waited[t] \in Nat \cup {Idle} /\ current \in Connections
      /\ blocked[current] \in Nat
  BY AheadType, Parameters, Products DEF Orderly, Shape
<1>2. CASE waited[t] = Idle
  BY <1>1, <1>2 DEF Idle
<1>3. CASE waited[t] # Idle
  <2>1. waited[t] \in Nat /\ t \in In(queue[current])
    BY <1>1, <1>3, Parameters DEF Orderly, Waiting
  <2>2. /\ queue[current] \in Seq(Tasks) /\ Distinct(queue[current])
        /\ queue[current] # <<>>
    BY <1>1, <2>1, EmptyFacts DEF Orderly, Shape, Once
  <2> DEFINE h == Head(queue[current])
  <2>3. /\ h \in Tasks
        /\ t # h => h \in Earlier(queue[current], t)
    BY <2>1, <2>2, TailFacts
  <2>4. waited[t] + Cardinality(Ahead(t)) * Block
          <= Cardinality(Readers) * Block + blocked[current]
    BY <1>3 DEF Timely, Budget
  <2>5. CASE h \in Callers
    <3>1. blocked[current] = 0
      BY <2>5 DEF Timely, BlockShape
    <3> QED
      BY <1>1, <2>1, <2>4, <3>1
  <2>6. CASE h \in Readers
    <3>1. h \in Ahead(t)
      BY <2>3, <2>6, Parameters DEF Ahead
    <3>2. Cardinality(Ahead(t)) # 0
      BY <3>1, AheadType, FS_EmptySet
    <3>3. 1 * Block <= Cardinality(Ahead(t)) * Block
      <4>1. 1 <= Cardinality(Ahead(t)) /\ 1 \in Nat
        BY <3>2, AheadType
      <4> QED
        BY <4>1, AheadType, Parameters, Products
    <3>4. blocked[current] <= Block
      BY DEF Timely, BlockShape
    <3> QED
      BY <1>1, <2>1, <2>4, <3>3, <3>4, Parameters
  <2> QED
    BY <2>3, <2>5, <2>6 DEF Tasks
<1> QED
  BY <1>1, <1>2, <1>3

(* publish, ack and ping wait at most for one blocking read of each other  *)
(* task, when the reads have a limit and the model counts up to it: with   *)
(* block_ms = 0 a read blocks until somebody else publishes.               *)
THEOREM CallersWaitForReadersOnly ==
  ASSUME Block \in 1..MaxWait
  PROVE  Spec => []DelayBounded
<1>1. Orderly /\ Timely => DelayBounded
  BY TimelyBounds
<1>2. Orderly /\ Timely /\ [Next]_vars => Timely'
  BY NextTimely
<1> QED
  BY <1>1, <1>2, InitOrderly, NextOrderly, InitTimely, PTL DEF Spec

=============================================================================
