---------------------------- MODULE RequestProofs ----------------------------
(***************************************************************************)
(* What holds of AccessControl for any accounts, rights, keys, lifetime    *)
(* and leeway, and of Inputs for texts of any length.                      *)
(*                                                                         *)
(* The operators of Inputs take texts apart with FoldLeft, of which the    *)
(* prover only knows the definition: a recursive function that is chosen.  *)
(* It is shown to exist and to take up one symbol after the other; what    *)
(* Split, Without and Walk make of a text then follows by induction over   *)
(* texts, which is an induction over their lengths.                        *)
(***************************************************************************)
EXTENDS AccessControl, Inputs, SequenceTheorems, FiniteSetTheorems,
        WellFoundedInduction, TLAPS

(* The inductive invariant.  Held: the age of a right that an account has  *)
(* is 0.  NoOlder: the rights in a token were lost, if at all, since it was*)
(* issued, which is Lifetime - left ago.                                   *)
Held == \A a \in Accounts : \A r \in rights[a] : lost[a][r] = 0

NoOlder ==
  token # NoToken =>
    \A r \in token.rights : lost[token.sub][r] <= Lifetime - token.left

Inv == TypeOK /\ Held /\ NoOlder

LEMMA InitInv == Init => Inv
<1> SUFFICES ASSUME Init
             PROVE  Inv
  OBVIOUS
<1>1. MaxAge \in Nat /\ 0 \in 0..MaxAge /\ MaxAge \in 0..MaxAge
  BY TimesAssumption DEF MaxAge
<1>2. TypeOK
  <2>1. lost \in [Accounts -> [Rights -> 0..MaxAge]]
    BY <1>1 DEF Init
  <2>2. published \in Seq(Keys) /\ cached \in Seq(Keys)
    BY DEF Init
  <2> QED
    BY <2>1, <2>2 DEF Init, TypeOK
<1>3. Held
  BY DEF Init, Held
<1>4. NoOlder
  BY DEF Init, NoOlder
<1> QED
  BY <1>2, <1>3, <1>4 DEF Inv

LEMMA IssuedToken ==
  ASSUME TypeOK, NEW a \in Accounts
  PROVE  LET issued == encode_access_token(a, signing, signing)
         IN issued \in Token /\ issued.kid = issued.key /\ issued # NoToken
<1>1. Lifetime \in -(Leeway + 1)..Lifetime
  BY TimesAssumption
<1>2. /\ rights[a] \in SUBSET Rights /\ signing \in Keys
      /\ (a \in bots) \in BOOLEAN
  BY DEF TypeOK
<1>3. encode_access_token(a, signing, signing) \in Token
  BY <1>1, <1>2 DEF encode_access_token, Token
<1> QED
  BY <1>3, AccessControlAssumption DEF encode_access_token

LEMMA IssueInv ==
  ASSUME Inv, NEW a \in Accounts, Issue(a)
  PROVE  Inv'
<1>1. TypeOK'
  BY IssuedToken DEF Inv, TypeOK, Issue, issuer
<1>2. Held'
  BY DEF Inv, Held, Issue
<1>3. NoOlder'
  BY TimesAssumption
  DEF Inv, Held, NoOlder, Issue, encode_access_token
<1> QED
  BY <1>1, <1>2, <1>3 DEF Inv

LEMMA GrantInv ==
  ASSUME Inv, NEW a \in Accounts, NEW r \in Rights, Grant(a, r)
  PROVE  Inv'
<1>1. MaxAge \in Nat
  BY TimesAssumption DEF MaxAge
<1>2. /\ rights' \in [Accounts -> SUBSET Rights]
      /\ lost' \in [Accounts -> [Rights -> 0..MaxAge]]
  BY <1>1 DEF Inv, TypeOK, Grant
<1>3. TypeOK'
  BY <1>2 DEF Inv, TypeOK, Grant, issuer
<1>4. \A b \in Accounts, q \in Rights :
        lost'[b][q] = IF b = a /\ q = r THEN 0 ELSE lost[b][q]
  BY DEF Inv, TypeOK, Grant
<1>5. Held'
  BY <1>4 DEF Inv, TypeOK, Held, Grant
<1>6. NoOlder'
  <2> SUFFICES ASSUME token # NoToken, NEW q \in token.rights
               PROVE  lost'[token.sub][q] <= Lifetime - token.left
    BY DEF NoOlder, Grant
  <2>1. /\ token.sub \in Accounts /\ q \in Rights
        /\ token.left \in -(Leeway + 1)..Lifetime
    BY DEF Inv, TypeOK, Token
  <2>2. lost[token.sub][q] <= Lifetime - token.left
    BY DEF Inv, NoOlder
  <2> QED
    BY <1>4, <2>1, <2>2, TimesAssumption
<1> QED
  BY <1>3, <1>5, <1>6 DEF Inv

LEMMA RevokeInv ==
  ASSUME Inv, NEW a \in Accounts, NEW r \in Rights, Revoke(a, r)
  PROVE  Inv'
<1>1. TypeOK'
  BY DEF Inv, TypeOK, Revoke, issuer
<1>2. Held'
  BY DEF Inv, TypeOK, Held, Revoke
<1>3. NoOlder'
  BY DEF Inv, NoOlder, Revoke
<1> QED
  BY <1>1, <1>2, <1>3 DEF Inv

LEMMA KeysInv ==
  ASSUME Inv, Refresh \/ \E k \in Keys : Rotate(k)
  PROVE  Inv'
<1>1. UNCHANGED <<bots, rights, lost, token>>
  BY DEF Refresh, Rotate
<1>2. /\ signing' \in Keys /\ published' \in Seq(Keys) /\ cached' \in Seq(Keys)
  <2>1. signing \in Keys /\ published \in Seq(Keys) /\ cached \in Seq(Keys)
    BY DEF Inv, TypeOK
  <2>2. CASE Refresh
    BY <2>1, <2>2 DEF Refresh, issuer
  <2>3. CASE \E k \in Keys : Rotate(k)
    <3>1. PICK k \in Keys : Rotate(k)
      BY <2>3
    <3>2. <<k, signing>> \in Seq(Keys)
      BY <2>1
    <3> QED
      BY <2>1, <3>1, <3>2 DEF Rotate
  <2> QED
    BY <2>2, <2>3
<1> QED
  BY <1>1, <1>2 DEF Inv, TypeOK, Held, NoOlder

(* Time makes a token and what was lost since older by the same amount.    *)
LEMMA TickInv ==
  ASSUME Inv, Tick
  PROVE  Inv'
<1> DEFINE Floor == -(Leeway + 1)
<1>1. /\ MaxAge \in Nat /\ MaxAge = Lifetime - Floor
      /\ Lifetime \in Nat /\ Leeway \in Nat
  BY TimesAssumption DEF MaxAge
<1>2. ASSUME NEW b \in Accounts, NEW q \in Rights
      PROVE  /\ lost[b][q] \in 0..MaxAge
             /\ lost'[b][q] \in 0..MaxAge
             /\ lost'[b][q] <= lost[b][q] + 1
             /\ q \in rights[b] => lost'[b][q] = 0
  <2>1. lost[b][q] \in 0..MaxAge
    BY DEF Inv, TypeOK
  <2>2. lost'[b][q] = IF q \in rights[b] THEN 0
                      ELSE IF lost[b][q] < MaxAge THEN lost[b][q] + 1 ELSE MaxAge
    BY DEF Tick
  <2> QED
    BY <2>1, <2>2, <1>1
<1>3. token # NoToken =>
        /\ token \in Token /\ token' \in Token
        /\ token' = [token EXCEPT !.left = token'.left]
        /\ \/ token.left = Floor /\ token'.left = token.left
           \/ token'.left = token.left - 1
  <2> SUFFICES ASSUME token # NoToken
               PROVE  /\ token \in Token /\ token' \in Token
                      /\ token' = [token EXCEPT !.left = token'.left]
                      /\ \/ token.left = Floor /\ token'.left = token.left
                         \/ token'.left = token.left - 1
    OBVIOUS
  <2>1. token \in Token
    BY DEF Inv, TypeOK
  <2>2. CASE token.left = Floor
    BY <2>1, <2>2 DEF Tick, Token
  <2>3. CASE token.left # Floor
    <3>1. token' = [token EXCEPT !.left = @ - 1]
      BY <2>3 DEF Tick
    <3>2. token.left - 1 \in -(Leeway + 1)..Lifetime
      BY <2>1, <2>3, <1>1 DEF Token
    <3> QED
      BY <2>1, <3>1, <3>2 DEF Token
  <2> QED
    BY <2>2, <2>3
<1>4. token = NoToken => token' = NoToken
  BY DEF Tick
<1>5. TypeOK'
  <2>1. lost' \in [Accounts -> [Rights -> 0..MaxAge]]
    <3>1. lost' = [b \in Accounts |-> [q \in Rights |-> lost'[b][q]]]
      BY DEF Tick
    <3> QED
      BY <3>1, <1>2
  <2>2. token' = NoToken \/ (token' \in Token /\ token'.kid = token'.key)
    BY <1>3, <1>4 DEF Inv, TypeOK, Token
  <2> QED
    BY <2>1, <2>2 DEF Inv, TypeOK, Tick, issuer
<1>6. Held'
  BY <1>2 DEF Inv, TypeOK, Held, Tick
<1>7. NoOlder'
  <2> SUFFICES ASSUME token' # NoToken, NEW q \in token'.rights
               PROVE  lost'[token'.sub][q] <= Lifetime - token'.left
    BY DEF NoOlder
  <2>1. /\ token # NoToken /\ token'.rights = token.rights
        /\ token'.sub = token.sub
        /\ token.sub \in Accounts /\ q \in Rights
        /\ token.left \in -(Leeway + 1)..Lifetime
    BY <1>3, <1>4 DEF Token
  <2>2. lost[token.sub][q] <= Lifetime - token.left
    BY <2>1 DEF Inv, NoOlder
  <2>3. /\ lost[token.sub][q] \in 0..MaxAge
        /\ lost'[token.sub][q] \in 0..MaxAge
        /\ lost'[token.sub][q] <= lost[token.sub][q] + 1
    BY <1>2, <2>1
  <2>4. \/ token.left = Floor /\ token'.left = token.left
        \/ token'.left = token.left - 1
    BY <1>3, <2>1
  <2> QED
    BY <1>1, <2>1, <2>2, <2>3, <2>4
<1> QED
  BY <1>5, <1>6, <1>7 DEF Inv

LEMMA NextInv == Inv /\ [Next]_vars => Inv'
<1> SUFFICES ASSUME Inv, [Next]_vars
             PROVE  Inv'
  OBVIOUS
<1>1. CASE UNCHANGED vars
  BY <1>1 DEF vars, issuer, Inv, TypeOK, Held, NoOlder
<1>2. CASE \E a \in Accounts : Issue(a)
  BY <1>2, IssueInv
<1>3. CASE \E a \in Accounts, r \in Rights : Grant(a, r) \/ Revoke(a, r)
  BY <1>3, GrantInv, RevokeInv
<1>4. CASE Refresh \/ \E k \in Keys : Rotate(k)
  BY <1>4, KeysInv
<1>5. CASE Tick
  BY <1>5, TickInv
<1> QED
  BY <1>1, <1>2, <1>3, <1>4, <1>5 DEF Next

LEMMA SpecInv == Spec => []Inv
BY InitInv, NextInv, PTL DEF Spec

(* AccessControl is type correct, and a token of the issuer always names   *)
(* the key that signed it (encode_access_token, jwt.rs:19).                *)
THEOREM TypeCorrect == Spec => []TypeOK
<1>1. Inv => TypeOK
  BY DEF Inv
<1> QED
  BY <1>1, SpecInv, PTL

(* A token that is still accepted carries only recent rights.              *)
LEMMA AcceptedIsRecent ==
  ASSUME Inv, token # NoToken, verify_token(token), NEW r \in token.rights
  PROVE  r \in Rights /\ lost[token.sub][r] < MaxAge
<1>1. token.left >= -Leeway
  BY DEF verify_token, decode_access_token
<1>2. /\ token.left \in -(Leeway + 1)..Lifetime /\ token.sub \in Accounts
      /\ r \in Rights
  BY DEF Inv, TypeOK, Token
<1>3. lost[token.sub][r] <= Lifetime - token.left
  BY DEF Inv, NoOlder
<1>4. lost[token.sub][r] \in 0..MaxAge
  BY <1>2 DEF Inv, TypeOK
<1> QED
  BY <1>1, <1>2, <1>3, <1>4, TimesAssumption DEF MaxAge

(* Revocation takes effect in bounded time: whatever is issued, granted,   *)
(* revoked and rotated, a right that was lost MaxAge ago opens nothing     *)
(* (guard_bot_request, AuthUser, OptionalAuthUser).                        *)
THEOREM RevocationIsBounded == Spec => []StaleRightsBounded
<1>1. Inv => StaleRightsBounded
  <2> SUFFICES ASSUME Inv, NEW mode \in Modes
               PROVE
                 /\ OptionalAuthUser(token, mode) = "user" /\ token.bot
                      => Recently(token.sub, {mode})
                 /\ \A demand \in Demands \ {"nothing"} :
                      AuthUser(token, mode, demand) = "user"
                        => Recently(token.sub,
                             IF demand = "an admin" THEN AdminRoles \cap Rights
                                                    ELSE {demand})
    BY DEF StaleRightsBounded
  <2>1. ASSUME OptionalAuthUser(token, mode) = "user", token.bot
        PROVE  Recently(token.sub, {mode})
    <3>1. token # NoToken /\ verify_token(token) /\ mode \in token.rights
      BY <2>1 DEF OptionalAuthUser, guard_bot_request, allow_module
    <3> QED
      BY <3>1, AcceptedIsRecent DEF Recently
  <2>2. ASSUME NEW demand \in Demands \ {"nothing"},
               AuthUser(token, mode, demand) = "user"
        PROVE  Recently(token.sub,
                 IF demand = "an admin" THEN AdminRoles \cap Rights
                                        ELSE {demand})
    <3>1. token # NoToken /\ verify_token(token) /\ meets(token, demand)
      BY <2>2 DEF AuthUser
    <3>2. token.rights \subseteq Rights
      BY <3>1 DEF Inv, TypeOK, Token
    <3>3. CASE demand = "an admin"
      <4>1. PICK r \in token.rights : r \in AdminRoles
        BY <3>1, <3>2, <3>3, AccessControlAssumption DEF meets, is_admin
      <4> QED
        BY <3>1, <3>3, <4>1, AcceptedIsRecent DEF Recently
    <3>4. CASE demand # "an admin"
      <4>1. demand \in token.rights
        BY <3>1, <3>4 DEF meets
      <4> QED
        BY <3>1, <3>4, <4>1, AcceptedIsRecent DEF Recently
    <3> QED
      BY <3>3, <3>4
  <2> QED
    BY <2>1, <2>2
<1> QED
  BY <1>1, SpecInv, PTL

(* Rotation locks nobody out: a token that names its key and has not       *)
(* expired is accepted by a service that has this key, at any place of the *)
(* key set (decoding_key_from_jwks, verify_token).                         *)
THEOREM RotationLocksNobodyOut == Spec => []GoodTokenAccepted
<1>1. Inv => GoodTokenAccepted
  <2> SUFFICES ASSUME Inv, NEW mode \in Modes,
                      token # NoToken, token.left > 0,
                      NEW i \in DOMAIN cached, cached[i] = token.key,
                      allow_module(token, mode)
               PROVE  AuthUser(token, mode, "nothing") = "user"
    BY DEF GoodTokenAccepted
  <2>1. /\ token \in Token /\ token.kid = token.key
        /\ token.key \in Keys /\ token.kid # NoKid
        /\ token.left \in Int
    <3>1. token \in Token /\ token.kid = token.key
      BY DEF Inv, TypeOK
    <3>2. token.key \in Keys /\ token.left \in -(Leeway + 1)..Lifetime
      BY <3>1 DEF Token
    <3>3. NoKid \notin Keys
      BY AccessControlAssumption
    <3>4. token.left \in Int
      BY <3>2, TimesAssumption
    <3> QED
      BY <3>1, <3>2, <3>3, <3>4
  <2>2. token.key \in decoding_key_from_jwks(cached, token.kid)
    BY <2>1 DEF decoding_key_from_jwks
  <2>3. token.left >= -Leeway
    BY <2>1, TimesAssumption
  <2>4. verify_token(token)
    BY <2>2, <2>3 DEF verify_token, decode_access_token
  <2> QED
    BY <2>4 DEF AuthUser, guard_bot_request, meets
<1> QED
  BY <1>1, SpecInv, PTL

-----------------------------------------------------------------------------
(* Induction over lengths, without an operator as a parameter: of the      *)
(* numbers that are not in S, one would be least.                          *)
LEMMA Induction ==
  ASSUME NEW S, 0 \in S, \A n \in Nat : n \in S => n + 1 \in S
  PROVE  Nat \subseteq S
<1> SUFFICES ASSUME Nat \ S # {}
             PROVE  FALSE
  OBVIOUS
<1> DEFINE T == Nat \ S
<1>1. T \subseteq Nat /\ T # {}
  OBVIOUS
<1>2. \E m \in T : \A n \in T : ~(<<n, m>> \in OpToRel(<, Nat))
  <2> HIDE DEF T
  <2> QED
    BY <1>1, NatLessThanWellFounded, WFMin
<1>3. PICK m \in T : \A n \in T : ~(n < m)
  <2> HIDE DEF T
  <2> QED
    BY <1>1, <1>2 DEF OpToRel
<1>4. m # 0 /\ m - 1 \in Nat
  OBVIOUS
<1>5. m - 1 \in S
  BY <1>3, <1>4
<1> QED
  BY <1>4, <1>5

(* The least and the greatest of some numbers up to n.                     *)
LEMMA MinMax ==
  ASSUME NEW n \in Nat, NEW S \in SUBSET (1..n), S # {}
  PROVE  /\ Min(S) \in S /\ \A i \in S : Min(S) <= i
         /\ Max(S) \in S /\ \A i \in S : i <= Max(S)
<1> DEFINE A == {k \in Nat : \A T \in SUBSET (1..k) : T # {} =>
                    /\ \E x \in T : \A y \in T : x <= y
                    /\ \E x \in T : \A y \in T : x >= y}
<1>1. 0 \in A
  <2>1. 1..0 = {}
    OBVIOUS
  <2> QED
    BY <2>1
<1>2. ASSUME NEW k \in Nat, k \in A
      PROVE  k + 1 \in A
  <2> SUFFICES ASSUME NEW T \in SUBSET (1..(k + 1)), T # {}
               PROVE  /\ \E x \in T : \A y \in T : x <= y
                      /\ \E x \in T : \A y \in T : x >= y
    OBVIOUS
  <2> DEFINE U == T \ {k + 1}
  <2>1. U \in SUBSET (1..k)
    OBVIOUS
  <2>2. CASE U = {}
    <3>1. T = {k + 1}
      BY <2>2
    <3> QED
      BY <3>1
  <2>3. CASE U # {}
    <3>1. PICK x \in U : \A y \in U : x <= y
      BY <1>2, <2>1, <2>3
    <3>2. PICK z \in U : \A y \in U : z >= y
      BY <1>2, <2>1, <2>3
    <3>3. \A y \in T : x <= y
      BY <3>1, <2>1
    <3>4. CASE k + 1 \in T
      <4>1. \A y \in T : k + 1 >= y
        OBVIOUS
      <4> QED
        BY <3>3, <3>4, <4>1
    <3>5. CASE k + 1 \notin T
      BY <3>2, <3>3, <3>5
    <3> QED
      BY <3>4, <3>5
  <2> QED
    BY <2>2, <2>3
<1>3. n \in A
  <2> HIDE DEF A
  <2> QED
    BY <1>1, <1>2, Induction
<1>4. /\ \E x \in S : \A y \in S : x <= y
      /\ \E x \in S : \A y \in S : x >= y
  BY <1>3
<1>5. Min(S) \in S /\ \A i \in S : Min(S) <= i
  BY <1>4 DEF Min
<1>6. Max(S) \in S /\ \A i \in S : Max(S) >= i
  BY <1>4 DEF Max
<1> QED
  BY <1>5, <1>6

LEMMA LastOfMany ==
  ASSUME NEW n \in Nat, n # 0
  PROVE  /\ Max(1..n) = n /\ Min(1..n) = 1
         /\ (1..n) \ {Max(1..n)} = 1..(n - 1) /\ 1..n # {}
<1>1. 1..n \in SUBSET (1..n) /\ 1..n # {} /\ n \in 1..n /\ 1 \in 1..n
  OBVIOUS
<1>2. /\ Max(1..n) \in 1..n /\ n <= Max(1..n)
      /\ Min(1..n) \in 1..n /\ Min(1..n) <= 1
  BY <1>1, MinMax
<1>3. Max(1..n) = n /\ Min(1..n) = 1
  BY <1>2
<1> QED
  BY <1>1, <1>3

-----------------------------------------------------------------------------
(* Folds.  FoldLeft is a recursive function on the subsets of the positions*)
(* of a text.  Such a function exists ...                                  *)
IsIteration(iter, T, base, n, step) ==
  /\ iter \in [SUBSET (1..n) -> T]
  /\ \A s \in SUBSET (1..n) :
       iter[s] = IF s = {} THEN base
                 ELSE step[<<iter[s \ {Max(s)}], Max(s)>>]

LEMMA IterationExists ==
  ASSUME NEW T, NEW base \in T, NEW n \in Nat, NEW step \in [T \X (1..n) -> T]
  PROVE  \E iter : IsIteration(iter, T, base, n, step)
<1> DEFINE Good(iter, k) ==
             \A s \in SUBSET (1..k) :
               iter[s] = IF s = {} THEN base
                         ELSE step[<<iter[s \ {Max(s)}], Max(s)>>]
           Exists(k) == \E iter \in [SUBSET (1..k) -> T] : Good(iter, k)
           A == {k \in Nat : k <= n => Exists(k)}
<1>1. 0 \in A
  <2> DEFINE iter == [s \in SUBSET (1..0) |-> base]
  <2>1. iter \in [SUBSET (1..0) -> T] /\ Good(iter, 0)
    OBVIOUS
  <2> HIDE DEF iter
  <2>2. Exists(0)
    BY <2>1
  <2> HIDE DEF Exists
  <2> QED
    BY <2>2
<1>2. ASSUME NEW k \in Nat, k \in A
      PROVE  k + 1 \in A
  <2> HIDE DEF Exists
  <2> SUFFICES ASSUME k + 1 <= n
               PROVE  Exists(k + 1)
    OBVIOUS
  <2>0. Exists(k)
    BY <1>2
  <2> USE DEF Exists
  <2>1. PICK it \in [SUBSET (1..k) -> T] : Good(it, k)
    BY <2>0
  <2> DEFINE iter == [s \in SUBSET (1..(k + 1)) |->
                        IF k + 1 \in s THEN step[<<it[s \ {k + 1}], k + 1>>]
                        ELSE it[s]]
  <2>2. \A s \in SUBSET (1..(k + 1)) :
          /\ k + 1 \in s => s \ {k + 1} \in SUBSET (1..k)
          /\ k + 1 \notin s => s \in SUBSET (1..k)
    OBVIOUS
  <2>3. iter \in [SUBSET (1..(k + 1)) -> T]
    <3> SUFFICES ASSUME NEW s \in SUBSET (1..(k + 1))
                 PROVE  (IF k + 1 \in s THEN step[<<it[s \ {k + 1}], k + 1>>]
                         ELSE it[s]) \in T
      OBVIOUS
    <3>1. CASE k + 1 \in s
      <4>1. it[s \ {k + 1}] \in T /\ k + 1 \in 1..n
        BY <2>2, <3>1
      <4> QED
        BY <3>1, <4>1
    <3>2. CASE k + 1 \notin s
      BY <2>2, <3>2
    <3> QED
      BY <3>1, <3>2
  <2>4. ASSUME NEW s \in SUBSET (1..(k + 1))
        PROVE  iter[s] = IF s = {} THEN base
                         ELSE step[<<iter[s \ {Max(s)}], Max(s)>>]
    <3>1. CASE k + 1 \in s
      <4>1. Max(s) \in s /\ k + 1 <= Max(s)
        <5>1. k + 1 \in Nat
          OBVIOUS
        <5> QED
          BY <3>1, <5>1, MinMax
      <4>2. Max(s) = k + 1
        <5> HIDE DEF iter
        <5>1. Max(s) \in 1..(k + 1)
          BY <4>1
        <5> QED
          BY <4>1, <5>1
      <4>3. /\ s \ {k + 1} \in SUBSET (1..k) /\ k + 1 \notin s \ {k + 1}
            /\ s \ {k + 1} \in SUBSET (1..(k + 1))
        BY <2>2, <3>1
      <4>4. iter[s \ {k + 1}] = it[s \ {k + 1}]
        BY <4>3
      <4>5. iter[s] = step[<<it[s \ {k + 1}], k + 1>>]
        BY <3>1
      <4> HIDE DEF iter
      <4> QED
        BY <3>1, <4>2, <4>4, <4>5
    <3>2. CASE k + 1 \notin s
      <4>1. s \in SUBSET (1..k)
        BY <2>2, <3>2
      <4>2. s \ {Max(s)} \in SUBSET (1..(k + 1)) /\ k + 1 \notin s \ {Max(s)}
        BY <3>2
      <4>3. iter[s] = it[s] /\ iter[s \ {Max(s)}] = it[s \ {Max(s)}]
        BY <3>2, <4>2
      <4> HIDE DEF iter
      <4> QED
        BY <2>1, <4>1, <4>3
    <3> QED
      BY <3>1, <3>2
  <2> HIDE DEF iter
  <2> QED
    BY <2>3, <2>4
<1>3. n \in A
  <2> HIDE DEF A
  <2> QED
    BY <1>1, <1>2, Induction
<1>4. Exists(n)
  <2> HIDE DEF Exists
  <2> QED
    BY <1>3
<1> QED
  BY <1>4 DEF IsIteration

(* ... on the positions of any text, ...                                   *)
IsFold(iter, T, step, base, s) ==
  /\ iter \in [SUBSET DOMAIN s -> T]
  /\ \A x \in SUBSET DOMAIN s :
       iter[x] = IF x = {} THEN base
                 ELSE step[<<iter[x \ {Max(x)}], s[Max(x)]>>]

LEMMA FoldExists ==
  ASSUME NEW T, NEW base \in T, NEW C, NEW s \in Seq(C), NEW step \in [T \X C -> T]
  PROVE  \E iter : IsFold(iter, T, step, base, s)
<1> DEFINE at == [z \in T \X (1..Len(s)) |-> step[<<z[1], s[z[2]]>>]]
<1>1. Len(s) \in Nat /\ DOMAIN s = 1..Len(s) /\ \A i \in 1..Len(s) : s[i] \in C
  OBVIOUS
<1>2. at \in [T \X (1..Len(s)) -> T]
  BY <1>1
<1>3. \A t \in T, i \in 1..Len(s) : at[<<t, i>>] = step[<<t, s[i]>>]
  OBVIOUS
<1> HIDE DEF at
<1>4. PICK iter \in [SUBSET (1..Len(s)) -> T] :
        \A x \in SUBSET (1..Len(s)) :
          iter[x] = IF x = {} THEN base ELSE at[<<iter[x \ {Max(x)}], Max(x)>>]
  <2> DEFINE n == Len(s)
  <2>1. n \in Nat /\ at \in [T \X (1..n) -> T]
    BY <1>1, <1>2
  <2> HIDE DEF n
  <2>2. \E iter : IsIteration(iter, T, base, n, at)
    BY <2>1, IterationExists
  <2> QED
    BY <2>2 DEF IsIteration, n
<1>5. ASSUME NEW x \in SUBSET (1..Len(s)), x # {}
      PROVE  at[<<iter[x \ {Max(x)}], Max(x)>>]
               = step[<<iter[x \ {Max(x)}], s[Max(x)]>>]
  <2>1. Max(x) \in x
    BY <1>1, <1>5, MinMax
  <2>2. Max(x) \in 1..Len(s) /\ x \ {Max(x)} \in SUBSET (1..Len(s))
    BY <2>1
  <2> QED
    BY <1>3, <2>2
<1> QED
  BY <1>1, <1>4, <1>5 DEF IsFold

(* ... and takes the text up symbol by symbol: W[k] is what the first k    *)
(* symbols come to.                                                        *)
IsTrace(W, T, step, base, s) ==
  /\ W \in [0..Len(s) -> T]
  /\ W[0] = base
  /\ \A k \in 1..Len(s) : W[k] = step[<<W[k - 1], s[k]>>]

Iterates(iter, T, step, base, s) ==
  /\ iter[{}] = base
  /\ \A k \in 1..Len(s) :
       iter[1..(k - 1)] \in T
         => iter[1..k] = step[<<iter[1..(k - 1)], s[k]>>]

FoldsTo(T, step, base, s, v) ==
  \E W : IsTrace(W, T, step, base, s) /\ W[Len(s)] = v

LEMMA IterationTrace ==
  ASSUME NEW T, NEW base \in T, NEW C, NEW s \in Seq(C), NEW step \in [T \X C -> T],
         NEW iter, Iterates(iter, T, step, base, s)
  PROVE  FoldsTo(T, step, base, s, iter[DOMAIN s])
<1> DEFINE W == [k \in 0..Len(s) |-> iter[1..k]]
           A == {k \in Nat : k <= Len(s) => iter[1..k] \in T}
<1>0. Len(s) \in Nat /\ DOMAIN s = 1..Len(s) /\ \A i \in 1..Len(s) : s[i] \in C
  OBVIOUS
<1>1. 0 \in A
  <2>1. 1..0 = {}
    OBVIOUS
  <2> QED
    BY <2>1 DEF Iterates
<1>2. ASSUME NEW k \in Nat, k \in A
      PROVE  k + 1 \in A
  <2> SUFFICES ASSUME k + 1 <= Len(s)
               PROVE  iter[1..(k + 1)] \in T
    OBVIOUS
  <2>1. iter[1..k] \in T
    BY <1>0, <1>2
  <2>2. k + 1 \in 1..Len(s) /\ (k + 1) - 1 = k
    BY <1>0
  <2>3. iter[1..(k + 1)] = step[<<iter[1..k], s[k + 1]>>]
    BY <2>1, <2>2 DEF Iterates
  <2> QED
    BY <1>0, <2>1, <2>2, <2>3
<1>3. Nat \subseteq A
  <2> HIDE DEF A
  <2> QED
    BY <1>1, <1>2, Induction
<1>4. \A k \in 0..Len(s) : iter[1..k] \in T
  BY <1>0, <1>3
<1>5. W \in [0..Len(s) -> T]
  BY <1>4
<1>6. W[0] = base
  <2>1. 1..0 = {}
    OBVIOUS
  <2> QED
    BY <1>0, <2>1 DEF Iterates
<1>7. ASSUME NEW k \in 1..Len(s)
      PROVE  W[k] = step[<<W[k - 1], s[k]>>]
  <2>1. k \in 0..Len(s) /\ k - 1 \in 0..Len(s)
    BY <1>0
  <2>2. W[k] = iter[1..k] /\ W[k - 1] = iter[1..(k - 1)]
    BY <2>1
  <2> QED
    BY <1>4, <2>1, <2>2 DEF Iterates
<1>8. W[Len(s)] = iter[DOMAIN s]
  BY <1>0
<1> HIDE DEF W
<1> QED
  BY <1>5, <1>6, <1>7, <1>8 DEF IsTrace, FoldsTo

(* One more symbol is one more step.                                       *)
Follows(v, step, u, c) == v = step[<<u, c>>]

LEMMA FoldAppend ==
  ASSUME NEW T, NEW base \in T, NEW C, NEW s \in Seq(C), NEW c \in C,
         NEW step \in [T \X C -> T],
         NEW u, FoldsTo(T, step, base, s, u),
         NEW v, FoldsTo(T, step, base, Append(s, c), v)
  PROVE  u \in T /\ Follows(v, step, u, c)
<1> PICK V : IsTrace(V, T, step, base, s) /\ V[Len(s)] = u
  BY DEF FoldsTo
<1> PICK W : IsTrace(W, T, step, base, Append(s, c)) /\ W[Len(Append(s, c))] = v
  BY DEF FoldsTo
<1>0. Len(s) \in Nat /\ Len(Append(s, c)) = Len(s) + 1
  OBVIOUS
<1>1. /\ \A i \in 1..Len(s) : Append(s, c)[i] = s[i]
      /\ Append(s, c)[Len(s) + 1] = c
  OBVIOUS
<1> DEFINE A == {k \in Nat : k <= Len(s) => W[k] = V[k]}
<1>2. 0 \in A
  BY DEF IsTrace
<1>3. ASSUME NEW k \in Nat, k \in A
      PROVE  k + 1 \in A
  <2> SUFFICES ASSUME k + 1 <= Len(s)
               PROVE  W[k + 1] = V[k + 1]
    OBVIOUS
  <2>1. k + 1 \in 1..Len(s) /\ k + 1 \in 1..(Len(s) + 1) /\ (k + 1) - 1 = k
    BY <1>0
  <2>2. W[k] = V[k]
    BY <1>0, <1>3
  <2>3. /\ W[k + 1] = step[<<W[k], Append(s, c)[k + 1]>>]
        /\ V[k + 1] = step[<<V[k], s[k + 1]>>]
    BY <1>0, <2>1 DEF IsTrace
  <2> QED
    BY <1>1, <2>1, <2>2, <2>3
<1>4. Nat \subseteq A
  <2> HIDE DEF A
  <2> QED
    BY <1>2, <1>3, Induction
<1>5. W[Len(s)] = V[Len(s)]
  BY <1>0, <1>4
<1>6. W[Len(s) + 1] = step[<<W[Len(s)], c>>]
  <2>1. Len(s) + 1 \in 1..(Len(s) + 1) /\ (Len(s) + 1) - 1 = Len(s)
    BY <1>0
  <2> QED
    BY <1>0, <1>1, <2>1 DEF IsTrace
<1>7. V[Len(s)] \in T
  BY <1>0 DEF IsTrace
<1> QED
  BY <1>0, <1>5, <1>6, <1>7 DEF Follows

LEMMA FoldEmpty ==
  ASSUME NEW T, NEW step, NEW base, NEW v, FoldsTo(T, step, base, <<>>, v)
  PROVE  v = base
BY DEF IsTrace, FoldsTo

LEMMA FoldType ==
  ASSUME NEW T, NEW base \in T, NEW C, NEW s \in Seq(C), NEW step,
         NEW v, FoldsTo(T, step, base, s, v)
  PROVE  v \in T
BY DEF FoldsTo, IsTrace

LEMMA FoldPrefix ==
  ASSUME NEW T, NEW base \in T, NEW C, NEW s \in Seq(C), NEW c \in C, NEW step,
         NEW v, FoldsTo(T, step, base, Append(s, c), v)
  PROVE  \E u : FoldsTo(T, step, base, s, u)
<1> PICK W : IsTrace(W, T, step, base, Append(s, c))
  BY DEF FoldsTo
<1> DEFINE V == [k \in 0..Len(s) |-> W[k]]
<1>1. Len(s) \in Nat /\ Len(Append(s, c)) = Len(s) + 1
  OBVIOUS
<1>2. \A i \in 1..Len(s) : Append(s, c)[i] = s[i]
  OBVIOUS
<1>3. /\ W \in [0..(Len(s) + 1) -> T] /\ W[0] = base
      /\ \A k \in 1..(Len(s) + 1) : W[k] = step[<<W[k - 1], Append(s, c)[k]>>]
  BY <1>1 DEF IsTrace
<1>4. V \in [0..Len(s) -> T] /\ V[0] = base
  BY <1>1, <1>3
<1>5. ASSUME NEW k \in 1..Len(s)
      PROVE  V[k] = step[<<V[k - 1], s[k]>>]
  <2>1. k \in 1..(Len(s) + 1) /\ k \in 0..Len(s) /\ k - 1 \in 0..Len(s)
    BY <1>1
  <2>2. V[k] = W[k] /\ V[k - 1] = W[k - 1]
    BY <2>1
  <2> HIDE DEF V
  <2> QED
    BY <1>2, <1>3, <2>1, <2>2
<1> HIDE DEF V
<1>6. IsTrace(V, T, step, base, s)
  BY <1>4, <1>5 DEF IsTrace
<1> QED
  BY <1>6 DEF FoldsTo

(* Induction over texts.                                                   *)
LEMMA TextInduction ==
  ASSUME NEW C, NEW S, <<>> \in S,
         \A s \in Seq(C), c \in C : s \in S => Append(s, c) \in S
  PROVE  Seq(C) \subseteq S
<1> DEFINE A == {n \in Nat : \A s \in Seq(C) : Len(s) = n => s \in S}
<1>1. 0 \in A
  <2>1. \A s \in Seq(C) : Len(s) = 0 => s = <<>>
    BY EmptySeq
  <2> QED
    BY <2>1
<1>2. ASSUME NEW n \in Nat, n \in A
      PROVE  n + 1 \in A
  <2> SUFFICES ASSUME NEW s \in Seq(C), Len(s) = n + 1
               PROVE  s \in S
    OBVIOUS
  <2>1. s # <<>>
    OBVIOUS
  <2>2. PICK t \in Seq(C), c \in C : s = Append(t, c)
    BY <2>1, SequenceEmptyOrAppend
  <2>3. Len(t) = n
    BY <2>2, AppendProperties, LenProperties
  <2> QED
    BY <1>2, <2>2, <2>3
<1>3. Nat \subseteq A
  <2> HIDE DEF A
  <2> QED
    BY <1>1, <1>2, Induction
<1> QED
  BY <1>3, LenProperties

-----------------------------------------------------------------------------
(* Split, which ends the last piece or adds to it.                         *)
AddTo(p, c) == [p EXCEPT ![Len(p)] = Append(p[Len(p)], c)]

LEMMA AddToFacts ==
  ASSUME NEW C, NEW p \in Seq(Seq(C)), Len(p) >= 1, NEW c \in C
  PROVE  /\ AddTo(p, c) \in Seq(Seq(C)) /\ Len(AddTo(p, c)) = Len(p)
         /\ \A j \in 1..(Len(p) - 1) : AddTo(p, c)[j] = p[j]
<1> DEFINE m == Len(p)
           f == AddTo(p, c)
<1>1. m \in Nat /\ m \in 1..m
  OBVIOUS
<1>2. p \in [1..m -> Seq(C)]
  BY LenProperties
<1>3. Append(p[m], c) \in Seq(C)
  BY <1>1, <1>2
<1>4. f = [p EXCEPT ![m] = Append(p[m], c)]
  BY DEF AddTo
<1> HIDE DEF f, m
<1>5. f \in [1..m -> Seq(C)]
  BY <1>2, <1>3, <1>4
<1>6. \A j \in 1..(m - 1) : f[j] = p[j]
  BY <1>1, <1>2, <1>4
<1>7. f \in Seq(Seq(C)) /\ DOMAIN f = 1..m
  BY <1>1, <1>5
<1>8. Len(f) = m
  BY <1>1, <1>7
<1> QED
  BY <1>6, <1>7, <1>8 DEF f, m

Pieces(C) == Seq(Seq(C)) \ {<<>>}

SplitStep(C, separator) ==
  [z \in Pieces(C) \X C |->
     IF z[2] = separator THEN Append(z[1], <<>>)
     ELSE [z[1] EXCEPT ![Len(z[1])] = Append(@, z[2])]]

LEMMA SplitStepType ==
  ASSUME NEW C, NEW separator
  PROVE  SplitStep(C, separator) \in [Pieces(C) \X C -> Pieces(C)]
<1> SUFFICES ASSUME NEW p \in Pieces(C), NEW c \in C
             PROVE  /\ Append(p, <<>>) \in Pieces(C)
                    /\ [p EXCEPT ![Len(p)] = Append(@, c)] \in Pieces(C)
  BY DEF SplitStep
<1>1. p \in Seq(Seq(C)) /\ p # <<>> /\ Len(p) \in Nat \ {0}
  BY EmptySeq DEF Pieces
<1>2. /\ AddTo(p, c) \in Seq(Seq(C))
      /\ Len(AddTo(p, c)) = Len(p)
  BY <1>1, AddToFacts
<1>3. AddTo(p, c) # <<>>
  BY <1>1, <1>2
<1>4. Append(p, <<>>) \in Seq(Seq(C)) /\ Append(p, <<>>) # <<>>
  <2>1. <<>> \in Seq(C)
    OBVIOUS
  <2> QED
    BY <1>1, <2>1, AppendProperties
<1>5. AddTo(p, c) = [p EXCEPT ![Len(p)] = Append(@, c)]
  BY DEF AddTo
<1> QED
  BY <1>2, <1>3, <1>4, <1>5 DEF Pieces

LEMMA SplitFolds ==
  ASSUME NEW C, NEW s \in Seq(C), NEW separator
  PROVE  FoldsTo(Pieces(C), SplitStep(C, separator), << <<>> >>, s,
                 Split(s, separator))
<1> DEFINE T == Pieces(C)
           base == << <<>> >>
           step == SplitStep(C, separator)
           D == DOMAIN s
           Op(p, c) == IF c = separator THEN Append(p, <<>>)
                       ELSE [p EXCEPT ![Len(p)] = Append(@, c)]
           Eq(f) == f = [x \in SUBSET D |->
                           IF x = {} THEN base ELSE Op(f[x \ {Max(x)}], s[Max(x)])]
           iter == CHOOSE f : Eq(f)
<1>1. base \in T
  BY DEF Pieces
<1>2. step \in [T \X C -> T]
  BY SplitStepType
<1>3. \A p \in T, c \in C : step[<<p, c>>] = Op(p, c)
  BY DEF SplitStep
<1>4. Split(s, separator) = iter[D]
  BY DEF Split, FoldLeft, MapThenFoldSet
<1> HIDE DEF T, base, step, Op
<1>5. \E f : Eq(f)
  <2>0. PICK f : IsFold(f, T, step, base, s)
    BY <1>1, <1>2, FoldExists
  <2>1. /\ f \in [SUBSET D -> T]
        /\ \A x \in SUBSET D :
             f[x] = IF x = {} THEN base ELSE step[<<f[x \ {Max(x)}], s[Max(x)]>>]
    BY <2>0 DEF IsFold
  <2>2. ASSUME NEW x \in SUBSET D, x # {}
        PROVE  step[<<f[x \ {Max(x)}], s[Max(x)]>>] = Op(f[x \ {Max(x)}], s[Max(x)])
    <3>1. Len(s) \in Nat /\ D = 1..Len(s)
      OBVIOUS
    <3>2. Max(x) \in x
      BY <2>2, <3>1, MinMax
    <3>3. x \ {Max(x)} \in SUBSET D /\ Max(x) \in 1..Len(s)
      BY <3>1, <3>2
    <3>4. f[x \ {Max(x)}] \in T /\ s[Max(x)] \in C
      BY <2>1, <3>3
    <3> QED
      BY <1>3, <3>4
  <2> QED
    BY <2>1, <2>2
<1>6. Eq(iter)
  BY <1>5
<1> HIDE DEF iter
<1>7. iter[{}] = base
  BY <1>6
<1>8. ASSUME NEW k \in 1..Len(s), iter[1..(k - 1)] \in T
      PROVE  iter[1..k] = step[<<iter[1..(k - 1)], s[k]>>]
  <2>1. k \in Nat /\ k # 0 /\ 1..k \in SUBSET D /\ s[k] \in C
    OBVIOUS
  <2>2. Max(1..k) = k /\ (1..k) \ {k} = 1..(k - 1) /\ 1..k # {}
    BY <2>1, LastOfMany
  <2>3. iter[1..k] = Op(iter[(1..k) \ {Max(1..k)}], s[Max(1..k)])
    BY <1>6, <2>1, <2>2
  <2>4. iter[1..k] = Op(iter[1..(k - 1)], s[k])
    BY <2>2, <2>3
  <2> QED
    BY <1>3, <1>8, <2>1, <2>4
<1>9. Iterates(iter, T, step, base, s)
  BY <1>7, <1>8 DEF Iterates
<1>10. FoldsTo(T, step, base, s, iter[D])
  BY <1>1, <1>2, <1>9, IterationTrace
<1> QED
  BY <1>4, <1>10 DEF T, step, base

(* Without.                                                                *)
WithoutStep(C, piece) ==
  [z \in Seq(C) \X C |-> IF z[2] = piece THEN z[1] ELSE Append(z[1], z[2])]

LEMMA WithoutStepType ==
  ASSUME NEW C, NEW piece
  PROVE  WithoutStep(C, piece) \in [Seq(C) \X C -> Seq(C)]
BY DEF WithoutStep

LEMMA WithoutFolds ==
  ASSUME NEW C, NEW s \in Seq(C), NEW piece
  PROVE  FoldsTo(Seq(C), WithoutStep(C, piece), <<>>, s, Without(s, piece))
<1> DEFINE T == Seq(C)
           base == <<>>
           step == WithoutStep(C, piece)
           D == DOMAIN s
           Op(kept, c) == IF c = piece THEN kept ELSE Append(kept, c)
           Eq(f) == f = [x \in SUBSET D |->
                           IF x = {} THEN base ELSE Op(f[x \ {Max(x)}], s[Max(x)])]
           iter == CHOOSE f : Eq(f)
<1>1. base \in T
  OBVIOUS
<1>2. step \in [T \X C -> T]
  BY WithoutStepType
<1>3. \A p \in T, c \in C : step[<<p, c>>] = Op(p, c)
  BY DEF WithoutStep
<1>4. Without(s, piece) = iter[D]
  BY DEF Without, FoldLeft, MapThenFoldSet
<1> HIDE DEF T, base, step, Op
<1>5. \E f : Eq(f)
  <2>0. PICK f : IsFold(f, T, step, base, s)
    BY <1>1, <1>2, FoldExists
  <2>1. /\ f \in [SUBSET D -> T]
        /\ \A x \in SUBSET D :
             f[x] = IF x = {} THEN base ELSE step[<<f[x \ {Max(x)}], s[Max(x)]>>]
    BY <2>0 DEF IsFold
  <2>2. ASSUME NEW x \in SUBSET D, x # {}
        PROVE  step[<<f[x \ {Max(x)}], s[Max(x)]>>] = Op(f[x \ {Max(x)}], s[Max(x)])
    <3>1. Len(s) \in Nat /\ D = 1..Len(s)
      OBVIOUS
    <3>2. Max(x) \in x
      BY <2>2, <3>1, MinMax
    <3>3. x \ {Max(x)} \in SUBSET D /\ Max(x) \in 1..Len(s)
      BY <3>1, <3>2
    <3>4. f[x \ {Max(x)}] \in T /\ s[Max(x)] \in C
      BY <2>1, <3>3
    <3> QED
      BY <1>3, <3>4
  <2> QED
    BY <2>1, <2>2
<1>6. Eq(iter)
  BY <1>5
<1> HIDE DEF iter
<1>7. iter[{}] = base
  BY <1>6
<1>8. ASSUME NEW k \in 1..Len(s), iter[1..(k - 1)] \in T
      PROVE  iter[1..k] = step[<<iter[1..(k - 1)], s[k]>>]
  <2>1. k \in Nat /\ k # 0 /\ 1..k \in SUBSET D /\ s[k] \in C
    OBVIOUS
  <2>2. Max(1..k) = k /\ (1..k) \ {k} = 1..(k - 1) /\ 1..k # {}
    BY <2>1, LastOfMany
  <2>3. iter[1..k] = Op(iter[(1..k) \ {Max(1..k)}], s[Max(1..k)])
    BY <1>6, <2>1, <2>2
  <2>4. iter[1..k] = Op(iter[1..(k - 1)], s[k])
    BY <2>2, <2>3
  <2> QED
    BY <1>3, <1>8, <2>1, <2>4
<1>9. Iterates(iter, T, step, base, s)
  BY <1>7, <1>8 DEF Iterates
<1>10. FoldsTo(T, step, base, s, iter[D])
  BY <1>1, <1>2, <1>9, IterationTrace
<1> QED
  BY <1>4, <1>10 DEF T, step, base

(* Walk: of the segments of a key.                                         *)
WalkStep(C) ==
  [z \in Seq(C \cup {Outside}) \X C |->
     CASE z[2] \in {Here, <<>>} -> z[1]
       [] z[2] = Up             -> IF z[1] = <<>> THEN <<Outside>> ELSE Front(z[1])
       [] OTHER                 -> Append(z[1], z[2])]

LEMMA WalkStepType ==
  ASSUME NEW C
  PROVE  WalkStep(C) \in [Seq(C \cup {Outside}) \X C -> Seq(C \cup {Outside})]
<1> SUFFICES ASSUME NEW p \in Seq(C \cup {Outside}), NEW c \in C
             PROVE  /\ <<Outside>> \in Seq(C \cup {Outside})
                    /\ p # <<>> => Front(p) \in Seq(C \cup {Outside})
                    /\ Append(p, c) \in Seq(C \cup {Outside})
  BY DEF WalkStep
<1>1. p # <<>> => Front(p) \in Seq(C \cup {Outside})
  BY DEF Front
<1> QED
  BY <1>1

LEMMA WalkFolds ==
  ASSUME NEW C, NEW key, Split(key, "/") \in Seq(C)
  PROVE  FoldsTo(Seq(C \cup {Outside}), WalkStep(C), <<>>, Split(key, "/"),
                 Walk(key))
<1>1. ASSUME NEW s \in Seq(C), s = Split(key, "/")
      PROVE  FoldsTo(Seq(C \cup {Outside}), WalkStep(C), <<>>, s, Walk(key))
  <2> DEFINE T == Seq(C \cup {Outside})
             base == <<>>
             step == WalkStep(C)
             D == DOMAIN s
             Op(p, c) == CASE c \in {Here, <<>>} -> p
                        [] c = Up             -> IF p = <<>> THEN <<Outside>> ELSE Front(p)
                        [] OTHER              -> Append(p, c)
             Eq(f) == f = [x \in SUBSET D |->
                             IF x = {} THEN base ELSE Op(f[x \ {Max(x)}], s[Max(x)])]
             iter == CHOOSE f : Eq(f)
  <2>1. base \in T
    OBVIOUS
  <2>2. step \in [T \X C -> T]
    BY WalkStepType
  <2>3. \A p \in T, c \in C : step[<<p, c>>] = Op(p, c)
    BY DEF WalkStep
  <2>4. Walk(key) = iter[D]
    BY <1>1 DEF Walk, FoldLeft, MapThenFoldSet
  <2> HIDE DEF T, base, step, Op
  <2>5. \E f : Eq(f)
    <3>0. PICK f : IsFold(f, T, step, base, s)
      BY <2>1, <2>2, FoldExists
    <3>1. /\ f \in [SUBSET D -> T]
          /\ \A x \in SUBSET D :
               f[x] = IF x = {} THEN base ELSE step[<<f[x \ {Max(x)}], s[Max(x)]>>]
      BY <3>0 DEF IsFold
    <3>2. ASSUME NEW x \in SUBSET D, x # {}
          PROVE  step[<<f[x \ {Max(x)}], s[Max(x)]>>] = Op(f[x \ {Max(x)}], s[Max(x)])
      <4>1. Len(s) \in Nat /\ D = 1..Len(s)
        OBVIOUS
      <4>2. Max(x) \in x
        BY <3>2, <4>1, MinMax
      <4>3. x \ {Max(x)} \in SUBSET D /\ Max(x) \in 1..Len(s)
        BY <4>1, <4>2
      <4>4. f[x \ {Max(x)}] \in T /\ s[Max(x)] \in C
        BY <3>1, <4>3
      <4> QED
        BY <2>3, <4>4
    <3> QED
      BY <3>1, <3>2
  <2>6. Eq(iter)
    BY <2>5
  <2> HIDE DEF iter
  <2>7. iter[{}] = base
    BY <2>6
  <2>8. ASSUME NEW k \in 1..Len(s), iter[1..(k - 1)] \in T
        PROVE  iter[1..k] = step[<<iter[1..(k - 1)], s[k]>>]
    <3>1. k \in Nat /\ k # 0 /\ 1..k \in SUBSET D /\ s[k] \in C
      OBVIOUS
    <3>2. Max(1..k) = k /\ (1..k) \ {k} = 1..(k - 1) /\ 1..k # {}
      BY <3>1, LastOfMany
    <3>3. iter[1..k] = Op(iter[(1..k) \ {Max(1..k)}], s[Max(1..k)])
      BY <2>6, <3>1, <3>2
    <3>4. iter[1..k] = Op(iter[1..(k - 1)], s[k])
      BY <3>2, <3>3
    <3> QED
      BY <2>3, <2>8, <3>1, <3>4
  <2>9. Iterates(iter, T, step, base, s)
    BY <2>7, <2>8 DEF Iterates
  <2>10. FoldsTo(T, step, base, s, iter[D])
    BY <2>1, <2>2, <2>9, IterationTrace
  <2> QED
    BY <2>4, <2>10 DEF T, step, base
<1> QED
  BY <1>1

-----------------------------------------------------------------------------
(* What Split makes of a text, symbol by symbol, ...                       *)
LEMMA SplitNothing ==
  ASSUME NEW separator
  PROVE  Split(<<>>, separator) = << <<>> >>
<1>1. FoldsTo(Pieces({}), SplitStep({}, separator), << <<>> >>, <<>>,
              Split(<<>>, separator))
  <2>1. <<>> \in Seq({})
    OBVIOUS
  <2> QED
    BY <2>1, SplitFolds
<1> QED
  BY <1>1, FoldEmpty

LEMMA SplitPieces ==
  ASSUME NEW C, NEW s \in Seq(C), NEW separator
  PROVE  Split(s, separator) \in Pieces(C)
<1> DEFINE T == Pieces(C)
           base == << <<>> >>
           step == SplitStep(C, separator)
           u == Split(s, separator)
<1>1. base \in T
  BY DEF Pieces
<1>2. FoldsTo(T, step, base, s, u)
  BY SplitFolds
<1> HIDE DEF T, base, step, u
<1>3. u \in T
  BY <1>1, <1>2, FoldType
<1> QED
  BY <1>3 DEF T, u

LEMMA Parts ==
  ASSUME NEW C, NEW s \in Seq(C), NEW separator
  PROVE  Split(s, separator) \in Seq(Seq(C))
BY SplitPieces DEF Pieces

LEMMA SplitMore ==
  ASSUME NEW C, NEW s \in Seq(C), NEW c \in C, NEW separator
  PROVE  /\ c = separator
              => Split(Append(s, c), separator) = Append(Split(s, separator), <<>>)
         /\ c # separator
              => Split(Append(s, c), separator) = AddTo(Split(s, separator), c)
<1> DEFINE T == Pieces(C)
           base == << <<>> >>
           step == SplitStep(C, separator)
           u == Split(s, separator)
           v == Split(Append(s, c), separator)
<1>1. base \in T
  BY DEF Pieces
<1>2. step \in [T \X C -> T]
  BY SplitStepType
<1>3. \A p \in T, d \in C :
        step[<<p, d>>] = IF d = separator THEN Append(p, <<>>) ELSE AddTo(p, d)
  BY DEF SplitStep, AddTo
<1>4. FoldsTo(T, step, base, s, u)
  BY SplitFolds
<1>5. FoldsTo(T, step, base, Append(s, c), v)
  <2>1. Append(s, c) \in Seq(C)
    OBVIOUS
  <2> QED
    BY <2>1, SplitFolds
<1> HIDE DEF T, base, step, u, v
<1>6. s \in Seq(C) /\ c \in C
  OBVIOUS
<1>7. u \in T /\ Follows(v, step, u, c)
  BY <1>1, <1>2, <1>4, <1>5, <1>6, FoldAppend
<1>8. (c = separator => v = Append(u, <<>>)) /\ (c # separator => v = AddTo(u, c))
  BY <1>3, <1>6, <1>7 DEF Follows
<1> QED
  BY <1>8 DEF u, v

LEMMA WithoutNothing ==
  ASSUME NEW piece
  PROVE  Without(<<>>, piece) = <<>>
<1>1. FoldsTo(Seq({}), WithoutStep({}, piece), <<>>, <<>>, Without(<<>>, piece))
  <2>1. <<>> \in Seq({})
    OBVIOUS
  <2> QED
    BY <2>1, WithoutFolds
<1> QED
  BY <1>1, FoldEmpty

LEMMA WithoutMore ==
  ASSUME NEW C, NEW piece, NEW s \in Seq(C), NEW c \in C
  PROVE  /\ Without(s, piece) \in Seq(C)
         /\ c = piece => Without(Append(s, c), piece) = Without(s, piece)
         /\ c # piece
              => Without(Append(s, c), piece) = Append(Without(s, piece), c)
<1> DEFINE T == Seq(C)
           base == <<>>
           step == WithoutStep(C, piece)
           u == Without(s, piece)
           v == Without(Append(s, c), piece)
<1>1. base \in T
  OBVIOUS
<1>2. step \in [T \X C -> T]
  BY WithoutStepType
<1>3. \A p \in T, d \in C : step[<<p, d>>] = IF d = piece THEN p ELSE Append(p, d)
  BY DEF WithoutStep
<1>4. FoldsTo(T, step, base, s, u)
  BY WithoutFolds
<1>5. FoldsTo(T, step, base, Append(s, c), v)
  <2>1. Append(s, c) \in Seq(C)
    OBVIOUS
  <2> QED
    BY <2>1, WithoutFolds
<1> HIDE DEF T, base, step, u, v
<1>6. s \in Seq(C) /\ c \in C
  OBVIOUS
<1>7. u \in T /\ Follows(v, step, u, c)
  BY <1>1, <1>2, <1>4, <1>5, <1>6, FoldAppend
<1>8. u \in T /\ (c = piece => v = u) /\ (c # piece => v = Append(u, c))
  BY <1>3, <1>6, <1>7 DEF Follows
<1> QED
  BY <1>8 DEF T, u, v

LEMMA AppendEnds ==
  ASSUME NEW C, NEW s \in Seq(C), NEW c \in C
  PROVE  /\ Append(s, c) \in Seq(C) /\ Len(s) \in Nat
         /\ Len(Append(s, c)) = Len(s) + 1
         /\ Append(s, c)[Len(s) + 1] = c
         /\ \A i \in 1..Len(s) : Append(s, c)[i] = s[i]
OBVIOUS

LEMMA AppendFacts ==
  ASSUME NEW C, NEW s \in Seq(C), NEW c \in C
  PROVE  /\ Append(s, c) \in Seq(C) /\ Len(s) \in Nat
         /\ Len(Append(s, c)) = Len(s) + 1
         /\ Append(s, c)[Len(s) + 1] = c
         /\ \A i \in 1..Len(s) : Append(s, c)[i] = s[i]
         /\ \A k \in 0..Len(s) : SubSeq(Append(s, c), 1, k) = SubSeq(s, 1, k)
         /\ SubSeq(Append(s, c), 1, Len(s)) = s
<1>1. /\ Append(s, c) \in Seq(C) /\ Len(s) \in Nat
      /\ Len(Append(s, c)) = Len(s) + 1
      /\ Append(s, c)[Len(s) + 1] = c
      /\ \A i \in 1..Len(s) : Append(s, c)[i] = s[i]
  OBVIOUS
<1>2. ASSUME NEW k \in 0..Len(s)
      PROVE  SubSeq(Append(s, c), 1, k) = SubSeq(s, 1, k)
  BY <1>1
<1>3. SubSeq(Append(s, c), 1, Len(s)) = s
  BY <1>1, <1>2, SubSeqFull
<1> QED
  BY <1>1, <1>2, <1>3

LEMMA AppendTail ==
  ASSUME NEW C, NEW s \in Seq(C), NEW c \in C, NEW k \in 1..(Len(s) + 1)
  PROVE  SubSeq(Append(s, c), k, Len(s) + 1) = Append(SubSeq(s, k, Len(s)), c)
<1> DEFINE a == SubSeq(Append(s, c), k, Len(s) + 1)
           b == SubSeq(s, k, Len(s))
<1>0. /\ Append(s, c) \in Seq(C) /\ Len(s) \in Nat
      /\ Len(Append(s, c)) = Len(s) + 1
      /\ Append(s, c)[Len(s) + 1] = c
      /\ \A i \in 1..Len(s) : Append(s, c)[i] = s[i]
  BY AppendFacts
<1>1. \A i \in k..Len(s) : s[i] \in C
  BY <1>0
<1>2. \A i \in k..(Len(s) + 1) : Append(s, c)[i] \in C
  BY <1>0, ElementOfSeq
<1>3. /\ a \in Seq(C) /\ Len(a) = Len(s) + 1 - k + 1
      /\ \A i \in 1..(Len(s) + 1 - k + 1) : a[i] = Append(s, c)[k + i - 1]
  BY <1>0, <1>2, SubSeqProperties
<1>4. /\ b \in Seq(C) /\ Len(b) = Len(s) - k + 1
      /\ \A i \in 1..(Len(s) - k + 1) : b[i] = s[k + i - 1]
  BY <1>0, <1>1, SubSeqProperties
<1> HIDE DEF a, b
<1>5. /\ Append(b, c) \in Seq(C) /\ Len(Append(b, c)) = Len(b) + 1
      /\ Append(b, c)[Len(b) + 1] = c
      /\ \A i \in 1..Len(b) : Append(b, c)[i] = b[i]
  BY <1>4
<1>6. Len(a) = Len(Append(b, c))
  BY <1>0, <1>3, <1>4, <1>5
<1>7. ASSUME NEW i \in 1..Len(a)
      PROVE  a[i] = Append(b, c)[i]
  <2>1. CASE i = Len(a)
    <3>1. a[i] = Append(s, c)[Len(s) + 1]
      BY <1>0, <1>3, <2>1
    <3>2. i = Len(b) + 1
      BY <1>0, <1>3, <1>4, <2>1
    <3> QED
      BY <1>0, <1>5, <3>1, <3>2
  <2>2. CASE i # Len(a)
    <3>0. Len(s) \in Nat /\ i \in 1..(Len(s) + 1 - k + 1) /\ i # Len(s) + 1 - k + 1
      BY <1>0, <1>3, <2>2
    <3>1. i \in 1..(Len(s) - k + 1) /\ k + i - 1 \in 1..Len(s) /\ i \in 1..Len(b)
      <4> DEFINE l == Len(s)
      <4>1. Len(b) = l - k + 1
        BY <1>4
      <4>2. l \in Nat /\ k \in 1..(l + 1) /\ i \in 1..(l + 1 - k + 1) /\ i # l + 1 - k + 1
        BY <3>0
      <4> HIDE DEF l
      <4>3. i \in 1..(l - k + 1) /\ k + i - 1 \in 1..l
        BY <4>2
      <4> QED
        BY <4>1, <4>3 DEF l
    <3>2. a[i] = Append(s, c)[k + i - 1] /\ b[i] = s[k + i - 1]
      BY <1>3, <1>4, <3>1
    <3> QED
      BY <1>0, <1>5, <3>1, <3>2
  <2> QED
    BY <2>1, <2>2
<1>8. a = Append(b, c)
  BY <1>3, <1>5, <1>6, <1>7, SeqEqual
<1> QED
  BY <1>8 DEF a, b

(* ... and of a text without separator, ...                                *)
Plain(s, separator) == \A i \in 1..Len(s) : s[i] # separator

LEMMA SplitPlain ==
  ASSUME NEW C, NEW separator, NEW t \in Seq(C), Plain(t, separator)
  PROVE  Split(t, separator) = <<t>>
<1> DEFINE S == {s \in Seq(C) : Plain(s, separator) => Split(s, separator) = <<s>>}
<1>1. <<>> \in S
  BY SplitNothing
<1>2. ASSUME NEW s \in Seq(C), NEW c \in C, s \in S
      PROVE  Append(s, c) \in S
  <2> SUFFICES ASSUME Plain(Append(s, c), separator)
               PROVE  Split(Append(s, c), separator) = <<Append(s, c)>>
    BY AppendFacts
  <2>1. c # separator /\ Plain(s, separator)
    <3>1. Len(s) + 1 \in 1..(Len(s) + 1) /\ 1..Len(s) \subseteq 1..(Len(s) + 1)
      BY AppendFacts
    <3> QED
      BY <3>1, AppendFacts DEF Plain
  <2>2. Split(s, separator) = <<s>>
    BY <1>2, <2>1
  <2>3. Split(Append(s, c), separator) = AddTo(Split(s, separator), c)
    BY <2>1, SplitMore
  <2> QED
    BY <2>2, <2>3 DEF AddTo
<1>3. Seq(C) \subseteq S
  <2> HIDE DEF S
  <2> QED
    BY <1>1, <1>2, TextInduction
<1> QED
  BY <1>3

LEMMA AppendToOne ==
  ASSUME NEW T, NEW u \in Seq(T), Len(u) = 1, NEW e \in T
  PROVE  /\ Append(u, e) \in Seq(T) /\ Len(Append(u, e)) = 2
         /\ Append(u, e)[1] = u[1] /\ Append(u, e)[2] = e
<1> DEFINE v == Append(u, e)
<1>1. /\ v \in Seq(T) /\ Len(v) = Len(u) + 1 /\ v[Len(u) + 1] = e
      /\ \A i \in 1..Len(u) : v[i] = u[i]
  OBVIOUS
<1> HIDE DEF v
<1>2. Len(u) + 1 = 2 /\ 1 \in 1..Len(u)
  OBVIOUS
<1>3. v \in Seq(T) /\ Len(v) = 2 /\ v[2] = e
  BY <1>1, <1>2
<1>4. v[1] = u[1]
  BY <1>1, <1>2
<1> QED
  BY <1>3, <1>4 DEF v

LEMMA Two ==
  ASSUME NEW s, NEW e
  PROVE  Append(<<s>>, e) = <<s, e>>
<1> DEFINE T == {s, e}
           u == <<s>>
           v == Append(u, e)
           w == <<s, e>>
<1>1. u \in Seq(T) /\ Len(u) = 1 /\ u[1] = s
  OBVIOUS
<1>2. w \in Seq(T) /\ Len(w) = 2 /\ w[1] = s /\ w[2] = e
  OBVIOUS
<1>3. e \in T
  OBVIOUS
<1> HIDE DEF T, u, w
<1>4. v \in Seq(T) /\ Len(v) = 2 /\ v[1] = s /\ v[2] = e
  BY <1>1, <1>3, AppendToOne
<1> HIDE DEF v
<1>5. \A i \in 1..2 : i = 1 \/ i = 2
  OBVIOUS
<1>6. v = w
  BY <1>2, <1>4, <1>5, SeqEqual
<1> QED
  BY <1>6 DEF u, v, w

(* ... of its first piece, ...                                             *)
FirstAt(s, separator, i) ==
  s[i] = separator /\ \A j \in 1..(i - 1) : s[j] # separator

LEMMA SplitFirst ==
  ASSUME NEW C, NEW separator, NEW t \in Seq(C),
         NEW n \in 1..Len(t), FirstAt(t, separator, n)
  PROVE  Split(t, separator)[1] = SubSeq(t, 1, n - 1)
<1> DEFINE S == {s \in Seq(C) : \A i \in 1..Len(s) : FirstAt(s, separator, i) =>
                    /\ Split(s, separator)[1] = SubSeq(s, 1, i - 1)
                    /\ Len(Split(s, separator)) >= 2}
<1>1. <<>> \in S
  OBVIOUS
<1>2. ASSUME NEW s \in Seq(C), NEW c \in C, s \in S
      PROVE  Append(s, c) \in S
  <2> SUFFICES ASSUME NEW i \in 1..Len(Append(s, c)), FirstAt(Append(s, c), separator, i)
               PROVE  /\ Split(Append(s, c), separator)[1]
                           = SubSeq(Append(s, c), 1, i - 1)
                      /\ Len(Split(Append(s, c), separator)) >= 2
    BY AppendFacts
  <2> DEFINE p == Split(s, separator)
  <2>0. Len(s) \in Nat /\ i \in 1..(Len(s) + 1)
    BY AppendFacts
  <2>1. CASE i = Len(s) + 1
    <3>1. c = separator
      BY <2>1, AppendFacts DEF FirstAt
    <3>2. Plain(s, separator)
      BY <2>0, <2>1, AppendFacts DEF FirstAt, Plain
    <3>3. p = <<s>>
      BY <3>2, SplitPlain
    <3>4. Split(Append(s, c), separator) = Append(<<s>>, <<>>)
      <4>1. Split(Append(s, c), separator) = Append(Split(s, separator), <<>>)
        BY <3>1, SplitMore
      <4> QED
        BY <3>3, <4>1
    <3>5. SubSeq(Append(s, c), 1, i - 1) = s
      BY <2>0, <2>1, AppendFacts
    <3> QED
      BY <3>4, <3>5
  <2>2. CASE i # Len(s) + 1
    <3>1. i \in 1..Len(s) /\ i - 1 \in 0..Len(s)
      BY <2>0, <2>2
    <3>2. FirstAt(s, separator, i)
      <4>1. \A j \in 1..i : Append(s, c)[j] = s[j]
        BY <2>0, <3>1, AppendFacts
      <4> QED
        BY <3>1, <4>1 DEF FirstAt
    <3>3. p[1] = SubSeq(s, 1, i - 1) /\ Len(p) >= 2
      BY <1>2, <3>1, <3>2
    <3>4. SubSeq(Append(s, c), 1, i - 1) = SubSeq(s, 1, i - 1)
      BY <3>1, AppendFacts
    <3>5. p \in Seq(Seq(C))
      BY Parts
    <3>6. /\ c = separator => Split(Append(s, c), separator) = Append(p, <<>>)
          /\ c # separator => Split(Append(s, c), separator) = AddTo(p, c)
      BY SplitMore
    <3> HIDE DEF p
    <3>7. Append(p, <<>>)[1] = p[1] /\ Len(Append(p, <<>>)) >= 2
      <4>1. <<>> \in Seq(C) /\ Len(p) \in Nat /\ 1 \in 1..Len(p)
        BY <3>3, <3>5
      <4>2. /\ Len(Append(p, <<>>)) = Len(p) + 1
            /\ \A j \in 1..Len(p) : Append(p, <<>>)[j] = p[j]
        BY <3>5, <4>1, AppendProperties
      <4> QED
        BY <3>3, <4>1, <4>2
    <3>8. AddTo(p, c)[1] = p[1] /\ Len(AddTo(p, c)) >= 2
      <4>1. Len(p) \in Nat /\ Len(p) >= 1 /\ 1 \in 1..(Len(p) - 1)
        BY <3>3, <3>5
      <4> QED
        BY <3>3, <3>5, <4>1, AddToFacts
    <3> QED
      BY <3>3, <3>4, <3>6, <3>7, <3>8
  <2> QED
    BY <2>1, <2>2
<1>3. Seq(C) \subseteq S
  <2> HIDE DEF S
  <2> QED
    BY <1>1, <1>2, TextInduction
<1> QED
  BY <1>3

(* ... of a text with one separator, ...                                   *)
OnlyAt(s, separator, i) ==
  s[i] = separator /\ \A j \in 1..Len(s) : j # i => s[j] # separator

LEMMA SplitOnce ==
  ASSUME NEW C, NEW separator, NEW t \in Seq(C),
         NEW n \in 1..Len(t), OnlyAt(t, separator, n)
  PROVE  Split(t, separator) = <<SubSeq(t, 1, n - 1), SubSeq(t, n + 1, Len(t))>>
<1> DEFINE Halves(s, i) == <<SubSeq(s, 1, i - 1), SubSeq(s, i + 1, Len(s))>>
           S == {s \in Seq(C) : \A i \in 1..Len(s) : OnlyAt(s, separator, i) =>
                    Split(s, separator) = Halves(s, i)}
<1>1. <<>> \in S
  OBVIOUS
<1>2. ASSUME NEW s \in Seq(C), NEW c \in C, s \in S
      PROVE  Append(s, c) \in S
  <2> SUFFICES ASSUME NEW i \in 1..Len(Append(s, c)), OnlyAt(Append(s, c), separator, i)
               PROVE  Split(Append(s, c), separator) = Halves(Append(s, c), i)
    BY AppendFacts
  <2> DEFINE p == Split(s, separator)
  <2>0. Len(s) \in Nat /\ i \in 1..(Len(s) + 1) /\ Len(Append(s, c)) = Len(s) + 1
    BY AppendFacts
  <2>1. CASE i = Len(s) + 1
    <3>1. c = separator
      BY <2>1, AppendFacts DEF OnlyAt
    <3>2. Plain(s, separator)
      BY <2>0, <2>1, AppendFacts DEF OnlyAt, Plain
    <3>3. p = <<s>>
      BY <3>2, SplitPlain
    <3>4. Split(Append(s, c), separator) = Append(<<s>>, <<>>)
      <4>1. Split(Append(s, c), separator) = Append(Split(s, separator), <<>>)
        BY <3>1, SplitMore
      <4> QED
        BY <3>3, <4>1
    <3> DEFINE a == SubSeq(Append(s, c), 1, i - 1)
               b == SubSeq(Append(s, c), i + 1, Len(Append(s, c)))
    <3>5. a = s
      BY <2>0, <2>1, AppendFacts
    <3>6. b = <<>>
      <4>1. /\ i + 1 \in Int /\ Len(Append(s, c)) \in Int
            /\ Len(Append(s, c)) < i + 1
        BY <2>0, <2>1
      <4> QED
        BY <4>1, SubSeqEmpty
    <3> HIDE DEF a, b
    <3>8. Append(<<s>>, <<>>) = <<s, <<>> >>
      BY Two
    <3>9. Split(Append(s, c), separator) = <<a, b>>
      BY <3>4, <3>5, <3>6, <3>8
    <3> QED
      BY <3>9 DEF a, b
  <2>2. CASE i # Len(s) + 1
    <3>1. i \in 1..Len(s) /\ i - 1 \in 0..Len(s) /\ i + 1 \in 1..(Len(s) + 1)
      BY <2>0, <2>2
    <3>2. OnlyAt(s, separator, i) /\ c # separator
      <4>1. \A j \in 1..Len(s) : Append(s, c)[j] = s[j] /\ j \in 1..(Len(s) + 1)
        BY <2>0, <3>1, AppendFacts
      <4>2. Append(s, c)[Len(s) + 1] = c /\ Len(s) + 1 \in 1..(Len(s) + 1)
        BY <2>0, AppendFacts
      <4> QED
        BY <2>0, <2>2, <3>1, <4>1, <4>2 DEF OnlyAt
    <3> DEFINE a == SubSeq(s, 1, i - 1)
               b == SubSeq(s, i + 1, Len(s))
    <3>3. p = <<a, b>>
      BY <1>2, <3>1, <3>2
    <3>4. /\ SubSeq(Append(s, c), 1, i - 1) = a
          /\ SubSeq(Append(s, c), i + 1, Len(Append(s, c))) = Append(b, c)
      <4>1. SubSeq(Append(s, c), 1, i - 1) = a
        BY <3>1, AppendFacts
      <4>2. SubSeq(Append(s, c), i + 1, Len(s) + 1) = Append(b, c)
        <5> DEFINE k == i + 1
        <5>1. k \in 1..(Len(s) + 1)
          BY <3>1
        <5> HIDE DEF k
        <5>2. SubSeq(Append(s, c), k, Len(s) + 1) = Append(SubSeq(s, k, Len(s)), c)
          BY <5>1, AppendTail
        <5> QED
          BY <5>2 DEF k
      <4> QED
        BY <2>0, <4>1, <4>2
    <3>5. Split(Append(s, c), separator) = AddTo(p, c)
      BY <3>2, SplitMore
    <3> HIDE DEF p, a, b
    <3>6. AddTo(p, c) = <<a, Append(b, c)>>
      BY <3>3 DEF AddTo
    <3> QED
      BY <3>4, <3>5, <3>6
  <2> QED
    BY <2>1, <2>2
<1>3. Seq(C) \subseteq S
  <2> HIDE DEF S
  <2> QED
    BY <1>1, <1>2, TextInduction
<1> QED
  BY <1>3

(* ... of which there are as many as there are pieces, but one, ...        *)
LEMMA SplitTwo ==
  ASSUME NEW C, NEW separator, NEW t \in Seq(C), Len(Split(t, separator)) = 2
  PROVE  \E n \in 1..Len(t) : OnlyAt(t, separator, n)
<1> DEFINE One(s) == \E i \in 1..Len(s) : OnlyAt(s, separator, i)
           S == {s \in Seq(C) :
                   /\ Len(Split(s, separator)) = 1 => Plain(s, separator)
                   /\ Len(Split(s, separator)) = 2 => One(s)}
<1>1. <<>> \in S
  <2>1. Split(<<>>, separator) = << <<>> >>
    BY SplitNothing
  <2>2. Len(<< <<>> >>) = 1 /\ Plain(<<>>, separator)
    BY DEF Plain
  <2> HIDE DEF One
  <2> QED
    BY <2>1, <2>2
<1>2. ASSUME NEW s \in Seq(C), NEW c \in C, s \in S
      PROVE  Append(s, c) \in S
  <2> DEFINE p == Split(s, separator)
             q == Split(Append(s, c), separator)
  <2>0. p \in Seq(Seq(C)) /\ p # <<>> /\ Len(p) \in Nat \ {0} /\ Len(s) \in Nat
    BY SplitPieces, EmptySeq DEF Pieces
  <2>1. /\ Len(Append(s, c)) = Len(s) + 1 /\ Append(s, c)[Len(s) + 1] = c
        /\ \A i \in 1..Len(s) : Append(s, c)[i] = s[i]
        /\ Append(s, c) \in Seq(C)
    BY AppendFacts
  <2>2. CASE c = separator
    <3>1. q = Append(p, <<>>)
      BY <2>2, SplitMore
    <3>2. Len(q) = Len(p) + 1
      BY <2>0, <3>1
    <3>3. ASSUME Len(q) = 2
          PROVE  OnlyAt(Append(s, c), separator, Len(s) + 1)
      <4>0. Len(p) = 1
        <5>1. Len(p) \in Nat
          BY <2>0
        <5>2. Len(q) = 2 /\ Len(q) = Len(p) + 1
          BY <3>2, <3>3
        <5> DEFINE n == Len(p)
        <5>3. n \in Nat /\ n + 1 = 2
          BY <5>1, <5>2
        <5> HIDE DEF n
        <5>4. n = 1
          BY <5>3
        <5> QED
          BY <5>4 DEF n
      <4>1. Plain(s, separator)
        BY <1>2, <4>0
      <4>2. \A j \in 1..(Len(s) + 1) : j # Len(s) + 1 => j \in 1..Len(s)
        BY <2>0
      <4> QED
        BY <2>1, <2>2, <4>1, <4>2 DEF OnlyAt, Plain
    <3>4. Len(s) + 1 \in 1..Len(Append(s, c))
      BY <2>0, <2>1
    <3> HIDE DEF p, q
    <3>5. Len(q) # 1
      BY <2>0, <3>2
    <3> QED
      BY <2>1, <3>3, <3>4, <3>5 DEF q
  <2>3. CASE c # separator
    <3>1. q = AddTo(p, c)
      BY <2>3, SplitMore
    <3>2. Len(q) = Len(p)
      <4> HIDE DEF p
      <4> QED
        BY <2>0, <3>1 DEF AddTo
    <3>3. \A j \in 1..(Len(s) + 1) : j = Len(s) + 1 \/ j \in 1..Len(s)
      BY <2>0
    <3>4. ASSUME Len(q) = 1
          PROVE  Plain(Append(s, c), separator)
      <4>1. Plain(s, separator)
        BY <1>2, <3>2, <3>4
      <4> QED
        BY <2>1, <2>3, <3>3, <4>1 DEF Plain
    <3>5. ASSUME Len(q) = 2
          PROVE  One(Append(s, c))
      <4>1. PICK i \in 1..Len(s) : OnlyAt(s, separator, i)
        BY <1>2, <3>2, <3>5
      <4>2. OnlyAt(Append(s, c), separator, i)
        BY <2>1, <2>3, <3>3, <4>1 DEF OnlyAt
      <4>3. i \in 1..Len(Append(s, c))
        BY <2>0, <2>1
      <4> QED
        BY <4>2, <4>3
    <3> QED
      BY <2>1, <3>4, <3>5
  <2> QED
    BY <2>2, <2>3
<1>3. Seq(C) \subseteq S
  <2> HIDE DEF S
  <2> QED
    BY <1>1, <1>2, TextInduction
<1> QED
  BY <1>3

LEMMA PlainElements ==
  ASSUME NEW C, NEW s \in Seq(C), NEW x
  PROVE  Plain(s, x) <=> x \notin ToSet(s)
BY DEF ToSet, Plain

LEMMA PlainAppend ==
  ASSUME NEW C, NEW x, NEW s \in Seq(C), NEW c \in C
  PROVE  Plain(Append(s, c), x) <=> Plain(s, x) /\ c # x
<1>1. /\ Len(Append(s, c)) = Len(s) + 1 /\ Len(s) \in Nat
      /\ Append(s, c)[Len(s) + 1] = c
      /\ \A i \in 1..Len(s) : Append(s, c)[i] = s[i]
  BY AppendFacts
<1>2. /\ \A i \in 1..(Len(s) + 1) : i \in 1..Len(s) \/ i = Len(s) + 1
      /\ \A i \in 1..Len(s) : i \in 1..(Len(s) + 1)
      /\ Len(s) + 1 \in 1..(Len(s) + 1)
  BY <1>1
<1> QED
  BY <1>1, <1>2 DEF Plain

-----------------------------------------------------------------------------
(* Inputs.                                                                 *)
(* The texts are texts of their kind.                                      *)
TextType == kind \in DOMAIN Symbols /\ text \in Seq(Symbols[kind])

LEMMA InputsType == InputsSpec => []TextType
<1>1. InputsInit => TextType
  BY DEF InputsInit, TextType
<1>2. TextType /\ [InputsNext]_<<kind, text>> => TextType'
  <2> SUFFICES ASSUME TextType, [InputsNext]_<<kind, text>>
               PROVE  TextType'
    OBVIOUS
  <2>1. CASE UNCHANGED <<kind, text>>
    BY <2>1 DEF TextType
  <2>2. ASSUME NEW symbol \in Symbols[kind], Type(symbol)
        PROVE  TextType'
    BY <2>2 DEF TextType, Type
  <2> QED
    BY <2>1, <2>2 DEF InputsNext
<1> QED
  BY <1>1, <1>2, PTL DEF InputsSpec

-----------------------------------------------------------------------------
(* Accounts: lower case, addresses, names and passwords.                   *)
(* Lower case, character by character.                                     *)
Small(c) == CASE c = "A" -> "a" [] c = "I" -> "i" [] OTHER -> c

LEMMA LowerFacts ==
  ASSUME NEW C, NEW s \in Seq(C)
  PROVE  /\ to_lowercase(s) \in Seq(C \cup {"a", "i"})
         /\ Len(to_lowercase(s)) = Len(s)
         /\ \A i \in 1..Len(s) : to_lowercase(s)[i] = Small(s[i])
<1> DEFINE low == to_lowercase(s)
<1>1. low = [i \in 1..Len(s) |-> Small(s[i])]
  BY DEF to_lowercase, Small
<1>2. \A i \in 1..Len(s) : Small(s[i]) \in C \cup {"a", "i"}
  <2> TAKE i \in 1..Len(s)
  <2>1. s[i] \in C
    OBVIOUS
  <2> QED
    BY <2>1 DEF Small
<1>3. Len(s) \in Nat
  OBVIOUS
<1> HIDE DEF low
<1> QED
  BY <1>1, <1>2, <1>3 DEF low

LEMMA LowerAppend ==
  ASSUME NEW C, NEW s \in Seq(C), NEW c \in C
  PROVE  to_lowercase(Append(s, c)) = Append(to_lowercase(s), Small(c))
<1> DEFINE D == C \cup {"a", "i"}
           a == to_lowercase(Append(s, c))
           u == to_lowercase(s)
           b == Append(u, Small(c))
<1>0. Len(s) \in Nat
  OBVIOUS
<1>1. /\ Append(s, c) \in Seq(C) /\ Len(Append(s, c)) = Len(s) + 1
      /\ Append(s, c)[Len(s) + 1] = c
      /\ \A i \in 1..Len(s) : Append(s, c)[i] = s[i]
  BY AppendFacts
<1>2. /\ a \in Seq(D) /\ Len(a) = Len(s) + 1
      /\ \A i \in 1..(Len(s) + 1) : a[i] = Small(Append(s, c)[i])
  BY <1>1, LowerFacts
<1>3. /\ u \in Seq(D) /\ Len(u) = Len(s)
      /\ \A i \in 1..Len(s) : u[i] = Small(s[i])
  BY LowerFacts
<1>4. Small(c) \in D
  BY DEF Small
<1> HIDE DEF D, a, u
<1>5. /\ b \in Seq(D) /\ Len(b) = Len(s) + 1
      /\ b[Len(s) + 1] = Small(c)
      /\ \A i \in 1..Len(s) : b[i] = u[i]
  <2>1. u \in Seq(D)
    BY <1>3
  <2>2. /\ b \in Seq(D) /\ Len(b) = Len(u) + 1
        /\ b[Len(u) + 1] = Small(c)
        /\ \A i \in 1..Len(u) : b[i] = u[i]
    BY <1>4, <2>1, AppendFacts
  <2> HIDE DEF b
  <2> QED
    BY <1>3, <2>2
<1> HIDE DEF b
<1>6. ASSUME NEW i \in 1..Len(a)
      PROVE  a[i] = b[i]
  <2>1. CASE i = Len(s) + 1
    BY <1>0, <1>1, <1>2, <1>5, <2>1
  <2>2. CASE i # Len(s) + 1
    <3>1. i \in 1..Len(s) /\ i \in 1..(Len(s) + 1)
      BY <1>0, <1>2, <2>2
    <3> QED
      BY <1>1, <1>2, <1>3, <1>5, <3>1
  <2> QED
    BY <2>1, <2>2
<1>7. a = b
  BY <1>2, <1>5, <1>6, SeqEqual
<1> QED
  BY <1>7 DEF a, b, u

(* Nothing becomes a separator, or stops to be one.                        *)
LEMMA SmallKeeps ==
  ASSUME NEW c, NEW x \in {"@", ".", " "}
  PROVE  Small(c) = x <=> c = x
BY DEF Small

LEMMA SmallAgain ==
  ASSUME NEW c
  PROVE  Small(Small(c)) = Small(c) /\ Small(c) # "A"
BY DEF Small

(* The pieces of a text, put in lower case, are those of its lower case.   *)
Lowered(q, p) ==
  Len(q) = Len(p) /\ \A i \in 1..Len(p) : q[i] = to_lowercase(p[i])

LEMMA LoweredMore ==
  ASSUME NEW C, NEW D, NEW p \in Seq(Seq(C)), NEW q \in Seq(Seq(D)), Lowered(q, p)
  PROVE  Lowered(Append(q, <<>>), Append(p, <<>>))
<1> DEFINE a == Append(p, <<>>)
           b == Append(q, <<>>)
<1>0. Len(p) \in Nat /\ <<>> \in Seq(C) /\ <<>> \in Seq(D)
  OBVIOUS
<1>1. /\ Len(a) = Len(p) + 1 /\ a[Len(p) + 1] = <<>>
      /\ \A i \in 1..Len(p) : a[i] = p[i]
  BY <1>0, AppendFacts
<1>2. /\ Len(b) = Len(q) + 1 /\ b[Len(q) + 1] = <<>>
      /\ \A i \in 1..Len(q) : b[i] = q[i]
  BY <1>0, AppendFacts
<1>3. to_lowercase(<<>>) = <<>>
  BY DEF to_lowercase
<1>4. \A i \in 1..(Len(p) + 1) : i = Len(p) + 1 \/ i \in 1..Len(p)
  BY <1>0
<1> HIDE DEF a, b
<1>5. Len(q) = Len(p) /\ \A i \in 1..Len(p) : q[i] = to_lowercase(p[i])
  BY DEF Lowered
<1>6. Len(b) = Len(a)
  BY <1>1, <1>2, <1>5
<1>7. ASSUME NEW i \in 1..(Len(p) + 1)
      PROVE  b[i] = to_lowercase(a[i])
  <2>1. CASE i = Len(p) + 1
    BY <1>1, <1>2, <1>3, <1>5, <2>1
  <2>2. CASE i \in 1..Len(p)
    BY <1>1, <1>2, <1>5, <2>2
  <2> QED
    BY <1>4, <2>1, <2>2
<1> QED
  BY <1>1, <1>6, <1>7 DEF Lowered, a, b

LEMMA LoweredLonger ==
  ASSUME NEW C, NEW D, NEW p \in Pieces(C), NEW q \in Pieces(D), Lowered(q, p),
         NEW c \in C
  PROVE  Lowered(AddTo(q, Small(c)), AddTo(p, c))
<1> DEFINE a == AddTo(p, c)
           b == AddTo(q, Small(c))
           n == Len(p)
<1>0. p \in Seq(Seq(C)) /\ q \in Seq(Seq(D)) /\ p # <<>>
  BY DEF Pieces
<1>1. n \in Nat \ {0}
  BY <1>0, EmptySeq
<1>2. Len(q) = n /\ \A i \in 1..n : q[i] = to_lowercase(p[i])
  BY DEF Lowered
<1>3. Len(a) = n /\ a[n] = Append(p[n], c) /\ \A i \in 1..n : i # n => a[i] = p[i]
  BY <1>0, <1>1 DEF AddTo
<1>4. /\ Len(b) = n /\ b[n] = Append(q[n], Small(c))
      /\ \A i \in 1..n : i # n => b[i] = q[i]
  BY <1>0, <1>1, <1>2 DEF AddTo
<1>5. n \in 1..n /\ p[n] \in Seq(C)
  BY <1>0, <1>1
<1> HIDE DEF a, b, n
<1>6. b[n] = to_lowercase(a[n])
  <2>1. to_lowercase(Append(p[n], c)) = Append(to_lowercase(p[n]), Small(c))
    BY <1>5, LowerAppend
  <2> QED
    BY <1>2, <1>3, <1>4, <1>5, <2>1
<1>7. \A i \in 1..n : b[i] = to_lowercase(a[i])
  BY <1>2, <1>3, <1>4, <1>6
<1> QED
  BY <1>3, <1>4, <1>7 DEF Lowered, a, b, n

LEMMA SplitLower ==
  ASSUME NEW C, NEW t \in Seq(C), NEW separator \in {"@", "."}
  PROVE  Lowered(Split(to_lowercase(t), separator), Split(t, separator))
<1> DEFINE D == C \cup {"a", "i"}
           S == {s \in Seq(C) :
                   Lowered(Split(to_lowercase(s), separator), Split(s, separator))}
<1>1. <<>> \in S
  <2>1. to_lowercase(<<>>) = <<>>
    BY DEF to_lowercase
  <2>2. Split(<<>>, separator) = << <<>> >>
    BY SplitNothing
  <2>3. Lowered(<< <<>> >>, << <<>> >>)
    BY <2>1 DEF Lowered
  <2> QED
    BY <2>1, <2>2, <2>3
<1>2. ASSUME NEW s \in Seq(C), NEW c \in C, s \in S
      PROVE  Append(s, c) \in S
  <2> DEFINE u == to_lowercase(s)
             d == Small(c)
             p == Split(s, separator)
             q == Split(u, separator)
  <2>0. Append(s, c) \in Seq(C)
    BY AppendFacts
  <2>1. u \in Seq(D) /\ d \in D
    BY LowerFacts DEF Small
  <2>2. to_lowercase(Append(s, c)) = Append(u, d)
    BY LowerAppend
  <2>3. d = separator <=> c = separator
    BY SmallKeeps
  <2>4. Lowered(q, p)
    BY <1>2
  <2> HIDE DEF u, d, D
  <2>5. /\ c = separator => Split(Append(s, c), separator) = Append(p, <<>>)
        /\ c # separator => Split(Append(s, c), separator) = AddTo(p, c)
    BY SplitMore
  <2>6. /\ d = separator => Split(Append(u, d), separator) = Append(q, <<>>)
        /\ d # separator => Split(Append(u, d), separator) = AddTo(q, d)
    BY <2>1, SplitMore
  <2>10. p \in Pieces(C) /\ q \in Pieces(D)
    BY <2>1, SplitPieces
  <2> HIDE DEF p, q
  <2>7. Lowered(Append(q, <<>>), Append(p, <<>>))
    <3>1. p \in Seq(Seq(C)) /\ q \in Seq(Seq(D))
      BY <2>10 DEF Pieces
    <3> QED
      BY <2>4, <3>1, LoweredMore
  <2>8. Lowered(AddTo(q, d), AddTo(p, c))
    BY <2>4, <2>10, LoweredLonger DEF d
  <2>9. Lowered(Split(Append(u, d), separator), Split(Append(s, c), separator))
    BY <2>3, <2>5, <2>6, <2>7, <2>8
  <2> QED
    BY <2>0, <2>2, <2>9
<1>3. Seq(C) \subseteq S
  <2> HIDE DEF S
  <2> QED
    BY <1>1, <1>2, TextInduction
<1> QED
  BY <1>3

LEMMA TrimFacts ==
  ASSUME NEW C, NEW s \in Seq(C)
  PROVE  Trim(s) \in Seq(C) /\ (Plain(s, " ") => Trim(s) = s)
<1> DEFINE kept == {i \in DOMAIN s : s[i] \notin Blanks}
           n == Len(s)
<1>0. n \in Nat /\ DOMAIN s = 1..n /\ \A i \in 1..n : s[i] \in C
  OBVIOUS
<1>1. Trim(s) = IF kept = {} THEN <<>> ELSE SubSeq(s, Min(kept), Max(kept))
  BY DEF Trim
<1>2. kept \in SUBSET (1..n)
  BY <1>0
<1>3. Trim(s) \in Seq(C)
  <2>1. CASE kept = {}
    BY <1>1, <2>1
  <2>2. CASE kept # {}
    <3> HIDE DEF kept, n
    <3>1. Min(kept) \in kept /\ Max(kept) \in kept
      BY <1>0, <1>2, <2>2, MinMax
    <3>2. Min(kept) \in 1..n /\ Max(kept) \in 1..n
      BY <1>2, <3>1
    <3>3. \A i \in Min(kept)..Max(kept) : s[i] \in C
      BY <1>0, <3>2
    <3>4. SubSeq(s, Min(kept), Max(kept)) \in Seq(C)
      BY <3>2, <3>3, SubSeqProperties
    <3> QED
      BY <1>1, <2>2, <3>4
  <2> QED
    BY <2>1, <2>2
<1>4. ASSUME Plain(s, " ")
      PROVE  Trim(s) = s
  <2>1. kept = 1..n
    BY <1>0, <1>4 DEF Plain, Blanks
  <2>2. CASE n = 0
    <3>1. s = <<>> /\ kept = {}
      BY <2>1, <2>2
    <3> QED
      BY <1>1, <3>1
  <2>3. CASE n # 0
    <3> HIDE DEF kept
    <3>1. Min(kept) = 1 /\ Max(kept) = n /\ kept # {}
      <4> HIDE DEF n
      <4> QED
        BY <1>0, <2>1, <2>3, LastOfMany
    <3>2. SubSeq(s, 1, n) = s
      BY SubSeqFull
    <3> QED
      BY <1>1, <3>1, <3>2
  <2> QED
    BY <2>2, <2>3
<1> QED
  BY <1>3, <1>4

(* What an address is.                                                     *)
IsAddress(t) ==
  LET parts == Split(t, "@")
      labels == Split(parts[2], ".")
  IN /\ t # <<>> /\ ToSet(t) \cap Blanks = {}
     /\ Len(parts) = 2 /\ parts[1] # <<>>
     /\ Len(labels) > 1
     /\ \A label \in ToSet(labels) :
          label # <<>> /\ ToSet(label) \subseteq Letters \cup Digits \cup {"-"}

LEMMA AddressForm ==
  ASSUME NEW email
  PROVE  is_valid_email(email)
           <=> /\ IsAddress(Trim(email)) /\ Bytes(Trim(email)) <= EMAIL_MAX_LEN
               /\ Bytes(Split(Trim(email), "@")[1]) <= LocalMax
BY DEF is_valid_email, IsAddress

(* Lower case is as plain, ...                                             *)
LEMMA LowerPlain ==
  ASSUME NEW C, NEW s \in Seq(C), NEW x \in {"@", ".", " "}
  PROVE  Plain(to_lowercase(s), x) <=> Plain(s, x)
<1>1. /\ Len(to_lowercase(s)) = Len(s)
      /\ \A i \in 1..Len(s) : to_lowercase(s)[i] = Small(s[i])
  BY LowerFacts
<1>2. \A i \in 1..Len(s) : Small(s[i]) = x <=> s[i] = x
  BY SmallKeeps
<1> QED
  BY <1>1, <1>2 DEF Plain

(* ... and is its own lower case.                                          *)
LEMMA LowerAgain ==
  ASSUME NEW C, NEW s \in Seq(C)
  PROVE  to_lowercase(to_lowercase(s)) = to_lowercase(s)
<1> DEFINE D == C \cup {"a", "i"}
           E == D \cup {"a", "i"}
           u == to_lowercase(s)
           v == to_lowercase(u)
<1>1. u \in Seq(D) /\ Len(u) = Len(s) /\ \A i \in 1..Len(s) : u[i] = Small(s[i])
  BY LowerFacts
<1> HIDE DEF u, D
<1>2. v \in Seq(E) /\ Len(v) = Len(u) /\ \A i \in 1..Len(u) : v[i] = Small(u[i])
  BY <1>1, LowerFacts
<1>3. E = D
  BY DEF D
<1> HIDE DEF v, E
<1>4. \A i \in 1..Len(v) : v[i] = u[i]
  BY <1>1, <1>2, SmallAgain
<1>5. v = u
  BY <1>1, <1>2, <1>3, <1>4, SeqEqual
<1> QED
  BY <1>5 DEF u, v

LEMMA LabelStaysGood ==
  ASSUME NEW C, NEW label \in Seq(C), label # <<>>,
         ToSet(label) \subseteq Letters \cup Digits \cup {"-"}
  PROVE  /\ to_lowercase(label) # <<>>
         /\ ToSet(to_lowercase(label)) \subseteq Letters \cup Digits \cup {"-"}
<1> DEFINE low == to_lowercase(label)
           G == Letters \cup Digits \cup {"-"}
<1>1. /\ low \in Seq(C \cup {"a", "i"}) /\ Len(low) = Len(label)
      /\ \A i \in 1..Len(label) : low[i] = Small(label[i])
  BY LowerFacts
<1> HIDE DEF low
<1>2. \A c \in G : Small(c) \in G
  BY DEF Small, Letters, Digits
<1>3. \A i \in 1..Len(label) : label[i] \in G
  BY DEF ToSet
<1> HIDE DEF G
<1>4. \A i \in 1..Len(label) : low[i] \in G
  BY <1>1, <1>2, <1>3
<1>5. ToSet(low) \subseteq G
  BY <1>1, <1>4 DEF ToSet
<1>6. low # <<>>
  BY <1>1, EmptySeq
<1> QED
  BY <1>5, <1>6 DEF low, G

LEMMA LowerAddress ==
  ASSUME NEW C, NEW t \in Seq(C), IsAddress(t)
  PROVE  IsAddress(to_lowercase(t))
<1> DEFINE D == C \cup {"a", "i"}
           u == to_lowercase(t)
           parts == Split(t, "@")
           low_parts == Split(u, "@")
           labels == Split(parts[2], ".")
           low_labels == Split(low_parts[2], ".")
           G == Letters \cup Digits \cup {"-"}
<1>1. /\ t # <<>> /\ ToSet(t) \cap Blanks = {}
      /\ Len(parts) = 2 /\ parts[1] # <<>> /\ Len(labels) > 1
      /\ \A label \in ToSet(labels) : label # <<>> /\ ToSet(label) \subseteq G
  BY DEF IsAddress
<1>2. u \in Seq(D) /\ Len(u) = Len(t) /\ u # <<>>
  <2>1. u \in Seq(D) /\ Len(u) = Len(t)
    BY LowerFacts
  <2> HIDE DEF u, parts, labels
  <2> QED
    BY <1>1, <2>1, EmptySeq
<1>3. ToSet(u) \cap Blanks = {}
  <2>1. Plain(t, " ")
    BY <1>1, PlainElements DEF Blanks
  <2>2. Plain(u, " ")
    BY <2>1, LowerPlain
  <2> HIDE DEF u
  <2> QED
    BY <1>2, <2>2, PlainElements DEF Blanks
<1>4. parts \in Seq(Seq(C))
  BY Parts
<1>5. Lowered(low_parts, parts)
  BY SplitLower
<1>6. Len(low_parts) = 2 /\ \A i \in 1..2 : low_parts[i] = to_lowercase(parts[i])
  BY <1>1, <1>5 DEF Lowered
<1>7. parts[1] \in Seq(C) /\ parts[2] \in Seq(C)
  <2> HIDE DEF parts
  <2>1. 1 \in 1..Len(parts) /\ 2 \in 1..Len(parts)
    BY <1>1
  <2> QED
    BY <1>4, <2>1, ElementOfSeq
<1>8. low_parts[1] # <<>>
  <2>1. low_parts[1] = to_lowercase(parts[1])
    BY <1>6
  <2> HIDE DEF parts, low_parts
  <2>2. /\ to_lowercase(parts[1]) \in Seq(D)
        /\ Len(to_lowercase(parts[1])) = Len(parts[1])
    BY <1>7, LowerFacts
  <2> QED
    BY <1>1, <1>7, <2>1, <2>2, EmptySeq
<1>9. Lowered(low_labels, labels)
  <2>1. low_parts[2] = to_lowercase(parts[2])
    BY <1>6
  <2> HIDE DEF parts, low_parts
  <2> QED
    BY <1>7, <2>1, SplitLower
<1>10. labels \in Seq(Seq(C))
  <2> HIDE DEF parts
  <2> QED
    BY <1>7, Parts
<1>11. low_labels \in Seq(Seq(D))
  <2>1. low_parts[2] \in Seq(D)
    <3>1. low_parts[2] = to_lowercase(parts[2])
      BY <1>6
    <3> HIDE DEF parts, low_parts
    <3> QED
      BY <1>7, <3>1, LowerFacts
  <2> HIDE DEF low_parts, D
  <2> QED
    BY <2>1, Parts
<1> HIDE DEF u, parts, low_parts, labels, low_labels, D
<1>12. Len(low_labels) > 1
  BY <1>1, <1>9 DEF Lowered
<1>13. ASSUME NEW low \in ToSet(low_labels)
       PROVE  low # <<>> /\ ToSet(low) \subseteq G
  <2>1. PICK i \in 1..Len(low_labels) : low = low_labels[i]
    <3>1. DOMAIN low_labels = 1..Len(low_labels)
      BY <1>11
    <3> QED
      BY <3>1 DEF ToSet
  <2>2. i \in 1..Len(labels) /\ low = to_lowercase(labels[i])
    BY <1>9, <2>1 DEF Lowered
  <2>3. labels[i] \in ToSet(labels) /\ labels[i] \in Seq(C)
    BY <1>10, <2>2, ElementOfSeq DEF ToSet
  <2>4. labels[i] # <<>> /\ ToSet(labels[i]) \subseteq G
    BY <1>1, <2>3
  <2> QED
    BY <2>2, <2>3, <2>4, LabelStaysGood
<1> QED
  BY <1>2, <1>3, <1>6, <1>8, <1>12, <1>13 DEF IsAddress, u, low_parts,
     low_labels

(* What follows the first @ of an address is its second part.              *)
LEMMA DomainFollows ==
  ASSUME NEW C, NEW s \in Seq(C), Len(Split(s, "@")) = 2
  PROVE  \E n \in DOMAIN s :
           /\ FirstAt(s, "@", n)
           /\ \A i \in DOMAIN s : FirstAt(s, "@", i) => i = n
           /\ SubSeq(s, n + 1, Len(s)) = Split(s, "@")[2]
<1>1. PICK n \in 1..Len(s) : OnlyAt(s, "@", n)
  BY SplitTwo
<1>2. Split(s, "@") = <<SubSeq(s, 1, n - 1), SubSeq(s, n + 1, Len(s))>>
  BY <1>1, SplitOnce
<1>0. Len(s) \in Nat /\ DOMAIN s = 1..Len(s)
  OBVIOUS
<1>3. FirstAt(s, "@", n)
  <2>1. \A j \in 1..(n - 1) : j \in 1..Len(s) /\ j # n
    BY <1>0
  <2> QED
    BY <1>1, <2>1 DEF OnlyAt, FirstAt
<1>4. \A i \in 1..Len(s) : FirstAt(s, "@", i) => i = n
  BY <1>1 DEF OnlyAt, FirstAt
<1>5. SubSeq(s, n + 1, Len(s)) = Split(s, "@")[2]
  BY <1>2
<1> QED
  BY <1>0, <1>3, <1>4, <1>5

(* There is no upper case left that to_ascii_lowercase could change.       *)
LEMMA LowerIsAscii ==
  ASSUME NEW C, NEW s \in Seq(C)
  PROVE  to_ascii_lowercase(to_lowercase(s)) = to_lowercase(s)
<1> DEFINE u == to_lowercase(s)
<1>1. /\ u \in Seq(C \cup {"a", "i"}) /\ Len(u) = Len(s)
      /\ \A i \in 1..Len(s) : u[i] = Small(s[i])
  BY LowerFacts
<1> HIDE DEF u
<1>2. DOMAIN u = 1..Len(u)
  BY <1>1
<1>3. \A i \in DOMAIN u : u[i] # "A"
  BY <1>1, <1>2, SmallAgain
<1>4. to_ascii_lowercase(u) = [i \in DOMAIN u |-> u[i]]
  BY <1>3 DEF to_ascii_lowercase
<1> QED
  BY <1>1, <1>4 DEF u

LEMMA AllowedDomain ==
  ASSUME NEW C, NEW t \in Seq(C), Len(Split(to_lowercase(t), "@")) = 2,
         NEW email, normalize_email(email) = to_lowercase(t),
         NEW list, list # {}
  PROVE  email_domain_allowed(email, list)
           <=> \E entry \in list :
                 Split(to_lowercase(t), "@")[2] = ListedDomain(entry)
<1> DEFINE s == to_lowercase(t)
           D == C \cup {"a", "i"}
           domain == Split(s, "@")[2]
           listed == {ListedDomain(entry) : entry \in list}
<1>1. s \in Seq(D)
  BY LowerFacts
<1>2. domain = to_lowercase(Split(t, "@")[2]) /\ Split(t, "@")[2] \in Seq(C)
  <2>1. Lowered(Split(s, "@"), Split(t, "@"))
    BY SplitLower
  <2>2. Len(Split(t, "@")) = 2 /\ domain = to_lowercase(Split(t, "@")[2])
    BY <2>1 DEF Lowered
  <2>3. Split(t, "@") \in Seq(Seq(C))
    BY Parts
  <2>4. 2 \in 1..Len(Split(t, "@"))
    BY <2>2
  <2> QED
    BY <2>2, <2>3, <2>4, ElementOfSeq
<1>3. to_ascii_lowercase(domain) = domain
  <2> DEFINE d == Split(t, "@")[2]
  <2>1. d \in Seq(C) /\ domain = to_lowercase(d)
    BY <1>2
  <2> HIDE DEF d, domain
  <2> QED
    BY <2>1, LowerIsAscii
<1>4. PICK n \in DOMAIN s :
        /\ FirstAt(s, "@", n)
        /\ \A i \in DOMAIN s : FirstAt(s, "@", i) => i = n
        /\ SubSeq(s, n + 1, Len(s)) = domain
  <2>1. Len(Split(s, "@")) = 2
    OBVIOUS
  <2> HIDE DEF s, D
  <2> QED
    BY <1>1, <2>1, DomainFollows
<1>5. email_domain_allowed(email, list)
        <=> \E i \in DOMAIN s :
              /\ FirstAt(s, "@", i)
              /\ to_ascii_lowercase(SubSeq(s, i + 1, Len(s))) \in listed
  BY DEF email_domain_allowed, FirstAt
<1> HIDE DEF s, domain, listed
<1>6. email_domain_allowed(email, list) <=> domain \in listed
  BY <1>3, <1>4, <1>5
<1> QED
  BY <1>6 DEF s, domain, listed

LEMMA AddressOfText ==
  ASSUME NEW C, text \in Seq(C)
  PROVE  AddressStaysGood
<1> DEFINE t == Trim(text)
           stored == normalize_email(text)
           parts == Split(stored, "@")
<1> SUFFICES ASSUME is_valid_email(text)
             PROVE  /\ Bytes(parts[1]) <= LocalMax /\ Bytes(stored) <= EMAIL_MAX_LEN
                         => is_valid_email(stored)
                    /\ \A list \in Lists :
                         /\ email_domain_allowed(text, list)
                              <=> \E entry \in list : parts[2] = ListedDomain(entry)
                         /\ email_domain_allowed(text, list)
                              <=> email_domain_allowed(stored, list)
  BY DEF AddressStaysGood
<1>1. t \in Seq(C) /\ stored = to_lowercase(t)
  BY TrimFacts DEF normalize_email
<1>2. IsAddress(t)
  BY AddressForm
<1> HIDE DEF t, stored
<1>3. stored \in Seq(C \cup {"a", "i"})
  BY <1>1, LowerFacts
<1>4. IsAddress(stored)
  BY <1>1, <1>2, LowerAddress
<1>5. Trim(stored) = stored
  <2>1. " " \notin ToSet(stored)
    BY <1>4 DEF IsAddress, Blanks
  <2>2. Plain(stored, " ")
    BY <1>3, <2>1, PlainElements
  <2> QED
    BY <1>3, <2>2, TrimFacts
<1>6. normalize_email(stored) = stored
  <2>1. to_lowercase(stored) = stored
    BY <1>1, LowerAgain
  <2> QED
    BY <1>5, <2>1 DEF normalize_email
<1>7. Bytes(parts[1]) <= LocalMax /\ Bytes(stored) <= EMAIL_MAX_LEN
        => is_valid_email(stored)
  BY <1>4, <1>5, AddressForm
<1>8. Len(Split(stored, "@")) = 2
  BY <1>4 DEF IsAddress
<1>9. normalize_email(text) = stored
  BY DEF stored
<1>10. ASSUME NEW list \in Lists
       PROVE  /\ email_domain_allowed(text, list)
                   <=> \E entry \in list : parts[2] = ListedDomain(entry)
              /\ email_domain_allowed(stored, list)
                   <=> \E entry \in list : parts[2] = ListedDomain(entry)
  <2>1. list # {}
    BY DEF Lists
  <2>2. email_domain_allowed(text, list)
          <=> \E entry \in list : parts[2] = ListedDomain(entry)
    BY <1>1, <1>8, <1>9, <2>1, AllowedDomain
  <2>3. email_domain_allowed(stored, list)
          <=> \E entry \in list : parts[2] = ListedDomain(entry)
    BY <1>1, <1>6, <1>8, <2>1, AllowedDomain
  <2> QED
    BY <2>2, <2>3
<1> QED
  BY <1>7, <1>10

LEMMA NameOfText ==
  ASSUME NEW C, text \in Seq(C)
  PROVE  NameIsNoAddress
<1> SUFFICES ASSUME is_valid_username(text)
             PROVE  normalize_email(text) = text /\ ~is_valid_email(text)
  BY DEF NameIsNoAddress
<1>0. DOMAIN text = 1..Len(text)
  OBVIOUS
<1>1. \A i \in DOMAIN text : text[i] \in {"a", "1", ".", "_", "-"}
  BY DEF is_valid_username, ToSet
<1>2. Plain(text, " ") /\ Plain(text, "@")
  BY <1>0, <1>1 DEF Plain
<1>3. Trim(text) = text
  BY <1>2, TrimFacts
<1>4. to_lowercase(text) = text
  <2>1. /\ to_lowercase(text) = [i \in DOMAIN text |-> Small(text[i])]
    BY DEF to_lowercase, Small
  <2>2. \A i \in DOMAIN text : Small(text[i]) = text[i]
    BY <1>1 DEF Small
  <2>3. text = [i \in DOMAIN text |-> text[i]]
    OBVIOUS
  <2> QED
    BY <2>1, <2>2, <2>3
<1>5. Split(text, "@") = <<text>>
  BY <1>2, SplitPlain
<1>6. ~IsAddress(text)
  <2>1. Len(Split(text, "@")) # 2
    BY <1>5
  <2> QED
    BY <2>1 DEF IsAddress
<1> QED
  BY <1>3, <1>4, <1>6, AddressForm DEF normalize_email

(* One more symbol in a password.                                          *)
LEMMA MoreElements ==
  ASSUME NEW C, NEW s \in Seq(C), NEW c
  PROVE  Len(Append(s, c)) = Len(s) + 1 /\ ToSet(Append(s, c)) = ToSet(s) \cup {c}
<1> DEFINE D == C \cup {c}
           u == Append(s, c)
<1>0. s \in Seq(D) /\ c \in D /\ Len(s) \in Nat /\ DOMAIN s = 1..Len(s)
  OBVIOUS
<1>1. /\ u \in Seq(D) /\ Len(u) = Len(s) + 1 /\ u[Len(s) + 1] = c
      /\ \A i \in 1..Len(s) : u[i] = s[i]
  BY <1>0, AppendFacts
<1> HIDE DEF u, D
<1>2. DOMAIN u = 1..(Len(s) + 1)
  BY <1>1
<1>3. \A i \in 1..(Len(s) + 1) : i = Len(s) + 1 \/ i \in 1..Len(s)
  BY <1>0
<1>4. Len(s) + 1 \in 1..(Len(s) + 1) /\ \A i \in 1..Len(s) : i \in 1..(Len(s) + 1)
  BY <1>0
<1>5. ToSet(u) = ToSet(s) \cup {c}
  BY <1>0, <1>1, <1>2, <1>3, <1>4 DEF ToSet
<1> QED
  BY <1>1, <1>5 DEF u

LEMMA PasswordOfText ==
  ASSUME NEW C, text \in Seq(C)
  PROVE  PasswordErrorHelps
<1> DEFINE v == validate_password(text)
           n == Len(text)
           T == ToSet(text)
           With(symbols) == {validate_password(Append(text, s)) : s \in symbols}
<1>0. n \in Nat /\ PASSWORD_MIN_LEN \in Nat /\ PASSWORD_MAX_LEN \in Nat
  BY ValidateAssumption
<1>1. /\ v = "ok" => /\ n >= PASSWORD_MIN_LEN
                     /\ T \cap Letters # {} /\ T \cap Digits # {}
      /\ v = "missing_digit" => /\ n >= PASSWORD_MIN_LEN
                                /\ T \cap Letters # {}
      /\ v = "missing_letter" => n >= PASSWORD_MIN_LEN
  <2> HIDE DEF n, T
  <2> QED
    BY <1>0 DEF validate_password, n, T
<1>2. ASSUME NEW c, n >= PASSWORD_MIN_LEN
      PROVE  LET w == validate_password(Append(text, c))
                 U == T \cup {c}
             IN /\ w \in {"too_long", "missing_letter", "missing_digit", "ok"}
                /\ U \cap Letters # {} => w # "missing_letter"
                /\ U \cap Digits # {} => w # "missing_digit"
  <2>1. Len(Append(text, c)) = n + 1 /\ ToSet(Append(text, c)) = T \cup {c}
    BY MoreElements
  <2> HIDE DEF n, T
  <2> QED
    BY <1>0, <1>2, <2>1 DEF validate_password
<1> HIDE DEF v, n, T
<1>3. v = "ok" => With(Symbols.name) \subseteq {"ok", "too_long"}
  BY <1>1, <1>2
<1>4. v = "missing_digit" => With(Digits) \subseteq {"ok", "too_long"}
  BY <1>1, <1>2
<1>5. v = "missing_letter"
        => With(Letters) \subseteq {"ok", "missing_digit", "too_long"}
  BY <1>1, <1>2
<1> QED
  BY <1>3, <1>4, <1>5 DEF PasswordErrorHelps, v

(* An address stays an address, and of the same domain, as it is stored; a *)
(* user name is its own normal form and no address; the error of a password*)
(* tells what makes it good.                                               *)
THEOREM AccountsFitTogether == InputsSpec => []AccountRules
<1>1. TextType => AccountRules
  BY AddressOfText, NameOfText, PasswordOfText DEF TextType, AccountRules
<1> QED
  BY <1>1, InputsType, PTL

-----------------------------------------------------------------------------
(* Keys of objects.                                                        *)
LEMMA WithoutFacts ==
  ASSUME NEW C, NEW t \in Seq(C), NEW piece
  PROVE  /\ Without(t, piece) \in Seq(C)
         /\ Plain(Without(t, piece), piece)
         /\ Plain(t, piece) => Without(t, piece) = t
<1> DEFINE S == {s \in Seq(C) : /\ Without(s, piece) \in Seq(C)
                                /\ Plain(Without(s, piece), piece)
                                /\ Plain(s, piece) => Without(s, piece) = s}
<1>1. <<>> \in S
  <2>1. Without(<<>>, piece) = <<>>
    BY WithoutNothing
  <2>2. <<>> \in Seq(C) /\ Plain(<<>>, piece)
    BY DEF Plain
  <2> QED
    BY <2>1, <2>2
<1>2. ASSUME NEW s \in Seq(C), NEW c \in C, s \in S
      PROVE  Append(s, c) \in S
  <2> DEFINE u == Without(s, piece)
  <2>0. Append(s, c) \in Seq(C) /\ u \in Seq(C)
    BY AppendFacts, WithoutMore
  <2>1. Plain(u, piece) /\ (Plain(s, piece) => u = s)
    BY <1>2
  <2>2. /\ c = piece => Without(Append(s, c), piece) = u
        /\ c # piece => Without(Append(s, c), piece) = Append(u, c)
    BY WithoutMore
  <2> HIDE DEF u
  <2>3. Plain(Append(s, c), piece) <=> Plain(s, piece) /\ c # piece
    BY PlainAppend
  <2>4. Plain(Append(u, c), piece) <=> Plain(u, piece) /\ c # piece
    BY <2>0, PlainAppend
  <2>5. CASE c = piece
    BY <2>0, <2>1, <2>2, <2>3, <2>5
  <2>6. CASE c # piece
    <3>1. Append(u, c) \in Seq(C)
      BY <2>0
    <3>2. Plain(s, piece) => Append(u, c) = Append(s, c)
      BY <2>1
    <3> QED
      BY <2>0, <2>1, <2>2, <2>3, <2>4, <2>6, <3>1, <3>2
  <2> QED
    BY <2>5, <2>6
<1>3. Seq(C) \subseteq S
  <2> HIDE DEF S
  <2> QED
    BY <1>1, <1>2, TextInduction
<1> QED
  BY <1>3

(* Where nothing goes up, one ends up below what one was given.            *)
LEMMA WalkDown ==
  ASSUME NEW C, NEW t \in Seq(C), Plain(t, Up), Plain(t, <<>>),
         NEW v, FoldsTo(Seq(C \cup {Outside}), WalkStep(C), <<>>, t, v)
  PROVE  v = Without(t, Here)
<1> DEFINE T == Seq(C \cup {Outside})
           step == WalkStep(C)
           S == {s \in Seq(C) : Plain(s, Up) /\ Plain(s, <<>>) =>
                   \A w : FoldsTo(T, step, <<>>, s, w) => w = Without(s, Here)}
<1>0. <<>> \in T /\ step \in [T \X C -> T]
  <2>1. step \in [T \X C -> T]
    BY WalkStepType
  <2>2. <<>> \in T
    OBVIOUS
  <2> QED
    BY <2>1, <2>2
<1>1. <<>> \in S
  <2>1. Without(<<>>, Here) = <<>>
    BY WithoutNothing
  <2> HIDE DEF T, step
  <2>2. \A w : FoldsTo(T, step, <<>>, <<>>, w) => w = <<>>
    BY FoldEmpty
  <2> QED
    BY <2>1, <2>2
<1>2. ASSUME NEW s \in Seq(C), NEW c \in C, s \in S
      PROVE  Append(s, c) \in S
  <2> SUFFICES ASSUME Plain(Append(s, c), Up), Plain(Append(s, c), <<>>),
                      NEW w, FoldsTo(T, step, <<>>, Append(s, c), w)
               PROVE  w = Without(Append(s, c), Here)
    BY AppendFacts
  <2>1. Plain(s, Up) /\ Plain(s, <<>>) /\ c # Up /\ c # <<>>
    BY PlainAppend
  <2>2. /\ c = Here => Without(Append(s, c), Here) = Without(s, Here)
        /\ c # Here => Without(Append(s, c), Here) = Append(Without(s, Here), c)
    BY WithoutMore
  <2>3. PICK u : FoldsTo(T, step, <<>>, s, u)
    <3> HIDE DEF T, step
    <3> QED
      BY <1>0, FoldPrefix
  <2>4. u = Without(s, Here)
    BY <1>2, <2>1, <2>3
  <2>5. u \in T /\ Follows(w, step, u, c)
    <3> HIDE DEF T, step
    <3> QED
      BY <1>0, <2>3, FoldAppend
  <2>6. w = IF c = Here THEN u ELSE Append(u, c)
    BY <2>1, <2>5 DEF Follows, WalkStep
  <2> QED
    BY <2>2, <2>4, <2>6
<1>3. Seq(C) \subseteq S
  <2> HIDE DEF S
  <2> QED
    BY <1>1, <1>2, TextInduction
<1> QED
  BY <1>3

LEMMA KeysOfText ==
  ASSUME kind \in DOMAIN Symbols, text \in Seq(Symbols[kind])
  PROVE  KeysNameObjects
<1> DEFINE C == Symbols.key
           segments == Split(text, "/")
           plain == Without(segments, Here)
<1> SUFFICES ASSUME kind = "key", validate_key(text)
             PROVE  /\ Outside \notin ToSet(Walk(text))
                    /\ Walk(text) = plain
                    /\ (path(text) = Walk(text)) <=> (segments = plain)
  BY DEF KeysNameObjects
<1>0. text \in Seq(C) /\ C = {"a", "/", ".", "\\"}
  BY DEF Symbols
<1>1. Up \notin ToSet(segments) /\ <<>> \notin ToSet(segments)
  BY DEF validate_key
<1> HIDE DEF C
<1>2. segments \in Seq(Seq(C))
  BY <1>0, Parts
<1>3. Plain(segments, Up) /\ Plain(segments, <<>>)
  <2> HIDE DEF segments
  <2> QED
    BY <1>1, <1>2, PlainElements
<1>4. FoldsTo(Seq(Seq(C) \cup {Outside}), WalkStep(Seq(C)), <<>>, segments, Walk(text))
  BY <1>2, WalkFolds
<1>5. path(text) = LET Encoded(segment) ==
                         CASE segment = Here -> <<"%2E">>
                           [] segment = Up   -> <<"%2E", "%2E">>
                           [] OTHER          -> segment
                       names == Without(segments, <<>>)
                   IN [i \in DOMAIN names |-> Encoded(names[i])]
  BY DEF path
<1> HIDE DEF segments
<1>6. Walk(text) = plain
  BY <1>2, <1>3, <1>4, WalkDown
<1>7. /\ plain \in Seq(Seq(C)) /\ Plain(plain, Here)
      /\ Plain(segments, Here) => plain = segments
      /\ Without(segments, <<>>) = segments
  BY <1>2, <1>3, WithoutFacts
<1> HIDE DEF plain
<1>8. \A w : w \notin C => <<w>> \notin Seq(C)
  <2> SUFFICES ASSUME NEW w, <<w>> \in Seq(C)
               PROVE  w \in C
    OBVIOUS
  <2>1. <<w>>[1] = w /\ 1 \in 1..Len(<<w>>)
    OBVIOUS
  <2> QED
    BY <2>1
<1>9. Outside \notin Seq(C) /\ <<"%2E">> \notin Seq(C)
  BY <1>0, <1>8 DEF Outside
<1>10. Outside \notin ToSet(plain)
  BY <1>7, <1>9 DEF ToSet
<1>11. /\ DOMAIN path(text) = DOMAIN segments
       /\ \A i \in DOMAIN segments :
            path(text)[i] = IF segments[i] = Here THEN <<"%2E">> ELSE segments[i]
  <2>0. DOMAIN segments = 1..Len(segments)
    BY <1>2
  <2>1. \A i \in DOMAIN segments : segments[i] # Up
    BY <1>3, <2>0 DEF Plain
  <2> QED
    BY <1>5, <1>7, <2>1
<1>12. ASSUME Plain(segments, Here)
       PROVE  path(text) = segments
  <2>1. \A i \in DOMAIN segments : path(text)[i] = segments[i]
    BY <1>2, <1>11, <1>12 DEF Plain
  <2>2. path(text) = [i \in DOMAIN segments |-> path(text)[i]]
    BY <1>5, <1>7
  <2> QED
    BY <1>2, <2>1, <2>2
<1>13. ASSUME path(text) = plain
       PROVE  Plain(segments, Here)
  <2> SUFFICES ASSUME NEW i \in 1..Len(segments), segments[i] = Here
               PROVE  FALSE
    BY DEF Plain
  <2>1. i \in DOMAIN segments
    BY <1>2
  <2>2. plain[i] = <<"%2E">> /\ i \in DOMAIN plain
    BY <1>11, <1>13, <2>1
  <2>3. plain[i] \in Seq(C)
    <3>1. DOMAIN plain = 1..Len(plain)
      BY <1>7
    <3> QED
      BY <1>7, <2>2, <3>1, ElementOfSeq
  <2> QED
    BY <1>9, <2>2, <2>3
<1>14. segments = plain <=> Plain(segments, Here)
  BY <1>7
<1> QED
  BY <1>6, <1>7, <1>10, <1>12, <1>13, <1>14

(* A valid key leads to the object of its segments below the root, in both *)
(* backends, but for the segments that are a dot.                          *)
THEOREM KeysStayBelow == InputsSpec => []KeysNameObjects
<1>1. TextType => KeysNameObjects
  BY KeysOfText DEF TextType
<1> QED
  BY <1>1, InputsType, PTL

-----------------------------------------------------------------------------
(* Streams and their entries.                                              *)
(* Streams have the names of modules.                                      *)
LEMMA FirstOfAll ==
  ASSUME NEW C, NEW t \in Seq(C), NEW separator, NEW i \in 1..Len(t), t[i] = separator
  PROVE  \E n \in 1..i : FirstAt(t, separator, n)
<1> DEFINE at == {j \in 1..Len(t) : t[j] = separator}
           n == Min(at)
<1>0. Len(t) \in Nat
  OBVIOUS
<1>1. at \in SUBSET (1..Len(t)) /\ at # {} /\ i \in at
  OBVIOUS
<1>2. n \in at /\ \A j \in at : n <= j
  <2> HIDE DEF at
  <2> QED
    BY <1>0, <1>1, MinMax
<1> HIDE DEF n
<1>3. \A j \in 1..(n - 1) : j \in 1..Len(t) /\ ~(n <= j)
  BY <1>0, <1>2
<1>4. n \in 1..i /\ t[n] = separator
  BY <1>0, <1>1, <1>2
<1>5. \A j \in 1..(n - 1) : t[j] # separator
  BY <1>2, <1>3
<1> QED
  BY <1>4, <1>5 DEF FirstAt

LEMMA FirstPiece ==
  ASSUME NEW C, NEW t \in Seq(C), NEW separator,
         NEW n \in 1..Len(t), FirstAt(t, separator, n),
         NEW i \in n..Len(t)
  PROVE  Split(SubSeq(t, 1, i - 1), separator)[1] = SubSeq(t, 1, n - 1)
<1> DEFINE u == SubSeq(t, 1, i - 1)
<1>0. Len(t) \in Nat /\ n \in Nat /\ i \in Nat /\ 1 <= n /\ n <= i /\ i <= Len(t)
  OBVIOUS
<1>1. \A j \in 1..(i - 1) : t[j] \in C
  BY <1>0
<1>2. /\ u \in Seq(C) /\ Len(u) = i - 1
      /\ \A j \in 1..(i - 1) : u[j] = t[j]
  BY <1>0, <1>1
<1> HIDE DEF u
<1>3. CASE n = i
  <2>1. Plain(u, separator)
    BY <1>0, <1>2, <1>3 DEF Plain, FirstAt
  <2>2. Split(u, separator) = <<u>>
    BY <1>2, <2>1, SplitPlain
  <2> QED
    BY <1>3, <2>2 DEF u
<1>4. CASE n # i
  <2>1. n \in 1..Len(u) /\ FirstAt(u, separator, n)
    BY <1>0, <1>2, <1>4 DEF FirstAt
  <2>2. Split(u, separator)[1] = SubSeq(u, 1, n - 1)
    BY <1>2, <2>1, SplitFirst
  <2>3. SubSeq(u, 1, n - 1) = SubSeq(t, 1, n - 1)
    <3>1. n - 1 \in 0..Len(u) /\ n - 1 \in 0..Len(t)
      BY <1>0, <1>2, <1>4
    <3>2. \A j \in 1..(n - 1) : u[j] = t[j]
      BY <1>0, <1>2, <1>4
    <3> QED
      BY <1>2, <3>1, <3>2
  <2> QED
    BY <2>2, <2>3 DEF u
<1> QED
  BY <1>3, <1>4

LEMMA StreamsOfText ==
  ASSUME kind \in DOMAIN Symbols, text \in Seq(Symbols[kind])
  PROVE  TypesShareStreams
<1> SUFFICES ASSUME NEW i \in DOMAIN text, text[i] = "."
             PROVE  stream_name(SubSeq(text, 1, i - 1)) = stream_name(text)
  BY DEF TypesShareStreams
<1> DEFINE C == Symbols[kind]
<1>0. text \in Seq(C) /\ i \in 1..Len(text) /\ Len(text) \in Nat
  OBVIOUS
<1> HIDE DEF C
<1>1. PICK n \in 1..i : FirstAt(text, ".", n)
  BY <1>0, FirstOfAll
<1>2. n \in 1..Len(text) /\ i \in n..Len(text)
  BY <1>0
<1>3. Split(text, ".")[1] = SubSeq(text, 1, n - 1)
  BY <1>0, <1>1, <1>2, SplitFirst
<1>4. Split(SubSeq(text, 1, i - 1), ".")[1] = SubSeq(text, 1, n - 1)
  BY <1>0, <1>1, <1>2, FirstPiece
<1> QED
  BY <1>3, <1>4 DEF stream_name

(* The last text under a name stands at the last pair that has both.       *)
LEMMA LastValueAt ==
  ASSUME NEW C, NEW fields \in Seq(C), NEW name, NEW k \in 1..(Len(fields) \div 2),
         fields[2 * k - 1] = name, fields[2 * k] # "nil",
         \A i \in (k + 1)..(Len(fields) \div 2) : fields[2 * i - 1] # name
  PROVE  LastValue(fields, name) = {fields[2 * k]}
<1> DEFINE n == Len(fields) \div 2
           pairs == Pairs(fields)
           at == {i \in DOMAIN pairs : pairs[i][1] = name /\ pairs[i][2] # "nil"}
<1>0. n \in Nat /\ k \in 1..n
  OBVIOUS
<1>1. /\ DOMAIN pairs = 1..n
      /\ \A i \in 1..n : pairs[i] = <<fields[2 * i - 1], fields[2 * i]>>
  BY DEF Pairs
<1>2. \A i \in (k + 1)..n : fields[2 * i - 1] # name
  OBVIOUS
<1> HIDE DEF n, pairs
<1>3. at \in SUBSET (1..n) /\ k \in at
  BY <1>0, <1>1
<1>4. Max(at) \in at /\ \A i \in at : i <= Max(at)
  <2> HIDE DEF at
  <2>1. at # {}
    BY <1>3
  <2> QED
    BY <1>0, <1>3, <2>1, MinMax
<1>5. Max(at) = k
  <2> DEFINE x == Max(at)
  <2>1. x \in 1..n /\ k <= x
    BY <1>3, <1>4
  <2>2. fields[2 * x - 1] = name
    BY <1>1, <1>4
  <2> HIDE DEF x
  <2>3. x \notin (k + 1)..n
    BY <1>2, <2>2
  <2>4. x = k
    BY <1>0, <2>1, <2>3
  <2> QED
    BY <2>4 DEF x
<1>6. LastValue(fields, name) = {pairs[Max(at)][2]}
  BY <1>3 DEF LastValue, pairs
<1> HIDE DEF at
<1> QED
  BY <1>0, <1>1, <1>5, <1>6

LEMMA ConcatFacts ==
  ASSUME NEW C, NEW a \in Seq(C), NEW b \in Seq(C)
  PROVE  /\ a \o b \in Seq(C) /\ Len(a \o b) = Len(a) + Len(b)
         /\ \A i \in 1..Len(a) : (a \o b)[i] = a[i]
         /\ \A i \in 1..Len(b) : (a \o b)[Len(a) + i] = b[i]
OBVIOUS

LEMMA Joined ==
  ASSUME NEW C, NEW a \in Seq(C), NEW m \in Seq(C), NEW b \in Seq(C)
  PROVE  /\ a \o m \o b \in Seq(C)
         /\ Len(a \o m \o b) = Len(a) + Len(m) + Len(b)
         /\ \A i \in 1..Len(m) : (a \o m \o b)[Len(a) + i] = m[i]
         /\ \A i \in 1..Len(b) : (a \o m \o b)[Len(a) + Len(m) + i] = b[i]
<1> DEFINE u == a \o m
<1>1. /\ u \in Seq(C) /\ Len(u) = Len(a) + Len(m)
      /\ \A i \in 1..Len(m) : u[Len(a) + i] = m[i]
  BY ConcatFacts
<1>2. \A i \in 1..Len(m) : Len(a) + i \in 1..Len(u)
  BY <1>1
<1> HIDE DEF u
<1>0. u \in Seq(C)
  BY <1>1
<1>3. /\ u \o b \in Seq(C) /\ Len(u \o b) = Len(u) + Len(b)
      /\ \A i \in 1..Len(u) : (u \o b)[i] = u[i]
      /\ \A i \in 1..Len(b) : (u \o b)[Len(u) + i] = b[i]
  BY <1>0, ConcatFacts
<1> QED
  BY <1>1, <1>2, <1>3 DEF u

LEMMA OddHalf ==
  ASSUME NEW l \in Nat, NEW cut \in 0..l, cut % 2 = 0
  PROVE  \E h \in Nat : cut = 2 * h
<1>1. cut \div 2 \in Nat /\ cut = 2 * (cut \div 2)
  OBVIOUS
<1> QED
  BY <1>1

LEMMA EntryOfText ==
  ASSUME kind \in DOMAIN Symbols, text \in Seq(Symbols[kind])
  PROVE  PublishedIsRead
<1> DEFINE C == Symbols.entry
           Named(fields) == {fields[i] : i \in {j \in DOMAIN fields : j % 2 = 1}}
           before(cut) == SubSeq(text, 1, cut)
           after(cut) == SubSeq(text, cut + 1, Len(text))
<1> SUFFICES ASSUME kind = "entry", NEW cut \in 0..Len(text), NEW type \in C \ {"nil"},
                    cut % 2 = 0, Named(after(cut)) \cap {"eventType", "payload"} = {}
             PROVE  parse_entry(before(cut) \o publish_fields(type, "doc") \o after(cut))
                      = {[event_type |-> type, payload |-> "doc"]}
  BY DEF PublishedIsRead
<1> DEFINE a == before(cut)
           b == after(cut)
           m == publish_fields(type, "doc")
           fields == a \o m \o b
           n == Len(fields) \div 2
<1>0. text \in Seq(C) /\ Len(text) \in Nat /\ \A i \in 1..Len(text) : text[i] \in C
  OBVIOUS
<1>1. {"eventType", "payload", "doc", type} \subseteq C
  BY DEF Symbols
<1> HIDE DEF C
<1>2. a \in Seq(C) /\ Len(a) = cut
  <2>1. \A i \in 1..cut : text[i] \in C
    BY <1>0
  <2> QED
    BY <1>0, <2>1
<1>3. b \in Seq(C) /\ Len(b) = Len(text) - cut
  <2>1. \A i \in (cut + 1)..Len(text) : text[i] \in C
    BY <1>0
  <2> QED
    BY <1>0, <2>1
<1>4. \A i \in 1..Len(b) : i % 2 = 1 => b[i] \notin {"eventType", "payload"}
  <2>1. DOMAIN b = 1..Len(b)
    BY <1>3
  <2> QED
    BY <2>1
<1>5. /\ m \in Seq(C) /\ Len(m) = 4
      /\ m[1] = "eventType" /\ m[2] = type /\ m[3] = "payload" /\ m[4] = "doc"
  BY <1>1 DEF publish_fields
<1>6. PICK h \in Nat : cut = 2 * h
  BY <1>0, OddHalf
<1> HIDE DEF a, b, m, before, after, Named
<1>7. /\ fields \in Seq(C) /\ Len(fields) = cut + 4 + Len(b)
      /\ \A i \in 1..4 : fields[cut + i] = m[i]
      /\ \A i \in 1..Len(b) : fields[cut + 4 + i] = b[i]
  <2>0. a \in Seq(C) /\ b \in Seq(C) /\ m \in Seq(C)
    BY <1>2, <1>3, <1>5
  <2>1. /\ fields \in Seq(C) /\ Len(fields) = Len(a) + Len(m) + Len(b)
        /\ \A i \in 1..Len(m) : fields[Len(a) + i] = m[i]
        /\ \A i \in 1..Len(b) : fields[Len(a) + Len(m) + i] = b[i]
    BY <2>0, Joined
  <2> HIDE DEF fields
  <2> QED
    BY <1>2, <1>5, <2>1
<1>8. Len(b) \in Nat
  BY <1>3
<1> HIDE DEF fields
<1>9. /\ fields[2 * (h + 1) - 1] = "eventType" /\ fields[2 * (h + 1)] = type
      /\ fields[2 * (h + 2) - 1] = "payload" /\ fields[2 * (h + 2)] = "doc"
  <2>1. /\ fields[cut + 1] = "eventType" /\ fields[cut + 2] = type
        /\ fields[cut + 3] = "payload" /\ fields[cut + 4] = "doc"
    BY <1>5, <1>7
  <2>2. /\ 2 * (h + 1) - 1 = cut + 1 /\ 2 * (h + 1) = cut + 2
        /\ 2 * (h + 2) - 1 = cut + 3 /\ 2 * (h + 2) = cut + 4
    BY <1>6
  <2> QED
    BY <2>1, <2>2
<1>10. h + 2 \in 1..n /\ h + 1 \in 1..n
  BY <1>6, <1>7, <1>8
<1>11. ASSUME NEW i \in (h + 3)..n
       PROVE  fields[2 * i - 1] \notin {"eventType", "payload"}
  <2> DEFINE j == 2 * i - 1 - cut - 4
  <2>1. i \in Int /\ h + 3 <= i /\ 2 * i <= cut + 4 + Len(b)
    BY <1>6, <1>7, <1>8
  <2>2. j \in 1..Len(b) /\ 2 * i - 1 = cut + 4 + j
    BY <1>6, <1>8, <2>1
  <2>3. j % 2 = 1
    BY <1>6, <2>1
  <2> HIDE DEF j
  <2> QED
    BY <1>4, <1>7, <2>2, <2>3
<1>12. LastValue(fields, "payload") = {"doc"}
  <2>0. fields \in Seq(C)
    BY <1>7
  <2> DEFINE k == h + 2
  <2>1. k \in 1..(Len(fields) \div 2) /\ k + 1 = h + 3
    BY <1>6, <1>10
  <2>2. fields[2 * k - 1] = "payload" /\ fields[2 * k] = "doc" /\ "doc" # "nil"
    BY <1>9
  <2>3. \A i \in (k + 1)..(Len(fields) \div 2) : fields[2 * i - 1] # "payload"
    BY <1>11, <2>1
  <2> HIDE DEF k
  <2>4. LastValue(fields, "payload") = {fields[2 * k]}
    BY <2>0, <2>1, <2>2, <2>3, LastValueAt
  <2> QED
    BY <2>2, <2>4
<1>13. LastValue(fields, "eventType") = {type}
  <2>0. fields \in Seq(C)
    BY <1>7
  <2> DEFINE k == h + 1
  <2>1. k \in 1..(Len(fields) \div 2) /\ k + 1 = h + 2
    BY <1>6, <1>10
  <2>2. fields[2 * k - 1] = "eventType" /\ fields[2 * k] = type /\ type # "nil"
    BY <1>9
  <2>3. \A i \in (k + 1)..(Len(fields) \div 2) : fields[2 * i - 1] # "eventType"
    <3> SUFFICES ASSUME NEW i \in (h + 2)..n
                 PROVE  fields[2 * i - 1] # "eventType"
      BY <2>1
    <3>1. CASE i = h + 2
      BY <1>9, <3>1
    <3>2. CASE i # h + 2
      <4>1. i \in (h + 3)..n
        BY <1>6, <3>2
      <4> QED
        BY <1>11, <4>1
    <3> QED
      BY <3>1, <3>2
  <2> HIDE DEF k
  <2>4. LastValue(fields, "eventType") = {fields[2 * k]}
    BY <2>0, <2>1, <2>2, <2>3, LastValueAt
  <2> QED
    BY <2>2, <2>4
<1>14. parse_entry(fields) = {[event_type |-> type, payload |-> "doc"]}
  <2> DEFINE types == LastValue(fields, "eventType")
             payloads == LastValue(fields, "payload") \cap {"doc"}
  <2>1. types = {type} /\ payloads = {"doc"}
    BY <1>12, <1>13
  <2> DEFINE named == IF types = {} THEN {"type of doc"} ELSE types
  <2>2. parse_entry(fields)
          = {[event_type |-> t, payload |-> doc] : t \in named, doc \in payloads}
    BY DEF parse_entry
  <2> HIDE DEF types, payloads
  <2>3. named = {type}
    BY <2>1
  <2> HIDE DEF named
  <2>4. {[event_type |-> t, payload |-> doc] : t \in named, doc \in payloads}
          = {[event_type |-> type, payload |-> "doc"]}
    BY <2>1, <2>3
  <2> QED
    BY <2>2, <2>4
<1> QED
  BY <1>14 DEF fields, a, b, m

(* An event goes to the stream of its module, and is read from its entry as*)
(* it was published, whatever else the entry has.                          *)
THEOREM EventsReachTheirReaders == InputsSpec => []EventsFindTheirReaders
<1>1. TextType => EventsFindTheirReaders
  BY StreamsOfText, EntryOfText DEF TextType, EventsFindTheirReaders
<1> QED
  BY <1>1, InputsType, PTL

-----------------------------------------------------------------------------
(* Pages.                                                                  *)
LEMMA Chosen ==
  ASSUME NEW option, NEW default \in Nat, option \subseteq Nat
  PROVE  UnwrapOr(option, default) \in Nat
BY DEF UnwrapOr

LEMMA PageBounds ==
  ASSUME NEW number, NEW size, U32(number), U32(size)
  PROVE  /\ limit(size) \in 1..MAX_LIMIT /\ page(number) \in Nat \ {0}
         /\ MAX_LIMIT \in Nat /\ U32Max \in Nat
<1>1. DEFAULT_LIMIT \in Nat /\ MAX_LIMIT \in Nat /\ U32Max \in Nat /\ MAX_LIMIT >= 1
  BY PaginationAssumption
<1>2. number \subseteq Nat /\ size \subseteq Nat
  BY <1>1 DEF U32
<1>3. UnwrapOr(size, DEFAULT_LIMIT) \in Nat /\ UnwrapOr(number, 1) \in Nat
  BY <1>1, <1>2, Chosen
<1> QED
  BY <1>1, <1>3 DEF limit, page, AtLeastOne

LEMMA GivenPage ==
  ASSUME NEW n \in Nat \ {0}
  PROVE  page({n}) = n
BY DEF page, UnwrapOr, AtLeastOne

LEMMA GivenLimit ==
  ASSUME NEW n \in 1..MAX_LIMIT, MAX_LIMIT \in Nat
  PROVE  limit({n}) = n
BY DEF limit, UnwrapOr, AtLeastOne

(* The least and the greatest number are unique.                           *)
LEMMA Extremes ==
  ASSUME NEW a \in Int, NEW b \in Int, a <= b
  PROVE  /\ Min(a..b) = a /\ Max(a..b) = b
         /\ a..b # {} /\ Cardinality(a..b) = b - a + 1
<1>1. a \in a..b /\ b \in a..b /\ a..b \subseteq Int
  OBVIOUS
<1>2. \A i \in a..b : a <= i /\ i <= b /\ b >= i
  OBVIOUS
<1>3. Min(a..b) \in a..b /\ \A i \in a..b : Min(a..b) <= i
  BY <1>1, <1>2 DEF Min
<1>4. Max(a..b) \in a..b /\ \A i \in a..b : Max(a..b) >= i
  BY <1>1, <1>2 DEF Max
<1>5. Min(a..b) = a /\ Max(a..b) = b
  BY <1>1, <1>2, <1>3, <1>4
<1>6. Cardinality(a..b) = IF a > b THEN 0 ELSE b - a + 1
  BY FS_Interval
<1> QED
  BY <1>1, <1>5, <1>6

(* The rows of a page, as an interval.                                     *)
LEMMA Rows ==
  ASSUME NEW p \in Nat \ {0}, NEW l \in Nat \ {0}
  PROVE  /\ {(p - 1) * l + i : i \in 1..l} = ((p - 1) * l + 1)..(p * l)
         /\ (p - 1) * l \in Nat /\ p * l \in Nat /\ p * l = (p - 1) * l + l
<1> DEFINE k == (p - 1) * l
<1>1. k \in Nat
  OBVIOUS
<1>2. p * l = k + l
  OBVIOUS
<1> HIDE DEF k
<1>3. {k + i : i \in 1..l} = (k + 1)..(k + l)
  <2>1. ASSUME NEW j \in (k + 1)..(k + l)
        PROVE  j \in {k + i : i \in 1..l}
    <3>1. j - k \in 1..l /\ j = k + (j - k)
      BY <1>1
    <3> QED
      BY <3>1
  <2>2. \A i \in 1..l : k + i \in (k + 1)..(k + l)
    BY <1>1
  <2> QED
    BY <2>1, <2>2
<1>4. k + l \in Nat
  BY <1>1
<1> QED
  BY <1>1, <1>2, <1>3, <1>4 DEF k

LEMMA PageItems ==
  ASSUME NEW number, NEW size, U32(number), U32(size)
  PROVE  LET p == page(number)
             l == limit(size)
             items == PageOf(number, size).items
         IN /\ items # {} /\ Cardinality(items) = l
            /\ Min(items) = (p - 1) * l + 1 /\ Max(items) = (p - 1) * l + l
            /\ (p - 1) * l \in Nat /\ (p - 1) * l + l = p * l
            /\ p = 1 => 1 \in items
<1> DEFINE p == page(number)
           l == limit(size)
           items == PageOf(number, size).items
           k == (p - 1) * l
<1>1. p \in Nat \ {0} /\ l \in Nat \ {0}
  BY PageBounds
<1>2. items = {k + i : i \in 1..l}
  BY DEF PageOf, offset
<1> HIDE DEF p, l, items
<1>3. /\ items = (k + 1)..(p * l)
      /\ k \in Nat /\ p * l \in Nat /\ p * l = k + l
  BY <1>1, <1>2, Rows
<1>4. p = 1 => k = 0
  BY <1>1
<1> HIDE DEF k
<1>5. items = (k + 1)..(k + l)
  BY <1>3
<1>6. k + 1 \in Int /\ k + l \in Int /\ k + 1 <= k + l
  BY <1>1, <1>3
<1>7. /\ Min(items) = k + 1 /\ Max(items) = k + l
      /\ items # {} /\ Cardinality(items) = (k + l) - (k + 1) + 1
  <2> DEFINE a == k + 1
             b == k + l
  <2>1. a \in Int /\ b \in Int /\ a <= b
    BY <1>6
  <2> HIDE DEF a, b
  <2>2. /\ Min(a..b) = a /\ Max(a..b) = b
        /\ a..b # {} /\ Cardinality(a..b) = b - a + 1
    BY <2>1, Extremes
  <2> QED
    BY <1>5, <2>2 DEF a, b
<1>8. Cardinality(items) = l
  BY <1>1, <1>3, <1>7
<1>9. p = 1 => 1 \in items
  BY <1>1, <1>4, <1>5
<1> QED
  BY <1>3, <1>7, <1>8, <1>9 DEF p, l, items, k

LEMMA PagesOfText == PagesLieSideBySide
<1> DEFINE parts == Split(text, "&")
           number == Number(parts[1])
           size == IF Len(parts) < 2 THEN {} ELSE Number(parts[2])
           this == PageOf(number, size)
           next == PageOf({page(number) + 1}, size)
<1> SUFFICES ASSUME U32(number), U32(size)
             PROVE  /\ this.items # {} /\ Cardinality(this.items) <= MAX_LIMIT
                    /\ page(number) = 1 => 1 \in this.items
                    /\ page(number) < U32Max => Min(next.items) = Max(this.items) + 1
                    /\ PageOf({this.page}, {this.page_size}) = this
  BY DEF PagesLieSideBySide
<1> HIDE DEF number, size
<1> DEFINE p == page(number)
           l == limit(size)
<1>1. /\ l \in 1..MAX_LIMIT /\ p \in Nat \ {0}
      /\ MAX_LIMIT \in Nat /\ U32Max \in Nat
  BY PageBounds
<1>2. /\ this.items # {} /\ Cardinality(this.items) = l
      /\ Max(this.items) = (p - 1) * l + l
      /\ (p - 1) * l + l = p * l /\ (p - 1) * l \in Nat
      /\ p = 1 => 1 \in this.items
  BY PageItems
<1>3. ASSUME p < U32Max
      PROVE  Min(next.items) = Max(this.items) + 1
  <2>1. U32({p + 1})
    BY <1>1, <1>3 DEF U32
  <2>2. page({p + 1}) = p + 1
    BY <1>1, GivenPage
  <2>3. Min(next.items) = (page({p + 1}) - 1) * l + 1
    BY <2>1, PageItems
  <2>4. Min(next.items) = p * l + 1
    BY <1>1, <2>2, <2>3
  <2> QED
    BY <1>2, <2>4
<1>4. PageOf({p}, {l}) = this
  <2>1. page({p}) = p /\ limit({l}) = l
    BY <1>1, GivenPage, GivenLimit
  <2> QED
    BY <2>1 DEF PageOf, offset
<1>5. this.page = p /\ this.page_size = l
  BY DEF PageOf
<1>6. l <= MAX_LIMIT
  BY <1>1
<1> QED
  BY <1>2, <1>3, <1>4, <1>5, <1>6

(* For any limits the pages of a list lie side by side, and a response names*)
(* the parameters that lead to it.                                         *)
THEOREM PagesMeet == InputsSpec => []PagesLieSideBySide
<1>1. TextType => PagesLieSideBySide
  BY PagesOfText DEF TextType
<1> QED
  BY <1>1, InputsType, PTL

=============================================================================
