------------------------ MODULE SignedRequestsProofs ------------------------
(***************************************************************************)
(* What holds of SignedRequests for any calls, keys, durations, leeway,    *)
(* skew of the clocks, resolution of time and width of an i64.             *)
(***************************************************************************)
EXTENDS SignedRequests, TLAPS

-----------------------------------------------------------------------------
(* Whole seconds.                                                          *)

(* A whole number of seconds begins at or before the instant it is taken   *)
(* from, and ends after it.                                                *)
LEMMA DivBounds ==
  ASSUME NEW a \in Nat, NEW m \in Nat \ {0}
  PROVE  a \div m \in Nat /\ (a \div m) * m <= a /\ a < (a \div m) * m + m
OBVIOUS

LEMMA DivIs ==
  ASSUME NEW a \in Nat, NEW m \in Nat \ {0}, NEW q \in Nat,
         q * m <= a, a < q * m + m
  PROVE  a \div m = q
OBVIOUS

LEMMA ModIs ==
  ASSUME NEW m \in Nat \ {0}, NEW a \in 0..(m - 1)
  PROVE  a % m = a
OBVIOUS

LEMMA TimesOrder ==
  ASSUME NEW a \in Int, NEW b \in Int, NEW m \in Nat \ {0}, a * m < b * m + m
  PROVE  a <= b
OBVIOUS

LEMMA TimesGrows ==
  ASSUME NEW a \in Int, NEW b \in Int, NEW m \in Nat \ {0}, a <= b
  PROVE  a * m \in Int /\ b * m \in Int /\ a * m <= b * m
OBVIOUS

LEMMA TimesSum ==
  ASSUME NEW a \in Int, NEW b \in Int, NEW m \in Nat \ {0}
  PROVE  /\ (a + b) * m = a * m + b * m /\ (a - b) * m = a * m - b * m
         /\ a * m \in Int /\ b * m \in Int
OBVIOUS

LEMMA SecondsBounds ==
  ASSUME NEW t \in Nat
  PROVE  /\ Seconds(t) \in Nat /\ Seconds(t) * Second \in Nat
         /\ Seconds(t) * Second <= t
         /\ t < Seconds(t) * Second + Second
<1>1. Second \in Nat \ {0}
  BY SignedRequestsAssumption
<1>2. Seconds(t) \in Nat
  BY <1>1, DivBounds DEF Seconds
<1>3. \A q \in Nat : q * Second \in Nat
  BY <1>1
<1> QED
  BY <1>1, <1>2, <1>3, DivBounds DEF Seconds

(* Later instants have later seconds.                                      *)
LEMMA SecondsOrder ==
  ASSUME NEW s \in Nat, NEW t \in Nat, s <= t
  PROVE  Seconds(s) <= Seconds(t)
<1>1. Seconds(s) * Second < Seconds(t) * Second + Second
  BY SecondsBounds, SignedRequestsAssumption
<1> QED
  BY <1>1, SecondsBounds, TimesOrder, SignedRequestsAssumption

(* Of instants that are n seconds apart at most, the seconds are too.      *)
LEMMA SecondsApart ==
  ASSUME NEW s \in Nat, NEW t \in Nat, NEW n \in Nat, t - s <= n * Second
  PROVE  Seconds(t) - Seconds(s) <= n
<1>1. Second \in Nat \ {0}
  BY SignedRequestsAssumption
<1>2. /\ Seconds(s) \in Nat /\ Seconds(s) * Second \in Nat
      /\ s < Seconds(s) * Second + Second
      /\ Seconds(t) \in Nat /\ Seconds(t) * Second \in Nat
      /\ Seconds(t) * Second <= t
  BY SecondsBounds
<1>3. (Seconds(s) + n) * Second = Seconds(s) * Second + n * Second
  BY <1>1, <1>2, TimesSum
<1>4. n * Second \in Nat /\ (Seconds(s) + n) * Second \in Nat
  BY <1>1, <1>2
<1>5. Seconds(t) * Second < (Seconds(s) + n) * Second + Second
  BY <1>1, <1>2, <1>3, <1>4
<1>6. Seconds(t) <= Seconds(s) + n
  BY <1>1, <1>2, <1>5, TimesOrder
<1> QED
  BY <1>2, <1>6

(* The converse, but for what is left of a second.                         *)
LEMMA InstantsApart ==
  ASSUME NEW s \in Nat, NEW t \in Nat, NEW n \in Nat,
         Seconds(t) - Seconds(s) <= n
  PROVE  t - s <= n * Second + Second - 1
<1>1. Second \in Nat \ {0}
  BY SignedRequestsAssumption
<1>2. /\ Seconds(s) \in Nat /\ Seconds(s) * Second \in Nat
      /\ Seconds(s) * Second <= s
      /\ Seconds(t) \in Nat /\ Seconds(t) * Second \in Nat
      /\ t < Seconds(t) * Second + Second
  BY SecondsBounds
<1>3. Seconds(t) <= Seconds(s) + n /\ Seconds(s) + n \in Int
  BY <1>2
<1>4. Seconds(t) * Second <= (Seconds(s) + n) * Second
  BY <1>1, <1>2, <1>3, TimesGrows
<1>5. (Seconds(s) + n) * Second = Seconds(s) * Second + n * Second
  BY <1>1, <1>2, TimesSum
<1>6. n * Second \in Nat
  BY <1>1
<1> QED
  BY <1>1, <1>2, <1>4, <1>5, <1>6

(* The second that a whole number of seconds ends is that number.          *)
LEMMA SecondsOfWhole ==
  ASSUME NEW n \in Nat
  PROVE  Seconds(n * Second) = n /\ n * Second \in Nat
<1>1. Second \in Nat \ {0}
  BY SignedRequestsAssumption
<1>2. n * Second \in Nat
  BY <1>1
<1>3. n * Second <= n * Second /\ n * Second < n * Second + Second
  BY <1>1, <1>2
<1> QED
  BY <1>1, <1>2, <1>3, DivIs DEF Seconds

-----------------------------------------------------------------------------
(* The age of a call that can be signed and verified does not wrap.        *)
LEMMA AgeIsExact ==
  ASSUME NEW now \in 0..MaxTime, NEW timestamp \in 0..MaxTime
  PROVE  /\ ~Overflows(now - timestamp)
         /\ WrappedAbs(now - timestamp) \in Nat
         /\ now - timestamp <= WrappedAbs(now - timestamp)
         /\ timestamp - now <= WrappedAbs(now - timestamp)
         /\ \A n \in Nat : now - timestamp <= n /\ timestamp - now <= n
                             => WrappedAbs(now - timestamp) <= n
<1> DEFINE d == now - timestamp
           m == 2 * (MaxI64 + 1)
<1>1. MaxI64 \in Nat /\ MaxTime \in Nat /\ MaxTime <= MaxI64
  BY SignedRequestsAssumption
<1>2. d \in Int /\ -MaxI64 <= d /\ d <= MaxI64
  BY <1>1
<1>3. ~Overflows(d)
  BY <1>1, <1>2 DEF Overflows, I64, MinI64
<1>4. Wrap(d) = d
  <2>1. m \in Nat \ {0}
    BY <1>1
  <2>2. d - MinI64 \in 0..(m - 1)
    BY <1>1, <1>2 DEF MinI64
  <2> HIDE DEF d, m
  <2>3. (d - MinI64) % m = d - MinI64
    BY <2>1, <2>2, ModIs
  <2>4. MinI64 \in Int
    BY <1>1 DEF MinI64
  <2>5. Wrap(d) = (d - MinI64) + MinI64
    BY <2>3 DEF Wrap, m
  <2> QED
    BY <1>2, <2>4, <2>5
<1>5. WrappedAbs(d) = IF d < 0 THEN -d ELSE d
  <2> HIDE DEF d
  <2> QED
    BY <1>1, <1>2, <1>4 DEF WrappedAbs, MinI64
<1> QED
  BY <1>2, <1>3, <1>5

-----------------------------------------------------------------------------
(* The inductive invariant: the clocks are near each other, and what is    *)
(* signed was signed, as it is, when the receiver's clock showed `at'.     *)
Clocks ==
  /\ sender \in 0..MaxTime /\ receiver \in 0..MaxTime
  /\ at \in 0..receiver
  /\ Apart(sender, receiver)

SignedCall(call, now) == signed = sign_service_token(call, now)
SignedLink(key, expires_at) == signed = sign_download(key, expires_at)
SignedUrl(method, key, seconds, now) ==
  signed = presign(method, key, seconds, now)

(* The instants at which it may have been at the sender.                   *)
Instants == {now \in 0..MaxTime : Apart(now, at)}

Signed ==
  \/ signed = None
  \/ \E call \in Calls, now \in Instants : SignedCall(call, now)
  \/ \E key \in Keys, expires_at \in Nat : SignedLink(key, expires_at)
  \/ \E method \in Methods, key \in Keys, seconds \in Asked, now \in Instants :
       SignedUrl(method, key, seconds, now)

Inv == Clocks /\ Signed

LEMMA InitInv == Init => Inv
BY SignedRequestsAssumption DEF Init, Inv, Clocks, Signed, Apart

LEMMA NextInv == Inv /\ [Next]_vars => Inv'
<1> SUFFICES ASSUME Inv, [Next]_vars
             PROVE  Inv'
  OBVIOUS
<1>1. Clocks
  BY DEF Inv
<1>2. ASSUME at' = receiver, UNCHANGED <<sender, receiver>>
      PROVE  Clocks' /\ sender \in Instants'
  BY <1>1, <1>2, SignedRequestsAssumption DEF Clocks, Instants, Apart
<1>3. ASSUME NEW call \in Calls, SignCall(call)
      PROVE  Inv'
  BY <1>2, <1>3 DEF SignCall, Inv, Signed, SignedCall
<1>4. ASSUME NEW key \in Keys, NEW lifetime \in 0..MaxLifetime,
             SignLink(key, lifetime)
      PROVE  Inv'
  <2>1. receiver + lifetime \in Nat
    BY <1>1, SignedRequestsAssumption DEF Clocks
  <2> QED
    BY <1>2, <1>4, <2>1 DEF SignLink, Inv, Signed, SignedLink
<1>5. ASSUME NEW method \in Methods, NEW key \in Keys, NEW seconds \in Asked,
             SignUrl(method, key, seconds)
      PROVE  Inv'
  BY <1>2, <1>5 DEF SignUrl, Inv, Signed, SignedUrl
<1>6. ASSUME UNCHANGED <<signed, at>>
      PROVE  Signed'
  BY <1>6 DEF Inv, Signed, SignedCall, SignedLink, SignedUrl, Instants
<1>7. CASE TickSender
  <2>1. Clocks'
    BY <1>1, <1>7, SignedRequestsAssumption DEF TickSender, Clocks
  <2> QED
    BY <1>6, <1>7, <2>1 DEF TickSender, Inv
<1>8. CASE TickReceiver
  <2>1. Clocks'
    BY <1>1, <1>8, SignedRequestsAssumption DEF TickReceiver, Clocks, Apart
  <2> QED
    BY <1>6, <1>8, <2>1 DEF TickReceiver, Inv
<1>9. CASE UNCHANGED vars
  BY <1>1, <1>6, <1>9 DEF vars, Inv, Clocks
<1> QED
  BY <1>3, <1>4, <1>5, <1>7, <1>8, <1>9 DEF Next

LEMMA SpecInv == Spec => []Inv
BY InitInv, NextInv, PTL DEF Spec

-----------------------------------------------------------------------------
(* What a signature that somebody has can have been made for: messages of  *)
(* different kinds are different.                                          *)
LEMMA CallSignature ==
  ASSUME Inv, NEW call \in Calls, NEW timestamp,
         NEW signature \in Shown, signature = candidate_message(call, timestamp)
  PROVE  \E now \in Instants :
           SignedCall(call, now) /\ timestamp = Seconds(now)
<1>1. signature # Malformed
  BY DEF candidate_message, Malformed
<1>2. signed # None /\ signature = signed.signature
  BY <1>1 DEF Shown
<1>3. CASE \E c \in Calls, now \in Instants : SignedCall(c, now)
  BY <1>2, <1>3 DEF SignedCall, sign_service_token, candidate_message
<1>4. CASE \E key \in Keys, expires_at \in Nat : SignedLink(key, expires_at)
  BY <1>2, <1>4, SignedRequestsAssumption
  DEF SignedLink, sign_download, download_message, candidate_message
<1>5. CASE \E method \in Methods, key \in Keys, seconds \in Asked,
              now \in Instants : SignedUrl(method, key, seconds, now)
  BY <1>2, <1>5 DEF SignedUrl, presign, candidate_message
<1> QED
  BY <1>2, <1>3, <1>4, <1>5 DEF Inv, Signed

LEMMA LinkSignature ==
  ASSUME Inv, NEW key \in Keys, NEW stamp,
         NEW signature \in Shown, signature = <<key, stamp>>
  PROVE  \E expires_at \in Nat :
           SignedLink(key, expires_at) /\ stamp = Seconds(expires_at)
<1>1. signature # Malformed
  BY DEF Malformed
<1>2. signed # None /\ signature = signed.signature
  BY <1>1 DEF Shown
<1>3. CASE \E c \in Calls, now \in Instants : SignedCall(c, now)
  BY <1>2, <1>3, SignedRequestsAssumption
  DEF SignedCall, sign_service_token, candidate_message
<1>4. CASE \E k \in Keys, expires_at \in Nat : SignedLink(k, expires_at)
  BY <1>2, <1>4 DEF SignedLink, sign_download, download_message
<1>5. CASE \E method \in Methods, k \in Keys, seconds \in Asked,
              now \in Instants : SignedUrl(method, k, seconds, now)
  BY <1>2, <1>5 DEF SignedUrl, presign
<1> QED
  BY <1>2, <1>3, <1>4, <1>5 DEF Inv, Signed

LEMMA UrlSignature ==
  ASSUME Inv, NEW method \in Methods, NEW key \in Keys, NEW stamp, NEW duration,
         NEW signature \in Shown, signature = <<method, key, stamp, duration>>
  PROVE  \E seconds \in Asked, now \in Instants :
           /\ SignedUrl(method, key, seconds, now)
           /\ stamp = Seconds(now) /\ duration = Presigned(seconds)
<1>1. signature # Malformed
  BY DEF Malformed
<1>2. signed # None /\ signature = signed.signature
  BY <1>1 DEF Shown
<1>3. CASE \E c \in Calls, now \in Instants : SignedCall(c, now)
  BY <1>2, <1>3 DEF SignedCall, sign_service_token, candidate_message
<1>4. CASE \E k \in Keys, expires_at \in Nat : SignedLink(k, expires_at)
  BY <1>2, <1>4 DEF SignedLink, sign_download, download_message
<1>5. CASE \E m \in Methods, k \in Keys, seconds \in Asked,
              now \in Instants : SignedUrl(m, k, seconds, now)
  BY <1>2, <1>5 DEF SignedUrl, presign
<1> QED
  BY <1>2, <1>3, <1>4, <1>5 DEF Inv, Signed

(* The instants at both clocks, and their seconds.                         *)
LEMMA InstantsFit ==
  ASSUME Inv, NEW now \in Instants
  PROVE  /\ now \in Nat /\ receiver \in Nat /\ at \in Nat /\ at <= receiver
         /\ now - at <= MaxSkew /\ at - now <= MaxSkew
         /\ Seconds(now) \in 0..MaxTime /\ Seconds(receiver) \in 0..MaxTime
         /\ Seconds(now) \in 0..Seconds(MaxTime)
<1>1. /\ now \in Nat /\ receiver \in Nat /\ at \in Nat /\ at <= receiver
      /\ now <= MaxTime /\ receiver <= MaxTime /\ MaxTime \in Nat
      /\ now - at <= MaxSkew /\ at - now <= MaxSkew
  BY SignedRequestsAssumption DEF Inv, Clocks, Instants, Apart
<1>2. ASSUME NEW t \in Nat
      PROVE  Seconds(t) \in Nat /\ Seconds(t) <= t
  <2>1. Second \in Nat \ {0}
    BY SignedRequestsAssumption
  <2>2. Seconds(t) \in Nat /\ Seconds(t) * Second <= t
    BY SecondsBounds
  <2>3. \A q \in Nat : q <= q * Second
    BY <2>1
  <2>4. Seconds(t) * Second \in Nat
    BY SecondsBounds
  <2> QED
    BY <2>2, <2>3, <2>4
<1>3. Seconds(now) <= Seconds(MaxTime)
  BY <1>1, SecondsOrder
<1> QED
  BY <1>1, <1>2, <1>3

-----------------------------------------------------------------------------
(* A call that is accepted was signed as it is, and not longer ago than the*)
(* leeway, the skew and the rest of a second: no timestamp a request may   *)
(* claim, no repetition and no overflow of the window gets around it.      *)
THEOREM OnlySignedCalls == Spec => []AcceptedWasSigned
<1>1. ASSUME Inv
      PROVE  AcceptedWasSigned
  <2> SUFFICES ASSUME NEW call \in Calls, NEW timestamp \in I64,
                      NEW signature \in Shown,
                      "Ok" \in verify_service_token(call, timestamp, signature,
                                                    Seconds(receiver))
               PROVE  /\ signed # None
                      /\ signed.kind = "call" /\ signed.what = call
                      /\ signed.stamp = timestamp
                      /\ receiver - at
                           <= Leeway * Second + MaxSkew + Second - 1
    BY DEF AcceptedWasSigned
  <2>1. Answer(WrappedAbs(Seconds(receiver) - timestamp) > Leeway, signature,
               candidate_message(call, timestamp)) = "Ok"
    BY DEF verify_service_token
  <2>2. /\ ~(WrappedAbs(Seconds(receiver) - timestamp) > Leeway)
        /\ signature = candidate_message(call, timestamp)
    BY <2>1 DEF Answer
  <2>3. PICK now \in Instants :
               SignedCall(call, now) /\ timestamp = Seconds(now)
    BY <1>1, <2>2, CallSignature
  <2>4. Seconds(receiver) - timestamp <= Leeway
    <3>1. Seconds(receiver) \in 0..MaxTime /\ timestamp \in 0..MaxTime
      BY <1>1, <2>3, InstantsFit
    <3>2. /\ WrappedAbs(Seconds(receiver) - timestamp) \in Nat
          /\ Seconds(receiver) - timestamp
               <= WrappedAbs(Seconds(receiver) - timestamp)
      BY <3>1, AgeIsExact
    <3>3. Seconds(receiver) - timestamp \in Int /\ Leeway \in Nat
      BY <3>1, SignedRequestsAssumption
    <3> QED
      BY <2>2, <3>2, <3>3
  <2>5. receiver - now <= Leeway * Second + Second - 1
    BY <1>1, <2>3, <2>4, InstantsFit, InstantsApart, SignedRequestsAssumption
  <2>6. Leeway * Second \in Nat /\ Second \in Nat /\ MaxSkew \in Nat
    BY SignedRequestsAssumption
  <2>7. receiver - at <= Leeway * Second + MaxSkew + Second - 1
    BY <1>1, <2>5, <2>6, InstantsFit
  <2>8. signed # None
    <3>1. signature # Malformed
      BY <2>2 DEF candidate_message, Malformed
    <3> QED
      BY <3>1 DEF Shown
  <2> QED
    BY <2>3, <2>7, <2>8 DEF SignedCall, sign_service_token
<1> QED
  BY <1>1, SpecInv, PTL

(* What is signed, by its kind.                                            *)
LEMMA KindOf ==
  ASSUME Inv
  PROVE  /\ Is("call") => \E call \in Calls, now \in Instants :
                            SignedCall(call, now)
         /\ Is("link") => \E key \in Keys, expires_at \in Nat :
                            SignedLink(key, expires_at)
         /\ Is("url") => \E method \in Methods, key \in Keys,
                            seconds \in Asked, now \in Instants :
                            SignedUrl(method, key, seconds, now)
<1>1. \A call, now : SignedCall(call, now) => signed.kind = "call"
  BY DEF SignedCall, sign_service_token
<1>2. \A key, expires_at : SignedLink(key, expires_at) => signed.kind = "link"
  BY DEF SignedLink, sign_download
<1>3. \A method, key, seconds, now :
        SignedUrl(method, key, seconds, now) => signed.kind = "url"
  BY DEF SignedUrl, presign
<1> QED
  BY <1>1, <1>2, <1>3 DEF Inv, Signed, Is

LEMMA PresignedBounds ==
  ASSUME NEW seconds \in Nat
  PROVE  /\ Presigned(seconds) \in 1..MaxPresign
         /\ \/ Presigned(seconds) <= seconds
            \/ seconds = 0 /\ Presigned(seconds) = 1
BY SignedRequestsAssumption DEF Presigned

(* Whatever arrives in time is accepted: a call within the leeway, less the*)
(* skew of the clocks; a link until the second its URL names; a presigned  *)
(* URL for as long as it was asked for and may last.                       *)
THEOREM InTimeIsGoodEnough == Spec => []InTimeIsAccepted
<1>1. ASSUME Inv, Is("call"), receiver - at + MaxSkew <= Leeway * Second
      PROVE  verify_service_token(signed.what, signed.stamp, signed.signature,
                                  Seconds(receiver)) = {"Ok"}
  <2>1. PICK call \in Calls, now \in Instants : SignedCall(call, now)
    BY <1>1, KindOf
  <2>2. /\ signed.what = call /\ signed.stamp = Seconds(now)
        /\ signed.signature = candidate_message(call, Seconds(now))
    BY <2>1 DEF SignedCall, sign_service_token
  <2>3. /\ now \in Nat /\ receiver \in Nat /\ at \in Nat /\ at <= receiver
        /\ now - at <= MaxSkew /\ at - now <= MaxSkew
        /\ Seconds(now) \in 0..MaxTime /\ Seconds(receiver) \in 0..MaxTime
    BY <1>1, InstantsFit
  <2>4. Leeway \in Nat /\ Leeway * Second \in Nat /\ MaxSkew \in Nat
    BY SignedRequestsAssumption
  <2>5. receiver - now <= Leeway * Second /\ now - receiver <= Leeway * Second
    BY <1>1, <2>3, <2>4
  <2>6. /\ Seconds(receiver) - Seconds(now) <= Leeway
        /\ Seconds(now) - Seconds(receiver) <= Leeway
    BY <2>3, <2>4, <2>5, SecondsApart
  <2>7. /\ ~Overflows(Seconds(receiver) - Seconds(now))
        /\ WrappedAbs(Seconds(receiver) - Seconds(now)) <= Leeway
        /\ WrappedAbs(Seconds(receiver) - Seconds(now)) \in Nat
    BY <2>3, <2>4, <2>6, AgeIsExact
  <2>8. ~(WrappedAbs(Seconds(receiver) - Seconds(now)) > Leeway)
    BY <2>4, <2>7
  <2>9. candidate_message(call, Seconds(now)) # Malformed
    BY DEF candidate_message, Malformed
  <2> QED
    BY <2>2, <2>7, <2>8, <2>9 DEF verify_service_token, Answer
<1>2. ASSUME Inv, Is("link"), receiver <= UrlExpiry
      PROVE  verify_download(signed.what, UrlExpiry, signed.signature, receiver)
  <2>1. PICK key \in Keys, expires_at \in Nat : SignedLink(key, expires_at)
    BY <1>2, KindOf
  <2>2. /\ signed.what = key /\ signed.stamp = Seconds(expires_at)
        /\ signed.signature = <<key, Seconds(expires_at)>>
    BY <2>1 DEF SignedLink, sign_download, download_message
  <2>3. Seconds(UrlExpiry) = Seconds(expires_at) /\ UrlExpiry \in Nat
    BY <2>2, SecondsBounds, SecondsOfWhole DEF UrlExpiry
  <2>4. receiver \in Nat
    BY <1>2, SignedRequestsAssumption DEF Inv, Clocks
  <2>5. UrlExpiry >= receiver
    BY <1>2, <2>3, <2>4
  <2>6. <<key, Seconds(expires_at)>> # Malformed
    BY DEF Malformed
  <2> QED
    BY <2>2, <2>3, <2>5, <2>6 DEF verify_download, download_message
<1>3. ASSUME Inv, Is("url"),
             receiver - at + MaxSkew + Second - 1
               <= Presigned(signed.asked) * Second
      PROVE  S3Accepts(signed.what[1], signed.what[2], signed.signature, receiver)
  <2>1. PICK method \in Methods, key \in Keys, seconds \in Asked,
             now \in Instants : SignedUrl(method, key, seconds, now)
    BY <1>3, KindOf
  <2> DEFINE stamp == Seconds(now)
             duration == Presigned(seconds)
  <2>2. /\ signed.what[1] = method /\ signed.what[2] = key
        /\ signed.asked = seconds
        /\ signed.signature = <<method, key, stamp, duration>>
    BY <2>1 DEF SignedUrl, presign
  <2>3. /\ now \in Nat /\ receiver \in Nat /\ at \in Nat
        /\ at - now <= MaxSkew /\ stamp \in 0..Seconds(MaxTime)
    BY <1>3, InstantsFit
  <2>4. duration \in 1..MaxPresign /\ duration \in Nat
    BY PresignedBounds, SignedRequestsAssumption
  <2>5. /\ stamp \in Nat /\ stamp * Second \in Nat
        /\ now < stamp * Second + Second
    BY <2>3, SecondsBounds
  <2> HIDE DEF stamp, duration
  <2>6. Second \in Nat \ {0} /\ MaxSkew \in Nat
    BY SignedRequestsAssumption
  <2>7. /\ (stamp + duration) * Second = stamp * Second + duration * Second
        /\ duration * Second \in Int
    BY <2>4, <2>5, <2>6, TimesSum
  <2>8. receiver - at + MaxSkew + Second - 1 <= duration * Second
    BY <1>3, <2>2 DEF duration
  <2>9. receiver <= (stamp + duration) * Second
    BY <2>3, <2>5, <2>6, <2>7, <2>8
  <2> QED
    BY <2>2, <2>3, <2>4, <2>9 DEF S3Accepts
<1>4. Inv => InTimeIsAccepted
  BY <1>1, <1>2, <1>3 DEF InTimeIsAccepted
<1> QED
  BY <1>4, SpecInv, PTL

(* A download link opens nothing but its key, and nothing after the second *)
(* it was made for, with whatever expiry it is shown; a presigned URL      *)
(* serves nothing but its method and key, and for no longer than was asked *)
(* and a URL may last.                                                     *)
THEOREM LinksOpenNothingElse == Spec => []LinksEnd
<1>1. ASSUME Inv, NEW key \in Keys, NEW signature \in Shown,
             NEW expires_at \in 0..(MaxTime + MaxLifetime + Second),
             verify_download(key, expires_at, signature, receiver)
      PROVE  Is("link") /\ signed.what = key /\ receiver < UrlExpiry + Second
  <2>1. expires_at \in Nat
    BY SignedRequestsAssumption
  <2>2. signature = <<key, Seconds(expires_at)>> /\ expires_at >= receiver
    BY <1>1 DEF verify_download, download_message
  <2>3. PICK made \in Nat :
               SignedLink(key, made) /\ Seconds(expires_at) = Seconds(made)
    BY <1>1, <2>2, LinkSignature
  <2>4. /\ signed.kind = "link" /\ signed.what = key
        /\ signed.stamp = Seconds(expires_at)
    BY <2>3 DEF SignedLink, sign_download
  <2>5. signed # None
    <3>1. signature # Malformed
      BY <2>2 DEF Malformed
    <3> QED
      BY <3>1 DEF Shown
  <2>6. expires_at < UrlExpiry + Second /\ UrlExpiry \in Nat
    BY <2>1, <2>4, SecondsBounds DEF UrlExpiry
  <2>7. receiver < UrlExpiry + Second
    BY <1>1, <2>1, <2>2, <2>6, SignedRequestsAssumption DEF Inv, Clocks
  <2> QED
    BY <2>4, <2>5, <2>7 DEF Is
<1>2. ASSUME Inv, NEW key \in Keys, NEW signature \in Shown,
             NEW method \in Methods,
             S3Accepts(method, key, signature, receiver)
      PROVE  /\ Is("url") /\ signed.what = <<method, key>>
             /\ receiver - at <= MaxPresign * Second + MaxSkew
             /\ \/ receiver - at <= signed.asked * Second + MaxSkew
                \/ signed.asked = 0 /\ receiver - at <= Second + MaxSkew
  <2>1. PICK stamp \in 0..Seconds(MaxTime), duration \in 1..MaxPresign :
               /\ signature = <<method, key, stamp, duration>>
               /\ receiver <= (stamp + duration) * Second
    BY <1>2 DEF S3Accepts
  <2>2. PICK seconds \in Asked, now \in Instants :
               /\ SignedUrl(method, key, seconds, now)
               /\ stamp = Seconds(now) /\ duration = Presigned(seconds)
    BY <1>2, <2>1, UrlSignature
  <2>3. /\ signed.kind = "url" /\ signed.what = <<method, key>>
        /\ signed.asked = seconds
    BY <2>2 DEF SignedUrl, presign
  <2>4. signed # None
    <3>1. signature # Malformed
      BY <2>1 DEF Malformed
    <3> QED
      BY <3>1 DEF Shown
  <2>5. /\ now \in Nat /\ receiver \in Nat /\ at \in Nat
        /\ now - at <= MaxSkew
    BY <1>2, InstantsFit
  <2>6. stamp \in Nat /\ stamp * Second \in Nat /\ stamp * Second <= now
    BY <2>2, <2>5, SecondsBounds
  <2>7. /\ Second \in Nat \ {0} /\ MaxSkew \in Nat /\ MaxPresign \in Nat
        /\ seconds \in Nat /\ duration \in Nat
    BY SignedRequestsAssumption
  <2>8. (stamp + duration) * Second = stamp * Second + duration * Second
    BY <2>6, <2>7, TimesSum
  <2>9. duration * Second \in Nat
    BY <2>7
  <2>10. receiver - at <= duration * Second + MaxSkew
    BY <2>1, <2>5, <2>6, <2>7, <2>8, <2>9
  <2>11. receiver - at <= MaxPresign * Second + MaxSkew
    <3>1. /\ duration * Second <= MaxPresign * Second
          /\ MaxPresign * Second \in Int
      BY <2>7, TimesGrows
    <3> QED
      BY <2>5, <2>7, <2>9, <2>10, <3>1
  <2>12. CASE duration <= seconds
    <3>1. /\ duration * Second <= seconds * Second
          /\ seconds * Second \in Int
      BY <2>7, <2>12, TimesGrows
    <3>2. receiver - at <= signed.asked * Second + MaxSkew
      BY <2>3, <2>5, <2>7, <2>9, <2>10, <3>1
    <3> QED
      BY <2>3, <2>4, <2>11, <3>2 DEF Is
  <2>13. CASE seconds = 0 /\ duration = 1
    <3>1. receiver - at <= Second + MaxSkew
      BY <2>7, <2>10, <2>13
    <3> QED
      BY <2>3, <2>4, <2>11, <2>13, <3>1 DEF Is
  <2> QED
    BY <2>2, <2>7, <2>12, <2>13, PresignedBounds
<1>3. Inv => LinksEnd
  BY <1>1, <1>2 DEF LinksEnd
<1> QED
  BY <1>3, SpecInv, PTL

=============================================================================
