--------------------------- MODULE SignedRequests ---------------------------
(***************************************************************************)
(* What is signed for a while: the calls between services                  *)
(* (crates/auth-sdk/src/service_token.rs), the download links of local     *)
(* storage (crates/storage/src/local.rs) and the presigned URLs of S3      *)
(* (crates/storage/src/s3.rs).  All put a time in the message they sign    *)
(* and compare it with the clock of whoever verifies.                      *)
(*                                                                         *)
(* A signature stands for the message it is the HMAC of.  Whoever has one  *)
(* may show it whenever, as often and with whatever message he likes: the  *)
(* network delays and repeats, a link is passed on.  The properties        *)
(* therefore quantify over all requests that can be made with the signature*)
(* there is; others with another signature do not matter to them.          *)
(*                                                                         *)
(* Clocks count ticks, Second of them in a second; timestamps are seconds. *)
(***************************************************************************)
EXTENDS Integers

CONSTANTS
  Calls,      \* what services call each other for: the service and the body
  Keys,       \* the keys of objects
  MaxLifetime,\* bound: the longest a link is made for, in ticks
  Asked,      \* how long URLs are presigned for, in seconds
  MaxPresign, \* the longest a URL is presigned for: a week, in seconds
  Leeway,     \* DEFAULT_LEEWAY_SECONDS
  Second,     \* the ticks of a second
  MaxSkew,    \* how far the clocks of two services are apart, in ticks
  MaxI64,     \* the largest i64
  MaxTime,    \* bound: the last tick
  None        \* no signature

ASSUME SignedRequestsAssumption ==
  /\ Calls \cap Keys = {}  \* a call signs three lines, a link two
  /\ MaxLifetime \in Nat /\ Asked \subseteq Nat /\ MaxPresign \in Nat \ {0}
  /\ Leeway \in Nat /\ Second \in Nat \ {0} /\ MaxSkew \in Nat
  /\ MaxI64 \in Nat /\ MaxTime \in Nat
  /\ MaxSkew <= MaxTime /\ MaxTime + Leeway <= MaxI64

VARIABLES
  sender,   \* the clock of the service that signs calls and URLs
  receiver, \* the clock of whoever verifies them, and of links
  signed,   \* a signature that somebody has, or None
  at        \* history: the receiver's clock when it was made

vars == <<sender, receiver, signed, at>>

(* timestamp() of a DateTime, and as_secs of a clock.                      *)
Seconds(t) == t \div Second

MinI64 == -MaxI64 - 1
I64 == MinI64..MaxI64
Wrap(n) == ((n - MinI64) % (2 * (MaxI64 + 1))) + MinI64

Malformed == <<>>

-----------------------------------------------------------------------------
(* Calls.                                                                  *)

(* Mutant of candidate_message: the timestamp is not signed.               *)
candidate_message_timeless(call, timestamp) == <<call, 0>>

candidate_message(call, timestamp) == <<call, timestamp>>

sign_service_token(call, now) ==
  [kind |-> "call", what |-> call, stamp |-> Seconds(now),
   signature |-> candidate_message(call, Seconds(now))]

(* now - timestamp and its abs() wrap in a release build; a debug build    *)
(* panics.                                                                 *)
Overflows(d) == d \notin I64 \/ d = MinI64
WrappedAbs(d) ==
  LET w == Wrap(d) IN IF w < 0 /\ w # MinI64 THEN -w ELSE w

(* The checks in their order.                                              *)
Answer(late, signature, message) ==
  IF late THEN "Expired"
  ELSE IF signature = Malformed THEN "Malformed"
  ELSE IF signature # message THEN "InvalidSignature"
  ELSE "Ok"

(* Mutant of verify_service_token: no timestamp may be ahead.              *)
verify_service_token_past_only(call, timestamp, signature, now) ==
  {Answer(now - timestamp \notin 0..Leeway, signature,
          candidate_message(call, timestamp))}

(* The outcomes the builds have; now and timestamp are seconds.            *)
verify_service_token(call, timestamp, signature, now) ==
  {Answer(WrappedAbs(now - timestamp) > Leeway, signature,
          candidate_message(call, timestamp))}
    \cup IF Overflows(now - timestamp) THEN {"panic"} ELSE {}

-----------------------------------------------------------------------------
(* Download links; expires_at is in ticks.                                 *)

download_message(key, expires_at) == <<key, Seconds(expires_at)>>

sign_download(key, expires_at) ==
  [kind |-> "link", what |-> key, stamp |-> Seconds(expires_at),
   signature |-> download_message(key, expires_at)]

(* Mutant of verify_download: the expiry is only looked at for the         *)
(* signature.                                                              *)
verify_download_undated(key, expires_at, signature, now) ==
  signature = download_message(key, expires_at)

verify_download(key, expires_at, signature, now) ==
  /\ expires_at >= now
  /\ signature # Malformed
  /\ signature = download_message(key, expires_at)

-----------------------------------------------------------------------------
(* Presigned URLs, of S3 only: local storage has none (traits.rs:38).      *)

Methods == {"PUT", "GET"}

(* The clamp.                                                              *)
Presigned(seconds) ==
  IF seconds < 1 THEN 1 ELSE IF seconds > MaxPresign THEN MaxPresign ELSE seconds

(* presign_put and presign_get: the library signs the method, the key, the *)
(* second of now and the duration.                                         *)
presign(method, key, seconds, now) ==
  [kind |-> "url", what |-> <<method, key>>, stamp |-> Seconds(now),
   asked |-> seconds,
   signature |-> <<method, key, Seconds(now), Presigned(seconds)>>]

(* S3 carries a request out until the URL has expired.                     *)
S3Accepts(method, key, signature, now) ==
  \E stamp \in 0..Seconds(MaxTime), duration \in 1..MaxPresign :
    /\ signature = <<method, key, stamp, duration>>
    /\ now <= (stamp + duration) * Second

-----------------------------------------------------------------------------
Apart(a, b) == a - b <= MaxSkew /\ b - a <= MaxSkew

Init ==
  /\ receiver = MaxSkew
  /\ sender \in 0..MaxTime /\ Apart(sender, receiver)
  /\ signed = None
  /\ at = receiver

SignCall(call) ==
  /\ signed' = sign_service_token(call, sender)
  /\ at' = receiver
  /\ UNCHANGED <<sender, receiver>>

SignLink(key, lifetime) ==
  /\ signed' = sign_download(key, receiver + lifetime)
  /\ at' = receiver
  /\ UNCHANGED <<sender, receiver>>

SignUrl(method, key, seconds) ==
  /\ signed' = presign(method, key, seconds, sender)
  /\ at' = receiver
  /\ UNCHANGED <<sender, receiver>>

TickSender ==
  /\ sender < MaxTime /\ Apart(sender + 1, receiver)
  /\ sender' = sender + 1
  /\ UNCHANGED <<receiver, signed, at>>

TickReceiver ==
  /\ receiver < MaxTime /\ Apart(receiver + 1, sender)
  /\ receiver' = receiver + 1
  /\ UNCHANGED <<sender, signed, at>>

Next ==
  \/ \E call \in Calls : SignCall(call)
  \/ \E key \in Keys, lifetime \in 0..MaxLifetime : SignLink(key, lifetime)
  \/ \E method \in Methods, key \in Keys, seconds \in Asked :
       SignUrl(method, key, seconds)
  \/ TickSender
  \/ TickReceiver

Spec == Init /\ [][Next]_vars

-----------------------------------------------------------------------------
(* The signatures a request can come with.                                 *)
Shown == {Malformed} \cup (IF signed = None THEN {} ELSE {signed.signature})

(* A call is accepted only if it was signed, as it is, by somebody with the*)
(* secret, and not longer ago than the leeway, the skew of the clocks and  *)
(* the rest of a second: whatever timestamp the request claims, also one   *)
(* for which the window overflows, and however often it is repeated.       *)
AcceptedWasSigned ==
  \A call \in Calls, timestamp \in I64, signature \in Shown :
    "Ok" \in verify_service_token(call, timestamp, signature, Seconds(receiver))
      => /\ signed # None
         /\ signed.kind = "call" /\ signed.what = call
         /\ signed.stamp = timestamp
         /\ receiver - at <= Leeway * Second + MaxSkew + Second - 1

(* What the URL of download_url says: its expiry is a whole second.        *)
UrlExpiry == signed.stamp * Second

Is(kind) == signed # None /\ signed.kind = kind

(* Whatever arrives in time is accepted: a call within the leeway, less the*)
(* skew of the clocks, whichever is ahead; a link until the second its URL *)
(* names, at that instant included; a presigned URL for as long as was     *)
(* asked, a second at least and a week at most, less the skew and the rest *)
(* of a second.                                                            *)
InTimeIsAccepted ==
  LET passed == receiver - at
      lasts == Presigned(signed.asked) * Second
  IN /\ Is("call") /\ passed + MaxSkew <= Leeway * Second
          => verify_service_token(signed.what, signed.stamp, signed.signature,
                                  Seconds(receiver)) = {"Ok"}
     /\ Is("link") /\ receiver <= UrlExpiry
          => verify_download(signed.what, UrlExpiry, signed.signature, receiver)
     /\ Is("url") /\ passed + MaxSkew + Second - 1 <= lasts
          => S3Accepts(signed.what[1], signed.what[2], signed.signature, receiver)

(* Links end and open nothing else.  Whatever expiry it is shown with, a   *)
(* download link opens no other key and nothing after the second it was    *)
(* made for; a presigned URL serves no other method or key, and nothing    *)
(* when it is older than was asked (or a second), or than a week.          *)
LinksEnd ==
  \A key \in Keys, signature \in Shown :
    /\ \A expires_at \in 0..(MaxTime + MaxLifetime + Second) :
         verify_download(key, expires_at, signature, receiver)
           => Is("link") /\ signed.what = key /\ receiver < UrlExpiry + Second
    /\ \A method \in Methods :
         S3Accepts(method, key, signature, receiver)
           => /\ Is("url") /\ signed.what = <<method, key>>
              /\ receiver - at <= MaxPresign * Second + MaxSkew
              /\ \/ receiver - at <= signed.asked * Second + MaxSkew
                 \/ signed.asked = 0 /\ receiver - at <= Second + MaxSkew

=============================================================================
