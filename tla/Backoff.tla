------------------------------- MODULE Backoff -------------------------------
(***************************************************************************)
(* The retry delay of the outbox (crates/bus/src/outbox.rs,                *)
(* backoff_seconds): BackoffBase * 2^(attempts-1), the exponent clamped to *)
(* 0..MaxExponent, the product capped at BackoffCap.  The code has         *)
(* BackoffBase = 5, BackoffCap = 600 (seconds) and MaxExponent = 7.        *)
(***************************************************************************)
EXTENDS Integers

CONSTANTS BackoffBase, BackoffCap, MaxExponent

(* 2^k in a machine integer: exact as far as the clamp lets k go, wrapped  *)
(* to 0 where its bits are exhausted.  That is k = 64 for the i64 of the   *)
(* code; here the integer has just the bits 2^MaxExponent needs.           *)
Pow2(k) ==
  IF k <= MaxExponent THEN <<1, 2, 4, 8, 16, 32, 64, 128>>[k + 1] ELSE 0

(* The clamp must not keep a delay below the cap: 5 * 2^7 is above 600.    *)
ASSUME BackoffAssumption ==
  /\ BackoffBase \in Nat \ {0}
  /\ BackoffCap \in Nat
  /\ MaxExponent \in 0..7
  /\ BackoffBase <= BackoffCap
  /\ BackoffCap <= BackoffBase * Pow2(MaxExponent)

Clamp(x, low, high) == IF x < low THEN low ELSE IF x > high THEN high ELSE x

AtMost(x, bound) == IF x <= bound THEN x ELSE bound

(* Mutant of backoff_seconds: the exponent is not clamped above.           *)
backoff_seconds_unclamped(attempts) ==
  AtMost(BackoffBase * Pow2(IF attempts < 1 THEN 0 ELSE attempts - 1), BackoffCap)

backoff_seconds(attempts) ==
  AtMost(BackoffBase * Pow2(Clamp(attempts - 1, 0, MaxExponent)), BackoffCap)

=============================================================================
