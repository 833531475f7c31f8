---------------------------- MODULE AccessControl ----------------------------
(***************************************************************************)
(* Who is let in (crates/auth-sdk/src: guard.rs, extract.rs, claims.rs,    *)
(* jwt.rs, jwks.rs).  The library is stateless: a request is decided from  *)
(* the token it carries and the key set the service has.  What can be wrong*)
(* is the age of both, because a token says what its account was allowed   *)
(* when it was issued, and the key set is a copy.                          *)
(*                                                                         *)
(* The state is that of the world around the library: accounts, the issuer *)
(* and its keys, the copy of the key set in a service, and a token.  The   *)
(* properties quantify over every request that could be made in a state.   *)
(*                                                                         *)
(* Rights stand for all that a token lists: "read" and "write" are the     *)
(* entries of bot_permissions for the module the guard stands before, the  *)
(* others are roles and scopes.  Time is kept as in Outbox.                *)
(***************************************************************************)
EXTENDS Integers, Sequences

CONSTANTS
  Accounts,  \* the accounts that get tokens
  Rights,    \* the rights that an account may have
  Keys,      \* the key pairs of the issuer, named by their kid
  Lifetime,  \* exp - iat of the tokens
  Leeway,    \* how much longer jsonwebtoken accepts them: 60 s
  NoToken,   \* no token
  NoKid      \* the kid of a header without one

Modes == {"read", "write"}
AdminRoles == {"admin", "superadmin"}

MaxAge == Lifetime + Leeway + 1   \* a token of this age is not accepted

VARIABLES
  bots,      \* the accounts whose account_type is "bot"
  rights,    \* rights[a]: the rights of account a now
  lost,      \* history, lost[a][r]: how long ago a last had r, up to MaxAge
  signing,   \* the key the issuer signs with
  published, \* the key set the issuer publishes
  cached,    \* the copy of it in the service
  token      \* a token somebody holds, or NoToken

issuer == <<signing, published>>
vars == <<bots, rights, lost, issuer, cached, token>>

(* left: the time until exp, negative when it has passed.                  *)
Token ==
  [sub : Accounts, bot : BOOLEAN, rights : SUBSET Rights,
   kid : Keys \cup {NoKid}, key : Keys, left : -(Leeway + 1)..Lifetime]

ASSUME TimesAssumption == Lifetime \in Nat /\ Leeway \in Nat

ASSUME AccessControlAssumption ==
  /\ Modes \subseteq Rights
  /\ {"nothing", "an admin"} \cap Rights = {}   \* see Demands
  /\ NoToken \notin Token
  /\ NoKid \notin Keys

(* Types, and: the kid of a token of the issuer is that of the key that    *)
(* signed it.                                                              *)
TypeOK ==
  /\ bots \subseteq Accounts
  /\ rights \in [Accounts -> SUBSET Rights]
  /\ lost \in [Accounts -> [Rights -> 0..MaxAge]]
  /\ signing \in Keys
  /\ published \in Seq(Keys)
  /\ cached \in Seq(Keys)
  /\ token = NoToken \/ (token \in Token /\ token.kid = token.key)

Init ==
  /\ bots \in SUBSET Accounts
  /\ rights \in [Accounts -> SUBSET Rights]
  /\ lost = [a \in Accounts |->
               [r \in Rights |-> IF r \in rights[a] THEN 0 ELSE MaxAge]]
  /\ signing \in Keys
  /\ published = <<signing>>
  /\ cached = published
  /\ token = NoToken

-----------------------------------------------------------------------------
(* Claims.                                                                 *)

is_admin(t) == t.rights \cap AdminRoles # {}

(* Mutant of allow_module: the mode is not looked at.                      *)
allow_module_any_mode(t, mode) == t.bot => t.rights \cap Modes # {}

(* People may do anything here; bots what their matrix says.               *)
allow_module(t, mode) == t.bot => mode \in t.rights

(* Verification.                                                           *)

(* Mutant of decoding_key_from_jwks: the first key is taken in any case.   *)
decoding_key_from_jwks_first(jwks, kid) ==
  IF jwks = <<>> THEN {} ELSE {Head(jwks)}

(* The key with this kid, or the first one if there is no kid; {} is an    *)
(* error.                                                                  *)
decoding_key_from_jwks(jwks, kid) ==
  IF kid = NoKid
  THEN IF jwks = <<>> THEN {} ELSE {Head(jwks)}
  ELSE {k \in Keys : k = kid /\ \E i \in DOMAIN jwks : jwks[i] = k}

(* Signature and exp; the signature of another key does not match.         *)
decode_access_token(t, key) == t.key \in key /\ t.left >= -Leeway

(* What the verify_token of a service does with the two.                   *)
verify_token(t) ==
  decode_access_token(t, decoding_key_from_jwks(cached, t.kid))

(* The answer to a request.                                                *)

(* The guard reads the token without verifying it; without one, or with one*)
(* it cannot read, it passes the request on.                               *)
guard_bot_request(t, mode) == t = NoToken \/ allow_module(t, mode)

(* What a handler demands of an AuthUser: an administrator, a right of its *)
(* own (require_role, require_scope, require_resource_scope), or no more.  *)
Demands == {"nothing", "an admin"} \cup (Rights \ Modes)

meets(t, demand) ==
  \/ demand = "nothing"
  \/ demand = "an admin" /\ is_admin(t)
  \/ demand \in t.rights

(* The answer of a handler that takes an AuthUser.                         *)
AuthUser(t, mode, demand) ==
  IF ~guard_bot_request(t, mode) THEN "forbidden"
  ELSE IF t = NoToken \/ ~verify_token(t) THEN "unauthorized"
  ELSE IF ~meets(t, demand) THEN "forbidden"
  ELSE "user"

(* The answer of one that takes an OptionalAuthUser.                       *)
OptionalAuthUser(t, mode) ==
  IF ~guard_bot_request(t, mode) THEN "forbidden"
  ELSE IF t = NoToken \/ ~verify_token(t) THEN "anonymous"
  ELSE "user"

-----------------------------------------------------------------------------
(* The world around.                                                       *)

(* An account gets a right or loses one.                                   *)
Grant(a, r) ==
  /\ r \notin rights[a]
  /\ rights' = [rights EXCEPT ![a] = @ \cup {r}]
  /\ lost' = [lost EXCEPT ![a][r] = 0]
  /\ UNCHANGED <<bots, issuer, cached, token>>

Revoke(a, r) ==
  /\ r \in rights[a]
  /\ rights' = [rights EXCEPT ![a] = @ \ {r}]
  /\ UNCHANGED <<bots, lost, issuer, cached, token>>

(* Mutant of encode_access_token: the header has no kid.                   *)
encode_access_token_no_kid(a, key, kid) ==
  [sub |-> a, bot |-> a \in bots, rights |-> rights[a],
   kid |-> NoKid, key |-> key, left |-> Lifetime]

(* A token for a, from what a is allowed now: key signs, the header says   *)
(* kid, whether it is that of the key or not.                              *)
encode_access_token(a, key, kid) ==
  [sub |-> a, bot |-> a \in bots, rights |-> rights[a],
   kid |-> kid, key |-> key, left |-> Lifetime]

(* The issuer derives the kid from the key it signs with (key_id_from_pem).*)
Issue(a) ==
  /\ token' = encode_access_token(a, signing, signing)
  /\ UNCHANGED <<bots, rights, lost, issuer, cached>>

(* A new key signs; the key set has it and the one before.                 *)
Rotate(k) ==
  /\ k # signing
  /\ signing' = k
  /\ published' = <<k, signing>>
  /\ UNCHANGED <<bots, rights, lost, cached, token>>

(* The service fetches the key set again.                                  *)
Refresh ==
  /\ cached' = published
  /\ UNCHANGED <<bots, rights, lost, issuer, token>>

Tick ==
  /\ lost' = [a \in Accounts |-> [r \in Rights |->
       IF r \in rights[a] THEN 0
       ELSE IF lost[a][r] < MaxAge THEN lost[a][r] + 1 ELSE MaxAge]]
  /\ token' = IF token = NoToken \/ token.left = -(Leeway + 1) THEN token
              ELSE [token EXCEPT !.left = @ - 1]
  /\ UNCHANGED <<bots, rights, issuer, cached>>

Next ==
  \/ \E a \in Accounts :
       Issue(a) \/ \E r \in Rights : Grant(a, r) \/ Revoke(a, r)
  \/ \E k \in Keys : Rotate(k)
  \/ Refresh
  \/ Tick

Spec == Init /\ [][Next]_vars

-----------------------------------------------------------------------------
(* Account a has or had one of the rights less than MaxAge ago.            *)
Recently(a, some) == \E r \in some : lost[a][r] < MaxAge

(* A revoked right works no longer than the tokens that carry it: a request*)
(* of a bot is let through, and one with a demand is met, only if the      *)
(* account had the right within the lifetime of a token and the leeway     *)
(* (the leeway is on top: claims.rs:83 would refuse the token before).     *)
StaleRightsBounded ==
  \A mode \in Modes :
    /\ OptionalAuthUser(token, mode) = "user" /\ token.bot
         => Recently(token.sub, {mode})
    /\ \A demand \in Demands \ {"nothing"} :
         AuthUser(token, mode, demand) = "user"
           => Recently(token.sub,
                       IF demand = "an admin" THEN AdminRoles \cap Rights
                                              ELSE {demand})

(* Rotating keys locks nobody out: a token that has not expired is accepted*)
(* by a service that has its key, whichever key signs now and whatever the *)
(* order of the key set.                                                   *)
GoodTokenAccepted ==
  \A mode \in Modes :
    (/\ token # NoToken /\ token.left > 0
     /\ \E i \in DOMAIN cached : cached[i] = token.key
     /\ allow_module(token, mode))
      => AuthUser(token, mode, "nothing") = "user"

=============================================================================
