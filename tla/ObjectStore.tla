----------------------------- MODULE ObjectStore -----------------------------
(***************************************************************************)
(* What the storage interface (crates/storage/src/traits.rs) promises,     *)
(* whichever backend is behind it: an object changes only by the puts at   *)
(* work on it and by deletes; a put that returns Ok has stored its body,   *)
(* unless another put or a delete got at the object meanwhile.             *)
(*                                                                         *)
(* An object is the client whose body it has.  A put may leave it in pieces*)
(* while it is at work, and when it does not end well.                     *)
(***************************************************************************)
CONSTANTS
  Keys,      \* the keys
  Clients,   \* those who put
  NoObject,  \* there is no object
  InPieces,  \* something that is nobody's body
  NoKey      \* no key

VARIABLES
  object,    \* object[k]: the object with key k
  putting,   \* putting[c]: the key of the object the put of c has got hold of
  disturbed, \* the clients whose object another put or a delete has used
  answer     \* answer[c]: what the last put of c returned, if it has

vars == <<object, putting, disturbed, answer>>

Init ==
  /\ object = [k \in Keys |-> NoObject]
  /\ putting = [c \in Clients |-> NoKey]
  /\ disturbed = {}
  /\ answer = [c \in Clients |-> "none"]

Call(c) ==
  /\ putting[c] = NoKey
  /\ answer' = [answer EXCEPT ![c] = "none"]
  /\ UNCHANGED <<object, putting, disturbed>>

(* A put gets hold of the object, and may disturb those who have it.       *)
Take(c, k) ==
  LET others == {d \in Clients \ {c} : putting[d] = k}
  IN /\ putting[c] = NoKey
     /\ putting' = [putting EXCEPT ![c] = k]
     /\ \E o \in {InPieces, c} : object' = [object EXCEPT ![k] = o]
     /\ \E hit \in SUBSET (IF others = {} THEN {} ELSE others \cup {c}) :
          disturbed' = (disturbed \ {c}) \cup hit
     /\ UNCHANGED answer

Change(c) ==
  /\ putting[c] # NoKey
  /\ \E o \in Clients \cup {InPieces} :
       object' = [object EXCEPT ![putting[c]] = o]
  /\ UNCHANGED <<putting, disturbed, answer>>

PutOk(c) ==
  /\ putting[c] # NoKey
  /\ c \notin disturbed => object[putting[c]] = c
  /\ putting' = [putting EXCEPT ![c] = NoKey]
  /\ answer' = [answer EXCEPT ![c] = "ok"]
  /\ UNCHANGED <<object, disturbed>>

(* The put fails before or after it has got hold of the object, or it ends *)
(* when nobody waits for it any more.                                      *)
PutEnds(c, result) ==
  /\ putting' = [putting EXCEPT ![c] = NoKey]
  /\ answer' = [answer EXCEPT ![c] = result]
  /\ UNCHANGED <<object, disturbed>>

Delete(k) ==
  LET users == {c \in Clients : putting[c] = k}
  IN /\ object' = [object EXCEPT ![k] = NoObject]
     /\ \E hit \in SUBSET users : disturbed' = disturbed \cup hit
     /\ UNCHANGED <<putting, answer>>

Next ==
  \/ \E c \in Clients :
       \/ Call(c) \/ Change(c) \/ PutOk(c)
       \/ \E k \in Keys : Take(c, k)
       \/ \E result \in {"none", "backend"} : PutEnds(c, result)
  \/ \E k \in Keys : Delete(k)

Spec == Init /\ [][Next]_vars

=============================================================================
