------------------------------ MODULE S3Store ------------------------------
(***************************************************************************)
(* The S3 backend of club-storage (crates/storage/src/s3.rs): one request  *)
(* per operation, which the object store carries out at once and as a      *)
(* whole.  A put that is given up (its reply is lost, or its future is     *)
(* dropped) may still be carried out, at some later time.                  *)
(***************************************************************************)
EXTENDS FiniteSets

CONSTANTS
  Keys,      \* the keys the services use
  Clients,   \* the tasks that put objects
  NoObject,  \* there is no object
  NoKey      \* no key

VARIABLES
  objects,   \* objects[k]: the client whose body is stored at k
  request,   \* request[c]: the key of the request of c that is not over
  served,    \* the clients whose request has been carried out
  given_up,  \* the clients who do not wait for theirs any more
  overtaken, \* history: the clients whose object has been put or deleted
             \*   since their request was carried out
  answer     \* answer[c]: what the last put of c returned, if it has

requests == <<request, served, given_up>>
vars == <<objects, requests, overtaken, answer>>

Init ==
  /\ objects = [k \in Keys |-> NoObject]
  /\ request = [c \in Clients |-> NoKey]
  /\ served = {}
  /\ given_up = {}
  /\ overtaken = {}
  /\ answer = [c \in Clients |-> "none"]

-----------------------------------------------------------------------------
(* What the operations make of the replies of the store.                   *)

map_error(reply) == IF reply = "not_found" THEN "not_found" ELSE "backend"

(* Mutant of delete_reply: an absent object is an error.                   *)
delete_reply_strict(reply) == IF reply = "ok" THEN "ok" ELSE map_error(reply)

delete_reply(reply) ==
  IF reply \in {"ok", "not_found"} THEN "ok" ELSE map_error(reply)

(* Stores differ in what they say to the deletion of an absent object.     *)
Deletion(k) == IF objects[k] = NoObject THEN {"ok", "not_found"} ELSE {"ok"}

delete_answers(k) == {delete_reply(r) : r \in Deletion(k)}

get(k) == IF objects[k] = NoObject THEN map_error("not_found") ELSE "ok"

exists(k) == objects[k] # NoObject

-----------------------------------------------------------------------------
put(c, k) ==
  /\ request[c] = NoKey
  /\ request' = [request EXCEPT ![c] = k]
  /\ answer' = [answer EXCEPT ![c] = "none"]
  /\ UNCHANGED <<objects, served, given_up, overtaken>>

(* Those whose object at k is the latest.                                  *)
Holders(k) == {c \in served : request[c] = k}

Serve(c) ==
  LET k == request[c]
  IN /\ k # NoKey /\ c \notin served
     /\ objects' = [objects EXCEPT ![k] = c]
     /\ served' = served \cup {c}
     /\ overtaken' = (overtaken \ {c}) \cup Holders(k)
     /\ UNCHANGED <<request, given_up, answer>>

End(c) ==
  /\ request' = [request EXCEPT ![c] = NoKey]
  /\ served' = served \ {c}
  /\ given_up' = given_up \ {c}
  /\ UNCHANGED <<objects, overtaken>>

(* Mutant of Return: a put does not wait for the reply.                    *)
Return_early(c) ==
  /\ request[c] # NoKey /\ c \notin given_up
  /\ answer' = [answer EXCEPT ![c] = "ok"]
  /\ End(c)

(* The reply arrives, and put returns Ok.                                  *)
Return(c) ==
  /\ c \in served \ given_up
  /\ answer' = [answer EXCEPT ![c] = "ok"]
  /\ End(c)

(* It does not, and put returns an error, or nobody listens.  A request    *)
(* that has not been carried out may still be.                             *)
GiveUp(c) ==
  /\ request[c] # NoKey /\ c \notin given_up
  /\ \E result \in {"none", map_error("no reply")} :
       answer' = [answer EXCEPT ![c] = result]
  /\ IF c \in served
     THEN End(c)
     ELSE /\ given_up' = given_up \cup {c}
          /\ UNCHANGED <<objects, request, served, overtaken>>

(* A request that was given up is over, carried out or not.                *)
Forget(c) ==
  /\ c \in given_up
  /\ End(c)
  /\ UNCHANGED answer

delete(k) ==
  /\ objects[k] # NoObject
  /\ objects' = [objects EXCEPT ![k] = NoObject]
  /\ overtaken' = overtaken \cup Holders(k)
  /\ UNCHANGED <<requests, answer>>

Next ==
  \/ \E c \in Clients :
       \/ \E k \in Keys : put(c, k)
       \/ Serve(c) \/ Return(c) \/ GiveUp(c) \/ Forget(c)
  \/ \E k \in Keys : delete(k)

=============================================================================
