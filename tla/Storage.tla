------------------------------ MODULE Storage ------------------------------
(***************************************************************************)
(* club-storage as a service sees it: a backend, chosen once, behind the   *)
(* interface of crates/storage/src/traits.rs.  Both backends are shown to  *)
(* implement ObjectStore.  The variables of LocalStore are here by EXTENDS,*)
(* those of S3Store are shared where they mean the same.                   *)
(***************************************************************************)
EXTENDS LocalStore

CONSTANTS
  NoObject,  \* there is no object
  InPieces,  \* an object that is nobody's body
  NoKey      \* no key

ASSUME StorageAssumption ==
  /\ NoObject \notin Clients \cup {InPieces} /\ InPieces \notin Clients
  /\ NoKey \notin Keys

VARIABLES
  driver,    \* the backend: "local" or "s3"
  objects, request, served, given_up, overtaken, \* see S3Store
  begun      \* history: the keys a put of the local backend has begun on

S3 == INSTANCE S3Store

s3_vars == <<objects, request, served, given_up, overtaken>>
storage_vars == <<driver, vars, s3_vars, begun>>

StorageInit ==
  /\ driver \in {"local", "s3"}
  /\ Init
  /\ S3!Init
  /\ begun = {}

StorageNext ==
  \/ /\ driver = "local" /\ Next
     /\ begun' = begun \cup {target'[c] : c \in {d \in Clients : pc'[d] # "idle"}}
     /\ UNCHANGED <<driver, s3_vars>>
  \/ /\ driver = "s3" /\ S3!Next
     /\ UNCHANGED <<driver, dirs, disk, pc, target, opened, written>>
     /\ UNCHANGED <<mixed, disturbed, faults, begun>>

StorageSpec == StorageInit /\ [][StorageNext]_storage_vars

(* Types of both.                                                          *)
StorageTypeOK ==
  /\ TypeOK
  /\ driver \in {"local", "s3"}
  /\ objects \in [Keys -> Clients \cup {NoObject}]
  /\ request \in [Clients -> Keys \cup {NoKey}]
  /\ served \subseteq Clients /\ given_up \subseteq Clients
  /\ overtaken \subseteq Clients
  /\ begun \subseteq Keys
  /\ \A c \in served \cup given_up : request[c] # NoKey

-----------------------------------------------------------------------------
(* The operations of the interface that read.                              *)

get_answer(k) == IF driver = "local" THEN get(k) ELSE S3!get(k)
exists_answer(k) == IF driver = "local" THEN exists(k) ELSE S3!exists(k)
delete_answers(k) ==
  IF driver = "local" THEN {delete_reply(k)} ELSE S3!delete_answers(k)

(* The object a file is, and the object at k, whatever keeps it.           *)
OnDisk(f) ==
  IF ~f.file THEN NoObject
  ELSE IF \E c \in Clients : f = File(Body(c))
       THEN CHOOSE c \in Clients : f = File(Body(c))
       ELSE InPieces

Object(k) == IF driver = "s3" THEN objects[k] ELSE OnDisk(disk[k])

(* The key of the object the put of c has got hold of.                     *)
Putting(c) ==
  IF driver = "s3" THEN IF c \in served THEN request[c] ELSE NoKey
  ELSE IF pc[c] \in {"write", "late_write", "close"} THEN target[c]
  ELSE NoKey

Interface == INSTANCE ObjectStore WITH
  object    <- [k \in Keys |-> Object(k)],
  putting   <- [c \in Clients |-> Putting(c)],
  disturbed <- IF driver = "s3" THEN overtaken ELSE disturbed

-----------------------------------------------------------------------------
(* Either backend keeps the promise of the interface: objects change only  *)
(* by puts at work on them and deletes, and Ok means stored.               *)
ImplementsObjectStore == Interface!Spec

(* A put has begun on a key that is the directory of k, or lies below k.   *)
Crossed(k) == \E q \in begun : q \in Prefixes(k) \/ k \in Prefixes(q)

(* Either gives the same answers for the same objects, whatever other puts *)
(* have left half done, directories included, until one begins on a key    *)
(* that is the directory of the key or lies below it: exists tells whether *)
(* there is an object, and without one get is a NotFound (traits.rs:9) and *)
(* delete succeeds (traits.rs:32).                                         *)
AnswersAgree ==
  \A k \in Keys : ~Crossed(k) =>
    /\ exists_answer(k) <=> Object(k) # NoObject
    /\ get_answer(k) = IF Object(k) = NoObject THEN "not_found" ELSE "ok"
    /\ delete_answers(k) = {"ok"}

(* A put of the local backend fails because a call of the file system does,*)
(* or because of a put begun on a key that is the directory of its own or  *)
(* lies below it: never because of the directories that earlier puts have  *)
(* made or left behind, of who makes them at the same time, or of a delete.*)
PutsFailForACause ==
  driver = "local" =>
    \A c \in Clients : answer[c] = "backend" => faults > 0 \/ Crossed(target[c])

=============================================================================
