---------------------------- MODULE StorageKeys ----------------------------
(***************************************************************************)
(* Which texts are keys of objects (crates/storage/src/local.rs), and what *)
(* the two backends call an object.  The local one joins a valid key to    *)
(* its root and leaves the rest to the file system; the S3 one (s3.rs)     *)
(* validates nothing and lets the object_store library make a path.        *)
(*                                                                         *)
(* "a" stands for the characters of a name, "\\" for those no key may have.*)
(***************************************************************************)
EXTENDS Text

CONSTANT MaxKey  \* 512 bytes

Here == <<".">>
Up == <<".", ".">>
Outside == <<"outside">>  \* what is not below the root

(* Mutant of validate_key: only a leading `..' is refused.                 *)
validate_key_leading(key) ==
  /\ key # <<>> /\ key[1] # "/" /\ Len(key) <= MaxKey
  /\ ToSet(key) \subseteq {"a", "/", "."}
  /\ Split(key, "/")[1] # Up
  /\ <<>> \notin ToSet(Split(key, "/"))

validate_key(key) ==
  /\ key # <<>> /\ key[1] # "/" /\ Len(key) <= MaxKey
  /\ ToSet(key) \subseteq {"a", "/", "."}
  /\ {Up, <<>>} \cap ToSet(Split(key, "/")) = {}

(* Where the file system ends up below the root; it goes up at `..'.       *)
Walk(key) ==
  FoldLeft(LAMBDA path, segment :
             CASE segment \in {Here, <<>>} -> path
               [] segment = Up             -> IF path = <<>> THEN <<Outside>>
                                              ELSE Front(path)
               [] OTHER                    -> Append(path, segment),
           <<>>, Split(key, "/"))

resolve_path(key) == IF validate_key(key) THEN {Walk(key)} ELSE {}

(* ObjectPath::from: empty segments go, `.' and `..' are percent-encoded.  *)
path(key) ==
  LET Encoded(segment) ==
        CASE segment = Here -> <<"%2E">>
          [] segment = Up   -> <<"%2E", "%2E">>
          [] OTHER          -> segment
      segments == Without(Split(key, "/"), <<>>)
  IN [i \in DOMAIN segments |-> Encoded(segments[i])]

=============================================================================
