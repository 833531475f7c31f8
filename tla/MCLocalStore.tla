---------------------------- MODULE MCLocalStore ----------------------------
(***************************************************************************)
(* Instances of LocalStore: keys and body sizes.                           *)
(***************************************************************************)
EXTENDS LocalStore, TLC

CONSTANTS c1, c2

(* Two nested keys, and one in a directory of its own.                     *)
SomeKeys == {<<"drive">>, <<"drive", "a">>, <<"doc", "b">>}

NestedKeys == {<<"drive">>, <<"drive", "a">>}

OneSize == c1 :> 1
TwoSizes == c1 :> 1 @@ c2 :> 2

=============================================================================
