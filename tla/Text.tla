-------------------------------- MODULE Text --------------------------------
(***************************************************************************)
(* The methods of Rust's str that the library takes texts apart with.  A   *)
(* text is the sequence of its characters.                                 *)
(***************************************************************************)
EXTENDS Integers, SequencesExt

Blanks == {" "}

(* split: the pieces between the separators, empty ones included.          *)
Split(text, separator) ==
  FoldLeft(LAMBDA pieces, c :
             IF c = separator THEN Append(pieces, <<>>)
             ELSE [pieces EXCEPT ![Len(pieces)] = Append(@, c)],
           << <<>> >>, text)

(* Pieces without those that are the given one, as filter and collect make *)
(* it.  (A fold, and not SelectSeq, of which the prover knows nothing.)    *)
Without(pieces, piece) ==
  FoldLeft(LAMBDA kept, p : IF p = piece THEN kept ELSE Append(kept, p),
           <<>>, pieces)

(* trim.                                                                   *)
Trim(text) ==
  LET kept == {i \in DOMAIN text : text[i] \notin Blanks}
  IN IF kept = {} THEN <<>> ELSE SubSeq(text, Min(kept), Max(kept))

=============================================================================
