--------------------------- MODULE MCBelongings ---------------------------
(***************************************************************************)
(* Requests, contents, words and cases are alike.                          *)
(***************************************************************************)
EXTENDS Belongings, TLC

Alike == UNION {Permutations(S) : S \in {Requests, Contents, Words, Cases}}
=============================================================================
