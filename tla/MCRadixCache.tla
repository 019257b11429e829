---------------------------- MODULE MCRadixCache ----------------------------
(***************************************************************************)
(* Streams for RadixCache with pages of two tokens.  The first two part    *)
(* after two pages, the third parts from both in the middle of a page, and *)
(* the last shares nothing.                                                *)
(***************************************************************************)
EXTENDS RadixCache

Symmetry == Permutations(Users)

MCStreams == { <<1, 1, 1, 1, 1, 2>>, <<1, 1, 1, 1, 2, 2, 2>>, <<1, 1, 1, 2, 1>>, <<3, 1, 1>> }
=============================================================================
