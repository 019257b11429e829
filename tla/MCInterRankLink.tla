-------------------------- MODULE MCInterRankLink --------------------------
(***************************************************************************)
(* Values for InterRankLink: three requests, with one other rank (two      *)
(* tensor-parallel ranks) or two.                                          *)
(***************************************************************************)
EXTENDS InterRankLink

MCMessages == {"a", "b", "c"}
=============================================================================
