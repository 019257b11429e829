------------------------- MODULE MCRequestPipeline -------------------------
(***************************************************************************)
(* Mixes of two requests for RequestPipeline: the first one names a stop   *)
(* string, the second one is plain or is rejected on its way.              *)
(***************************************************************************)
EXTENDS RequestPipeline

MCMaxTokens == <<3, 1>>
MCKinds == { <<"stop", k>> : k \in {"plain", "image", "long"} }
=============================================================================
