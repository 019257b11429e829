--------------------------- MODULE MCLockstepLoop ---------------------------
(***************************************************************************)
(* Values for LockstepLoop: three replicas.  The first gets three requests *)
(* for two rows, the second one, the third none; prompts of one token, of  *)
(* one batch and of two.                                                   *)
(***************************************************************************)
EXTENDS LockstepLoop

MCReplicas == 1 .. 3
MCRequests == 1 .. 4
MCHome == <<1, 1, 1, 2>>
MCPromptLen == <<1, 3, 2, 2>>
=============================================================================
