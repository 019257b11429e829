--------------------------- MODULE MCKVScheduler ---------------------------
(***************************************************************************)
(* Values for the constants of KVScheduler.  Requests 1 and 2 carry the    *)
(* same prompt; 3 shares their first page (of two tokens) and needs more   *)
(* than one chunk; 4 shares nothing; 5 is as long as the servable maximum  *)
(* and is rejected.  6 and 7 share nothing and, with their output, fill    *)
(* one page of four tokens and half of another.                            *)
(***************************************************************************)
EXTENDS KVScheduler

Prompts == << <<2, 2, 3>>, <<2, 2, 3>>, <<2, 2, 2, 2, 3>>, <<4, 4, 4>>,
              <<5, 5, 5, 5, 5, 5, 5, 5>>, <<6, 6, 6>>, <<7, 7, 7>> >>
MCPrompt == [u \in Uids |-> Prompts[u]]
MCMaxTokens == [u \in Uids |-> <<2, 4, 9, 2, 1, 3, 3>>[u]]
=============================================================================
