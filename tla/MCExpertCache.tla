--------------------------- MODULE MCExpertCache ---------------------------
(***************************************************************************)
(* Values for ExpertCache: three experts over two slots.                   *)
(***************************************************************************)
EXTENDS ExpertCache

CONSTANTS a, b, c

MCKeys == {a, b, c}

MCEnvironments ==
    {[lossy |-> FALSE, racing |-> TRUE, patience |-> 1],
     [lossy |-> TRUE, racing |-> FALSE, patience |-> 1]}
=============================================================================
