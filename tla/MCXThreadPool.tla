--------------------------- MODULE MCXThreadPool ---------------------------
(***************************************************************************)
(* Instances of XThreadPool for TLC.                                       *)
(***************************************************************************)
EXTENDS XThreadPool

CONSTANTS c1, c2

OneOwner     == [c \in {c1} |-> {"join", "start", "stop", "set", "destroy"}]
JoinAndStop  == [c \in {c1} |-> {"join", "stop"}]
=============================================================================
