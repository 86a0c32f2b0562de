------------------------------- MODULE MCXLog -------------------------------
(***************************************************************************)
(* Instances of XLog for TLC.                                              *)
(***************************************************************************)
EXTENDS XLog

CONSTANTS c1, c2

AllOps    == [c \in Clients |-> Ops]
FatalOnly == [c \in Clients |-> {"fatal"}]
=============================================================================
