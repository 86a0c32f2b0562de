------------------------ MODULE MCXExplicitProducer ------------------------
(***************************************************************************)
(* Instances of XExplicitProducer for TLC.                                 *)
(***************************************************************************)
EXTENDS XExplicitProducer, TLC

ConsumerSymmetry == Permutations(Consumers)
=============================================================================
