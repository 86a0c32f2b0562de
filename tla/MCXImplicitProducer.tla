------------------------ MODULE MCXImplicitProducer ------------------------
(***************************************************************************)
(* Instances of XImplicitProducer for TLC.                                 *)
(***************************************************************************)
EXTENDS XImplicitProducer

(* all that is claimed of consumers and blocks is the same for each of them *)
Symmetry == Permutations(Consumers) \cup Permutations(Blocks)
=============================================================================
