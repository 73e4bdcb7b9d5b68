---------------------------- MODULE MCCoordinator ----------------------------
(* FairCoordinator with every script callable at any moment. *)
EXTENDS FairCoordinator, TLC

Symmetry == Permutations(TurnTokens)
==============================================================================
