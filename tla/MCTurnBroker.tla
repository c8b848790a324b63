---------------------------- MODULE MCTurnBroker ----------------------------
(***************************************************************************)
(* Instances of TurnBroker for TLC.                                        *)
(***************************************************************************)
EXTENDS TurnBroker, TLC

(* Turns are told apart only by what they do.                              *)
TurnSymmetry == Permutations(Turns)
=============================================================================
