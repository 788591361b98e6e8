---------------------------- MODULE MCGroupSession ----------------------------
(***************************************************************************)
(* GroupSession for TLC.                                                   *)
(***************************************************************************)
EXTENDS GroupSession, TLC

InboundSymmetry == Permutations(Inbounds)

=============================================================================
