------------------------------ MODULE MCAppLock ------------------------------
(***************************************************************************)
(* AppLock for TLC.  The values of the constants are in the .cfg files,    *)
(* one per build configuration.  PINs are only compared with each other,   *)
(* so the safety runs without a list of refused PINs may permute them.     *)
(***************************************************************************)
EXTENDS AppLock, TLC

PinSymmetry == Permutations(Pins)

=============================================================================
