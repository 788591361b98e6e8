--------------------- MODULE MCPushNotificationService ---------------------
(***************************************************************************)
(* PushNotificationService for TLC.  Events are only compared with each    *)
(* other, so the safety runs may permute them.                             *)
(***************************************************************************)
EXTENDS PushNotificationService, TLC

EventSymmetry == Permutations(Events)

=============================================================================
