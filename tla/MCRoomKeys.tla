------------------------------ MODULE MCRoomKeys ------------------------------
(***************************************************************************)
(* RoomKeys for TLC: two events, one before and one after the index that   *)
(* some of the keys begin with.                                            *)
(***************************************************************************)
EXTENDS RoomKeys

MCIndexOf == [e \in Events |-> IF e = "early" THEN 1 ELSE 3]

=============================================================================
