----------------------- MODULE MCNotificationService -----------------------
(***************************************************************************)
(* NotificationService for TLC: which events are pushed in each run.       *)
(***************************************************************************)
EXTENDS NotificationService, TLC

CONSTANTS e1, e2, e3

\* A verification request in the clear beside two encrypted messages, alike,
\* that compete for the sync.
BurstEvents == {e1, e2, e3}
BurstKind == [e \in BurstEvents |->
                IF e = e1 THEN "verification" ELSE "message"]
BurstEncrypted == {e2, e3}
BurstSymmetry == Permutations(BurstEncrypted)

\* An encrypted message beside a call in the clear; and two pushes in the
\* clear that the user wants to see.
PairEvents == {e1, e2}
PairKind == [e \in PairEvents |-> IF e = e1 THEN "message" ELSE "call"]
PairEncrypted == {e1}
WantedKind == [e \in PairEvents |->
                 IF e = e1 THEN "verification" ELSE "call"]
NothingEncrypted == {}

=============================================================================
