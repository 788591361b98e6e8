----------------------- MODULE PushNotificationStore -----------------------
(***************************************************************************)
(* The keychain entries the application and the notification service       *)
(* extension share (PushNotificationStore.swift), and the push gateway     *)
(* that carries a VoIP push from one to the other.                         *)
(*                                                                         *)
(* The extension is the only one that may fetch an event in time; the      *)
(* application is the only one that may ring.  For a call invite the       *)
(* extension leaves the event in the single entry lastCallInvite and asks  *)
(* the gateway for a VoIP push, which carries no more than the event's     *)
(* name; the application then looks for the event in the entry.            *)
(***************************************************************************)
EXTENDS Naturals

CONSTANTS
  Events,  \* the events pushed to the device
  NoEvent  \* nil

ASSUME EventAssumption == NoEvent \notin Events

VARIABLES
  pushKitToken,   \* the keychain holds a PushKit token
  lastCallInvite, \* the event in the keychain entry
  gateway         \* the events whose VoIP push is on its way

storeVars == <<pushKitToken, lastCallInvite, gateway>>

StoreTypeOK ==
  /\ pushKitToken \in BOOLEAN
  /\ lastCallInvite \in Events \cup {NoEvent}
  /\ gateway \subseteq Events

\* sendVoipPush.  The request to the gateway may fail; nobody is told.
SendVoipPush(e) ==
  IF pushKitToken
  THEN /\ lastCallInvite' = e
       /\ gateway' \in {gateway, gateway \cup {e}}
       /\ UNCHANGED pushKitToken
  ELSE UNCHANGED storeVars

\* Mutant of Reset: the invite stays.
ResetKeepsInvite ==
  /\ pushKitToken' = FALSE
  /\ UNCHANGED <<lastCallInvite, gateway>>

Reset ==
  /\ pushKitToken' = FALSE
  /\ lastCallInvite' = NoEvent
  /\ UNCHANGED gateway

=============================================================================
