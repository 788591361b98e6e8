\* Two call invites.
SPECIFICATION Spec
CONSTANTS
  Events = {e1, e2}
  NoEvent = NoEvent
  ObserverBound = 2
INVARIANTS
  ServiceInv
  PushKitIsHeardInBackground
  PushKitIsSilentWhenActive
  RingsOnce
PROPERTIES
  LogoutForgetsInvites
SYMMETRY EventSymmetry
