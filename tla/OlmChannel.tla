------------------------------ MODULE OlmChannel ------------------------------
(***************************************************************************)
(* What an Olm session promises to the two devices that share it: every    *)
(* message is read by the device it was sent to, and by no other, at most  *)
(* once, whatever the server loses, repeats or reorders on the way; no     *)
(* message is written twice; and bob writes nothing before alice has.      *)
(***************************************************************************)
EXTENDS Integers

CONSTANT Messages     \* what may be written

VARIABLES
  sent,        \* what each device has written
  read,        \* what each device has read
  written,     \* how often each device wrote
  delivered    \* how often each device read

vars == <<sent, read, written, delivered>>

Parties == {"alice", "bob"}

Other(p) == IF p = "alice" THEN "bob" ELSE "alice"

Init ==
  /\ sent = [p \in Parties |-> {}]
  /\ read = [p \in Parties |-> {}]
  /\ written = [p \in Parties |-> 0]
  /\ delivered = [p \in Parties |-> 0]

Write(p) ==
  /\ written' = [written EXCEPT ![p] = @ + 1]
  /\ UNCHANGED <<read, delivered>>
  /\ p = "alice" \/ sent["alice"] # {}
  /\ \E m \in Messages \ (sent["alice"] \cup sent["bob"]) :
       sent' = [sent EXCEPT ![p] = @ \cup {m}]

Read(p) ==
  /\ delivered' = [delivered EXCEPT ![p] = @ + 1]
  /\ UNCHANGED <<sent, written>>
  /\ \E m \in sent[Other(p)] \ read[p] :
       read' = [read EXCEPT ![p] = @ \cup {m}]

Next == \E p \in Parties : Write(p) \/ Read(p)

Spec == Init /\ [][Next]_vars

=============================================================================
