---------------------------- MODULE MegolmHistory ----------------------------
(***************************************************************************)
(* What the copies of a Megolm session promise: who can read which of the  *)
(* messages of a sender, without a word of ratchets, indexes or keys.      *)
(* Whoever is given the key can read all that is sent from then on and     *)
(* nothing that was sent before; a copy exported at a message can read     *)
(* that message and what its origin can read after it; and reading,        *)
(* whatever is read and in whatever order, neither adds to what can be     *)
(* read nor takes away from it.                                            *)
(***************************************************************************)
EXTENDS Integers

CONSTANT Inbounds     \* the copies that may be made

VARIABLES
  written,     \* how many messages were sent
  holders,     \* the copies that were made
  readable     \* the messages each copy can read

vars == <<written, holders, readable>>

Init ==
  /\ written = 0
  /\ holders = {}
  /\ readable = [s \in Inbounds |-> {}]

Write ==
  /\ written' = written + 1
  /\ readable' = [s \in Inbounds |-> IF s \in holders
                                     THEN readable[s] \cup {written + 1}
                                     ELSE {}]
  /\ UNCHANGED holders

Share(s) ==
  /\ s \notin holders
  /\ holders' = holders \cup {s}
  /\ UNCHANGED <<written, readable>>

Export(s, t, n) ==
  /\ s \in holders /\ t \notin holders
  /\ holders' = holders \cup {t}
  /\ n \in readable[s]
  /\ readable' = [readable EXCEPT ![t] = {m \in readable[s] : m >= n}]
  /\ UNCHANGED written

Next ==
  \/ Write
  \/ \E s \in Inbounds : Share(s)
  \/ \E s, t \in Inbounds, n \in 1..written : Export(s, t, n)

Spec == Init /\ [][Next]_vars

=============================================================================
