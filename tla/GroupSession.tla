----------------------------- MODULE GroupSession -----------------------------
(***************************************************************************)
(* Megolm sessions of libolm: the outbound session of a sender             *)
(* (outbound_group_session.c) and inbound sessions made from it            *)
(* (inbound_group_session.c), either from the key the sender shares or     *)
(* from what another inbound session exports.  An inbound session keeps    *)
(* the first ratchet it got and the latest one it used; a message at or    *)
(* after the latest moves the latest, an older one is read from a copy of  *)
(* the first.                                                              *)
(*                                                                         *)
(* The server hands out every message at any time, in any order and as     *)
(* often as it is asked to: a timeline is paginated backwards, the         *)
(* notification extension reads the same events as the application.        *)
(***************************************************************************)
EXTENDS Megolm, Sequences

CONSTANTS
  Inbounds,      \* the inbound sessions that may be made
  NoSession,     \* no inbound session yet
  MaxMessages,   \* bound: messages the sender encrypts with one session
  SharedAt       \* bound: the numbers of messages sent before a key may be
                 \* shared or exported

\* 2^32 and 2^31.
CounterSize == PartSize * PartSize * PartSize * PartSize
Half == CounterSize \div 2

ASSUME MaxMessagesAssumption == MaxMessages \in Nat /\ MaxMessages < Half

VARIABLES
  outbound,   \* the ratchet of the sender's outbound session
  sent,       \* the messages, each with its index and the ratchet it is under
  inbound     \* each inbound session, or NoSession

vars == <<outbound, sent, inbound>>

Messages == [index : Counters, key : [Parts -> Values]]

Sessions == [initial : Ratchets, latest : Ratchets, verified : BOOLEAN]

ASSUME NoSessionAssumption == NoSession \notin Sessions

TypeOK ==
  /\ outbound \in Ratchets
  /\ sent \in Seq(Messages)
  /\ inbound \in [Inbounds -> Sessions \cup {NoSession}]

Init ==
  /\ outbound = NewRatchet
  /\ sent = <<>>
  /\ inbound = [s \in Inbounds |-> NoSession]

\* Mutant of AtOrAfter: the unsigned difference is taken for a signed one.
AtOrAfterSigned(a, b) == (Number(a) - Number(b)) % CounterSize >= 0

\* Whether the unsigned difference a - b is below 2^31.
AtOrAfter(a, b) == (Number(a) - Number(b)) % CounterSize < Half

\* _get_megolm: the ratchet for an index and what becomes of the session, or
\* OLM_UNKNOWN_MESSAGE_INDEX when it is before the first ratchet.
Refuses(session, index) ==
  /\ ~AtOrAfter(index, session.latest.counter)
  /\ ~AtOrAfter(index, session.initial.counter)

RatchetFor(session, index) ==
  AdvanceTo(IF AtOrAfter(index, session.latest.counter)
            THEN session.latest ELSE session.initial, index)

\* Mutant of AfterLookup: the session keeps one ratchet, which moves.
AfterLookupForgets(session, index) ==
  IF AtOrAfter(index, session.latest.counter)
  THEN [session EXCEPT !.initial = AdvanceTo(session.latest, index),
                       !.latest = AdvanceTo(session.latest, index)]
  ELSE session

AfterLookup(session, index) ==
  IF AtOrAfter(index, session.latest.counter)
  THEN [session EXCEPT !.latest = AdvanceTo(session.latest, index)]
  ELSE session

\* The MAC of a message is right only under the ratchet it was encrypted with.
Reads(session, m) ==
  ~Refuses(session, m.index) /\ RatchetFor(session, m.index).data = m.key

\* Mutant of Imported: the latest ratchet stays as the cleared memory left it,
\* without data.
ImportedWithoutLatest(ratchet, verified) ==
  [initial |-> ratchet,
   latest |-> [counter |-> [k \in Parts |-> 0], data |-> <<>>],
   verified |-> verified]

Imported(ratchet, verified) ==
  [initial |-> ratchet, latest |-> ratchet, verified |-> verified]

Encrypt ==
  /\ Len(sent) < MaxMessages
  /\ sent' = Append(sent, [index |-> outbound.counter, key |-> outbound.data])
  /\ outbound' = Advance(outbound)
  /\ UNCHANGED inbound

\* olm_outbound_group_session_key, then olm_init_inbound_group_session.
ShareKey(s) ==
  /\ inbound[s] = NoSession
  /\ Len(sent) \in SharedAt
  /\ inbound' = [inbound EXCEPT ![s] = Imported(outbound, TRUE)]
  /\ UNCHANGED <<outbound, sent>>

\* olm_export_inbound_group_session at the index of a message, then
\* olm_import_inbound_group_session.
Export(s, t, n) ==
  LET index == sent[n].index IN
  /\ inbound[s] # NoSession /\ inbound[t] = NoSession
  /\ ~Refuses(inbound[s], index)
  /\ inbound' = [inbound EXCEPT
                   ![s] = AfterLookup(@, index),
                   ![t] = Imported([counter |-> index,
                                    data |-> RatchetFor(inbound[s], index).data],
                                   FALSE)]
  /\ UNCHANGED <<outbound, sent>>

\* olm_group_decrypt.  A message that turns out not to have the right MAC has
\* moved the latest ratchet all the same.
Decrypt(s, n) ==
  LET m == sent[n]
      session == inbound[s]
  IN /\ session # NoSession
     /\ ~Refuses(session, m.index)
     /\ inbound' = [inbound EXCEPT ![s] =
          [AfterLookup(session, m.index) EXCEPT
             !.verified = @ \/ Reads(session, m)]]
     /\ UNCHANGED <<outbound, sent>>

Next ==
  \/ Encrypt
  \/ \E s \in Inbounds : ShareKey(s)
  \/ \E s, t \in Inbounds, n \in 1..Len(sent) : n - 1 \in SharedAt /\ Export(s, t, n)
  \/ \E s \in Inbounds, n \in 1..Len(sent) : Decrypt(s, n)

Spec == Init /\ [][Next]_vars

-----------------------------------------------------------------------------
Live == {s \in Inbounds : inbound[s] # NoSession}

\* A session reads every message from its first known index on, in whatever
\* order the messages before were read: the jump of megolm_advance_to from the
\* first or from the latest ratchet ends where the sender came one
\* megolm_advance at a time.
KnownMessagesAreRead ==
  \A s \in Live, n \in 1..Len(sent) :
    ~Less(sent[n].index, inbound[s].initial.counter) => Reads(inbound[s], sent[n])

\* A message before the first known index is not read, however far the session
\* has been used: whoever gets a key is given what follows, not the history.
HistoryIsNotRead ==
  \A s \in Live, n \in 1..Len(sent) :
    Less(sent[n].index, inbound[s].initial.counter) => Refuses(inbound[s], sent[n].index)

\* What a step may never do to a session that exists: its first known index does
\* not move, its latest ratchet does not go back, and it stays verified.
OnlyTheLatestMoves ==
  [][\A s \in Live :
       /\ inbound'[s].initial = inbound[s].initial
       /\ ~Less(inbound'[s].latest.counter, inbound[s].latest.counter)
       /\ inbound[s].verified => inbound'[s].verified]_vars

\* No two messages are encrypted under the same key.
KeysAreFresh ==
  \A m, n \in 1..Len(sent) : m # n => sent[m].key # sent[n].key

\* Reads, as a function: TLC evaluates it once for a session and a message.
CanRead[p \in Sessions \X Messages] == Reads(p[1], p[2])

\* The messages a session can read, as MegolmHistory knows them.
Readable(s) ==
  {n \in 1..Len(sent) : s \in Live /\ CanRead[<<inbound[s], sent[n]>>]}

History ==
  INSTANCE MegolmHistory WITH
    written <- Len(sent),
    holders <- Live,
    readable <- [s \in Inbounds |-> Readable(s)]

\* The ratchets give each copy what it was given the key for, or what its
\* origin reads from some message on, and no order of reading and exporting
\* changes that.
HistorySpec == History!Spec

=============================================================================
