------------------------------ MODULE OlmSession ------------------------------
(***************************************************************************)
(* One Olm session between two devices, as libolm keeps it (session.cpp,   *)
(* ratchet.cpp, list.hh): alice opened it with a one-time key of bob, bob  *)
(* gets it from the first pre-key message that reaches him.  Every change  *)
(* of direction starts a new chain under a new ratchet key; a receiver     *)
(* keeps the last few chains and the keys of the messages it skipped.      *)
(* To-device messages go through the server, which may lose, repeat and    *)
(* reorder them: every message ever sent may arrive at any time.           *)
(*                                                                         *)
(* The cryptography is free of collisions: a root key is the sequence of   *)
(* Diffie-Hellman pairs it was derived with, a chain key is the root key   *)
(* derived beside it and its index, a message key is the chain key it was  *)
(* made from, and a MAC is right under the key of the message only.        *)
(***************************************************************************)
EXTENDS Integers, Sequences

CONSTANTS
  MAX_RECEIVER_CHAINS,        \* 5 in the code
  MAX_SKIPPED_MESSAGE_KEYS,   \* 40
  MAX_MESSAGE_GAP,            \* 2000
  NoSession,                  \* bob before the first pre-key message
  MaxSent                     \* bound: messages each device encrypts

ASSUME LimitsAssumption ==
  /\ MAX_RECEIVER_CHAINS \in Nat \ {0}
  /\ MAX_SKIPPED_MESSAGE_KEYS \in Nat \ {0}
  /\ MAX_MESSAGE_GAP \in Nat
  /\ MaxSent \in Nat

Parties == {"alice", "bob"}

Other(p) == IF p = "alice" THEN "bob" ELSE "alice"

\* A ratchet key is the party that generated it and its number.
RatchetKeys == Parties \X (Nat \ {0})

ChainKeys == [root : Seq(SUBSET RatchetKeys), index : Nat]

Messages ==
  [ratchet_key : RatchetKeys, counter : Nat, key : ChainKeys, pre_key : BOOLEAN]

Chains == [ratchet_key : RatchetKeys, chain_key : ChainKeys]

Ratchets ==
  [root_key : Seq(SUBSET RatchetKeys), sender_chain : Seq(Chains),
   receiver_chains : Seq(Chains), skipped_message_keys : Seq(Chains),
   received_message : BOOLEAN]

ASSUME NoSessionAssumption == NoSession \notin Ratchets

VARIABLES
  session,     \* the session of each device, or NoSession
  generated,   \* how many ratchet keys each device has generated
  sent,        \* the messages each device has encrypted
  read,        \* the messages each device has decrypted
  written,     \* how often each device encrypted
  delivered,   \* how often each device decrypted
  forgotten    \* auxiliary: ratchet key and index of the message keys that
               \* each device dropped from a full list

vars == <<session, generated, sent, read, written, delivered, forgotten>>

TypeOK ==
  /\ session \in [Parties -> Ratchets \cup {NoSession}]
  /\ generated \in [Parties -> Nat]
  /\ sent \in [Parties -> SUBSET Messages]
  /\ read \in [Parties -> SUBSET Messages]
  /\ written \in [Parties -> 0..MaxSent]
  /\ delivered \in [Parties -> Nat]
  /\ forgotten \in [Parties -> SUBSET (RatchetKeys \X Nat)]
  /\ \A p \in Parties : session[p] # NoSession =>
       /\ Len(session[p].sender_chain) <= 1
       /\ Len(session[p].receiver_chains) <= MAX_RECEIVER_CHAINS
       /\ Len(session[p].skipped_message_keys) <= MAX_SKIPPED_MESSAGE_KEYS

-----------------------------------------------------------------------------
(***************************************************************************)
(* list.hh: insert puts an item first and drops the last of a full list.   *)
(***************************************************************************)
\* Mutant of Insert: a full list grows.
InsertAlways(list, item, max) == <<item>> \o list

Insert(list, item, max) ==
  SubSeq(<<item>> \o list, 1, IF Len(list) < max THEN Len(list) + 1 ELSE max)

Erase(list, i) == SubSeq(list, 1, i - 1) \o SubSeq(list, i + 1, Len(list))

Elements(list) == {list[i] : i \in DOMAIN list}

-----------------------------------------------------------------------------
(***************************************************************************)
(* ratchet.cpp: the keys.                                                  *)
(***************************************************************************)
FirstChainKey(root) == [root |-> root, index |-> 0]

\* create_chain_key: the new root key; the first key of the new chain is
\* derived beside it.
NextRoot(root, ourKey, theirKey) == Append(root, {ourKey, theirKey})

Advanced(chainKey, n) == [chainKey EXCEPT !.index = @ + n]

\* The secret of the triple Diffie-Hellman is the empty root key.
AsAlice ==
  [root_key |-> <<>>,
   sender_chain |-> <<[ratchet_key |-> <<"alice", 1>>, chain_key |-> FirstChainKey(<<>>)]>>,
   receiver_chains |-> <<>>, skipped_message_keys |-> <<>>,
   received_message |-> FALSE]

AsBob(theirKey) ==
  [root_key |-> <<>>, sender_chain |-> <<>>,
   receiver_chains |-> <<[ratchet_key |-> theirKey, chain_key |-> FirstChainKey(<<>>)]>>,
   skipped_message_keys |-> <<>>, received_message |-> FALSE]

Init ==
  /\ session = [p \in Parties |-> IF p = "alice" THEN AsAlice ELSE NoSession]
  /\ generated = [p \in Parties |-> IF p = "alice" THEN 1 ELSE 0]
  /\ sent = [p \in Parties |-> {}]
  /\ read = [p \in Parties |-> {}]
  /\ written = [p \in Parties |-> 0]
  /\ delivered = [p \in Parties |-> 0]
  /\ forgotten = [p \in Parties |-> {}]

(***************************************************************************)
(* Session::encrypt.                                                       *)
(***************************************************************************)

\* The session with a chain to send on: a new one answers the newest chain
\* received.
WithSenderChain(s, newKey) ==
  LET root == NextRoot(s.root_key, newKey, s.receiver_chains[1].ratchet_key)
  IN IF s.sender_chain # <<>>
     THEN s
     ELSE [s EXCEPT !.root_key = root,
                    !.sender_chain = <<[ratchet_key |-> newKey,
                                        chain_key |-> FirstChainKey(root)]>>]

MessageOf(s) ==
  LET chain == s.sender_chain[1]
  IN [ratchet_key |-> chain.ratchet_key, counter |-> chain.chain_key.index,
      key |-> chain.chain_key, pre_key |-> ~s.received_message]

\* Mutant of NewKey: the ratchet key of the chain before is used again.
SameKey(p) == <<p, generated[p]>>

NewKey(p) == <<p, generated[p] + 1>>

Encrypt(p) ==
  LET s == WithSenderChain(session[p], NewKey(p)) IN
  /\ session[p] # NoSession
  /\ written[p] < MaxSent
  /\ written' = [written EXCEPT ![p] = @ + 1]
  /\ sent' = [sent EXCEPT ![p] = @ \cup {MessageOf(s)}]
  /\ session' = [session EXCEPT ![p] =
       [s EXCEPT !.sender_chain[1].chain_key = Advanced(@, 1)]]
  /\ generated' = [generated EXCEPT ![p] =
       IF session[p].sender_chain = <<>> THEN @ + 1 ELSE @]
  /\ UNCHANGED <<read, delivered, forgotten>>

(***************************************************************************)
(* Ratchet::decrypt.                                                       *)
(***************************************************************************)
ChainsFor(s, m) ==
  {i \in DOMAIN s.receiver_chains : s.receiver_chains[i].ratchet_key = m.ratchet_key}

\* verify_mac_and_decrypt_for_existing_chain.
ReadsOnChain(chainKey, m) ==
  /\ m.counter >= chainKey.index
  /\ m.counter - chainKey.index <= MAX_MESSAGE_GAP
  /\ Advanced(chainKey, m.counter - chainKey.index) = m.key

\* verify_mac_and_decrypt_for_new_chain.
NewChainKey(s, m) ==
  FirstChainKey(NextRoot(s.root_key, s.sender_chain[1].ratchet_key, m.ratchet_key))

ReadsOnNewChain(s, m) ==
  /\ ChainsFor(s, m) = {}
  /\ s.sender_chain # <<>>
  /\ ReadsOnChain(NewChainKey(s, m), m)

ReadsOnHeldChain(s, m) ==
  \E i \in ChainsFor(s, m) : ReadsOnChain(s.receiver_chains[i].chain_key, m)

\* The places of the message's key in the list of skipped keys, which is searched
\* only when the chain is still there and has gone past the message.
SkippedFor(s, m) ==
  {k \in DOMAIN s.skipped_message_keys :
     /\ \E i \in ChainsFor(s, m) : s.receiver_chains[i].chain_key.index > m.counter
     /\ s.skipped_message_keys[k].ratchet_key = m.ratchet_key
     /\ s.skipped_message_keys[k].chain_key = m.key}

Reads(s, m) ==
  ReadsOnNewChain(s, m) \/ ReadsOnHeldChain(s, m) \/ SkippedFor(s, m) # {}

\* Mutant of WithReceiverChain: the root key stays.
WithReceiverChainOnSameRoot(s, m) ==
  LET chain == [ratchet_key |-> m.ratchet_key, chain_key |-> NewChainKey(s, m)]
  IN IF ChainsFor(s, m) # {}
     THEN s
     ELSE [s EXCEPT !.receiver_chains = Insert(@, chain, MAX_RECEIVER_CHAINS),
                    !.sender_chain = Erase(@, 1)]

\* The chain a message starts is put first; the root key moves on and the chain
\* that was answered is erased.
WithReceiverChain(s, m) ==
  LET chain == [ratchet_key |-> m.ratchet_key, chain_key |-> NewChainKey(s, m)]
  IN IF ChainsFor(s, m) # {}
     THEN s
     ELSE [s EXCEPT
             !.root_key = chain.chain_key.root,
             !.receiver_chains = Insert(@, chain, MAX_RECEIVER_CHAINS),
             !.sender_chain = Erase(@, 1)]

\* Mutant of SkippedKeys: the first message skipped is left out.
SkippedKeysButFirst(chain, m) ==
  [k \in 1..(m.counter - chain.chain_key.index - 1) |->
     [chain EXCEPT !.chain_key = Advanced(@, m.counter - chain.chain_key.index - k)]]

\* The keys of the messages before m are put into the list one by one, so that the
\* newest is first.
SkippedKeys(chain, m) ==
  [k \in 1..(m.counter - chain.chain_key.index) |->
     [chain EXCEPT !.chain_key = Advanced(@, m.counter - chain.chain_key.index - k)]]

AllSkipped(chain, m, s) == SkippedKeys(chain, m) \o s.skipped_message_keys

Kept(list) ==
  SubSeq(list, 1, IF Len(list) < MAX_SKIPPED_MESSAGE_KEYS
                  THEN Len(list) ELSE MAX_SKIPPED_MESSAGE_KEYS)

Dropped(list) ==
  {<<k.ratchet_key, k.chain_key.index>> :
     k \in Elements(SubSeq(list, MAX_SKIPPED_MESSAGE_KEYS + 1, Len(list)))}

\* Mutant of DecryptSkipped: the key stays in the list.
DecryptSkippedKeepsKey(p, m) ==
  /\ session' = [session EXCEPT ![p].received_message = TRUE]
  /\ UNCHANGED forgotten

DecryptSkipped(p, m) ==
  LET s == session[p] IN
  \E k \in SkippedFor(s, m) :
    /\ session' = [session EXCEPT ![p] =
         [s EXCEPT !.skipped_message_keys = Erase(@, k), !.received_message = TRUE]]
    /\ UNCHANGED forgotten

DecryptOnChain(p, s, m) ==
  \E i \in ChainsFor(s, m) :
    LET chain == s.receiver_chains[i]
        all == AllSkipped(chain, m, s)
    IN /\ session' = [session EXCEPT ![p] =
            [s EXCEPT
               !.skipped_message_keys = Kept(all),
               !.receiver_chains[i].chain_key =
                 Advanced(@, m.counter - chain.chain_key.index + 1),
               !.received_message = TRUE]]
       /\ forgotten' = [forgotten EXCEPT ![p] = @ \cup Dropped(all)]

\* The plaintext is handed to the caller.
Deliver(p, m) ==
  /\ read' = [read EXCEPT ![p] = @ \cup {m}]
  /\ delivered' = [delivered EXCEPT ![p] = @ + 1]

Decrypt(p, m) ==
  LET s == session[p] IN
  /\ s # NoSession /\ Reads(s, m)
  /\ IF SkippedFor(s, m) # {}
     THEN DecryptSkipped(p, m)
     ELSE DecryptOnChain(p, WithReceiverChain(s, m), m)
  /\ Deliver(p, m)
  /\ UNCHANGED <<generated, sent, written>>

\* MXOlmDevice createInboundSession: the session is stored even when the message it
\* came with cannot be read.
CreateInbound(m) ==
  LET s == AsBob(m.ratchet_key) IN
  /\ session["bob"] = NoSession
  /\ m.pre_key
  /\ IF Reads(s, m)
     THEN DecryptOnChain("bob", s, m) /\ Deliver("bob", m)
     ELSE /\ session' = [session EXCEPT !["bob"] = s]
          /\ UNCHANGED <<read, delivered, forgotten>>
  /\ UNCHANGED <<generated, sent, written>>

Next ==
  \/ \E p \in Parties : Encrypt(p)
  \/ \E p \in Parties : \E m \in sent[Other(p)] : Decrypt(p, m)
  \/ \E m \in sent["alice"] : CreateInbound(m)

Spec == Init /\ [][Next]_vars

-----------------------------------------------------------------------------
Established(p) == session[p] # NoSession

\* What a message shows of itself: its ratchet key and its counter.
Header(m) == <<m.ratchet_key, m.counter>>

Headers(messages) == {Header(m) : m \in messages}

Channel ==
  INSTANCE OlmChannel WITH
    Messages <- (Parties \X (1..(MaxSent + 1))) \X (0..MaxSent),
    sent <- [p \in Parties |-> Headers(sent[p])],
    read <- [p \in Parties |-> Headers(read[p])]

\* A session implements the channel: no two messages are sent under the same ratchet
\* key and counter, and each is read once, by the other device only, whatever the
\* server does with the messages.
ChannelSpec == Channel!Spec

\* Whatever was lost, repeated or reordered, what a device would write next can be
\* read by the other one, unless more than MAX_MESSAGE_GAP messages of its chain were
\* lost before: no order of deliveries leaves the two root keys apart.
NextMessageIsReadable ==
  \A p \in Parties :
    Established(p) /\ Established(Other(p)) =>
      LET m == MessageOf(WithSenderChain(session[p], NewKey(p)))
          s == session[Other(p)]
          held == {s.receiver_chains[i].chain_key.index : i \in ChainsFor(s, m)}
          from == IF held = {} THEN 0 ELSE CHOOSE i \in held : TRUE
      IN m.counter - from <= MAX_MESSAGE_GAP => Reads(s, m)

\* A message that was not read can still be read, unless its key was dropped from the
\* full list of skipped keys, its chain was dropped from the full list of chains, or
\* too many messages were lost before it.
UnreadIsReadable ==
  \A p \in Parties : Established(p) =>
    \A m \in sent[Other(p)] \ read[p] :
      LET s == session[p] IN
      \/ Reads(s, m)
      \/ <<m.ratchet_key, m.counter>> \in forgotten[p]
      \/ /\ Len(s.receiver_chains) = MAX_RECEIVER_CHAINS
         /\ \A i \in DOMAIN s.receiver_chains :
              s.receiver_chains[i].ratchet_key[2] > m.ratchet_key[2]
      \/ /\ ChainsFor(s, m) = {} /\ m.counter > MAX_MESSAGE_GAP
      \/ \E i \in ChainsFor(s, m) :
           m.counter - s.receiver_chains[i].chain_key.index > MAX_MESSAGE_GAP

\* What was read cannot be read again: its key is gone, so that a device that is
\* taken over later does not give away the messages it read.
ReadKeysAreGone ==
  \A p \in Parties : Established(p) => \A m \in read[p] : ~Reads(session[p], m)

=============================================================================
