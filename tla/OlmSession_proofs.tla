--------------------------- MODULE OlmSession_proofs ---------------------------
(***************************************************************************)
(* Theorems about an Olm session for every limit of its lists and of the   *)
(* gap, and any number of messages.                                        *)
(*                                                                         *)
(* KeysOK relates the keys a device holds to the messages it has read; it  *)
(* is kept by each of the three ways to read a message.  HeadersFresh says *)
(* what the headers of a device have in common with its sender chain.  The *)
(* two make the session an implementation of OlmChannel.                   *)
(*                                                                         *)
(* SyncInv, in the second half, relates the two devices to each other:     *)
(* their root keys, the chains of the one to the sender chain of the       *)
(* other, and what was sent to what was read, skipped or forgotten.  From  *)
(* it follows what can still be read.                                      *)
(***************************************************************************)
EXTENDS OlmSession, FiniteSets, FiniteSetTheorems, SequenceTheorems, TLAPS

\* Inserting puts the item first, keeps the order of the others, and respects the limit.
LEMMA InsertIs ==
  ASSUME NEW S, NEW list \in Seq(S), NEW item \in S, NEW max \in Nat \ {0},
         Len(list) <= max
  PROVE  /\ Insert(list, item, max) \in Seq(S)
         /\ Len(Insert(list, item, max)) <= max
         /\ 1 \in DOMAIN Insert(list, item, max)
         /\ Insert(list, item, max)[1] = item
         /\ \A i \in DOMAIN Insert(list, item, max) :
              i # 1 => /\ i - 1 \in DOMAIN list
                       /\ Insert(list, item, max)[i] = list[i - 1]
<1> DEFINE n == IF Len(list) < max THEN Len(list) + 1 ELSE max
           new == <<item>> \o list
<1>1. new \in Seq(S) /\ Len(new) = Len(list) + 1
  OBVIOUS
<1>2. \A i \in 1..Len(new) : new[i] = IF i = 1 THEN item ELSE list[i - 1]
  OBVIOUS
<1>3. n \in 1..Len(new) /\ n <= max
  BY <1>1
<1>4. /\ SubSeq(new, 1, n) \in Seq(S)
      /\ Len(SubSeq(new, 1, n)) = n
      /\ \A i \in 1..n : SubSeq(new, 1, n)[i] = new[i]
  BY <1>1, <1>3
<1>5. Insert(list, item, max) = SubSeq(new, 1, n)
  BY DEF Insert
<1>6. DOMAIN SubSeq(new, 1, n) = 1..n /\ DOMAIN list = 1..Len(list)
  BY <1>4
<1> HIDE DEF new, n
<1> QED BY <1>1, <1>2, <1>3, <1>4, <1>5, <1>6

\* Erasing closes the gap.
LEMMA EraseIs ==
  ASSUME NEW S, NEW list \in Seq(S), NEW k \in DOMAIN list
  PROVE  /\ Erase(list, k) \in Seq(S)
         /\ Len(Erase(list, k)) = Len(list) - 1
         /\ \A i \in DOMAIN Erase(list, k) :
              IF i < k THEN i \in DOMAIN list /\ Erase(list, k)[i] = list[i]
              ELSE i + 1 \in DOMAIN list /\ Erase(list, k)[i] = list[i + 1]
<1> DEFINE a == SubSeq(list, 1, k - 1)
           b == SubSeq(list, k + 1, Len(list))
<1>0. DOMAIN list = 1..Len(list) /\ Len(list) \in Nat /\ k \in 1..Len(list)
  OBVIOUS
<1>1. a \in Seq(S) /\ Len(a) = k - 1 /\ \A i \in 1..(k - 1) : a[i] = list[i]
  BY <1>0
<1>2. b \in Seq(S) /\ Len(b) = Len(list) - k /\ \A i \in 1..(Len(list) - k) : b[i] = list[k + i]
  BY <1>0
<1>3. Erase(list, k) = a \o b
  BY DEF Erase
<1> HIDE DEF a, b
<1>4. /\ a \o b \in Seq(S) /\ Len(a \o b) = Len(a) + Len(b)
      /\ \A i \in 1..(Len(a) + Len(b)) :
            (a \o b)[i] = IF i <= Len(a) THEN a[i] ELSE b[i - Len(a)]
      /\ DOMAIN (a \o b) = 1..Len(a \o b)
  BY <1>1, <1>2
<1>5. DOMAIN (a \o b) = 1..(Len(list) - 1) /\ Len(a \o b) = Len(list) - 1
  BY <1>0, <1>1, <1>2, <1>4
<1>6. \A i \in 1..(Len(list) - 1) : i < k => (a \o b)[i] = list[i]
  BY <1>0, <1>1, <1>2, <1>4
<1>7. \A i \in 1..(Len(list) - 1) : ~(i < k) => (a \o b)[i] = list[i + 1]
  <2> SUFFICES ASSUME NEW i \in 1..(Len(list) - 1), ~(i < k)
               PROVE  (a \o b)[i] = list[i + 1]
    OBVIOUS
  <2>1. (a \o b)[i] = b[i - (k - 1)]
    BY <1>0, <1>1, <1>2, <1>4
  <2>2. i - (k - 1) \in 1..(Len(list) - k) /\ k + (i - (k - 1)) = i + 1
    BY <1>0
  <2> QED BY <1>2, <2>1, <2>2
<1>8. \A i \in 1..(Len(list) - 1) : i \in DOMAIN list /\ i + 1 \in DOMAIN list
  BY <1>0
<1> DEFINE e == Erase(list, k)
<1>9. e = a \o b
  BY <1>3
<1> HIDE DEF e
<1>10. e \in Seq(S) /\ Len(e) = Len(list) - 1 /\ DOMAIN e = 1..(Len(list) - 1)
  BY <1>4, <1>5, <1>9
<1>11. \A i \in DOMAIN e :
        IF i < k THEN i \in DOMAIN list /\ e[i] = list[i]
        ELSE i + 1 \in DOMAIN list /\ e[i] = list[i + 1]
  BY <1>6, <1>7, <1>8, <1>9, <1>10
<1> QED BY <1>10, <1>11 DEF e

\* The list of one that is not empty.
LEMMA OnlyOne ==
  ASSUME NEW S, NEW list \in Seq(S), list # <<>>, Len(list) <= 1
  PROVE  Len(list) = 1 /\ 1 \in DOMAIN list
<1>1. Len(list) \in Nat /\ DOMAIN list = 1..Len(list)
  OBVIOUS
<1>2. Len(list) # 0
  BY EmptySeq
<1>3. \A n \in Nat : n <= 1 /\ n # 0 => n = 1
  OBVIOUS
<1>4. Len(list) = 1
  BY <1>1, <1>2, <1>3, Zenon
<1> QED BY <1>1, <1>4

\* What is kept of a list is its beginning.
LEMMA KeptIs ==
  ASSUME NEW S, NEW list \in Seq(S)
  PROVE  /\ Kept(list) \in Seq(S)
         /\ Len(Kept(list)) <= MAX_SKIPPED_MESSAGE_KEYS
         /\ DOMAIN Kept(list) \subseteq DOMAIN list
         /\ \A i \in DOMAIN Kept(list) : Kept(list)[i] = list[i]
<1> DEFINE n == IF Len(list) < MAX_SKIPPED_MESSAGE_KEYS
                THEN Len(list) ELSE MAX_SKIPPED_MESSAGE_KEYS
<1>1. n \in 0..Len(list) /\ n <= MAX_SKIPPED_MESSAGE_KEYS
  BY LimitsAssumption
<1>2. /\ SubSeq(list, 1, n) \in Seq(S) /\ Len(SubSeq(list, 1, n)) = n
      /\ \A i \in 1..n : SubSeq(list, 1, n)[i] = list[i]
  BY <1>1
<1>3. DOMAIN SubSeq(list, 1, n) = 1..n /\ DOMAIN list = 1..Len(list)
  BY <1>2
<1> HIDE DEF n
<1> QED BY <1>1, <1>2, <1>3 DEF Kept, n

\* Advancing a chain key changes its index only.
LEMMA AdvancedIs ==
  ASSUME NEW key \in ChainKeys, NEW n \in Int, key.index + n \in Nat
  PROVE  /\ Advanced(key, n) \in ChainKeys
         /\ Advanced(key, n).root = key.root
         /\ Advanced(key, n).index = key.index + n
BY DEF Advanced, ChainKeys

\* The list of skipped keys before it is cut: the new ones, newest first, then the old.
LEMMA AllSkippedIs ==
  ASSUME NEW chain \in Chains, NEW m \in Messages, NEW s \in Ratchets,
         NEW n \in Nat, m.counter = chain.chain_key.index + n
  PROVE  /\ AllSkipped(chain, m, s) \in Seq(Chains)
         /\ \A k \in DOMAIN AllSkipped(chain, m, s) :
              IF k <= n
              THEN /\ AllSkipped(chain, m, s)[k].ratchet_key = chain.ratchet_key
                   /\ AllSkipped(chain, m, s)[k].chain_key.root = chain.chain_key.root
                   /\ AllSkipped(chain, m, s)[k].chain_key.index = m.counter - k
              ELSE /\ k - n \in DOMAIN s.skipped_message_keys
                   /\ AllSkipped(chain, m, s)[k] = s.skipped_message_keys[k - n]
<1> DEFINE a == SkippedKeys(chain, m)
           b == s.skipped_message_keys
           key(k) == [chain EXCEPT !.chain_key = Advanced(@, n - k)]
<1>1. /\ m.counter \in Nat /\ chain.chain_key.index \in Nat
      /\ chain.chain_key \in ChainKeys
      /\ m.counter - chain.chain_key.index = n
  BY DEF Messages, Chains, ChainKeys
<1>2. \A k \in 1..n : /\ key(k) \in Chains
                      /\ key(k).ratchet_key = chain.ratchet_key
                      /\ key(k).chain_key.root = chain.chain_key.root
                      /\ key(k).chain_key.index = m.counter - k
  <2> SUFFICES ASSUME NEW k \in 1..n
               PROVE  /\ key(k) \in Chains
                      /\ key(k).ratchet_key = chain.ratchet_key
                      /\ key(k).chain_key.root = chain.chain_key.root
                      /\ key(k).chain_key.index = m.counter - k
    OBVIOUS
  <2>1. /\ Advanced(chain.chain_key, n - k) \in ChainKeys
        /\ Advanced(chain.chain_key, n - k).root = chain.chain_key.root
        /\ Advanced(chain.chain_key, n - k).index = m.counter - k
    BY <1>1, AdvancedIs
  <2> QED BY <2>1 DEF Chains
<1>3. a = [k \in 1..n |-> key(k)]
  BY <1>1 DEF SkippedKeys
<1>5. b \in Seq(Chains)
  BY DEF Ratchets
<1> HIDE DEF key
<1>4. a \in Seq(Chains) /\ Len(a) = n /\ \A k \in 1..n : a[k] = key(k)
  BY <1>2, <1>3
<1> HIDE DEF a, b
<1>6. /\ a \o b \in Seq(Chains) /\ Len(a \o b) = n + Len(b)
      /\ \A k \in 1..(n + Len(b)) : (a \o b)[k] = IF k <= n THEN a[k] ELSE b[k - n]
      /\ DOMAIN (a \o b) = 1..Len(a \o b)
  BY <1>4, <1>5
<1>7. DOMAIN b = 1..Len(b) /\ Len(b) \in Nat
  BY <1>5
<1>8. AllSkipped(chain, m, s) = a \o b
  BY DEF AllSkipped, a, b
<1>9. \A k \in 1..(n + Len(b)) : k <= n => (a \o b)[k] = key(k)
  BY <1>4, <1>6
<1>10. \A k \in 1..(n + Len(b)) : ~(k <= n) => k - n \in 1..Len(b) /\ (a \o b)[k] = b[k - n]
  BY <1>6, <1>7
<1> QED BY <1>2, <1>6, <1>7, <1>8, <1>9, <1>10 DEF b

-----------------------------------------------------------------------------
\* The root key a chain or a message key descends from.
Root(k) == k.chain_key.root

\* The index of the next key of a chain, or of a skipped key.
Index(k) == k.chain_key.index

\* Whatever was derived, was derived from a root key that is not longer than the
\* present one: a root key that comes is new.
RootsBounded(s, rd) ==
  /\ \A m \in rd : Len(m.key.root) <= Len(s.root_key)
  /\ \A i \in DOMAIN s.receiver_chains :
       Len(Root(s.receiver_chains[i])) <= Len(s.root_key)
  /\ \A k \in DOMAIN s.skipped_message_keys :
       Len(Root(s.skipped_message_keys[k])) <= Len(s.root_key)

\* The messages read lie behind the chains that are held.
ReadBehind(s, rd) ==
  \A m \in rd : \A i \in DOMAIN s.receiver_chains :
    m.key.root = Root(s.receiver_chains[i]) =>
      m.key.index < Index(s.receiver_chains[i])

\* No key of a message read is among the skipped ones.
ReadNotSkipped(s, rd) ==
  \A m \in rd : \A k \in DOMAIN s.skipped_message_keys :
    s.skipped_message_keys[k].chain_key # m.key

\* No key is skipped twice.
SkippedDistinct(s) ==
  \A k, l \in DOMAIN s.skipped_message_keys :
    s.skipped_message_keys[k].chain_key = s.skipped_message_keys[l].chain_key => k = l

\* The skipped keys lie behind their chains.
SkippedBehind(s) ==
  \A k \in DOMAIN s.skipped_message_keys : \A i \in DOMAIN s.receiver_chains :
    Root(s.skipped_message_keys[k]) = Root(s.receiver_chains[i]) =>
      Index(s.skipped_message_keys[k]) < Index(s.receiver_chains[i])

\* No two chains descend from one root key or have one ratchet key.
ChainsDistinct(s) ==
  \A i, j \in DOMAIN s.receiver_chains :
    i # j => /\ Root(s.receiver_chains[i]) # Root(s.receiver_chains[j])
             /\ s.receiver_chains[i].ratchet_key # s.receiver_chains[j].ratchet_key

\* The lists respect their limits; there is a chain to answer where none is to send on.
ListsBounded(s) ==
  /\ Len(s.sender_chain) <= 1
  /\ Len(s.receiver_chains) <= MAX_RECEIVER_CHAINS
  /\ Len(s.skipped_message_keys) <= MAX_SKIPPED_MESSAGE_KEYS
  /\ s.sender_chain = <<>> => 1 \in DOMAIN s.receiver_chains

\* The part of the inductive invariant about one device.
KeysOK(s, rd) ==
  /\ RootsBounded(s, rd) /\ ReadBehind(s, rd) /\ ReadNotSkipped(s, rd)
  /\ SkippedDistinct(s) /\ SkippedBehind(s) /\ ChainsDistinct(s)
  /\ ListsBounded(s)

\* The session after a message was read on chain i (DecryptOnChain).
OnChain(s, m, i) ==
  [s EXCEPT
     !.skipped_message_keys = Kept(AllSkipped(s.receiver_chains[i], m, s)),
     !.receiver_chains[i].chain_key =
       Advanced(@, m.counter - s.receiver_chains[i].chain_key.index + 1),
     !.received_message = TRUE]

\* A message that is read on a chain is of its root key, and not behind it.
LEMMA ChainRead ==
  ASSUME NEW key \in ChainKeys, NEW m \in Messages, ReadsOnChain(key, m)
  PROVE  /\ m.counter - key.index \in Nat /\ key.index \in Nat /\ m.counter \in Nat
         /\ m.key.root = key.root /\ m.key.index = m.counter
<1>1. /\ key.index \in Nat /\ m.counter \in Nat
  BY DEF ChainKeys, Messages
<1>2. m.counter - key.index \in Nat
  BY <1>1 DEF ReadsOnChain
<1>3. Advanced(key, m.counter - key.index) = m.key
  BY DEF ReadsOnChain
<1> QED BY <1>1, <1>2, <1>3, AdvancedIs

\* What reading on a chain changes.
LEMMA OnChainIs ==
  ASSUME NEW s \in Ratchets, NEW m \in Messages, NEW i \in DOMAIN s.receiver_chains,
         ReadsOnChain(s.receiver_chains[i].chain_key, m)
  PROVE  /\ OnChain(s, m, i) \in Ratchets
         /\ OnChain(s, m, i).root_key = s.root_key
         /\ OnChain(s, m, i).sender_chain = s.sender_chain
         /\ OnChain(s, m, i).skipped_message_keys =
              Kept(AllSkipped(s.receiver_chains[i], m, s))
         /\ DOMAIN OnChain(s, m, i).receiver_chains = DOMAIN s.receiver_chains
         /\ Len(OnChain(s, m, i).receiver_chains) = Len(s.receiver_chains)
         /\ \A j \in DOMAIN s.receiver_chains :
              j # i => OnChain(s, m, i).receiver_chains[j] = s.receiver_chains[j]
         /\ OnChain(s, m, i).receiver_chains[i].ratchet_key = s.receiver_chains[i].ratchet_key
         /\ Root(OnChain(s, m, i).receiver_chains[i]) = Root(s.receiver_chains[i])
         /\ Index(OnChain(s, m, i).receiver_chains[i]) = m.counter + 1
<1> DEFINE rc == s.receiver_chains
           c == rc[i]
           n == m.counter - c.chain_key.index
           d == [c EXCEPT !.chain_key = Advanced(@, n + 1)]
           sk == Kept(AllSkipped(c, m, s))
           t == OnChain(s, m, i)
<1>1. /\ rc \in Seq(Chains) /\ c \in Chains /\ c.chain_key \in ChainKeys
      /\ c.ratchet_key \in RatchetKeys
  <2>1. rc \in Seq(Chains)
    BY DEF Ratchets
  <2>2. rc[i] \in Chains
    BY <2>1
  <2> QED BY <2>1, <2>2 DEF Chains
<1>2. n \in Nat /\ c.chain_key.index \in Nat /\ m.counter \in Nat
  BY <1>1, ChainRead
<1>3. /\ Advanced(c.chain_key, n + 1) \in ChainKeys
      /\ Advanced(c.chain_key, n + 1).root = c.chain_key.root
      /\ Advanced(c.chain_key, n + 1).index = m.counter + 1
  <2>1. n + 1 \in Int /\ c.chain_key.index + (n + 1) = m.counter + 1 /\ m.counter + 1 \in Nat
    BY <1>2
  <2>2. c.chain_key \in ChainKeys
    BY <1>1
  <2> HIDE DEF n, c
  <2> QED BY <2>1, <2>2, AdvancedIs
<1>4. /\ d \in Chains /\ d.ratchet_key = c.ratchet_key
      /\ Root(d) = Root(c) /\ Index(d) = m.counter + 1
  BY <1>1, <1>3 DEF Chains, Root, Index
<1>5. sk \in Seq(Chains)
  <2>1. AllSkipped(c, m, s) \in Seq(Chains)
    BY <1>1, <1>2, AllSkippedIs
  <2> QED BY <2>1, KeptIs
<1>6. t = [s EXCEPT !.skipped_message_keys = sk, !.receiver_chains = [rc EXCEPT ![i] = d],
                    !.received_message = TRUE]
  BY DEF OnChain, Ratchets
<1> HIDE DEF d, sk, c
<1>7. /\ [rc EXCEPT ![i] = d] \in Seq(Chains)
      /\ DOMAIN [rc EXCEPT ![i] = d] = DOMAIN rc
      /\ Len([rc EXCEPT ![i] = d]) = Len(rc)
      /\ [rc EXCEPT ![i] = d][i] = d
      /\ \A j \in DOMAIN rc : j # i => [rc EXCEPT ![i] = d][j] = rc[j]
  BY <1>1, <1>4
<1> DEFINE new == [rc EXCEPT ![i] = d]
<1> HIDE DEF new, t
<1>8. /\ t \in Ratchets /\ t.root_key = s.root_key /\ t.sender_chain = s.sender_chain
      /\ t.skipped_message_keys = sk /\ t.receiver_chains = new
  BY <1>5, <1>6, <1>7 DEF new, Ratchets
<1>9. DOMAIN new = DOMAIN rc /\ Len(new) = Len(rc) /\ new[i] = d
      /\ \A j \in DOMAIN rc : j # i => new[j] = rc[j]
  BY <1>7 DEF new
<1> QED BY <1>4, <1>8, <1>9 DEF t, sk, c

\* Each skipped key afterwards is a new one of the chain, or was there before.
LEMMA AllSkippedOnChain ==
  ASSUME NEW s \in Ratchets, NEW m \in Messages, NEW i \in DOMAIN s.receiver_chains,
         ReadsOnChain(s.receiver_chains[i].chain_key, m)
  PROVE  \A k \in DOMAIN OnChain(s, m, i).skipped_message_keys :
           LET new == OnChain(s, m, i).skipped_message_keys[k] IN
           \/ /\ Root(new) = Root(s.receiver_chains[i])
              /\ Index(new) = m.counter - k
              /\ Index(new) >= Index(s.receiver_chains[i])
              /\ Index(new) < m.counter
           \/ \E l \in DOMAIN s.skipped_message_keys :
                /\ l = k - (m.counter - Index(s.receiver_chains[i]))
                /\ new = s.skipped_message_keys[l]
<1> DEFINE c == s.receiver_chains[i]
           n == m.counter - c.chain_key.index
           all == AllSkipped(c, m, s)
<1>1. c \in Chains /\ c.chain_key \in ChainKeys
  <2>1. s.receiver_chains \in Seq(Chains)
    BY DEF Ratchets
  <2>2. c \in Chains
    BY <2>1
  <2> QED BY <2>2 DEF Chains
<1>2. n \in Nat /\ c.chain_key.index \in Nat /\ m.counter \in Nat
  BY <1>1, ChainRead
<1>3. m.counter = c.chain_key.index + n
  BY <1>2
<1>4. /\ all \in Seq(Chains)
      /\ \A k \in DOMAIN all :
           IF k <= n
           THEN /\ all[k].ratchet_key = c.ratchet_key
                /\ all[k].chain_key.root = c.chain_key.root
                /\ all[k].chain_key.index = m.counter - k
           ELSE /\ k - n \in DOMAIN s.skipped_message_keys
                /\ all[k] = s.skipped_message_keys[k - n]
  BY <1>1, <1>2, <1>3, AllSkippedIs
<1>5. OnChain(s, m, i).skipped_message_keys = Kept(all)
  BY OnChainIs
<1>6. /\ DOMAIN Kept(all) \subseteq DOMAIN all
      /\ \A k \in DOMAIN Kept(all) : Kept(all)[k] = all[k]
      /\ \A k \in DOMAIN all : k \in Nat /\ k >= 1
  BY <1>4, KeptIs
<1> HIDE DEF all
<1> SUFFICES ASSUME NEW k \in DOMAIN Kept(all)
             PROVE  \/ /\ Root(all[k]) = Root(c)
                       /\ Index(all[k]) = m.counter - k
                       /\ Index(all[k]) >= Index(c)
                       /\ Index(all[k]) < m.counter
                    \/ \E l \in DOMAIN s.skipped_message_keys :
                         /\ l = k - (m.counter - Index(c))
                         /\ all[k] = s.skipped_message_keys[l]
  BY <1>5, <1>6
<1>7. k \in DOMAIN all /\ k \in Nat /\ k >= 1
  BY <1>6
<1>8. CASE k <= n
  BY <1>2, <1>4, <1>7, <1>8 DEF Root, Index
<1>9. CASE ~(k <= n)
  <2>1. k - n \in DOMAIN s.skipped_message_keys /\ all[k] = s.skipped_message_keys[k - n]
    BY <1>4, <1>7, <1>9
  <2> QED BY <2>1 DEF Index
<1> QED BY <1>8, <1>9

\* Reading on a chain keeps the invariant of the keys.
LEMMA OnChainKeepsKeys ==
  ASSUME NEW s \in Ratchets, NEW rd \in SUBSET Messages, KeysOK(s, rd),
         NEW m \in Messages, NEW i \in DOMAIN s.receiver_chains,
         ReadsOnChain(s.receiver_chains[i].chain_key, m)
  PROVE  /\ OnChain(s, m, i) \in Ratchets
         /\ KeysOK(OnChain(s, m, i), rd \cup {m})
<1> DEFINE t == OnChain(s, m, i)
           rc == s.receiver_chains
           new == t.receiver_chains
           old == s.skipped_message_keys
           sk == t.skipped_message_keys
           n == m.counter - Index(rc[i])
<1>1. /\ t \in Ratchets /\ t.root_key = s.root_key /\ t.sender_chain = s.sender_chain
      /\ DOMAIN new = DOMAIN rc /\ Len(new) = Len(rc)
      /\ \A j \in DOMAIN rc : j # i => new[j] = rc[j]
      /\ new[i].ratchet_key = rc[i].ratchet_key
      /\ Root(new[i]) = Root(rc[i]) /\ Index(new[i]) = m.counter + 1
  BY OnChainIs
<1>2. \A k \in DOMAIN sk :
        \/ /\ Root(sk[k]) = Root(rc[i])
           /\ Index(sk[k]) = m.counter - k
           /\ Index(sk[k]) >= Index(rc[i])
           /\ Index(sk[k]) < m.counter
        \/ \E l \in DOMAIN old : l = k - n /\ sk[k] = old[l]
  BY AllSkippedOnChain
<1>3. /\ rc \in Seq(Chains) /\ rc[i] \in Chains /\ rc[i].chain_key \in ChainKeys
      /\ \A j \in DOMAIN rc : Index(rc[j]) \in Nat
      /\ s.root_key \in Seq(SUBSET RatchetKeys)
      /\ \A k \in DOMAIN sk : Index(sk[k]) \in Nat /\ k \in Int
      /\ \A k \in DOMAIN old : Index(old[k]) \in Nat /\ k \in Int
  <2>1. rc \in Seq(Chains) /\ s.root_key \in Seq(SUBSET RatchetKeys)
    BY DEF Ratchets
  <2>2. \A j \in DOMAIN rc : rc[j] \in Chains
    BY <2>1
  <2>3. sk \in Seq(Chains) /\ old \in Seq(Chains)
    BY <1>1 DEF Ratchets
  <2>4. \A k \in DOMAIN sk : sk[k] \in Chains /\ k \in Int
    BY <2>3
  <2>5. \A k \in DOMAIN old : old[k] \in Chains /\ k \in Int
    BY <2>3
  <2>6. \A c \in Chains : c.chain_key \in ChainKeys /\ Index(c) \in Nat
    BY DEF Chains, ChainKeys, Index
  <2> QED BY <2>1, <2>2, <2>4, <2>5, <2>6
<1>4. /\ m.counter \in Nat /\ m.key.root = Root(rc[i]) /\ m.key.index = m.counter
      /\ m.counter >= Index(rc[i])
  BY <1>3, ChainRead DEF Root, Index
<1>5. n \in Nat
  BY <1>3, <1>4
<1>7. Len(sk) <= MAX_SKIPPED_MESSAGE_KEYS
  <2>1. rc[i].chain_key.index \in Nat /\ m.counter - rc[i].chain_key.index \in Nat
        /\ m.counter = rc[i].chain_key.index + (m.counter - rc[i].chain_key.index)
    BY <1>3, <1>4, <1>5 DEF Index
  <2>2. AllSkipped(rc[i], m, s) \in Seq(Chains)
    BY <1>3, <2>1, AllSkippedIs
  <2>3. sk = Kept(AllSkipped(rc[i], m, s))
    BY OnChainIs
  <2> QED BY <2>2, <2>3, KeptIs
<1> HIDE DEF t, rc, new, old, sk, n
<1> USE DEF rc, old
<1>8. RootsBounded(t, rd \cup {m})
  BY <1>1, <1>2, <1>4 DEF KeysOK, RootsBounded, new, sk
<1>9. ReadBehind(t, rd \cup {m})
  <2> SUFFICES ASSUME NEW r \in rd \cup {m}, NEW j \in DOMAIN rc,
                      r.key.root = Root(new[j])
               PROVE  r.key.index < Index(new[j])
    BY <1>1 DEF ReadBehind, new
  <2>1. CASE r = m
    <3>1. j = i
      BY <1>1, <1>4, <2>1 DEF KeysOK, ChainsDistinct
    <3> QED BY <1>1, <1>4, <2>1, <3>1
  <2>2. CASE r \in rd
    <3>1. r.key.index < Index(rc[j])
      BY <1>1, <2>2 DEF KeysOK, ReadBehind
    <3>2. r.key.index \in Nat
      BY <2>2 DEF Messages, ChainKeys
    <3>3. CASE j = i
      BY <1>1, <1>3, <1>4, <3>1, <3>2, <3>3
    <3>4. CASE j # i
      BY <1>1, <3>1, <3>4
    <3> QED BY <3>3, <3>4
  <2> QED BY <2>1, <2>2
<1>10. ReadNotSkipped(t, rd \cup {m})
  <2> SUFFICES ASSUME NEW r \in rd \cup {m}, NEW k \in DOMAIN sk,
                      sk[k].chain_key = r.key
               PROVE  FALSE
    BY DEF ReadNotSkipped, sk
  <2>1. Root(sk[k]) = r.key.root /\ Index(sk[k]) = r.key.index
    BY DEF Root, Index
  <2>2. CASE /\ Root(sk[k]) = Root(rc[i])
             /\ Index(sk[k]) >= Index(rc[i]) /\ Index(sk[k]) < m.counter
    <3>1. r # m
      BY <1>4, <2>1, <2>2
    <3>2. r \in rd /\ r.key.index \in Nat
      BY <3>1 DEF Messages, ChainKeys
    <3>3. r.key.index < Index(rc[i])
      BY <2>1, <2>2, <3>2 DEF KeysOK, ReadBehind
    <3> QED BY <1>3, <2>1, <2>2, <3>2, <3>3
  <2>3. CASE \E l \in DOMAIN old : sk[k] = old[l]
    <3>1. PICK l \in DOMAIN old : sk[k] = old[l]
      BY <2>3
    <3>2. Root(old[l]) = Root(rc[i]) => Index(old[l]) < Index(rc[i])
      BY DEF KeysOK, SkippedBehind
    <3>3. Index(old[l]) \in Nat /\ Index(rc[i]) \in Nat
      BY <1>3
    <3>4. r # m
      BY <1>4, <2>1, <3>1, <3>2, <3>3
    <3> QED BY <3>1, <3>4 DEF KeysOK, ReadNotSkipped
  <2> QED BY <1>2, <2>2, <2>3
<1>11. SkippedDistinct(t)
  <2> SUFFICES ASSUME NEW k \in DOMAIN sk, NEW l \in DOMAIN sk,
                      sk[k].chain_key = sk[l].chain_key
               PROVE  k = l
    BY DEF SkippedDistinct, sk
  <2>1. Root(sk[k]) = Root(sk[l]) /\ Index(sk[k]) = Index(sk[l])
    BY DEF Root, Index
  <2>2. \A a \in DOMAIN old : Root(old[a]) = Root(rc[i]) => Index(old[a]) < Index(rc[i])
    BY DEF KeysOK, SkippedBehind
  <2>3. \A a, b \in DOMAIN old : old[a].chain_key = old[b].chain_key => a = b
    BY DEF KeysOK, SkippedDistinct
  <2> DEFINE New(a) == /\ Root(sk[a]) = Root(rc[i]) /\ Index(sk[a]) = m.counter - a
                       /\ Index(sk[a]) >= Index(rc[i])
             Old(a) == \E b \in DOMAIN old : b = a - n /\ sk[a] = old[b]
  <2>4. \A a \in DOMAIN sk : New(a) \/ Old(a)
    BY <1>2
  <2>5. \A a, b \in DOMAIN sk : New(a) /\ Old(b) =>
          ~(Root(sk[a]) = Root(sk[b]) /\ Index(sk[a]) = Index(sk[b]))
    BY <1>3, <2>2
  <2>6. CASE New(k) /\ New(l)
    <3>1. m.counter - k = m.counter - l
      BY <2>1, <2>6
    <3>2. m.counter \in Int /\ k \in Int /\ l \in Int
      BY <1>3, <1>4
    <3> QED BY <3>1, <3>2
  <2>7. CASE Old(k) /\ Old(l)
    BY <1>3, <1>5, <2>3, <2>7
  <2> QED BY <2>1, <2>4, <2>5, <2>6, <2>7
<1>12. SkippedBehind(t)
  <2> SUFFICES ASSUME NEW k \in DOMAIN sk, NEW j \in DOMAIN rc,
                      Root(sk[k]) = Root(new[j])
               PROVE  Index(sk[k]) < Index(new[j])
    BY <1>1 DEF SkippedBehind, sk, new
  <2>1. CASE Root(sk[k]) = Root(rc[i]) /\ Index(sk[k]) < m.counter
    <3>1. j = i
      BY <1>1, <2>1 DEF KeysOK, ChainsDistinct
    <3> QED BY <1>1, <1>3, <1>4, <2>1, <3>1
  <2>2. CASE \E l \in DOMAIN old : sk[k] = old[l]
    <3>1. Index(sk[k]) < Index(rc[j])
      BY <1>1, <2>2 DEF KeysOK, SkippedBehind
    <3>2. CASE j = i
      BY <1>1, <1>3, <1>4, <3>1, <3>2
    <3>3. CASE j # i
      BY <1>1, <3>1, <3>3
    <3> QED BY <3>2, <3>3
  <2> QED BY <1>2, <2>1, <2>2
<1>13. ChainsDistinct(t)
  BY <1>1 DEF KeysOK, ChainsDistinct, new
<1>14. ListsBounded(t)
  BY <1>1, <1>7 DEF KeysOK, ListsBounded, new, sk
<1> QED BY <1>1, <1>8, <1>9, <1>10, <1>11, <1>12, <1>13, <1>14 DEF KeysOK, t

\* Starting a receiver chain keeps the invariant of the keys, and the message that
\* starts it is read on it.
LEMMA NewChainKeepsKeys ==
  ASSUME NEW s \in Ratchets, NEW rd \in SUBSET Messages, KeysOK(s, rd),
         NEW m \in Messages, ReadsOnNewChain(s, m)
  PROVE  /\ WithReceiverChain(s, m) \in Ratchets
         /\ KeysOK(WithReceiverChain(s, m), rd)
         /\ 1 \in ChainsFor(WithReceiverChain(s, m), m)
         /\ ReadsOnChain(WithReceiverChain(s, m).receiver_chains[1].chain_key, m)
<1> DEFINE key == NewChainKey(s, m)
           chain == [ratchet_key |-> m.ratchet_key, chain_key |-> key]
           rc == s.receiver_chains
           new == Insert(rc, chain, MAX_RECEIVER_CHAINS)
           none == Erase(s.sender_chain, 1)
           t == WithReceiverChain(s, m)
<1>1. /\ ChainsFor(s, m) = {} /\ s.sender_chain # <<>> /\ ReadsOnChain(key, m)
  BY DEF ReadsOnNewChain
<1>2. /\ s.root_key \in Seq(SUBSET RatchetKeys) /\ s.sender_chain \in Seq(Chains)
      /\ rc \in Seq(Chains) /\ s.skipped_message_keys \in Seq(Chains)
      /\ m.ratchet_key \in RatchetKeys
  BY DEF Ratchets, Messages
<1>3. Len(s.sender_chain) = 1 /\ 1 \in DOMAIN s.sender_chain
  <2>1. Len(s.sender_chain) <= 1
    BY DEF KeysOK, ListsBounded
  <2> QED BY <1>1, <1>2, <2>1, OnlyOne
<1>4. s.sender_chain[1].ratchet_key \in RatchetKeys
  <2>1. s.sender_chain[1] \in Chains
    BY <1>2, <1>3
  <2> QED BY <2>1 DEF Chains
<1>5. /\ key \in ChainKeys /\ key.index = 0
      /\ key.root \in Seq(SUBSET RatchetKeys) /\ Len(key.root) = Len(s.root_key) + 1
  <2> DEFINE pair == {s.sender_chain[1].ratchet_key, m.ratchet_key}
             root == Append(s.root_key, pair)
  <2>1. pair \in SUBSET RatchetKeys
    BY <1>2, <1>4
  <2> HIDE DEF pair
  <2>2. root \in Seq(SUBSET RatchetKeys) /\ Len(root) = Len(s.root_key) + 1
    BY <1>2, <2>1
  <2>3. key = [root |-> root, index |-> 0]
    BY DEF NewChainKey, FirstChainKey, NextRoot, pair
  <2> HIDE DEF root, key
  <2> QED BY <2>2, <2>3 DEF ChainKeys
<1> HIDE DEF key
<1>6. chain \in Chains /\ Root(chain) = key.root /\ Index(chain) = 0
  BY <1>2, <1>5 DEF Chains, Root, Index
<1> HIDE DEF chain
<1>7. /\ new \in Seq(Chains) /\ Len(new) <= MAX_RECEIVER_CHAINS /\ 1 \in DOMAIN new
      /\ new[1] = chain
      /\ \A i \in DOMAIN new : i # 1 => i - 1 \in DOMAIN rc /\ new[i] = rc[i - 1]
  <2>1. Len(rc) <= MAX_RECEIVER_CHAINS /\ MAX_RECEIVER_CHAINS \in Nat \ {0}
    BY LimitsAssumption DEF KeysOK, ListsBounded
  <2>2. rc \in Seq(Chains) /\ chain \in Chains
    BY <1>2, <1>6
  <2> HIDE DEF rc
  <2> QED BY <2>1, <2>2, InsertIs
<1>8. none \in Seq(Chains) /\ Len(none) = 0
  <2>1. none \in Seq(Chains) /\ Len(none) = Len(s.sender_chain) - 1
    BY <1>2, <1>3, EraseIs
  <2> QED BY <1>3, <2>1
<1> HIDE DEF new, none, rc
<1>9. t = [s EXCEPT !.root_key = key.root, !.receiver_chains = new, !.sender_chain = none]
  BY <1>1 DEF WithReceiverChain, chain, key, new, none, rc
<1> HIDE DEF t
<1>10. /\ t \in Ratchets /\ t.root_key = key.root /\ t.receiver_chains = new
       /\ t.sender_chain = none /\ t.skipped_message_keys = s.skipped_message_keys
  BY <1>5, <1>7, <1>8, <1>9 DEF Ratchets
<1>11. Len(s.root_key) \in Nat
  BY <1>2
<1>12. /\ \A r \in rd : Len(r.key.root) \in Nat
       /\ \A i \in DOMAIN rc : Len(Root(rc[i])) \in Nat /\ i \in Int
       /\ \A i \in DOMAIN new : i \in Int
       /\ \A k \in DOMAIN s.skipped_message_keys : Len(Root(s.skipped_message_keys[k])) \in Nat
  <2>1. \A c \in Chains : Len(Root(c)) \in Nat
    BY DEF Chains, ChainKeys, Root
  <2>2. \A k \in ChainKeys : Len(k.root) \in Nat
    BY DEF ChainKeys
  <2>3. \A r \in rd : r.key \in ChainKeys
    BY DEF Messages
  <2>4. rc \in Seq(Chains)
    BY <1>2 DEF rc
  <2>5. \A i \in DOMAIN rc : rc[i] \in Chains /\ i \in Int
    BY <2>4
  <2>6. \A i \in DOMAIN new : i \in Int
    BY <1>7
  <2>7. \A i \in DOMAIN s.skipped_message_keys : s.skipped_message_keys[i] \in Chains
    BY <1>2
  <2> QED BY <2>1, <2>2, <2>3, <2>5, <2>6, <2>7
<1>13. /\ \A r \in rd : Len(r.key.root) <= Len(s.root_key)
       /\ \A i \in DOMAIN rc : Len(Root(rc[i])) <= Len(s.root_key)
       /\ \A k \in DOMAIN s.skipped_message_keys :
            Len(Root(s.skipped_message_keys[k])) <= Len(s.root_key)
  BY DEF KeysOK, RootsBounded, rc
<1>14. /\ \A r \in rd : r.key.root # key.root
       /\ \A i \in DOMAIN rc : Root(rc[i]) # key.root
       /\ \A k \in DOMAIN s.skipped_message_keys : Root(s.skipped_message_keys[k]) # key.root
  BY <1>5, <1>11, <1>12, <1>13
<1>15. RootsBounded(t, rd)
  <2>1. \A r \in rd : Len(r.key.root) <= Len(t.root_key)
    BY <1>5, <1>10, <1>11, <1>12, <1>13
  <2>2. \A i \in DOMAIN new : Len(Root(new[i])) <= Len(t.root_key)
    <3> SUFFICES ASSUME NEW i \in DOMAIN new
                 PROVE  Len(Root(new[i])) <= Len(t.root_key)
      OBVIOUS
    <3>1. CASE i = 1
      BY <1>5, <1>6, <1>7, <1>10, <1>11, <3>1
    <3>2. CASE i # 1
      BY <1>5, <1>7, <1>10, <1>11, <1>12, <1>13, <3>2
    <3> QED BY <3>1, <3>2
  <2>3. \A k \in DOMAIN s.skipped_message_keys :
          Len(Root(s.skipped_message_keys[k])) <= Len(t.root_key)
    BY <1>5, <1>10, <1>11, <1>12, <1>13
  <2> QED BY <1>10, <2>1, <2>2, <2>3 DEF RootsBounded
<1>16. ReadBehind(t, rd)
  BY <1>6, <1>7, <1>10, <1>14 DEF KeysOK, ReadBehind, rc
<1>17. ReadNotSkipped(t, rd) /\ SkippedDistinct(t)
  BY <1>10 DEF KeysOK, ReadNotSkipped, SkippedDistinct
<1>18. SkippedBehind(t)
  BY <1>6, <1>7, <1>10, <1>14 DEF KeysOK, SkippedBehind, rc
<1>19. ChainsDistinct(t)
  <2>1. \A i \in DOMAIN rc : rc[i].ratchet_key # m.ratchet_key
    BY <1>1 DEF ChainsFor, rc
  <2>2. \A i \in DOMAIN new : i # 1 =>
          Root(new[i]) # Root(chain) /\ new[i].ratchet_key # chain.ratchet_key
    BY <1>6, <1>7, <1>14, <2>1 DEF chain
  <2>3. \A i, j \in DOMAIN rc : i # j => /\ Root(rc[i]) # Root(rc[j])
                                         /\ rc[i].ratchet_key # rc[j].ratchet_key
    BY DEF KeysOK, ChainsDistinct, rc
  <2> SUFFICES ASSUME NEW i \in DOMAIN new, NEW j \in DOMAIN new, i # j
               PROVE  Root(new[i]) # Root(new[j]) /\ new[i].ratchet_key # new[j].ratchet_key
    BY <1>10 DEF ChainsDistinct
  <2>4. CASE i = 1 \/ j = 1
    BY <1>7, <2>2, <2>4
  <2>5. CASE i # 1 /\ j # 1
    <3>1. /\ i - 1 \in DOMAIN rc /\ new[i] = rc[i - 1]
          /\ j - 1 \in DOMAIN rc /\ new[j] = rc[j - 1] /\ i - 1 # j - 1
      BY <1>7, <1>12, <2>5
    <3> QED BY <2>3, <3>1
  <2> QED BY <2>4, <2>5
<1>20. ListsBounded(t)
  BY <1>7, <1>8, <1>10 DEF KeysOK, ListsBounded
<1>21. 1 \in ChainsFor(t, m) /\ t.receiver_chains[1].chain_key = key
  BY <1>7, <1>10 DEF ChainsFor, chain
<1> QED BY <1>1, <1>10, <1>15, <1>16, <1>17, <1>18, <1>19, <1>20, <1>21 DEF KeysOK, t

\* Reading under a skipped key keeps the invariant of the keys.
LEMMA SkippedKeepsKeys ==
  ASSUME NEW s \in Ratchets, NEW rd \in SUBSET Messages, KeysOK(s, rd),
         NEW m \in Messages, NEW k \in SkippedFor(s, m)
  PROVE  LET t == [s EXCEPT !.skipped_message_keys = Erase(@, k), !.received_message = TRUE]
         IN t \in Ratchets /\ KeysOK(t, rd \cup {m})
<1> DEFINE old == s.skipped_message_keys
           sk == Erase(old, k)
           t == [s EXCEPT !.skipped_message_keys = sk, !.received_message = TRUE]
<1>1. old \in Seq(Chains) /\ k \in DOMAIN old /\ old[k].chain_key = m.key /\ k \in Int
      /\ \A l \in DOMAIN old : l \in Int
  <2>1. old \in Seq(Chains)
    BY DEF Ratchets
  <2>2. k \in DOMAIN old /\ old[k].chain_key = m.key
    BY DEF SkippedFor
  <2> QED BY <2>1, <2>2
<1>2. /\ sk \in Seq(Chains) /\ Len(sk) = Len(old) - 1
      /\ \A i \in DOMAIN sk : IF i < k THEN i \in DOMAIN old /\ sk[i] = old[i]
                              ELSE i + 1 \in DOMAIN old /\ sk[i] = old[i + 1]
  BY <1>1, EraseIs
<1> HIDE DEF sk
<1>3. /\ t \in Ratchets /\ t.skipped_message_keys = sk /\ t.root_key = s.root_key
      /\ t.receiver_chains = s.receiver_chains /\ t.sender_chain = s.sender_chain
  BY <1>2 DEF Ratchets
<1>4. \A i \in DOMAIN sk : i \in Int /\ \E j \in DOMAIN old :
        j # k /\ sk[i] = old[j] /\ j = (IF i < k THEN i ELSE i + 1)
  <2> SUFFICES ASSUME NEW i \in DOMAIN sk
               PROVE  i \in Int /\ \E j \in DOMAIN old :
                        j # k /\ sk[i] = old[j] /\ j = (IF i < k THEN i ELSE i + 1)
    OBVIOUS
  <2>1. i \in Int
    BY <1>2
  <2>2. CASE i < k
    BY <1>1, <1>2, <2>1, <2>2
  <2>3. CASE ~(i < k)
    BY <1>1, <1>2, <2>1, <2>3
  <2> QED BY <2>1, <2>2, <2>3
<1> HIDE DEF old
<1>5. Root(old[k]) = m.key.root /\ Index(old[k]) = m.key.index
  BY <1>1 DEF Root, Index
<1>6. KeysOK(s, rd) /\ old = s.skipped_message_keys
  BY DEF old
<1> HIDE DEF t
<1>7. RootsBounded(t, rd \cup {m})
  BY <1>1, <1>3, <1>4, <1>5, <1>6 DEF KeysOK, RootsBounded
<1>8. ReadBehind(t, rd \cup {m})
  BY <1>1, <1>3, <1>5, <1>6 DEF KeysOK, ReadBehind, SkippedBehind
<1>9. ReadNotSkipped(t, rd \cup {m})
  BY <1>1, <1>3, <1>4, <1>6 DEF KeysOK, ReadNotSkipped, SkippedDistinct
<1>10. SkippedDistinct(t)
  <2> SUFFICES ASSUME NEW a \in DOMAIN sk, NEW b \in DOMAIN sk,
                      sk[a].chain_key = sk[b].chain_key
               PROVE  a = b
    BY <1>3 DEF SkippedDistinct
  <2>1. PICK x \in DOMAIN old : x # k /\ sk[a] = old[x] /\ x = (IF a < k THEN a ELSE a + 1)
    BY <1>4
  <2>2. PICK y \in DOMAIN old : y # k /\ sk[b] = old[y] /\ y = (IF b < k THEN b ELSE b + 1)
    BY <1>4
  <2>3. x = y
    BY <1>6, <2>1, <2>2 DEF KeysOK, SkippedDistinct
  <2>4. a \in Int /\ b \in Int
    BY <1>4
  <2> QED BY <1>1, <2>1, <2>2, <2>3, <2>4
<1>11. SkippedBehind(t)
  BY <1>3, <1>4, <1>6 DEF KeysOK, SkippedBehind
<1>12. ChainsDistinct(t)
  BY <1>3, <1>6 DEF KeysOK, ChainsDistinct
<1>13. ListsBounded(t)
  <2>1. Len(old) \in Nat /\ MAX_SKIPPED_MESSAGE_KEYS \in Nat
    BY <1>1, LimitsAssumption
  <2> QED BY <1>2, <1>3, <1>6, <2>1 DEF KeysOK, ListsBounded
<1> QED BY <1>3, <1>7, <1>8, <1>9, <1>10, <1>11, <1>12, <1>13 DEF KeysOK, t, sk, old

\* Under the invariant of the keys what was read cannot be read again.
LEMMA ReadIsGone ==
  ASSUME NEW s \in Ratchets, NEW rd \in SUBSET Messages, KeysOK(s, rd), NEW m \in rd
  PROVE  ~Reads(s, m)
<1>1. m \in Messages
  OBVIOUS
<1>2. ASSUME ReadsOnNewChain(s, m) PROVE FALSE
  <2>1. WithReceiverChain(s, m) \in Ratchets
        /\ KeysOK(WithReceiverChain(s, m), rd)
        /\ 1 \in ChainsFor(WithReceiverChain(s, m), m)
        /\ ReadsOnChain(WithReceiverChain(s, m).receiver_chains[1].chain_key, m)
    BY <1>2, NewChainKeepsKeys
  <2> DEFINE t == WithReceiverChain(s, m)
  <2> HIDE DEF t
  <2>2. t \in Ratchets /\ KeysOK(t, rd) /\ 1 \in DOMAIN t.receiver_chains
        /\ ReadsOnChain(t.receiver_chains[1].chain_key, m)
    BY <2>1 DEF t, ChainsFor
  <2>3. t.receiver_chains[1].chain_key \in ChainKeys
    <3>1. t.receiver_chains \in Seq(Chains)
      BY <2>2 DEF Ratchets
    <3>2. t.receiver_chains[1] \in Chains
      BY <2>2, <3>1
    <3> QED BY <3>2 DEF Chains
  <2>4. /\ m.key.root = Root(t.receiver_chains[1]) /\ m.key.index = m.counter
        /\ m.counter >= Index(t.receiver_chains[1])
        /\ m.counter \in Nat /\ Index(t.receiver_chains[1]) \in Nat
    BY <2>2, <2>3, ChainRead DEF Root, Index
  <2>5. m.key.index < Index(t.receiver_chains[1])
    BY <2>2, <2>4 DEF KeysOK, ReadBehind
  <2> QED BY <2>4, <2>5
<1>3. ASSUME ReadsOnHeldChain(s, m) PROVE FALSE
  <2>1. PICK i \in ChainsFor(s, m) : ReadsOnChain(s.receiver_chains[i].chain_key, m)
    BY <1>3 DEF ReadsOnHeldChain
  <2>2. i \in DOMAIN s.receiver_chains
    BY DEF ChainsFor
  <2>3. s.receiver_chains[i].chain_key \in ChainKeys
    <3>1. s.receiver_chains \in Seq(Chains)
      BY DEF Ratchets
    <3>2. s.receiver_chains[i] \in Chains
      BY <2>2, <3>1
    <3> QED BY <3>2 DEF Chains
  <2>4. /\ m.key.root = Root(s.receiver_chains[i]) /\ m.key.index = m.counter
        /\ m.counter >= Index(s.receiver_chains[i])
        /\ m.counter \in Nat /\ Index(s.receiver_chains[i]) \in Nat
    BY <2>1, <2>3, ChainRead DEF Root, Index
  <2>5. m.key.index < Index(s.receiver_chains[i])
    BY <2>2, <2>4 DEF KeysOK, ReadBehind
  <2> QED BY <2>4, <2>5
<1>4. SkippedFor(s, m) = {}
  BY DEF SkippedFor, KeysOK, ReadNotSkipped
<1> QED BY <1>2, <1>3, <1>4 DEF Reads

\* Encrypting keeps the invariant of the keys; the header is the next one of the chain.
LEMMA EncryptKeepsKeys ==
  ASSUME NEW s \in Ratchets, NEW rd \in SUBSET Messages, KeysOK(s, rd),
         NEW key \in RatchetKeys
  PROVE  LET t == WithSenderChain(s, key)
             u == [t EXCEPT !.sender_chain[1].chain_key = Advanced(@, 1)]
         IN /\ MessageOf(t) \in Messages
            /\ MessageOf(t).ratchet_key = t.sender_chain[1].ratchet_key
            /\ MessageOf(t).counter = Index(t.sender_chain[1])
            /\ IF s.sender_chain = <<>>
               THEN t.sender_chain[1].ratchet_key = key /\ Index(t.sender_chain[1]) = 0
               ELSE t = s
            /\ u \in Ratchets /\ KeysOK(u, rd)
            /\ u.sender_chain[1].ratchet_key = t.sender_chain[1].ratchet_key
            /\ Index(u.sender_chain[1]) = Index(t.sender_chain[1]) + 1
<1> DEFINE t == WithSenderChain(s, key)
           c == t.sender_chain[1]
           d == [c EXCEPT !.chain_key = Advanced(@, 1)]
           u == [t EXCEPT !.sender_chain[1].chain_key = Advanced(@, 1)]
           pair == {key, s.receiver_chains[1].ratchet_key}
           root == NextRoot(s.root_key, key, s.receiver_chains[1].ratchet_key)
           new == [ratchet_key |-> key, chain_key |-> FirstChainKey(root)]
<1>1. /\ s.root_key \in Seq(SUBSET RatchetKeys) /\ s.sender_chain \in Seq(Chains)
      /\ s.receiver_chains \in Seq(Chains) /\ s.skipped_message_keys \in Seq(Chains)
  BY DEF Ratchets
<1>2. ASSUME s.sender_chain = <<>>
      PROVE  /\ root \in Seq(SUBSET RatchetKeys) /\ Len(root) = Len(s.root_key) + 1
             /\ new \in Chains /\ Index(new) = 0
             /\ t = [s EXCEPT !.root_key = root, !.sender_chain = <<new>>]
  <2>1. 1 \in DOMAIN s.receiver_chains
    BY <1>2 DEF KeysOK, ListsBounded
  <2>2. s.receiver_chains[1] \in Chains
    BY <1>1, <2>1
  <2>3. pair \in SUBSET RatchetKeys
    BY <2>2 DEF Chains
  <2> HIDE DEF pair
  <2>4. root \in Seq(SUBSET RatchetKeys) /\ Len(root) = Len(s.root_key) + 1
    BY <1>1, <2>3 DEF NextRoot, pair
  <2> HIDE DEF root
  <2>5. FirstChainKey(root) \in ChainKeys /\ FirstChainKey(root).index = 0
    BY <2>4 DEF FirstChainKey, ChainKeys
  <2>6. new \in Chains /\ Index(new) = 0
    BY <2>5 DEF Chains, Index
  <2>7. t = [s EXCEPT !.root_key = root, !.sender_chain = <<new>>]
    BY <1>2 DEF WithSenderChain, root
  <2> QED BY <2>4, <2>6, <2>7
<1>3. s.sender_chain # <<>> => t = s
  BY DEF WithSenderChain
<1> HIDE DEF root
<1>4. /\ t \in Ratchets /\ t.sender_chain \in Seq(Chains) /\ 1 \in DOMAIN t.sender_chain
      /\ Len(t.sender_chain) <= 1 /\ t.receiver_chains = s.receiver_chains
      /\ t.skipped_message_keys = s.skipped_message_keys
      /\ Len(s.root_key) <= Len(t.root_key)
      /\ IF s.sender_chain = <<>> THEN c = new ELSE t = s
  <2>1. CASE s.sender_chain = <<>>
    <3> HIDE DEF new, t
    <3>1. <<new>> \in Seq(Chains) /\ Len(<<new>>) = 1 /\ 1 \in DOMAIN <<new>> /\ <<new>>[1] = new
      BY <1>2, <2>1
    <3> DEFINE one == <<new>>
    <3> HIDE DEF one
    <3>2. one \in Seq(Chains) /\ Len(one) = 1 /\ 1 \in DOMAIN one /\ one[1] = new
      BY <3>1 DEF one
    <3>3. t = [s EXCEPT !.root_key = root, !.sender_chain = one]
      BY <1>2, <2>1 DEF one
    <3>4. /\ t \in Ratchets /\ t.sender_chain = one /\ t.root_key = root
          /\ t.receiver_chains = s.receiver_chains
          /\ t.skipped_message_keys = s.skipped_message_keys
      BY <1>2, <2>1, <3>2, <3>3 DEF Ratchets
    <3>5. Len(s.root_key) \in Nat
      BY <1>1
    <3>6. Len(s.root_key) <= Len(t.root_key)
      BY <1>2, <2>1, <3>4, <3>5
    <3>7. Len(t.sender_chain) <= 1
      BY <3>2, <3>4
    <3> QED BY <2>1, <3>2, <3>4, <3>6, <3>7
  <2>2. CASE s.sender_chain # <<>>
    <3>1. t = s
      BY <1>3, <2>2
    <3>2. Len(s.sender_chain) # 0
      BY <1>1, <2>2, EmptySeq
    <3>3. 1 \in DOMAIN s.sender_chain
      <4> DEFINE sc == s.sender_chain
      <4>1. sc \in Seq(Chains) /\ Len(sc) # 0
        BY <1>1, <3>2
      <4> HIDE DEF sc
      <4> SUFFICES 1 \in DOMAIN sc
        BY DEF sc
      <4> QED BY <4>1
    <3>4. Len(s.root_key) \in Nat
      BY <1>1
    <3> HIDE DEF t
    <3> QED BY <1>1, <2>2, <3>1, <3>3, <3>4 DEF KeysOK, ListsBounded
  <2> QED BY <2>1, <2>2
<1>5. c \in Chains
  BY <1>4
<1> HIDE DEF t, new
<1>6. /\ c.chain_key \in ChainKeys /\ c.ratchet_key \in RatchetKeys
      /\ c.chain_key.index \in Nat
  BY <1>5 DEF Chains, ChainKeys
<1>7. /\ Advanced(c.chain_key, 1) \in ChainKeys
      /\ Advanced(c.chain_key, 1).index = c.chain_key.index + 1
  BY <1>6, AdvancedIs
<1>8. d \in Chains /\ d.ratchet_key = c.ratchet_key /\ Index(d) = Index(c) + 1
  BY <1>5, <1>6, <1>7 DEF Chains, Index
<1>9. /\ MessageOf(t) \in Messages /\ MessageOf(t).ratchet_key = c.ratchet_key
      /\ MessageOf(t).counter = Index(c)
  <2>1. t.received_message \in BOOLEAN
    BY <1>4 DEF Ratchets
  <2>2. MessageOf(t) = [ratchet_key |-> c.ratchet_key, counter |-> c.chain_key.index,
                        key |-> c.chain_key, pre_key |-> ~t.received_message]
    BY DEF MessageOf
  <2> HIDE DEF c
  <2> QED BY <1>6, <2>1, <2>2 DEF Messages, Index
<1> DEFINE sc == [t.sender_chain EXCEPT ![1] = d]
<1>10. u = [t EXCEPT !.sender_chain = sc]
  BY <1>4 DEF Ratchets
<1> HIDE DEF d
<1>11. sc \in Seq(Chains) /\ Len(sc) = Len(t.sender_chain) /\ 1 \in DOMAIN sc /\ sc[1] = d
  BY <1>4, <1>8
<1> HIDE DEF sc, u
<1>12. /\ u \in Ratchets /\ u.sender_chain = sc /\ u.root_key = t.root_key
       /\ u.receiver_chains = s.receiver_chains
       /\ u.skipped_message_keys = s.skipped_message_keys
  BY <1>4, <1>10, <1>11 DEF Ratchets
<1>13. RootsBounded(u, rd)
  <2>1. Len(s.root_key) \in Nat /\ Len(t.root_key) \in Nat
    BY <1>1, <1>4 DEF Ratchets
  <2>2. \A c0 \in Chains : Len(Root(c0)) \in Nat
    BY DEF Chains, ChainKeys, Root
  <2>3. \A m \in rd : Len(m.key.root) \in Nat
    BY DEF Messages, ChainKeys
  <2>4. /\ \A i \in DOMAIN s.receiver_chains : s.receiver_chains[i] \in Chains
        /\ \A i \in DOMAIN s.skipped_message_keys : s.skipped_message_keys[i] \in Chains
    BY <1>1
  <2> QED BY <1>4, <1>12, <2>1, <2>2, <2>3, <2>4 DEF KeysOK, RootsBounded
<1>14. ListsBounded(u)
  <2>1. sc # <<>>
    BY <1>11
  <2> QED BY <1>4, <1>11, <1>12, <2>1 DEF KeysOK, ListsBounded
<1>15. KeysOK(u, rd)
  BY <1>12, <1>13, <1>14
     DEF KeysOK, ReadBehind, ReadNotSkipped, SkippedDistinct, SkippedBehind, ChainsDistinct
<1>16. IF s.sender_chain = <<>> THEN c.ratchet_key = key /\ Index(c) = 0 ELSE t = s
  BY <1>2, <1>4 DEF new
<1> QED BY <1>8, <1>9, <1>11, <1>12, <1>15, <1>16 DEF u, t

\* What is dropped from the skipped keys is well typed.
LEMMA DroppedType ==
  ASSUME NEW list \in Seq(Chains)
  PROVE  Dropped(list) \subseteq RatchetKeys \X Nat
<1> DEFINE max == MAX_SKIPPED_MESSAGE_KEYS
           rest == SubSeq(list, max + 1, Len(list))
<1>1. max \in Nat /\ Len(list) \in Nat
  BY LimitsAssumption
<1>2. \A i \in DOMAIN rest : rest[i] \in Chains
  <2> HIDE DEF max
  <2>1. rest \in Seq(Chains)
    BY <1>1
  <2> HIDE DEF rest
  <2> QED BY <2>1
<1>3. \A c \in Chains : c.ratchet_key \in RatchetKeys /\ c.chain_key.index \in Nat
  BY DEF Chains, ChainKeys
<1>4. Dropped(list) = {<<k.ratchet_key, k.chain_key.index>> :
                         k \in {rest[i] : i \in DOMAIN rest}}
  BY DEF Dropped, Elements
<1> HIDE DEF rest
<1> QED BY <1>2, <1>3, <1>4

\* Reading on a new or a held chain keeps the invariant of the keys.
LEMMA ReadOnChain ==
  ASSUME NEW s \in Ratchets, NEW rd \in SUBSET Messages, KeysOK(s, rd),
         NEW m \in Messages, ReadsOnNewChain(s, m) \/ ReadsOnHeldChain(s, m),
         NEW i \in ChainsFor(WithReceiverChain(s, m), m)
  PROVE  LET t == WithReceiverChain(s, m)
             u == OnChain(t, m, i)
         IN /\ u \in Ratchets /\ KeysOK(u, rd \cup {m})
            /\ AllSkipped(t.receiver_chains[i], m, t) \in Seq(Chains)
            /\ u.sender_chain # <<>> => u.sender_chain = s.sender_chain
<1> DEFINE t == WithReceiverChain(s, m)
           u == OnChain(t, m, i)
<1>1. /\ t \in Ratchets /\ KeysOK(t, rd)
      /\ \E j \in ChainsFor(t, m) : ReadsOnChain(t.receiver_chains[j].chain_key, m)
      /\ t.sender_chain # <<>> => t.sender_chain = s.sender_chain
  <2>1. CASE ReadsOnNewChain(s, m)
    <3>1. /\ t \in Ratchets /\ KeysOK(t, rd)
          /\ \E j \in ChainsFor(t, m) : ReadsOnChain(t.receiver_chains[j].chain_key, m)
      BY <2>1, NewChainKeepsKeys
    <3>2. t.sender_chain = Erase(s.sender_chain, 1)
      BY <2>1 DEF ReadsOnNewChain, WithReceiverChain, Ratchets
    <3>3. s.sender_chain \in Seq(Chains) /\ s.sender_chain # <<>> /\ Len(s.sender_chain) <= 1
      BY <2>1 DEF ReadsOnNewChain, Ratchets, KeysOK, ListsBounded
    <3> DEFINE sc == s.sender_chain
    <3>4. sc \in Seq(Chains) /\ sc # <<>> /\ Len(sc) <= 1
      BY <3>3
    <3> HIDE DEF sc
    <3>5. Len(sc) = 1 /\ 1 \in DOMAIN sc
      BY <3>4, OnlyOne
    <3>6. Erase(sc, 1) \in Seq(Chains) /\ Len(Erase(sc, 1)) = Len(sc) - 1
      BY <3>4, <3>5, EraseIs
    <3>7. Erase(sc, 1) = <<>>
      BY <3>5, <3>6, EmptySeq
    <3> QED BY <3>1, <3>2, <3>7 DEF sc
  <2>2. CASE ReadsOnHeldChain(s, m)
    <3>1. t = s
      BY <2>2 DEF ReadsOnHeldChain, WithReceiverChain
    <3> QED BY <2>2, <3>1 DEF ReadsOnHeldChain
  <2> QED BY <2>1, <2>2
<1> HIDE DEF t
<1>2. i \in DOMAIN t.receiver_chains /\ ReadsOnChain(t.receiver_chains[i].chain_key, m)
  <2>1. PICK j \in ChainsFor(t, m) : ReadsOnChain(t.receiver_chains[j].chain_key, m)
    BY <1>1
  <2>2. i \in ChainsFor(t, m)
    BY DEF t
  <2>3. i = j
    BY <1>1, <2>1, <2>2 DEF ChainsFor, KeysOK, ChainsDistinct
  <2> QED BY <2>1, <2>2, <2>3 DEF ChainsFor
<1>3. u \in Ratchets /\ KeysOK(u, rd \cup {m})
  BY <1>1, <1>2, OnChainKeepsKeys
<1>4. u.sender_chain = t.sender_chain
  BY <1>1, <1>2, OnChainIs
<1>5. AllSkipped(t.receiver_chains[i], m, t) \in Seq(Chains)
  <2> DEFINE c == t.receiver_chains[i]
  <2>1. t.receiver_chains \in Seq(Chains)
    BY <1>1 DEF Ratchets
  <2>2. c \in Chains
    BY <1>2, <2>1
  <2>3. c.chain_key \in ChainKeys
    BY <2>2 DEF Chains
  <2>4. /\ m.counter - c.chain_key.index \in Nat /\ c.chain_key.index \in Nat
        /\ m.counter \in Nat
    BY <1>2, <2>3, ChainRead
  <2>5. m.counter = c.chain_key.index + (m.counter - c.chain_key.index)
    BY <2>4
  <2> HIDE DEF c
  <2> QED BY <1>1, <2>2, <2>4, <2>5, AllSkippedIs DEF c
<1> QED BY <1>1, <1>3, <1>4, <1>5 DEF t

-----------------------------------------------------------------------------
\* The headers a device has sent are distinct, and lie behind its sender chain.
HeadersFresh(p) ==
  /\ generated[p] <= written[p] + 1
  /\ \A m \in sent[p] : m.ratchet_key[1] = p /\ m.ratchet_key[2] <= generated[p]
  /\ \A m, n \in sent[p] : Header(m) = Header(n) => m = n
  /\ \A m \in sent[p] :
       Established(p) /\ session[p].sender_chain # <<>>
       /\ m.ratchet_key = session[p].sender_chain[1].ratchet_key =>
         m.counter < Index(session[p].sender_chain[1])
  /\ Established(p) /\ session[p].sender_chain # <<>> =>
       /\ session[p].sender_chain[1].ratchet_key[1] = p
       /\ session[p].sender_chain[1].ratchet_key[2] <= generated[p]
       /\ Index(session[p].sender_chain[1]) <= written[p]

\* Alice opened the session, and bob's is made from a message of hers.
Started ==
  /\ Established("alice")
  /\ Established("bob") => sent["alice"] # {}
  /\ \A p \in Parties : ~Established(p) => read[p] = {}
  /\ \A p \in Parties : read[p] \subseteq sent[Other(p)]

\* The inductive invariant.
IInv ==
  /\ TypeOK
  /\ Started
  /\ \A p \in Parties : Established(p) => KeysOK(session[p], read[p])
  /\ \A p \in Parties : HeadersFresh(p)

\* What TypeOK says of one device.
LEMMA SessionType ==
  ASSUME TypeOK, NEW p \in Parties, Established(p)
  PROVE  session[p] \in Ratchets /\ read[p] \in SUBSET Messages
BY DEF TypeOK, Established

\* Alice's session at first.
LEMMA AsAliceOK ==
  AsAlice \in Ratchets /\ KeysOK(AsAlice, {}) /\ AsAlice.sender_chain # <<>>
  /\ AsAlice.sender_chain[1].ratchet_key = <<"alice", 1>> /\ Index(AsAlice.sender_chain[1]) = 0
<1> DEFINE key == FirstChainKey(<<>>)
           chain == [ratchet_key |-> <<"alice", 1>>, chain_key |-> key]
<1>1. <<>> \in Seq(SUBSET RatchetKeys) /\ <<>> \in Seq(Chains)
  OBVIOUS
<1>2. key \in ChainKeys /\ key.index = 0
  BY <1>1 DEF FirstChainKey, ChainKeys
<1>3. <<"alice", 1>> \in RatchetKeys
  BY DEF RatchetKeys, Parties
<1>4. chain \in Chains /\ Index(chain) = 0
  BY <1>2, <1>3 DEF Chains, Index
<1> HIDE DEF key
<1> DEFINE one == <<chain>>
<1>5. AsAlice = [root_key |-> <<>>, sender_chain |-> one, receiver_chains |-> <<>>,
                 skipped_message_keys |-> <<>>, received_message |-> FALSE]
  BY DEF AsAlice, key
<1>6. one \in Seq(Chains) /\ Len(one) = 1 /\ one # <<>> /\ one[1] = chain
  BY <1>4
<1> HIDE DEF one
<1>7. /\ AsAlice \in Ratchets /\ AsAlice.sender_chain = one
      /\ AsAlice.receiver_chains = <<>> /\ AsAlice.skipped_message_keys = <<>>
  BY <1>1, <1>5, <1>6 DEF Ratchets
<1>8. \A l : l \notin DOMAIN AsAlice.receiver_chains /\ l \notin DOMAIN AsAlice.skipped_message_keys
  BY <1>7
<1>9. ListsBounded(AsAlice)
  <2>1. Len(AsAlice.receiver_chains) = 0 /\ Len(AsAlice.skipped_message_keys) = 0
    BY <1>7, EmptySeq
  <2>2. 0 <= MAX_RECEIVER_CHAINS /\ 0 <= MAX_SKIPPED_MESSAGE_KEYS
    BY LimitsAssumption
  <2>3. Len(AsAlice.sender_chain) = 1 /\ AsAlice.sender_chain # <<>>
    BY <1>6, <1>7
  <2>4. Len(AsAlice.sender_chain) <= 1
    BY <2>3
  <2> QED BY <2>1, <2>2, <2>3, <2>4, Zenon DEF ListsBounded
<1>10. KeysOK(AsAlice, {})
  BY <1>8, <1>9
     DEF KeysOK, RootsBounded, ReadBehind, ReadNotSkipped, SkippedDistinct, SkippedBehind,
         ChainsDistinct
<1> QED BY <1>4, <1>6, <1>7, <1>10

\* Bob's session, when it is made.
LEMMA AsBobOK ==
  ASSUME NEW key \in RatchetKeys
  PROVE  AsBob(key) \in Ratchets /\ KeysOK(AsBob(key), {}) /\ AsBob(key).sender_chain = <<>>
<1> DEFINE first == FirstChainKey(<<>>)
           chain == [ratchet_key |-> key, chain_key |-> first]
           s == AsBob(key)
<1>1. <<>> \in Seq(SUBSET RatchetKeys) /\ <<>> \in Seq(Chains)
  OBVIOUS
<1>2. first \in ChainKeys /\ first.root = <<>>
  BY <1>1 DEF FirstChainKey, ChainKeys
<1>4. chain \in Chains /\ Root(chain) = <<>>
  BY <1>2 DEF Chains, Root
<1> HIDE DEF first
<1> DEFINE one == <<chain>>
<1>5. s = [root_key |-> <<>>, sender_chain |-> <<>>, receiver_chains |-> one,
           skipped_message_keys |-> <<>>, received_message |-> FALSE]
  BY DEF AsBob, first
<1>6. one \in Seq(Chains) /\ Len(one) = 1 /\ DOMAIN one = {1} /\ one[1] = chain
  BY <1>4
<1> HIDE DEF one, s, chain
<1>7. /\ s \in Ratchets /\ s.sender_chain = <<>> /\ s.receiver_chains = one
      /\ s.skipped_message_keys = <<>> /\ s.root_key = <<>>
  BY <1>1, <1>5, <1>6 DEF Ratchets
<1>8. \A l : l \notin DOMAIN s.skipped_message_keys
  BY <1>7
<1>9. ListsBounded(s)
  <2>1. Len(s.sender_chain) = 0 /\ Len(s.skipped_message_keys) = 0
    BY <1>7, EmptySeq
  <2>2. 1 <= MAX_RECEIVER_CHAINS /\ 0 <= MAX_SKIPPED_MESSAGE_KEYS
    BY LimitsAssumption
  <2>3. Len(s.receiver_chains) = 1 /\ 1 \in DOMAIN s.receiver_chains
    BY <1>6, <1>7
  <2>4. Len(s.sender_chain) <= 1
    BY <2>1
  <2> QED BY <2>1, <2>2, <2>3, <2>4, Zenon DEF ListsBounded
<1>10. RootsBounded(s, {})
  BY <1>4, <1>6, <1>7, <1>8 DEF RootsBounded
<1>11. ChainsDistinct(s)
  BY <1>6, <1>7 DEF ChainsDistinct
<1>12. KeysOK(s, {})
  BY <1>8, <1>9, <1>10, <1>11
     DEF KeysOK, ReadBehind, ReadNotSkipped, SkippedDistinct, SkippedBehind
<1> QED BY <1>7, <1>12 DEF s

\* The two devices.
LEMMA PartiesAre ==
  /\ "alice" \in Parties /\ "bob" \in Parties /\ "alice" # "bob"
  /\ \A p \in Parties : p = "alice" \/ p = "bob"
  /\ \A p \in Parties : Other(p) \in Parties /\ Other(p) # p
  /\ Other("bob") = "alice"
BY DEF Parties, Other

\* The invariant holds at first.
LEMMA InitIInv == Init => IInv
<1> SUFFICES ASSUME Init PROVE IInv
  OBVIOUS
<1>1. /\ session["alice"] = AsAlice /\ session["bob"] = NoSession
      /\ \A p \in Parties : sent[p] = {} /\ read[p] = {} /\ written[p] = 0
      /\ generated["alice"] = 1 /\ generated["bob"] = 0
  BY PartiesAre DEF Init
<1>2. Established("alice") /\ ~Established("bob")
  BY <1>1, AsAliceOK, NoSessionAssumption DEF Established
<1>3. TypeOK
  <2>1. 0 \in 0..MaxSent
    BY LimitsAssumption
  <2>2. session \in [Parties -> Ratchets \cup {NoSession}]
    BY AsAliceOK DEF Init
  <2>3. \A p \in Parties : session[p] # NoSession => ListsBounded(session[p])
    BY <1>1, PartiesAre, AsAliceOK DEF KeysOK
  <2> QED BY <2>1, <2>2, <2>3 DEF Init, TypeOK, ListsBounded
<1>4. Started
  BY <1>1, <1>2, PartiesAre DEF Started
<1>5. \A p \in Parties : Established(p) => KeysOK(session[p], read[p])
  BY <1>1, <1>2, PartiesAre, AsAliceOK
<1>6. HeadersFresh("alice")
  BY <1>1, <1>2, PartiesAre, AsAliceOK DEF HeadersFresh
<1>7. HeadersFresh("bob")
  BY <1>1, <1>2, PartiesAre DEF HeadersFresh
<1> QED BY <1>3, <1>4, <1>5, <1>6, <1>7, PartiesAre DEF IInv

\* What the others' part of the invariant rests on does not change.
LEMMA OthersUnchanged ==
  ASSUME NEW p \in Parties, NEW q \in Parties, p # q, HeadersFresh(q),
         session'[q] = session[q], generated'[q] = generated[q], sent'[q] = sent[q],
         written'[q] = written[q]
  PROVE  HeadersFresh(q)'
BY DEF HeadersFresh, Established

\* Encrypting keeps the invariant and sends one message under a new header.
LEMMA EncryptStep ==
  ASSUME IInv, NEW p \in Parties, Encrypt(p)
  PROVE  /\ IInv'
         /\ \E m \in Messages :
              /\ sent' = [sent EXCEPT ![p] = @ \cup {m}]
              /\ m.ratchet_key[1] = p /\ m.ratchet_key[2] \in 1..(MaxSent + 1)
              /\ m.counter \in 0..MaxSent
              /\ \A n \in sent[p] : Header(n) # Header(m)
<1> DEFINE s == session[p]
           t == WithSenderChain(s, NewKey(p))
           u == [t EXCEPT !.sender_chain[1].chain_key = Advanced(@, 1)]
           m == MessageOf(t)
<1>0. Established(p)
  BY DEF Encrypt, Established
<1>1. s \in Ratchets /\ read[p] \in SUBSET Messages /\ KeysOK(s, read[p])
  BY <1>0, SessionType DEF IInv
<1>2. /\ generated \in [Parties -> Nat] /\ written \in [Parties -> 0..MaxSent]
      /\ sent \in [Parties -> SUBSET Messages] /\ MaxSent \in Nat
      /\ generated[p] \in Nat /\ written[p] \in Nat /\ written[p] < MaxSent
      /\ generated[p] <= written[p] + 1
  BY LimitsAssumption DEF IInv, TypeOK, HeadersFresh, Encrypt
<1>3. NewKey(p) \in RatchetKeys /\ NewKey(p)[1] = p /\ NewKey(p)[2] = generated[p] + 1
  BY <1>2 DEF NewKey, RatchetKeys
<1>4. /\ m \in Messages /\ m.ratchet_key = t.sender_chain[1].ratchet_key
      /\ m.counter = Index(t.sender_chain[1])
      /\ IF s.sender_chain = <<>>
         THEN t.sender_chain[1].ratchet_key = NewKey(p) /\ Index(t.sender_chain[1]) = 0
         ELSE t = s
      /\ u \in Ratchets /\ KeysOK(u, read[p])
      /\ u.sender_chain[1].ratchet_key = t.sender_chain[1].ratchet_key
      /\ Index(u.sender_chain[1]) = Index(t.sender_chain[1]) + 1
  BY <1>1, <1>3, EncryptKeepsKeys
<1>5. /\ sent' = [sent EXCEPT ![p] = @ \cup {m}]
      /\ session' = [session EXCEPT ![p] = u]
      /\ written' = [written EXCEPT ![p] = @ + 1]
      /\ generated' = [generated EXCEPT ![p] = IF s.sender_chain = <<>> THEN @ + 1 ELSE @]
      /\ read' = read /\ delivered' = delivered /\ forgotten' = forgotten
  BY DEF Encrypt
<1> HIDE DEF t, u, m
<1>6. /\ m.ratchet_key \in RatchetKeys /\ m.ratchet_key[2] \in Nat \ {0} /\ m.counter \in Nat
      /\ \A n \in sent[p] : n.ratchet_key[2] \in Nat /\ n.counter \in Nat
  BY <1>2, <1>4 DEF Messages, RatchetKeys
<1>7. HeadersFresh(p)
  BY DEF IInv
<1>8. /\ m.ratchet_key[1] = p /\ m.ratchet_key[2] <= written[p] + 2
      /\ m.ratchet_key[2] <= generated'[p]
      /\ m.counter <= written[p]
      /\ \A n \in sent[p] : n.ratchet_key = m.ratchet_key => n.counter < m.counter
  <2>1. CASE s.sender_chain = <<>>
    <3>1. m.ratchet_key = NewKey(p) /\ m.counter = 0 /\ generated'[p] = generated[p] + 1
      BY <1>2, <1>4, <1>5, <2>1
    <3>2. \A n \in sent[p] : n.ratchet_key # m.ratchet_key
      BY <1>2, <1>3, <1>6, <1>7, <3>1 DEF HeadersFresh
    <3> QED BY <1>2, <1>3, <3>1, <3>2
  <2>2. CASE s.sender_chain # <<>>
    <3>1. /\ m.ratchet_key = s.sender_chain[1].ratchet_key
          /\ m.counter = Index(s.sender_chain[1]) /\ generated'[p] = generated[p]
      BY <1>2, <1>4, <1>5, <2>2
    <3> QED BY <1>0, <1>2, <1>6, <1>7, <2>2, <3>1 DEF HeadersFresh
  <2> QED BY <2>1, <2>2
<1>9. \A n \in sent[p] : Header(n) # Header(m)
  BY <1>6, <1>8 DEF Header
<1>10. m.ratchet_key[2] \in 1..(MaxSent + 1) /\ m.counter \in 0..MaxSent
  BY <1>2, <1>6, <1>8
<1>11. /\ session'[p] = u /\ sent'[p] = sent[p] \cup {m} /\ written'[p] = written[p] + 1
       /\ u # NoSession
       /\ \A q \in Parties : q # p =>
            /\ session'[q] = session[q] /\ sent'[q] = sent[q]
            /\ written'[q] = written[q] /\ generated'[q] = generated[q]
  <2>1. session \in [Parties -> Ratchets \cup {NoSession}]
    BY DEF IInv, TypeOK
  <2> QED BY <1>2, <1>4, <1>5, <2>1, NoSessionAssumption
<1>12. TypeOK'
  <2>1. session \in [Parties -> Ratchets \cup {NoSession}]
    BY DEF IInv, TypeOK
  <2>2. session' \in [Parties -> Ratchets \cup {NoSession}]
    BY <1>4, <1>5, <2>1
  <2>3. generated' \in [Parties -> Nat]
    BY <1>2, <1>5
  <2>4. sent' \in [Parties -> SUBSET Messages]
    BY <1>2, <1>4, <1>5
  <2>5. written' \in [Parties -> 0..MaxSent]
    BY <1>2, <1>5
  <2>6. /\ Len(u.sender_chain) <= 1 /\ Len(u.receiver_chains) <= MAX_RECEIVER_CHAINS
        /\ Len(u.skipped_message_keys) <= MAX_SKIPPED_MESSAGE_KEYS
    BY <1>4 DEF KeysOK, ListsBounded
  <2>7. /\ read' \in [Parties -> SUBSET Messages] /\ delivered' \in [Parties -> Nat]
        /\ forgotten' \in [Parties -> SUBSET (RatchetKeys \X Nat)]
    BY <1>5 DEF IInv, TypeOK
  <2>8. \A q \in Parties : session'[q] # NoSession =>
          /\ Len(session'[q].sender_chain) <= 1
          /\ Len(session'[q].receiver_chains) <= MAX_RECEIVER_CHAINS
          /\ Len(session'[q].skipped_message_keys) <= MAX_SKIPPED_MESSAGE_KEYS
    BY <1>11, <2>6 DEF IInv, TypeOK
  <2> QED BY <2>2, <2>3, <2>4, <2>5, <2>7, <2>8 DEF TypeOK
<1>13. Started'
  BY <1>0, <1>5, <1>11, PartiesAre DEF IInv, Started, Established
<1>14. \A q \in Parties : Established(q)' => KeysOK(session'[q], read'[q])
  BY <1>4, <1>5, <1>11 DEF IInv, Established
<1>15. HeadersFresh(p)'
  <2>1. generated'[p] <= written'[p] + 1
    BY <1>2, <1>5, <1>11
  <2>2. \A n \in sent'[p] : n.ratchet_key[1] = p /\ n.ratchet_key[2] <= generated'[p]
    <3>1. generated'[p] \in Nat /\ generated[p] <= generated'[p]
      BY <1>2, <1>5
    <3> QED BY <1>2, <1>6, <1>7, <1>8, <1>11, <3>1 DEF HeadersFresh
  <2>3. \A k, n \in sent'[p] : Header(k) = Header(n) => k = n
    BY <1>7, <1>9, <1>11 DEF HeadersFresh
  <2>4. \A n \in sent'[p] : n.ratchet_key = u.sender_chain[1].ratchet_key =>
          n.counter < Index(u.sender_chain[1])
    <3> SUFFICES ASSUME NEW n \in sent'[p], n.ratchet_key = u.sender_chain[1].ratchet_key
                 PROVE  n.counter < Index(u.sender_chain[1])
      OBVIOUS
    <3>1. n.ratchet_key = m.ratchet_key /\ Index(u.sender_chain[1]) = m.counter + 1
      BY <1>4
    <3>2. n = m \/ (n.counter \in Nat /\ n.counter < m.counter)
      BY <1>6, <1>8, <1>11, <3>1
    <3> QED BY <1>6, <3>1, <3>2
  <2>5. /\ u.sender_chain[1].ratchet_key[1] = p
        /\ u.sender_chain[1].ratchet_key[2] <= generated'[p]
        /\ Index(u.sender_chain[1]) <= written'[p]
    BY <1>2, <1>4, <1>6, <1>8, <1>11
  <2> QED BY <1>11, <2>1, <2>2, <2>3, <2>4, <2>5 DEF HeadersFresh
<1>16. \A q \in Parties : q # p => HeadersFresh(q)'
  BY <1>11, OthersUnchanged DEF IInv
<1>17. IInv'
  BY <1>12, <1>13, <1>14, <1>15, <1>16 DEF IInv
<1> QED BY <1>4, <1>5, <1>8, <1>9, <1>10, <1>17

\* A read that keeps the invariant of the keys keeps the whole invariant.
LEMMA ReadStep ==
  ASSUME IInv, NEW p \in Parties, NEW m \in sent[Other(p)], NEW u \in Ratchets,
         KeysOK(u, read[p] \cup {m}),
         u.sender_chain # <<>> =>
           Established(p) /\ u.sender_chain = session[p].sender_chain,
         p = "bob" => sent["alice"] # {},
         session' = [session EXCEPT ![p] = u],
         read' = [read EXCEPT ![p] = @ \cup {m}],
         delivered' = [delivered EXCEPT ![p] = @ + 1],
         forgotten' \in [Parties -> SUBSET (RatchetKeys \X Nat)],
         UNCHANGED <<generated, sent, written>>
  PROVE  IInv'
<1>1. /\ session \in [Parties -> Ratchets \cup {NoSession}]
      /\ read \in [Parties -> SUBSET Messages] /\ delivered \in [Parties -> Nat]
      /\ sent \in [Parties -> SUBSET Messages] /\ m \in Messages
  BY PartiesAre DEF IInv, TypeOK
<1>2. /\ session'[p] = u /\ read'[p] = read[p] \cup {m} /\ u # NoSession
      /\ \A q \in Parties : q # p => session'[q] = session[q] /\ read'[q] = read[q]
  BY <1>1, NoSessionAssumption
<1>3. TypeOK'
  <2>1. session' \in [Parties -> Ratchets \cup {NoSession}]
    BY <1>1
  <2>2. read' \in [Parties -> SUBSET Messages] /\ delivered' \in [Parties -> Nat]
    BY <1>1
  <2>3. /\ Len(u.sender_chain) <= 1 /\ Len(u.receiver_chains) <= MAX_RECEIVER_CHAINS
        /\ Len(u.skipped_message_keys) <= MAX_SKIPPED_MESSAGE_KEYS
    BY DEF KeysOK, ListsBounded
  <2>4. \A q \in Parties : session'[q] # NoSession =>
          /\ Len(session'[q].sender_chain) <= 1
          /\ Len(session'[q].receiver_chains) <= MAX_RECEIVER_CHAINS
          /\ Len(session'[q].skipped_message_keys) <= MAX_SKIPPED_MESSAGE_KEYS
    BY <1>2, <2>3 DEF IInv, TypeOK
  <2>5. /\ generated' \in [Parties -> Nat] /\ sent' \in [Parties -> SUBSET Messages]
        /\ written' \in [Parties -> 0..MaxSent]
    BY DEF IInv, TypeOK
  <2> QED BY <2>1, <2>2, <2>4, <2>5 DEF TypeOK
<1>4. Started'
  <2>1. \A q \in Parties : read'[q] \subseteq sent'[Other(q)]
    BY <1>2 DEF IInv, Started
  <2>2. \A q \in Parties : ~(session'[q] # NoSession) => read'[q] = {}
    BY <1>2 DEF IInv, Started, Established
  <2>3. session'["alice"] # NoSession
    BY <1>2, PartiesAre DEF IInv, Started, Established
  <2>4. session'["bob"] # NoSession => sent'["alice"] # {}
    BY <1>2, PartiesAre DEF IInv, Started, Established
  <2> QED BY <2>1, <2>2, <2>3, <2>4 DEF Started, Established
<1>5. \A q \in Parties : Established(q)' => KeysOK(session'[q], read'[q])
  BY <1>2 DEF IInv, Established
<1>6. HeadersFresh(p)'
  <2>1. HeadersFresh(p)
    BY DEF IInv
  <2> QED BY <1>2, <2>1 DEF HeadersFresh, Established
<1>7. \A q \in Parties : q # p => HeadersFresh(q)'
  <2> SUFFICES ASSUME NEW q \in Parties, q # p PROVE HeadersFresh(q)'
    OBVIOUS
  <2>1. HeadersFresh(q)
    BY DEF IInv
  <2> QED BY <1>2, <2>1, OthersUnchanged
<1> QED BY <1>3, <1>4, <1>5, <1>6, <1>7 DEF IInv

\* Reading on a chain keeps the invariant.
LEMMA OnChainStep ==
  ASSUME IInv, NEW p \in Parties, NEW m \in sent[Other(p)], NEW s \in Ratchets,
         KeysOK(s, read[p]), ReadsOnNewChain(s, m) \/ ReadsOnHeldChain(s, m),
         s.sender_chain # <<>> => Established(p) /\ s.sender_chain = session[p].sender_chain,
         p = "bob" => sent["alice"] # {},
         DecryptOnChain(p, WithReceiverChain(s, m), m), Deliver(p, m),
         UNCHANGED <<generated, sent, written>>
  PROVE  IInv'
<1> DEFINE t == WithReceiverChain(s, m)
<1>1. m \in Messages /\ read[p] \in SUBSET Messages
      /\ forgotten \in [Parties -> SUBSET (RatchetKeys \X Nat)]
  BY PartiesAre DEF IInv, TypeOK
<1>2. PICK i \in ChainsFor(t, m) :
        /\ session' = [session EXCEPT ![p] = OnChain(t, m, i)]
        /\ forgotten' = [forgotten EXCEPT
             ![p] = @ \cup Dropped(AllSkipped(t.receiver_chains[i], m, t))]
  BY DEF DecryptOnChain, OnChain
<1>3. /\ OnChain(t, m, i) \in Ratchets /\ KeysOK(OnChain(t, m, i), read[p] \cup {m})
      /\ AllSkipped(t.receiver_chains[i], m, t) \in Seq(Chains)
      /\ OnChain(t, m, i).sender_chain # <<>> => OnChain(t, m, i).sender_chain = s.sender_chain
  BY <1>1, ReadOnChain
<1>4. forgotten' \in [Parties -> SUBSET (RatchetKeys \X Nat)]
  BY <1>1, <1>2, <1>3, DroppedType
<1> HIDE DEF t
<1>5. read' = [read EXCEPT ![p] = @ \cup {m}] /\ delivered' = [delivered EXCEPT ![p] = @ + 1]
  BY DEF Deliver
<1> DEFINE u == OnChain(t, m, i)
<1>6. /\ u \in Ratchets /\ KeysOK(u, read[p] \cup {m}) /\ session' = [session EXCEPT ![p] = u]
      /\ u.sender_chain # <<>> => Established(p) /\ u.sender_chain = session[p].sender_chain
  BY <1>2, <1>3
<1> HIDE DEF u
<1> QED BY <1>4, <1>5, <1>6, ReadStep

\* Decrypting keeps the invariant, and reads a message that was not read before.
LEMMA DecryptStep ==
  ASSUME IInv, NEW p \in Parties, NEW m \in sent[Other(p)], Decrypt(p, m)
  PROVE  IInv' /\ m \notin read[p]
<1> DEFINE s == session[p]
<1>1. Established(p) /\ Reads(s, m)
  BY DEF Decrypt, Established
<1>2. /\ s \in Ratchets /\ read[p] \in SUBSET Messages /\ KeysOK(s, read[p])
      /\ m \in Messages /\ forgotten \in [Parties -> SUBSET (RatchetKeys \X Nat)]
  BY <1>1, SessionType, PartiesAre DEF IInv, TypeOK
<1>3. m \notin read[p]
  BY <1>1, <1>2, ReadIsGone
<1>4. Deliver(p, m) /\ UNCHANGED <<generated, sent, written>>
  BY DEF Decrypt
<1>5. p = "bob" => sent["alice"] # {}
  BY <1>1 DEF IInv, Started
<1>6. CASE SkippedFor(s, m) # {}
  <2>1. DecryptSkipped(p, m)
    BY <1>6 DEF Decrypt
  <2>2. PICK k \in SkippedFor(s, m) :
          /\ session' = [session EXCEPT ![p] =
               [s EXCEPT !.skipped_message_keys = Erase(@, k), !.received_message = TRUE]]
          /\ UNCHANGED forgotten
    BY <2>1 DEF DecryptSkipped
  <2> DEFINE u == [s EXCEPT !.skipped_message_keys = Erase(@, k), !.received_message = TRUE]
  <2>3. u \in Ratchets /\ KeysOK(u, read[p] \cup {m})
    BY <1>2, SkippedKeepsKeys
  <2>4. u.sender_chain = s.sender_chain
    BY <1>2 DEF Ratchets
  <2>5. session' = [session EXCEPT ![p] = u]
    BY <2>2
  <2> HIDE DEF u
  <2>6. read' = [read EXCEPT ![p] = @ \cup {m}] /\ delivered' = [delivered EXCEPT ![p] = @ + 1]
    BY <1>4 DEF Deliver
  <2> QED BY <1>1, <1>2, <1>3, <1>4, <1>5, <2>2, <2>3, <2>4, <2>5, <2>6, ReadStep
<1>7. CASE SkippedFor(s, m) = {}
  <2>1. DecryptOnChain(p, WithReceiverChain(s, m), m)
    BY <1>7 DEF Decrypt
  <2>2. ReadsOnNewChain(s, m) \/ ReadsOnHeldChain(s, m)
    BY <1>1, <1>7 DEF Reads
  <2> QED BY <1>1, <1>2, <1>3, <1>4, <1>5, <2>1, <2>2, OnChainStep
<1> QED BY <1>3, <1>6, <1>7

\* Making bob's session keeps the invariant, whether its first message is read or not.
LEMMA CreateInboundStep ==
  ASSUME IInv, NEW m \in sent["alice"], CreateInbound(m)
  PROVE  /\ IInv'
         /\ \/ UNCHANGED <<sent, read, written, delivered>>
            \/ /\ Deliver("bob", m) /\ m \notin read["bob"]
               /\ UNCHANGED <<sent, written>>
<1> DEFINE s == AsBob(m.ratchet_key)
<1>1. /\ m \in Messages /\ m.ratchet_key \in RatchetKeys /\ ~Established("bob")
      /\ read["bob"] = {} /\ UNCHANGED <<generated, sent, written>>
      /\ m \in sent[Other("bob")] /\ sent["alice"] # {}
  BY PartiesAre DEF IInv, TypeOK, Started, Established, CreateInbound, Messages
<1>2. s \in Ratchets /\ KeysOK(s, {}) /\ s.sender_chain = <<>>
  BY <1>1, AsBobOK
<1>3. CASE Reads(s, m)
  <2>1. DecryptOnChain("bob", s, m) /\ Deliver("bob", m)
    BY <1>3 DEF CreateInbound
  <2>2. ReadsOnHeldChain(s, m)
    <3>1. ~ReadsOnNewChain(s, m)
      BY <1>2 DEF ReadsOnNewChain
    <3>2. SkippedFor(s, m) = {}
      BY DEF SkippedFor, AsBob
    <3> QED BY <1>3, <3>1, <3>2 DEF Reads
  <2>3. WithReceiverChain(s, m) = s
    BY <2>2 DEF ReadsOnHeldChain, WithReceiverChain
  <2> HIDE DEF s
  <2>4. KeysOK(s, read["bob"]) /\ DecryptOnChain("bob", WithReceiverChain(s, m), m)
    BY <1>1, <1>2, <2>1, <2>3
  <2>5. IInv'
    BY <1>1, <1>2, <2>1, <2>2, <2>4, OnChainStep, PartiesAre
  <2> QED BY <1>1, <2>1, <2>5
<1>4. CASE ~Reads(s, m)
  <2>1. session' = [session EXCEPT !["bob"] = s] /\ UNCHANGED <<read, delivered, forgotten>>
    BY <1>4 DEF CreateInbound
  <2> HIDE DEF s
  <2>2. session \in [Parties -> Ratchets \cup {NoSession}]
    BY DEF IInv, TypeOK
  <2>3. session'["bob"] = s /\ session'["alice"] = session["alice"] /\ s # NoSession
    BY <1>2, <2>1, <2>2, PartiesAre, NoSessionAssumption
  <2>4. TypeOK'
    <3>1. session' \in [Parties -> Ratchets \cup {NoSession}]
      BY <1>2, <2>1, <2>2
    <3>2. /\ Len(s.sender_chain) <= 1 /\ Len(s.receiver_chains) <= MAX_RECEIVER_CHAINS
          /\ Len(s.skipped_message_keys) <= MAX_SKIPPED_MESSAGE_KEYS
      BY <1>2 DEF KeysOK, ListsBounded
    <3>3. \A q \in Parties : session'[q] # NoSession =>
            /\ Len(session'[q].sender_chain) <= 1
            /\ Len(session'[q].receiver_chains) <= MAX_RECEIVER_CHAINS
            /\ Len(session'[q].skipped_message_keys) <= MAX_SKIPPED_MESSAGE_KEYS
      BY <2>3, <3>2, PartiesAre DEF IInv, TypeOK
    <3> QED BY <1>1, <2>1, <3>1, <3>3 DEF IInv, TypeOK
  <2>5. Started'
    BY <1>1, <2>1, <2>3, PartiesAre DEF IInv, Started, Established
  <2>6. \A q \in Parties : Established(q)' => KeysOK(session'[q], read'[q])
    BY <1>1, <1>2, <2>1, <2>3, PartiesAre DEF IInv, Established
  <2>7. HeadersFresh("alice")'
    <3>1. HeadersFresh("alice")
      BY PartiesAre DEF IInv
    <3> QED BY <1>1, <2>1, <2>3, <3>1 DEF HeadersFresh, Established
  <2>8. HeadersFresh("bob")'
    <3>1. HeadersFresh("bob")
      BY PartiesAre DEF IInv
    <3> QED BY <1>1, <1>2, <2>1, <2>3, <3>1 DEF HeadersFresh, Established
  <2> QED BY <1>1, <2>1, <2>4, <2>5, <2>6, <2>7, <2>8, PartiesAre DEF IInv
<1> QED BY <1>3, <1>4

\* Every step keeps the invariant.
LEMMA NextIInv == IInv /\ [Next]_vars => IInv'
<1> SUFFICES ASSUME IInv, [Next]_vars PROVE IInv'
  OBVIOUS
<1>1. CASE \E p \in Parties : Encrypt(p)
  BY <1>1, EncryptStep
<1>2. CASE \E p \in Parties : \E m \in sent[Other(p)] : Decrypt(p, m)
  BY <1>2, DecryptStep
<1>3. CASE \E m \in sent["alice"] : CreateInbound(m)
  BY <1>3, CreateInboundStep
<1>4. CASE UNCHANGED vars
  BY <1>4 DEF vars, IInv, TypeOK, Started, HeadersFresh, Established
<1> QED BY <1>1, <1>2, <1>3, <1>4 DEF Next

\* The invariant always holds.
LEMMA Invariance == Spec => []IInv
BY InitIInv, NextIInv, PTL DEF Spec

\* Every reachable session is well typed and respects the limits of its lists, for any
\* limits and any order of deliveries.
THEOREM TypeCorrect == Spec => []TypeOK
<1>1. IInv => TypeOK
  BY DEF IInv
<1> QED BY <1>1, Invariance, PTL

\* The key of a message that was read is gone, from the chains and from the skipped keys
\* alike (ratchet.cpp, decrypt).
THEOREM ReadOnce == Spec => []ReadKeysAreGone
<1>1. IInv => ReadKeysAreGone
  <2> SUFFICES ASSUME IInv, NEW p \in Parties, Established(p), NEW m \in read[p]
               PROVE  ~Reads(session[p], m)
    BY DEF ReadKeysAreGone
  <2>1. session[p] \in Ratchets /\ read[p] \in SUBSET Messages
    BY SessionType DEF IInv
  <2>2. KeysOK(session[p], read[p])
    BY DEF IInv
  <2> QED BY <2>1, <2>2, ReadIsGone
<1> QED BY <1>1, Invariance, PTL

-----------------------------------------------------------------------------
\* The messages of the abstract channel: the headers that the bounds allow.
Shown == (Parties \X (1..(MaxSent + 1))) \X (0..MaxSent)

\* The first state is one of the channel.
LEMMA MapsInit == Init => Channel!Init
BY DEF Init, Channel!Init, Headers, Channel!Parties, Parties

\* Encrypting is a write of the channel.
LEMMA MapsEncrypt ==
  ASSUME IInv, NEW p \in Parties, Encrypt(p)
  PROVE  Channel!Write(p)
<1>1. PICK m \in Messages :
        /\ sent' = [sent EXCEPT ![p] = @ \cup {m}]
        /\ m.ratchet_key[1] = p /\ m.ratchet_key[2] \in 1..(MaxSent + 1)
        /\ m.counter \in 0..MaxSent
        /\ \A n \in sent[p] : Header(n) # Header(m)
  BY EncryptStep
<1>2. Header(m) \in Shown
  <2>1. m.ratchet_key = <<m.ratchet_key[1], m.ratchet_key[2]>>
    BY DEF Messages, RatchetKeys
  <2> QED BY <1>1, <2>1 DEF Shown, Header
<1>3. \A q \in Parties : \A n \in sent[q] : Header(n) # Header(m)
  <2> SUFFICES ASSUME NEW q \in Parties, NEW n \in sent[q], q # p
               PROVE  Header(n) # Header(m)
    BY <1>1
  <2>1. n.ratchet_key[1] = q
    BY DEF IInv, HeadersFresh
  <2> QED BY <1>1, <2>1 DEF Header
<1>4. \A q \in Parties : Header(m) \notin Headers(sent[q])
  BY <1>3 DEF Headers
<1>5. sent \in [Parties -> SUBSET Messages]
  BY DEF IInv, TypeOK
<1>6. Headers(sent[p] \cup {m}) = Headers(sent[p]) \cup {Header(m)}
  BY DEF Headers
<1>7. [q \in Parties |-> Headers(sent'[q])] =
        [[q \in Parties |-> Headers(sent[q])] EXCEPT ![p] = @ \cup {Header(m)}]
  BY <1>1, <1>5, <1>6
<1>8. /\ written' = [written EXCEPT ![p] = @ + 1]
      /\ UNCHANGED <<read, delivered>>
      /\ p = "alice" \/ sent["alice"] # {}
  BY PartiesAre DEF Encrypt, IInv, Started, Established
<1>9. p = "alice" \/ Headers(sent["alice"]) # {}
  BY <1>8 DEF Headers
<1> HIDE DEF Headers
<1>10. [q \in Parties |-> Headers(read'[q])] = [q \in Parties |-> Headers(read[q])]
  BY <1>8
<1> DEFINE shown == [q \in Parties |-> Headers(sent[q])]
<1>11. /\ Header(m) \notin shown["alice"] /\ Header(m) \notin shown["bob"]
       /\ p = "alice" \/ shown["alice"] # {}
  BY <1>4, <1>9, PartiesAre
<1> QED BY <1>2, <1>7, <1>8, <1>10, <1>11 DEF Channel!Write, Shown

\* A delivery of a message that was not read is a read of the channel.
LEMMA MapsRead ==
  ASSUME IInv, NEW p \in Parties, NEW m \in sent[Other(p)], m \notin read[p], Deliver(p, m),
         UNCHANGED <<sent, written>>
  PROVE  Channel!Read(p)
<1>1. read \in [Parties -> SUBSET Messages]
  BY DEF IInv, TypeOK
<1>2. Header(m) \notin Headers(read[p])
  <2> SUFFICES ASSUME NEW n \in read[p], Header(n) = Header(m) PROVE FALSE
    BY DEF Headers
  <2>1. n \in sent[Other(p)]
    BY DEF IInv, Started
  <2>2. n = m
    BY <2>1, PartiesAre DEF IInv, HeadersFresh
  <2> QED BY <2>2
<1>3. Headers(read[p] \cup {m}) = Headers(read[p]) \cup {Header(m)}
  BY DEF Headers
<1>4. Header(m) \in Headers(sent[Other(p)])
  BY DEF Headers
<1>5. /\ read' = [read EXCEPT ![p] = @ \cup {m}]
      /\ delivered' = [delivered EXCEPT ![p] = @ + 1]
  BY DEF Deliver
<1>6. [q \in Parties |-> Headers(read'[q])] =
        [[q \in Parties |-> Headers(read[q])] EXCEPT ![p] = @ \cup {Header(m)}]
  BY <1>1, <1>3, <1>5
<1>7. [q \in Parties |-> Headers(sent'[q])] = [q \in Parties |-> Headers(sent[q])]
  OBVIOUS
<1>8. Channel!Other(p) = Other(p)
  BY DEF Channel!Other, Other
<1> DEFINE shown == [q \in Parties |-> Headers(sent[q])]
           seen == [q \in Parties |-> Headers(read[q])]
<1>9. Header(m) \in shown[Other(p)] \ seen[p]
  BY <1>2, <1>4, PartiesAre
<1> QED BY <1>5, <1>6, <1>7, <1>8, <1>9 DEF Channel!Read

\* Every step is a step of the channel, or changes nothing it shows.
LEMMA MapsNext == IInv /\ [Next]_vars => [Channel!Next]_(Channel!vars)
<1> SUFFICES ASSUME IInv, [Next]_vars PROVE [Channel!Next]_(Channel!vars)
  OBVIOUS
<1>0. Channel!Parties = Parties
  BY DEF Channel!Parties, Parties
<1>1. CASE \E p \in Parties : Encrypt(p)
  BY <1>0, <1>1, MapsEncrypt DEF Channel!Next
<1>2. CASE \E p \in Parties : \E m \in sent[Other(p)] : Decrypt(p, m)
  <2>1. PICK p \in Parties : \E n \in sent[Other(p)] : Decrypt(p, n)
    BY <1>2
  <2>3. PICK m \in sent[Other(p)] : Decrypt(p, m)
    BY <2>1
  <2>2. m \notin read[p] /\ Deliver(p, m) /\ UNCHANGED <<sent, written>>
    BY <2>3, DecryptStep DEF Decrypt
  <2> QED BY <1>0, <2>2, MapsRead DEF Channel!Next
<1>3. CASE \E m \in sent["alice"] : CreateInbound(m)
  <2>1. PICK m \in sent["alice"] : CreateInbound(m)
    BY <1>3
  <2>2. CASE UNCHANGED <<sent, read, written, delivered>>
    BY <2>2 DEF Channel!vars
  <2>3. CASE Deliver("bob", m) /\ m \notin read["bob"] /\ UNCHANGED <<sent, written>>
    BY <1>0, <2>3, MapsRead, PartiesAre DEF Channel!Next
  <2> QED BY <2>1, <2>2, <2>3, CreateInboundStep
<1>4. CASE UNCHANGED vars
  BY <1>4 DEF vars, Channel!vars
<1> QED BY <1>1, <1>2, <1>3, <1>4 DEF Next

\* An Olm session implements the channel: whatever the server loses, repeats or
\* reorders, each message is read at most once, by the other device only, and no two
\* messages carry the same header.
THEOREM ImplementsChannel == Spec => ChannelSpec
BY MapsInit, MapsNext, Invariance, PTL DEF Spec, ChannelSpec, Channel!Spec

\* What each device has written and read is counted, and it read what the other wrote.
DeliveriesAreCounted ==
  /\ written \in [Parties -> Nat] /\ delivered \in [Parties -> Nat]
  /\ \A p \in Parties :
       /\ IsFiniteSet(Headers(sent[p])) /\ written[p] = Cardinality(Headers(sent[p]))
       /\ IsFiniteSet(Headers(read[p])) /\ delivered[p] = Cardinality(Headers(read[p]))
       /\ Headers(read[p]) \subseteq Headers(sent[Other(p)])

\* What a write of the channel adds, and to what.
LEMMA ChannelWrites ==
  ASSUME NEW p \in Parties, Channel!Write(p)
  PROVE  /\ \E h : /\ h \notin Headers(sent[p])
                   /\ \A q \in Parties : Headers(sent'[q]) =
                        IF q = p THEN Headers(sent[p]) \cup {h} ELSE Headers(sent[q])
         /\ \A q \in Parties : Headers(read'[q]) = Headers(read[q])
         /\ written' = [written EXCEPT ![p] = @ + 1] /\ delivered' = delivered
<1> HIDE DEF Headers
<1>1. PICK h : /\ h \notin [q \in Parties |-> Headers(sent[q])]["alice"]
               /\ h \notin [q \in Parties |-> Headers(sent[q])]["bob"]
               /\ [q \in Parties |-> Headers(sent'[q])] =
                    [[q \in Parties |-> Headers(sent[q])] EXCEPT ![p] = @ \cup {h}]
  BY DEF Channel!Write
<1>2. h \notin Headers(sent[p])
  BY <1>1 DEF Parties
<1>3. ASSUME NEW q \in Parties
      PROVE  Headers(sent'[q]) =
               IF q = p THEN Headers(sent[p]) \cup {h} ELSE Headers(sent[q])
  <2>1. [r \in Parties |-> Headers(sent'[r])][q] =
          [[r \in Parties |-> Headers(sent[r])] EXCEPT ![p] = @ \cup {h}][q]
    BY <1>1
  <2> QED BY <2>1
<1>4. /\ [q \in Parties |-> Headers(read'[q])] = [q \in Parties |-> Headers(read[q])]
      /\ written' = [written EXCEPT ![p] = @ + 1] /\ delivered' = delivered
  BY DEF Channel!Write
<1>5. ASSUME NEW q \in Parties PROVE Headers(read'[q]) = Headers(read[q])
  <2>1. [r \in Parties |-> Headers(read'[r])][q] = [r \in Parties |-> Headers(read[r])][q]
    BY <1>4
  <2> QED BY <2>1
<1> QED BY <1>2, <1>3, <1>4, <1>5

\* What a read of the channel adds, and to what.
LEMMA ChannelReads ==
  ASSUME NEW p \in Parties, Channel!Read(p)
  PROVE  /\ \E h \in Headers(sent[Other(p)]) \ Headers(read[p]) :
              \A q \in Parties : Headers(read'[q]) =
                IF q = p THEN Headers(read[p]) \cup {h} ELSE Headers(read[q])
         /\ \A q \in Parties : Headers(sent'[q]) = Headers(sent[q])
         /\ delivered' = [delivered EXCEPT ![p] = @ + 1] /\ written' = written
<1> HIDE DEF Headers
<1>0. Channel!Other(p) = Other(p) /\ Other(p) \in Parties
  BY DEF Channel!Other, Other, Parties
<1>1. PICK h \in [q \in Parties |-> Headers(sent[q])][Other(p)]
                   \ [q \in Parties |-> Headers(read[q])][p] :
        [q \in Parties |-> Headers(read'[q])] =
          [[q \in Parties |-> Headers(read[q])] EXCEPT ![p] = @ \cup {h}]
  BY <1>0 DEF Channel!Read
<1>2. h \in Headers(sent[Other(p)]) \ Headers(read[p])
  BY <1>0, <1>1
<1>3. ASSUME NEW q \in Parties
      PROVE  Headers(read'[q]) =
               IF q = p THEN Headers(read[p]) \cup {h} ELSE Headers(read[q])
  <2>1. [r \in Parties |-> Headers(read'[r])][q] =
          [[r \in Parties |-> Headers(read[r])] EXCEPT ![p] = @ \cup {h}][q]
    BY <1>1
  <2> QED BY <2>1
<1>4. /\ [q \in Parties |-> Headers(sent'[q])] = [q \in Parties |-> Headers(sent[q])]
      /\ delivered' = [delivered EXCEPT ![p] = @ + 1] /\ written' = written
  BY DEF Channel!Read
<1>5. ASSUME NEW q \in Parties PROVE Headers(sent'[q]) = Headers(sent[q])
  <2>1. [r \in Parties |-> Headers(sent'[r])][q] = [r \in Parties |-> Headers(sent[r])][q]
    BY <1>4
  <2> QED BY <2>1
<1> QED BY <1>2, <1>3, <1>4, <1>5

\* A step of the channel counts what it adds.
LEMMA ChannelCounts ==
  ASSUME DeliveriesAreCounted, [Channel!Next]_(Channel!vars)
  PROVE  DeliveriesAreCounted'
<1> HIDE DEF Headers
<1>0. /\ Channel!Parties = Parties
      /\ \A q \in Parties : Other(q) \in Parties
  BY DEF Channel!Parties, Parties, Other
<1>1. ASSUME NEW p \in Parties, Channel!Write(p) PROVE DeliveriesAreCounted'
  <2>1. PICK h : /\ h \notin Headers(sent[p])
                 /\ \A q \in Parties : Headers(sent'[q]) =
                      IF q = p THEN Headers(sent[p]) \cup {h} ELSE Headers(sent[q])
    BY <1>1, ChannelWrites
  <2>2. /\ \A q \in Parties : Headers(read'[q]) = Headers(read[q])
        /\ written' = [written EXCEPT ![p] = @ + 1] /\ delivered' = delivered
    BY <1>1, ChannelWrites
  <2>3. /\ IsFiniteSet(Headers(sent[p]) \cup {h})
        /\ Cardinality(Headers(sent[p]) \cup {h}) = written[p] + 1
    <3>1. IsFiniteSet(Headers(sent[p])) /\ Cardinality(Headers(sent[p])) = written[p]
      BY DEF DeliveriesAreCounted
    <3>2. h \notin Headers(sent[p])
      BY <2>1
    <3> QED BY <3>1, <3>2, FS_AddElement
  <2>4. written' \in [Parties -> Nat] /\ delivered' \in [Parties -> Nat]
    BY <2>2 DEF DeliveriesAreCounted
  <2>5. ASSUME NEW q \in Parties
        PROVE  IsFiniteSet(Headers(sent'[q])) /\ written'[q] = Cardinality(Headers(sent'[q]))
    BY <2>1, <2>2, <2>3 DEF DeliveriesAreCounted
  <2>6. ASSUME NEW q \in Parties
        PROVE  IsFiniteSet(Headers(read'[q])) /\ delivered'[q] = Cardinality(Headers(read'[q]))
    BY <2>1, <2>2, <2>3 DEF DeliveriesAreCounted
  <2>7. ASSUME NEW q \in Parties PROVE Headers(read'[q]) \subseteq Headers(sent'[Other(q)])
    BY <1>0, <2>1, <2>2 DEF DeliveriesAreCounted
  <2> QED BY <2>4, <2>5, <2>6, <2>7 DEF DeliveriesAreCounted
<1>2. ASSUME NEW p \in Parties, Channel!Read(p) PROVE DeliveriesAreCounted'
  <2>1. PICK h \in Headers(sent[Other(p)]) \ Headers(read[p]) :
               \A q \in Parties : Headers(read'[q]) =
                 IF q = p THEN Headers(read[p]) \cup {h} ELSE Headers(read[q])
    BY <1>2, ChannelReads
  <2>2. /\ \A q \in Parties : Headers(sent'[q]) = Headers(sent[q])
        /\ delivered' = [delivered EXCEPT ![p] = @ + 1] /\ written' = written
    BY <1>2, ChannelReads
  <2>3. /\ IsFiniteSet(Headers(read[p]) \cup {h})
        /\ Cardinality(Headers(read[p]) \cup {h}) = delivered[p] + 1
    <3>1. IsFiniteSet(Headers(read[p])) /\ Cardinality(Headers(read[p])) = delivered[p]
      BY DEF DeliveriesAreCounted
    <3>2. h \notin Headers(read[p])
      BY <2>1
    <3> QED BY <3>1, <3>2, FS_AddElement
  <2>4. written' \in [Parties -> Nat] /\ delivered' \in [Parties -> Nat]
    BY <2>2 DEF DeliveriesAreCounted
  <2>5. ASSUME NEW q \in Parties
        PROVE  IsFiniteSet(Headers(sent'[q])) /\ written'[q] = Cardinality(Headers(sent'[q]))
    BY <2>1, <2>2, <2>3 DEF DeliveriesAreCounted
  <2>6. ASSUME NEW q \in Parties
        PROVE  IsFiniteSet(Headers(read'[q])) /\ delivered'[q] = Cardinality(Headers(read'[q]))
    BY <2>1, <2>2, <2>3 DEF DeliveriesAreCounted
  <2>7. ASSUME NEW q \in Parties PROVE Headers(read'[q]) \subseteq Headers(sent'[Other(q)])
    BY <1>0, <2>1, <2>2 DEF DeliveriesAreCounted
  <2> QED BY <2>4, <2>5, <2>6, <2>7 DEF DeliveriesAreCounted
<1>3. CASE UNCHANGED Channel!vars
  <2>1. /\ [q \in Parties |-> Headers(sent'[q])] = [q \in Parties |-> Headers(sent[q])]
        /\ [q \in Parties |-> Headers(read'[q])] = [q \in Parties |-> Headers(read[q])]
        /\ written' = written /\ delivered' = delivered
    BY <1>3 DEF Channel!vars
  <2>2. ASSUME NEW q \in Parties
        PROVE  Headers(sent'[q]) = Headers(sent[q]) /\ Headers(read'[q]) = Headers(read[q])
    <3>1. [r \in Parties |-> Headers(sent'[r])][q] = [r \in Parties |-> Headers(sent[r])][q]
      BY <2>1
    <3>2. [r \in Parties |-> Headers(read'[r])][q] = [r \in Parties |-> Headers(read[r])][q]
      BY <2>1
    <3> QED BY <3>1, <3>2
  <2> QED BY <1>0, <2>1, <2>2 DEF DeliveriesAreCounted
<1> QED BY <1>0, <1>1, <1>2, <1>3 DEF Channel!Next

\* What the channel promises in numbers: whatever the server repeats, a device reads no
\* more messages than the other one wrote, each of them once (ratchet.cpp, decrypt).
THEOREM NothingIsReadTwice ==
  Spec => [](DeliveriesAreCounted
             /\ \A p \in Parties : delivered[p] <= written[Other(p)])
<1>1. Channel!Init => DeliveriesAreCounted
  <2> SUFFICES ASSUME Channel!Init PROVE DeliveriesAreCounted
    OBVIOUS
  <2>1. /\ written = [p \in Parties |-> 0] /\ delivered = [p \in Parties |-> 0]
        /\ \A p \in Parties : Headers(sent[p]) = {} /\ Headers(read[p]) = {}
    BY DEF Channel!Init, Channel!Parties, Parties
  <2> QED BY <2>1, FS_EmptySet DEF DeliveriesAreCounted
<1>2. DeliveriesAreCounted => \A p \in Parties : delivered[p] <= written[Other(p)]
  <2> SUFFICES ASSUME DeliveriesAreCounted, NEW p \in Parties
               PROVE  delivered[p] <= written[Other(p)]
    OBVIOUS
  <2>1. Other(p) \in Parties
    BY DEF Other, Parties
  <2> QED BY <2>1, FS_Subset DEF DeliveriesAreCounted
<1>3. ChannelSpec => []DeliveriesAreCounted
  BY <1>1, ChannelCounts, PTL DEF ChannelSpec, Channel!Spec
<1> QED BY <1>2, <1>3, ImplementsChannel, PTL

-----------------------------------------------------------------------------
(***************************************************************************)
(* How the two devices stand to each other.  Below, s and t are the        *)
(* sessions of two devices, gs and gt how many ratchet keys they have      *)
(* generated, msgs the messages that a device has sent.                    *)
(***************************************************************************)
\* The ratchet key that a device sends under.
SenderKey(s) == s.sender_chain[1].ratchet_key

\* The number of the newest ratchet key of the other device that was received.
Newest(s) == IF s.receiver_chains = <<>> THEN 0 ELSE s.receiver_chains[1].ratchet_key[2]

\* s sends on a chain that t has received, and t will answer it.
Heard(s, t, gs, gt) ==
  /\ s.sender_chain # <<>> /\ t.sender_chain = <<>>
  /\ t.root_key = s.root_key
  /\ Newest(s) = gt /\ Newest(t) = gs

\* s sends on a chain that t has not received: it answers the one t still sends on.
Ahead(s, t, gs, gt) ==
  /\ s.sender_chain # <<>> /\ t.sender_chain # <<>>
  /\ s.root_key = NextRoot(t.root_key, SenderKey(s), SenderKey(t))
  /\ Root(s.receiver_chains[1]) = t.root_key
  /\ Newest(s) = gt /\ Newest(t) = gs - 1

\* One of the two devices was heard by the other, or is ahead of it.
InTouch(s, t, gs, gt) ==
  \/ Heard(s, t, gs, gt) \/ Heard(t, s, gt, gs)
  \/ Ahead(s, t, gs, gt) \/ Ahead(t, s, gt, gs)

\* The chain sent on, or else the newest one received, is of the present root key.
RootIsOfChain(s) ==
  IF s.sender_chain # <<>> THEN Root(s.sender_chain[1]) = s.root_key
  ELSE Root(s.receiver_chains[1]) = s.root_key

\* The chains received are those of the last ratchet keys of device q.
ChainsInOrder(s, q) ==
  /\ \A i \in DOMAIN s.receiver_chains :
       s.receiver_chains[i].ratchet_key = <<q, Newest(s) - i + 1>>
  /\ Len(s.receiver_chains) < MAX_RECEIVER_CHAINS => Newest(s) = Len(s.receiver_chains)

\* The root keys of the messages that a device has sent: the older, the shorter.
SentRoots(s, msgs) ==
  \A m \in msgs :
    /\ m.key.index = m.counter
    /\ Len(m.key.root) <= Len(s.root_key)
    /\ IF s.sender_chain = <<>>
       THEN Len(m.key.root) # Len(s.root_key)
       ELSE /\ Len(m.key.root) = Len(s.root_key) <=> m.ratchet_key = SenderKey(s)
            /\ m.ratchet_key = SenderKey(s) => m.key.root = s.root_key

\* What a device p that has generated g ratchet keys holds and has sent.
DeviceOK(s, p, g, msgs) ==
  /\ RootIsOfChain(s) /\ ChainsInOrder(s, Other(p)) /\ SentRoots(s, msgs)
  /\ s.sender_chain # <<>> => SenderKey(s) = <<p, g>>

\* A message on a chain that t has received is of the root key of that chain.
RootsAgree(msgs, t) ==
  \A m \in msgs : \A i \in ChainsFor(t, m) : m.key.root = Root(t.receiver_chains[i])

\* The chain that t received of s is not past the one that s sends on.
NotPast(s, t) ==
  s.sender_chain # <<>> =>
    \A i \in DOMAIN t.receiver_chains :
      t.receiver_chains[i].ratchet_key = SenderKey(s) =>
        Index(t.receiver_chains[i]) <= Index(s.sender_chain[1])

\* A message that its chain went past without reading it is skipped, or forgotten.
SkippedOrForgotten(t, msgs, rd, lost) ==
  \A m \in msgs \ rd : \A i \in ChainsFor(t, m) :
    m.counter < Index(t.receiver_chains[i]) =>
      \/ Header(m) \in lost
      \/ \E k \in DOMAIN t.skipped_message_keys :
           /\ t.skipped_message_keys[k].ratchet_key = m.ratchet_key
           /\ t.skipped_message_keys[k].chain_key = m.key

\* What t holds of the messages of s, of which it read those in rd.
LinkOK(s, msgs, t, rd, lost) ==
  RootsAgree(msgs, t) /\ NotPast(s, t) /\ SkippedOrForgotten(t, msgs, rd, lost)

\* What is so before bob has a session.
AliceAlone ==
  /\ session["alice"].sender_chain # <<>> /\ session["alice"].receiver_chains = <<>>
  /\ session["alice"].root_key = <<>>
  /\ generated["alice"] = 1 /\ generated["bob"] = 0 /\ sent["bob"] = {}

\* Two devices p and q that both have the session.
PairOK(p, q) ==
  /\ InTouch(session[p], session[q], generated[p], generated[q])
  /\ LinkOK(session[q], sent[q], session[p], read[p], forgotten[p])
  /\ LinkOK(session[p], sent[p], session[q], read[q], forgotten[q])

\* The inductive invariant of the two devices, beside IInv.
SyncInv ==
  /\ \A p \in Parties : Established(p) => DeviceOK(session[p], p, generated[p], sent[p])
  /\ IF Established("bob") THEN PairOK("alice", "bob") ELSE AliceAlone

\* What a chain is made of.
LEMMA ChainType ==
  ASSUME NEW c \in Chains
  PROVE  /\ c.ratchet_key \in RatchetKeys /\ c.chain_key \in ChainKeys
         /\ Len(Root(c)) \in Nat /\ Index(c) \in Nat
         /\ c.chain_key.root = Root(c) /\ c.chain_key.index = Index(c)
<1>1. c.ratchet_key \in RatchetKeys /\ c.chain_key \in ChainKeys
  BY DEF Chains
<1>2. c.chain_key.root \in Seq(SUBSET RatchetKeys) /\ c.chain_key.index \in Nat
  BY <1>1 DEF ChainKeys
<1> QED BY <1>1, <1>2 DEF Root, Index

\* What a message is made of.
LEMMA MessageType ==
  ASSUME NEW m \in Messages
  PROVE  /\ m.ratchet_key \in RatchetKeys /\ m.key \in ChainKeys
         /\ m.ratchet_key = <<m.ratchet_key[1], m.ratchet_key[2]>>
         /\ m.ratchet_key[2] \in Nat \ {0}
         /\ m.counter \in Nat /\ m.key.index \in Nat
         /\ Len(m.key.root) \in Nat
<1>1. m.ratchet_key \in RatchetKeys /\ m.key \in ChainKeys /\ m.counter \in Nat
  BY DEF Messages
<1>2. m.key.root \in Seq(SUBSET RatchetKeys) /\ m.key.index \in Nat
  BY <1>1 DEF ChainKeys
<1> QED BY <1>1, <1>2 DEF RatchetKeys

\* A chain key is its root key and its index.
LEMMA SameChainKey ==
  ASSUME NEW a \in ChainKeys, NEW b \in ChainKeys, a.root = b.root, a.index = b.index
  PROVE  a = b
BY DEF ChainKeys

\* What a session is made of.
LEMMA PartsType ==
  ASSUME NEW s \in Ratchets
  PROVE  /\ s.root_key \in Seq(SUBSET RatchetKeys) /\ Len(s.root_key) \in Nat
         /\ s.sender_chain \in Seq(Chains) /\ s.receiver_chains \in Seq(Chains)
         /\ s.skipped_message_keys \in Seq(Chains)
         /\ Len(s.receiver_chains) \in Nat
         /\ DOMAIN s.receiver_chains = 1..Len(s.receiver_chains)
         /\ \A i \in DOMAIN s.receiver_chains : s.receiver_chains[i] \in Chains
         /\ \A k \in DOMAIN s.skipped_message_keys : s.skipped_message_keys[k] \in Chains
<1>1. /\ s.root_key \in Seq(SUBSET RatchetKeys) /\ s.sender_chain \in Seq(Chains)
      /\ s.receiver_chains \in Seq(Chains) /\ s.skipped_message_keys \in Seq(Chains)
  BY DEF Ratchets
<1>2. \A q \in Seq(Chains) : /\ Len(q) \in Nat /\ DOMAIN q = 1..Len(q)
                             /\ \A i \in DOMAIN q : q[i] \in Chains
  OBVIOUS
<1>3. Len(s.root_key) \in Nat
  BY <1>1
<1> QED BY <1>1, <1>2, <1>3

\* The chain that a session sends on.
LEMMA SenderType ==
  ASSUME NEW s \in Ratchets, ListsBounded(s), s.sender_chain # <<>>
  PROVE  /\ 1 \in DOMAIN s.sender_chain /\ Len(s.sender_chain) = 1
         /\ s.sender_chain[1] \in Chains /\ SenderKey(s) \in RatchetKeys
<1> DEFINE sc == s.sender_chain
<1>1. sc \in Seq(Chains) /\ sc # <<>> /\ Len(sc) <= 1
  BY PartsType DEF ListsBounded
<1> HIDE DEF sc
<1>2. Len(sc) = 1 /\ 1 \in DOMAIN sc
  BY <1>1, OnlyOne
<1>3. sc[1] \in Chains
  BY <1>1, <1>2
<1> QED BY <1>2, <1>3, ChainType DEF sc, SenderKey

\* The newest ratchet key received.
LEMMA NewestType ==
  ASSUME NEW s \in Ratchets
  PROVE  /\ Newest(s) \in Nat
         /\ 1 \in DOMAIN s.receiver_chains =>
              /\ Newest(s) = s.receiver_chains[1].ratchet_key[2]
              /\ Newest(s) > 0
         /\ 1 \notin DOMAIN s.receiver_chains =>
              Newest(s) = 0 /\ s.receiver_chains = <<>>
<1> DEFINE rc == s.receiver_chains
<1>1. rc \in Seq(Chains) /\ Len(rc) \in Nat /\ DOMAIN rc = 1..Len(rc)
  BY PartsType
<1>2. Newest(s) = IF rc = <<>> THEN 0 ELSE rc[1].ratchet_key[2]
  BY DEF Newest
<1> HIDE DEF rc
<1>3. CASE 1 \in DOMAIN rc
  <2>1. rc # <<>> /\ rc[1] \in Chains
    BY <1>1, <1>3
  <2>2. rc[1].ratchet_key[2] \in Nat \ {0}
    BY <2>1, ChainType DEF RatchetKeys
  <2> QED BY <1>2, <1>3, <2>1, <2>2 DEF rc
<1>4. CASE 1 \notin DOMAIN rc
  <2>1. Len(rc) = 0
    BY <1>1, <1>4
  <2>2. rc = <<>>
    BY <1>1, <2>1, EmptySeq
  <2> QED BY <1>2, <1>4, <2>2 DEF rc
<1> QED BY <1>3, <1>4

\* Of the chains in order, the one of the newest ratchet key is the first, and there is
\* none of a newer one.
LEMMA InOrder ==
  ASSUME NEW s \in Ratchets, NEW q \in Parties, ChainsInOrder(s, q), NEW n \in Nat \ {0},
         NEW i \in DOMAIN s.receiver_chains, s.receiver_chains[i].ratchet_key = <<q, n>>
  PROVE  /\ n <= Newest(s) /\ i = Newest(s) - n + 1
         /\ n = Newest(s) => i = 1
<1>1. i \in Nat /\ i >= 1 /\ Newest(s) \in Nat
  BY PartsType, NewestType
<1>2. <<q, n>> = <<q, Newest(s) - i + 1>>
  BY DEF ChainsInOrder
<1>3. n = Newest(s) - i + 1
  BY <1>2
<1> QED BY <1>1, <1>3

\* A session s that had generated no key after the one before key encrypts the message m,
\* and becomes u.
Encrypted(s, key, u, m) ==
  /\ u \in Ratchets /\ m \in Messages
  /\ u.receiver_chains = s.receiver_chains
  /\ u.skipped_message_keys = s.skipped_message_keys
  /\ u.sender_chain # <<>>
  /\ SenderKey(u) = m.ratchet_key /\ Root(u.sender_chain[1]) = m.key.root
  /\ m.key.index = m.counter /\ Index(u.sender_chain[1]) = m.counter + 1
  /\ IF s.sender_chain = <<>>
     THEN /\ 1 \in DOMAIN s.receiver_chains
          /\ u.root_key = NextRoot(s.root_key, key, s.receiver_chains[1].ratchet_key)
          /\ m.ratchet_key = key /\ m.key = FirstChainKey(u.root_key)
     ELSE /\ u.root_key = s.root_key
          /\ m.ratchet_key = SenderKey(s) /\ m.key = s.sender_chain[1].chain_key

\* The session and the message that encrypting leaves.
LEMMA EncryptIs ==
  ASSUME NEW s \in Ratchets, NEW rd \in SUBSET Messages, KeysOK(s, rd),
         NEW key \in RatchetKeys
  PROVE  LET t == WithSenderChain(s, key)
         IN Encrypted(s, key, [t EXCEPT !.sender_chain[1].chain_key = Advanced(@, 1)],
                      MessageOf(t))
<1> DEFINE t == WithSenderChain(s, key)
           c == t.sender_chain[1]
           d == [c EXCEPT !.chain_key = Advanced(@, 1)]
           u == [t EXCEPT !.sender_chain[1].chain_key = Advanced(@, 1)]
           m == MessageOf(t)
           root == NextRoot(s.root_key, key, s.receiver_chains[1].ratchet_key)
           new == [ratchet_key |-> key, chain_key |-> FirstChainKey(root)]
<1>1. ListsBounded(s) /\ u \in Ratchets /\ m \in Messages
  BY EncryptKeepsKeys DEF KeysOK
<1>2. /\ s.root_key \in Seq(SUBSET RatchetKeys) /\ s.receiver_chains \in Seq(Chains)
      /\ s.skipped_message_keys \in Seq(Chains)
  BY PartsType
<1>3. ASSUME s.sender_chain = <<>>
      PROVE  /\ root \in Seq(SUBSET RatchetKeys) /\ new \in Chains
             /\ 1 \in DOMAIN s.receiver_chains
  <2>1. 1 \in DOMAIN s.receiver_chains
    BY <1>1, <1>3 DEF ListsBounded
  <2> DEFINE pair == {key, s.receiver_chains[1].ratchet_key}
  <2>2. pair \in SUBSET RatchetKeys
    BY <2>1, PartsType, ChainType
  <2> HIDE DEF pair
  <2>3. root \in Seq(SUBSET RatchetKeys)
    BY <1>2, <2>2 DEF NextRoot, pair
  <2> HIDE DEF root
  <2>4. FirstChainKey(root) \in ChainKeys
    BY <2>3 DEF FirstChainKey, ChainKeys
  <2> QED BY <2>1, <2>3, <2>4 DEF Chains
<1>4. /\ t \in Ratchets /\ t.receiver_chains = s.receiver_chains
      /\ t.skipped_message_keys = s.skipped_message_keys
      /\ t.sender_chain \in Seq(Chains) /\ Len(t.sender_chain) = 1
      /\ IF s.sender_chain = <<>> THEN c = new /\ t.root_key = root ELSE t = s
  <2>1. CASE s.sender_chain = <<>>
    <3> DEFINE one == <<new>>
    <3>1. t = [s EXCEPT !.root_key = root, !.sender_chain = one]
      BY <2>1 DEF WithSenderChain
    <3>2. root \in Seq(SUBSET RatchetKeys) /\ new \in Chains
      BY <1>3, <2>1
    <3> HIDE DEF new, root, t
    <3>3. one \in Seq(Chains) /\ Len(one) = 1 /\ one[1] = new
      BY <3>2
    <3> HIDE DEF one
    <3>4. /\ t \in Ratchets /\ t.receiver_chains = s.receiver_chains
          /\ t.skipped_message_keys = s.skipped_message_keys
          /\ t.sender_chain = one /\ t.root_key = root
      BY <3>1, <3>2, <3>3 DEF Ratchets
    <3> QED BY <2>1, <3>3, <3>4
  <2>2. CASE s.sender_chain # <<>>
    <3>1. t = s
      BY <2>2 DEF WithSenderChain
    <3> QED BY <1>1, <2>2, <3>1, PartsType, SenderType
  <2> QED BY <2>1, <2>2
<1>5. m = [ratchet_key |-> c.ratchet_key, counter |-> c.chain_key.index,
           key |-> c.chain_key, pre_key |-> ~t.received_message]
  BY DEF MessageOf
<1> HIDE DEF new, root, t
<1>6. c \in Chains
  BY <1>4
<1> DEFINE sc == [t.sender_chain EXCEPT ![1] = d]
<1>7. u = [t EXCEPT !.sender_chain = sc]
  BY <1>4 DEF Ratchets
<1>8. d \in Chains /\ d.ratchet_key = c.ratchet_key
      /\ Root(d) = Root(c) /\ Index(d) = Index(c) + 1
  <2>1. /\ Advanced(c.chain_key, 1) \in ChainKeys
        /\ Advanced(c.chain_key, 1).root = c.chain_key.root
        /\ Advanced(c.chain_key, 1).index = c.chain_key.index + 1
    <3>1. c.chain_key \in ChainKeys /\ c.chain_key.index \in Nat
      BY <1>6, ChainType
    <3> HIDE DEF c
    <3> QED BY <3>1, AdvancedIs
  <2> HIDE DEF c
  <2> QED BY <1>6, <2>1 DEF Chains, Root, Index
<1> HIDE DEF d
<1>9. sc \in Seq(Chains) /\ sc[1] = d /\ sc # <<>>
  <2>1. sc \in Seq(Chains) /\ Len(sc) = 1 /\ sc[1] = d
    BY <1>4, <1>8
  <2> QED BY <2>1
<1> HIDE DEF sc, u
<1>10. /\ u.sender_chain = sc /\ u.root_key = t.root_key
       /\ u.receiver_chains = t.receiver_chains
       /\ u.skipped_message_keys = t.skipped_message_keys
  BY <1>4, <1>7 DEF Ratchets
<1>11. /\ m.ratchet_key = c.ratchet_key /\ m.key = c.chain_key
       /\ m.counter = c.chain_key.index
  BY <1>5
<1> HIDE DEF m, c
<1>12. /\ SenderKey(u) = m.ratchet_key /\ Root(u.sender_chain[1]) = m.key.root
       /\ m.key.index = m.counter /\ Index(u.sender_chain[1]) = m.counter + 1
  BY <1>8, <1>9, <1>10, <1>11 DEF SenderKey, Root, Index
<1>13. CASE s.sender_chain = <<>>
  <2>1. m.ratchet_key = key /\ m.key = FirstChainKey(u.root_key) /\ u.root_key = root
    BY <1>4, <1>10, <1>11, <1>13 DEF new
  <2>2. 1 \in DOMAIN s.receiver_chains
    BY <1>3, <1>13
  <2>3. Encrypted(s, key, u, m)
    BY <1>1, <1>4, <1>9, <1>10, <1>12, <1>13, <2>1, <2>2 DEF root, Encrypted
  <2> QED BY <2>3 DEF u, m, t
<1>14. CASE s.sender_chain # <<>>
  <2>1. t = s
    BY <1>4, <1>14
  <2>2. m.ratchet_key = SenderKey(s) /\ m.key = s.sender_chain[1].chain_key
    BY <1>11, <2>1 DEF SenderKey, c
  <2>3. Encrypted(s, key, u, m)
    BY <1>1, <1>4, <1>9, <1>10, <1>12, <1>14, <2>1, <2>2 DEF Encrypted
  <2> QED BY <2>3 DEF u, m, t
<1> QED BY <1>13, <1>14

\* Encrypting keeps a device in order.
LEMMA EncryptKeepsDevice ==
  ASSUME NEW s \in Ratchets, NEW p \in Parties, NEW g \in Nat, NEW msgs \in SUBSET Messages,
         DeviceOK(s, p, g, msgs), \A n \in msgs : n.ratchet_key[2] <= g,
         NEW u, NEW m, Encrypted(s, <<p, g + 1>>, u, m)
  PROVE  DeviceOK(u, p, IF s.sender_chain = <<>> THEN g + 1 ELSE g, msgs \cup {m})
<1>1. /\ u \in Ratchets /\ m \in Messages /\ u.sender_chain # <<>>
      /\ u.receiver_chains = s.receiver_chains
      /\ SenderKey(u) = m.ratchet_key /\ Root(u.sender_chain[1]) = m.key.root
      /\ m.key.index = m.counter
  BY DEF Encrypted
<1>2. ChainsInOrder(u, Other(p))
  BY <1>1 DEF DeviceOK, ChainsInOrder, Newest
<1>3. \A n \in msgs : n.ratchet_key[2] \in Nat /\ n.ratchet_key[2] <= g
                      /\ Len(n.key.root) \in Nat
  BY MessageType
<1>4. CASE s.sender_chain = <<>>
  <2>1. /\ u.root_key = NextRoot(s.root_key, <<p, g + 1>>, s.receiver_chains[1].ratchet_key)
        /\ m.ratchet_key = <<p, g + 1>> /\ m.key.root = u.root_key
    BY <1>4 DEF Encrypted, FirstChainKey
  <2>2. s.root_key \in Seq(SUBSET RatchetKeys) /\ u.root_key \in Seq(SUBSET RatchetKeys)
        /\ Len(s.root_key) \in Nat
    BY <1>1, PartsType
  <2>3. Len(u.root_key) = Len(s.root_key) + 1
    <3> DEFINE pair == {<<p, g + 1>>, s.receiver_chains[1].ratchet_key}
    <3>1. u.root_key = Append(s.root_key, pair)
      BY <2>1 DEF NextRoot
    <3>2. pair \in SUBSET RatchetKeys
      <4>1. 1 \in DOMAIN s.receiver_chains
        BY <1>4 DEF Encrypted
      <4>2. m.ratchet_key \in RatchetKeys
        BY <1>1, MessageType
      <4> QED BY <2>1, <4>1, <4>2, PartsType, ChainType
    <3> HIDE DEF pair
    <3> QED BY <2>2, <3>1, <3>2
  <2>4. RootIsOfChain(u)
    BY <1>1, <2>1 DEF RootIsOfChain
  <2>5. SentRoots(u, msgs \cup {m})
    <3> SUFFICES ASSUME NEW n \in msgs \cup {m}
                 PROVE  /\ n.key.index = n.counter
                        /\ Len(n.key.root) <= Len(u.root_key)
                        /\ Len(n.key.root) = Len(u.root_key) <=> n.ratchet_key = SenderKey(u)
                        /\ n.ratchet_key = SenderKey(u) => n.key.root = u.root_key
      BY <1>1 DEF SentRoots
    <3>1. CASE n = m
      BY <1>1, <2>1, <2>2, <2>3, <3>1
    <3>2. CASE n \in msgs
      <4>1. n.key.index = n.counter /\ Len(n.key.root) <= Len(s.root_key)
        BY <3>2 DEF DeviceOK, SentRoots
      <4>2. n.ratchet_key # SenderKey(u)
        BY <1>1, <1>3, <2>1, <3>2
      <4> QED BY <1>3, <2>2, <2>3, <3>2, <4>1, <4>2
    <3> QED BY <3>1, <3>2
  <2> QED BY <1>1, <1>2, <1>4, <2>1, <2>4, <2>5 DEF DeviceOK
<1>5. CASE s.sender_chain # <<>>
  <2>1. /\ u.root_key = s.root_key /\ m.ratchet_key = SenderKey(s)
        /\ m.key.root = Root(s.sender_chain[1])
    BY <1>5 DEF Encrypted, Root
  <2>2. m.key.root = u.root_key
    BY <1>5, <2>1 DEF DeviceOK, RootIsOfChain
  <2>3. RootIsOfChain(u)
    BY <1>1, <2>2 DEF RootIsOfChain
  <2>4. SentRoots(u, msgs \cup {m})
    <3>1. Len(u.root_key) \in Nat
      BY <1>1, PartsType
    <3> QED BY <1>1, <1>5, <2>1, <2>2, <3>1 DEF DeviceOK, SentRoots
  <2> QED BY <1>1, <1>2, <1>5, <2>1, <2>3, <2>4 DEF DeviceOK
<1> QED BY <1>4, <1>5

\* Encrypting keeps what the other device holds of the messages sent.
LEMMA EncryptKeepsLink ==
  ASSUME NEW s \in Ratchets, NEW p \in Parties, NEW g \in Nat, NEW msgs \in SUBSET Messages,
         ListsBounded(s), DeviceOK(s, p, g, msgs),
         NEW t \in Ratchets, NEW h \in Nat, NEW rd, NEW lost, LinkOK(s, msgs, t, rd, lost),
         RootIsOfChain(t), ChainsInOrder(t, p), InTouch(s, t, g, h),
         NEW u, NEW m, Encrypted(s, <<p, g + 1>>, u, m)
  PROVE  LinkOK(u, msgs \cup {m}, t, rd, lost)
<1>1. /\ u \in Ratchets /\ m \in Messages /\ u.sender_chain # <<>>
      /\ SenderKey(u) = m.ratchet_key /\ Index(u.sender_chain[1]) = m.counter + 1
  BY DEF Encrypted
<1>2. Newest(t) \in Nat /\ Newest(s) \in Nat /\ m.counter \in Nat
      /\ \A i \in DOMAIN t.receiver_chains : Index(t.receiver_chains[i]) \in Nat
  BY <1>1, NewestType, PartsType, ChainType, MessageType
<1>3. CASE s.sender_chain = <<>>
  <2>1. m.ratchet_key = <<p, g + 1>>
    BY <1>3 DEF Encrypted
  <2>2. Newest(t) = g
    BY <1>3 DEF InTouch, Heard, Ahead
  <2>3. \A i \in DOMAIN t.receiver_chains : t.receiver_chains[i].ratchet_key # m.ratchet_key
    <3> SUFFICES ASSUME NEW i \in DOMAIN t.receiver_chains,
                        t.receiver_chains[i].ratchet_key = <<p, g + 1>>
                 PROVE  FALSE
      BY <2>1
    <3>1. g + 1 \in Nat \ {0}
      OBVIOUS
    <3>2. g + 1 <= Newest(t)
      BY <3>1, InOrder
    <3> QED BY <2>2, <3>2
  <2>4. ChainsFor(t, m) = {}
    BY <2>3 DEF ChainsFor
  <2> QED BY <1>1, <2>3, <2>4 DEF LinkOK, RootsAgree, NotPast, SkippedOrForgotten
<1>4. CASE s.sender_chain # <<>>
  <2>1. /\ m.ratchet_key = SenderKey(s) /\ SenderKey(s) = <<p, g>>
        /\ m.key = s.sender_chain[1].chain_key
        /\ m.key.root = s.root_key
        /\ m.counter = Index(s.sender_chain[1])
    BY <1>4 DEF Encrypted, DeviceOK, RootIsOfChain, Root, Index
  <2>2. \A i \in ChainsFor(t, m) :
          m.key.root = Root(t.receiver_chains[i]) /\ Index(t.receiver_chains[i]) <= m.counter
    <3> SUFFICES ASSUME NEW i \in ChainsFor(t, m)
                 PROVE  /\ m.key.root = Root(t.receiver_chains[i])
                        /\ Index(t.receiver_chains[i]) <= m.counter
      OBVIOUS
    <3>1. i \in DOMAIN t.receiver_chains /\ t.receiver_chains[i].ratchet_key = <<p, g>>
      BY <2>1 DEF ChainsFor
    <3>2. Index(t.receiver_chains[i]) <= m.counter
      BY <1>4, <2>1, <3>1 DEF LinkOK, NotPast
    <3>3. g \in Nat \ {0}
      BY <1>4, <2>1, SenderType DEF RatchetKeys
    <3>4. g <= Newest(t) /\ (g = Newest(t) => i = 1)
      BY <3>1, <3>3, InOrder
    <3>5. CASE Heard(s, t, g, h)
      <4>1. Root(t.receiver_chains[1]) = t.root_key /\ t.root_key = s.root_key /\ Newest(t) = g
        BY <3>5 DEF Heard, RootIsOfChain
      <4> QED BY <2>1, <3>2, <3>4, <4>1
    <3>6. CASE Ahead(t, s, h, g)
      BY <2>1, <3>2, <3>4, <3>6 DEF Ahead
    <3>7. CASE Ahead(s, t, g, h)
      BY <1>2, <3>4, <3>7 DEF Ahead
    <3>8. CASE Heard(t, s, h, g)
      BY <1>4, <3>8 DEF Heard
    <3> QED BY <3>5, <3>6, <3>7, <3>8 DEF InTouch
  <2>3. NotPast(u, t)
    <3> SUFFICES ASSUME NEW i \in DOMAIN t.receiver_chains,
                        t.receiver_chains[i].ratchet_key = m.ratchet_key
                 PROVE  Index(t.receiver_chains[i]) <= m.counter + 1
      BY <1>1 DEF NotPast
    <3>1. Index(t.receiver_chains[i]) <= m.counter
      BY <2>2 DEF ChainsFor
    <3> QED BY <1>2, <3>1
  <2>4. RootsAgree(msgs \cup {m}, t)
    BY <2>2 DEF LinkOK, RootsAgree
  <2>5. SkippedOrForgotten(t, msgs \cup {m}, rd, lost)
    <3>1. \A i \in ChainsFor(t, m) : ~(m.counter < Index(t.receiver_chains[i]))
      BY <1>2, <2>2 DEF ChainsFor
    <3> QED BY <3>1 DEF LinkOK, SkippedOrForgotten
  <2> QED BY <2>3, <2>4, <2>5 DEF LinkOK
<1> QED BY <1>3, <1>4

\* Encrypting keeps what the device that encrypts holds of the messages of the other.
LEMMA EncryptKeepsHeld ==
  ASSUME NEW s, NEW t, NEW msgs, NEW rd, NEW lost, LinkOK(t, msgs, s, rd, lost),
         NEW key, NEW u, NEW m, Encrypted(s, key, u, m)
  PROVE  LinkOK(t, msgs, u, rd, lost)
BY DEF LinkOK, RootsAgree, NotPast, SkippedOrForgotten, ChainsFor, Encrypted

\* Encrypting keeps the devices in touch: a device that was silent is ahead then.
LEMMA EncryptKeepsTouch ==
  ASSUME NEW s \in Ratchets, NEW p \in Parties, NEW g \in Nat, NEW msgs,
         DeviceOK(s, p, g, msgs),
         NEW t, NEW h \in Nat, NEW other, DeviceOK(t, Other(p), h, other),
         InTouch(s, t, g, h),
         NEW u, NEW m, Encrypted(s, <<p, g + 1>>, u, m)
  PROVE  InTouch(u, t, IF s.sender_chain = <<>> THEN g + 1 ELSE g, h)
<1>1. /\ u.sender_chain # <<>> /\ u.receiver_chains = s.receiver_chains
      /\ SenderKey(u) = m.ratchet_key /\ Newest(u) = Newest(s)
  BY DEF Encrypted, Newest
<1>2. CASE s.sender_chain = <<>>
  <2>1. /\ 1 \in DOMAIN s.receiver_chains /\ SenderKey(u) = <<p, g + 1>>
        /\ u.root_key = NextRoot(s.root_key, <<p, g + 1>>, s.receiver_chains[1].ratchet_key)
    BY <1>1, <1>2 DEF Encrypted
  <2>2. /\ t.sender_chain # <<>> /\ s.root_key = t.root_key
        /\ Newest(t) = g /\ Newest(s) = h
    BY <1>2 DEF InTouch, Heard, Ahead
  <2>3. SenderKey(t) = <<Other(p), h>>
    BY <2>2 DEF DeviceOK
  <2>4. s.receiver_chains[1].ratchet_key = <<Other(p), h>>
    <3>1. s.receiver_chains[1].ratchet_key = <<Other(p), Newest(s) - 1 + 1>>
      BY <2>1 DEF DeviceOK, ChainsInOrder
    <3>2. Newest(s) - 1 + 1 = h
      BY <2>2
    <3> QED BY <3>1, <3>2
  <2>5. Root(s.receiver_chains[1]) = s.root_key
    BY <1>2 DEF DeviceOK, RootIsOfChain
  <2>6. Newest(t) = (g + 1) - 1
    BY <2>2
  <2>7. Ahead(u, t, g + 1, h)
    BY <1>1, <2>1, <2>2, <2>3, <2>4, <2>5, <2>6 DEF Ahead
  <2> QED BY <1>2, <2>7 DEF InTouch
<1>3. CASE s.sender_chain # <<>>
  <2>1. u.root_key = s.root_key /\ SenderKey(u) = SenderKey(s)
    BY <1>1, <1>3 DEF Encrypted
  <2> QED BY <1>1, <1>3, <2>1 DEF InTouch, Heard, Ahead
<1> QED BY <1>2, <1>3

\* Erasing an item keeps the others.
LEMMA EraseKeeps ==
  ASSUME NEW S, NEW list \in Seq(S), NEW k \in DOMAIN list, NEW j \in DOMAIN list, j # k
  PROVE  \E i \in DOMAIN Erase(list, k) : Erase(list, k)[i] = list[j]
<1>1. /\ DOMAIN list = 1..Len(list) /\ Len(list) \in Nat
      /\ k \in 1..Len(list) /\ j \in 1..Len(list)
  OBVIOUS
<1> DEFINE e == Erase(list, k)
<1>2. /\ e \in Seq(S) /\ Len(e) = Len(list) - 1
      /\ \A i \in DOMAIN e : IF i < k THEN e[i] = list[i] ELSE e[i] = list[i + 1]
  BY EraseIs
<1> HIDE DEF e
<1>3. DOMAIN e = 1..(Len(list) - 1)
  BY <1>2
<1>4. CASE j < k
  <2>1. j \in DOMAIN e /\ e[j] = list[j]
    BY <1>1, <1>2, <1>3, <1>4
  <2> QED BY <2>1 DEF e
<1>5. CASE ~(j < k)
  <2>1. j - 1 \in DOMAIN e /\ ~(j - 1 < k) /\ (j - 1) + 1 = j
    BY <1>1, <1>3, <1>5
  <2>2. e[j - 1] = list[j]
    BY <1>2, <2>1
  <2> QED BY <2>1, <2>2 DEF e
<1> QED BY <1>4, <1>5

\* A list that is not full after an insertion has grown.
LEMMA InsertGrows ==
  ASSUME NEW S, NEW list \in Seq(S), NEW item \in S, NEW max \in Nat \ {0},
         Len(list) <= max, Len(Insert(list, item, max)) < max
  PROVE  Len(Insert(list, item, max)) = Len(list) + 1
<1> DEFINE n == IF Len(list) < max THEN Len(list) + 1 ELSE max
           new == <<item>> \o list
<1>1. new \in Seq(S) /\ Len(new) = Len(list) + 1 /\ n \in 0..Len(new)
  OBVIOUS
<1>2. Len(SubSeq(new, 1, n)) = n
  <2> HIDE DEF new, n
  <2> QED BY <1>1
<1>3. Insert(list, item, max) = SubSeq(new, 1, n)
  BY DEF Insert
<1> HIDE DEF new
<1> QED BY <1>2, <1>3

\* What is not kept of a list is dropped.
LEMMA KeptOrDropped ==
  ASSUME NEW list \in Seq(Chains), NEW k \in DOMAIN list
  PROVE  \/ \E j \in DOMAIN Kept(list) : Kept(list)[j] = list[k]
         \/ <<list[k].ratchet_key, list[k].chain_key.index>> \in Dropped(list)
<1> DEFINE max == MAX_SKIPPED_MESSAGE_KEYS
           n == IF Len(list) < max THEN Len(list) ELSE max
           rest == SubSeq(list, max + 1, Len(list))
<1>1. max \in Nat /\ Len(list) \in Nat /\ k \in 1..Len(list)
  BY LimitsAssumption
<1>2. n \in 0..Len(list) /\ n <= max
  BY <1>1
<1>3. CASE k <= n
  <2> DEFINE kept == SubSeq(list, 1, n)
  <2> HIDE DEF n, max
  <2>1. DOMAIN kept = 1..n /\ \A i \in 1..n : kept[i] = list[i]
    BY <1>1, <1>2
  <2>2. kept = Kept(list)
    BY DEF Kept, n, max
  <2>3. k \in 1..n
    BY <1>1, <1>2, <1>3
  <2> QED BY <2>1, <2>2, <2>3
<1>4. CASE ~(k <= n)
  <2>1. k > max
    BY <1>1, <1>4
  <2>2. k - max \in 1..(Len(list) - max)
    BY <1>1, <2>1
  <2> HIDE DEF max
  <2>3. /\ DOMAIN rest = 1..(Len(list) - max)
        /\ \A i \in 1..(Len(list) - max) : rest[i] = list[max + i]
    BY <1>1, <2>1
  <2>4. k - max \in DOMAIN rest /\ rest[k - max] = list[k]
    BY <1>1, <2>2, <2>3
  <2>5. Dropped(list) = {<<x.ratchet_key, x.chain_key.index>> : x \in {rest[i] : i \in DOMAIN rest}}
    BY DEF Dropped, Elements, max
  <2> HIDE DEF rest
  <2> QED BY <2>4, <2>5
<1> QED BY <1>3, <1>4

\* Nothing is left out of the list of skipped keys before it is cut.
LEMMA AllSkippedHolds ==
  ASSUME NEW chain \in Chains, NEW m \in Messages, NEW s \in Ratchets,
         NEW n \in Nat, m.counter = chain.chain_key.index + n
  PROVE  /\ \A l \in DOMAIN s.skipped_message_keys :
              \E k \in DOMAIN AllSkipped(chain, m, s) :
                AllSkipped(chain, m, s)[k] = s.skipped_message_keys[l]
         /\ \A j \in 0..(n - 1) :
              \E k \in DOMAIN AllSkipped(chain, m, s) :
                /\ AllSkipped(chain, m, s)[k].ratchet_key = chain.ratchet_key
                /\ AllSkipped(chain, m, s)[k].chain_key.root = chain.chain_key.root
                /\ AllSkipped(chain, m, s)[k].chain_key.index = chain.chain_key.index + j
<1> DEFINE a == SkippedKeys(chain, m)
           b == s.skipped_message_keys
           all == AllSkipped(chain, m, s)
<1>1. chain.chain_key.index \in Nat /\ m.counter \in Nat
      /\ m.counter - chain.chain_key.index = n
  BY ChainType, MessageType
<1>2. b \in Seq(Chains) /\ Len(b) \in Nat /\ DOMAIN b = 1..Len(b)
  BY PartsType
<1>3. /\ all \in Seq(Chains)
      /\ \A k \in DOMAIN all :
           IF k <= n
           THEN /\ all[k].ratchet_key = chain.ratchet_key
                /\ all[k].chain_key.root = chain.chain_key.root
                /\ all[k].chain_key.index = m.counter - k
           ELSE all[k] = b[k - n]
  BY AllSkippedIs
<1>4. Len(all) = n + Len(b)
  <2> DEFINE f == [k \in 1..n |->
                     [chain EXCEPT !.chain_key = Advanced(@, m.counter - chain.chain_key.index - k)]]
  <2>1. a = f
    BY <1>1 DEF SkippedKeys
  <2>2. all = a \o b
    BY DEF AllSkipped
  <2>3. \A k \in 1..n : f[k] \in Chains
    <3> SUFFICES ASSUME NEW k \in 1..n PROVE f[k] \in Chains
      OBVIOUS
    <3> DEFINE d == m.counter - chain.chain_key.index - k
    <3>1. d \in Int /\ chain.chain_key.index + d \in Nat /\ chain.chain_key \in ChainKeys
      BY <1>1, ChainType
    <3>2. f[k] = [chain EXCEPT !.chain_key = Advanced(@, d)]
      OBVIOUS
    <3> HIDE DEF d, f
    <3>3. Advanced(chain.chain_key, d) \in ChainKeys
      BY <3>1, AdvancedIs
    <3> QED BY <3>2, <3>3 DEF Chains
  <2>4. f \in Seq(Chains) /\ Len(f) = n
    <3>1. f = [k \in 1..n |-> f[k]]
      OBVIOUS
    <3> HIDE DEF f
    <3> QED BY <2>3, <3>1
  <2> HIDE DEF a, b, all, f
  <2>5. Len(f \o b) = Len(f) + Len(b)
    BY <1>2, <2>4
  <2>6. all = f \o b
    BY <2>1, <2>2
  <2> QED BY <2>4, <2>5, <2>6
<1> HIDE DEF all, a
<1>5. DOMAIN all = 1..(n + Len(b))
  BY <1>3, <1>4
<1>6. \A l \in DOMAIN b : \E k \in DOMAIN all : all[k] = b[l]
  <2> SUFFICES ASSUME NEW l \in DOMAIN b PROVE \E k \in DOMAIN all : all[k] = b[l]
    OBVIOUS
  <2>1. l \in 1..Len(b)
    BY <1>2
  <2> HIDE DEF b
  <2>2. l + n \in DOMAIN all /\ ~(l + n <= n) /\ (l + n) - n = l
    BY <1>2, <1>5, <2>1
  <2> QED BY <1>3, <2>2
<1>7. \A j \in 0..(n - 1) : \E k \in DOMAIN all :
        /\ all[k].ratchet_key = chain.ratchet_key
        /\ all[k].chain_key.root = chain.chain_key.root
        /\ all[k].chain_key.index = chain.chain_key.index + j
  <2> SUFFICES ASSUME NEW j \in 0..(n - 1)
               PROVE  \E k \in DOMAIN all :
                        /\ all[k].ratchet_key = chain.ratchet_key
                        /\ all[k].chain_key.root = chain.chain_key.root
                        /\ all[k].chain_key.index = chain.chain_key.index + j
    OBVIOUS
  <2> HIDE DEF b
  <2> DEFINE index == chain.chain_key.index
  <2>1. index \in Nat /\ m.counter = index + n /\ Len(b) \in Nat
    BY <1>1, <1>2
  <2> HIDE DEF index
  <2>2. n - j \in 1..(n + Len(b)) /\ n - j <= n /\ m.counter - (n - j) = index + j
    BY <2>1
  <2>3. n - j \in DOMAIN all
    BY <1>5, <2>2
  <2> QED BY <1>3, <2>2, <2>3 DEF index
<1> QED BY <1>6, <1>7 DEF all

\* What was skipped is still there after a message was read on a chain, or was dropped.
LEMMA OnChainKeepsSkipped ==
  ASSUME NEW t \in Ratchets, NEW msgs \in SUBSET Messages, NEW m \in msgs, NEW rd, NEW lost,
         NEW i \in ChainsFor(t, m), ReadsOnChain(t.receiver_chains[i].chain_key, m),
         \A n \in msgs : n.key.index = n.counter,
         \A a, b \in msgs : Header(a) = Header(b) => a = b,
         RootsAgree(msgs, t), SkippedOrForgotten(t, msgs, rd, lost)
  PROVE  SkippedOrForgotten(OnChain(t, m, i), msgs, rd \cup {m},
                            lost \cup Dropped(AllSkipped(t.receiver_chains[i], m, t)))
<1> DEFINE c == t.receiver_chains[i]
           u == OnChain(t, m, i)
           all == AllSkipped(c, m, t)
           size == m.counter - c.chain_key.index
<1>1. /\ m \in Messages /\ i \in DOMAIN t.receiver_chains /\ c \in Chains
      /\ c.ratchet_key = m.ratchet_key
  BY PartsType DEF ChainsFor
<1>2. /\ size \in Nat /\ c.chain_key.index \in Nat /\ m.counter \in Nat
      /\ m.counter = c.chain_key.index + size
      /\ c.chain_key \in ChainKeys
  <2>1. c.chain_key \in ChainKeys
    BY <1>1, ChainType
  <2>2. size \in Nat /\ c.chain_key.index \in Nat /\ m.counter \in Nat
    BY <1>1, <2>1, ChainRead
  <2> QED BY <2>1, <2>2
<1>3. /\ u.skipped_message_keys = Kept(all)
      /\ DOMAIN u.receiver_chains = DOMAIN t.receiver_chains
      /\ \A j \in DOMAIN t.receiver_chains :
           j # i => u.receiver_chains[j] = t.receiver_chains[j]
      /\ u.receiver_chains[i].ratchet_key = c.ratchet_key
      /\ Index(u.receiver_chains[i]) = m.counter + 1
  BY <1>1, OnChainIs
<1>4. all \in Seq(Chains)
  BY <1>1, <1>2, AllSkippedIs
<1>5. /\ \A l \in DOMAIN t.skipped_message_keys :
           \E k \in DOMAIN all : all[k] = t.skipped_message_keys[l]
      /\ \A j \in 0..(size - 1) : \E k \in DOMAIN all :
           /\ all[k].ratchet_key = c.ratchet_key
           /\ all[k].chain_key.root = c.chain_key.root
           /\ all[k].chain_key.index = c.chain_key.index + j
  BY <1>1, <1>2, AllSkippedHolds
<1> HIDE DEF c, u, all, size
<1> SUFFICES ASSUME NEW n \in msgs, n \notin rd, n # m, NEW j \in ChainsFor(u, n),
                    n.counter < Index(u.receiver_chains[j])
             PROVE  \/ Header(n) \in lost \cup Dropped(all)
                    \/ \E k \in DOMAIN u.skipped_message_keys :
                         /\ u.skipped_message_keys[k].ratchet_key = n.ratchet_key
                         /\ u.skipped_message_keys[k].chain_key = n.key
  BY DEF SkippedOrForgotten, u, all, c
<1>6. /\ j \in ChainsFor(t, n) /\ j \in DOMAIN t.receiver_chains
      /\ n.key \in ChainKeys /\ n.counter \in Nat /\ n.key.index = n.counter
  BY <1>3, MessageType DEF ChainsFor, c
<1>7. ASSUME NEW k \in DOMAIN all, all[k].ratchet_key = n.ratchet_key, all[k].chain_key = n.key
      PROVE  \/ Header(n) \in Dropped(all)
             \/ \E l \in DOMAIN u.skipped_message_keys :
                  /\ u.skipped_message_keys[l].ratchet_key = n.ratchet_key
                  /\ u.skipped_message_keys[l].chain_key = n.key
  BY <1>3, <1>4, <1>6, <1>7, KeptOrDropped DEF Header
<1>8. CASE n.counter < Index(t.receiver_chains[j])
  <2>1. \/ Header(n) \in lost
        \/ \E l \in DOMAIN t.skipped_message_keys :
             /\ t.skipped_message_keys[l].ratchet_key = n.ratchet_key
             /\ t.skipped_message_keys[l].chain_key = n.key
    BY <1>6, <1>8 DEF SkippedOrForgotten
  <2> QED BY <1>5, <1>7, <2>1
<1>9. CASE ~(n.counter < Index(t.receiver_chains[j]))
  <2>1. j = i
    BY <1>3, <1>6, <1>9
  <2>2. n.ratchet_key = m.ratchet_key /\ n.key.root = c.chain_key.root
    BY <1>1, <1>6, <2>1 DEF ChainsFor, RootsAgree, c, Root
  <2>3. n.counter # m.counter
    BY <2>2 DEF Header
  <2>4. n.counter - c.chain_key.index \in 0..(size - 1)
    <3>1. n.counter >= c.chain_key.index
      BY <1>2, <1>6, <1>9, <2>1 DEF Index, c
    <3>2. n.counter < m.counter + 1
      BY <1>3, <2>1
    <3> QED BY <1>2, <1>6, <2>3, <3>1, <3>2
  <2>5. PICK k \in DOMAIN all :
          /\ all[k].ratchet_key = c.ratchet_key
          /\ all[k].chain_key.root = c.chain_key.root
          /\ all[k].chain_key.index = c.chain_key.index + (n.counter - c.chain_key.index)
    BY <1>5, <2>4
  <2>6. all[k].chain_key \in ChainKeys /\ all[k].chain_key.index = n.key.index
    <3>1. all[k] \in Chains
      BY <1>4
    <3> QED BY <1>2, <1>6, <2>5, <3>1, ChainType
  <2>7. all[k].chain_key = n.key
    BY <1>6, <2>2, <2>5, <2>6, SameChainKey
  <2> QED BY <1>1, <1>7, <2>2, <2>5, <2>7
<1> QED BY <1>8, <1>9

\* Reading on a chain keeps a device in order.
LEMMA OnChainKeepsDevice ==
  ASSUME NEW t \in Ratchets, NEW m \in Messages, NEW i \in DOMAIN t.receiver_chains,
         ReadsOnChain(t.receiver_chains[i].chain_key, m),
         NEW p \in Parties, NEW g, NEW msgs, DeviceOK(t, p, g, msgs)
  PROVE  DeviceOK(OnChain(t, m, i), p, g, msgs)
<1> DEFINE u == OnChain(t, m, i)
<1>1. /\ u.root_key = t.root_key /\ u.sender_chain = t.sender_chain
      /\ DOMAIN u.receiver_chains = DOMAIN t.receiver_chains
      /\ Len(u.receiver_chains) = Len(t.receiver_chains)
      /\ \A j \in DOMAIN t.receiver_chains :
           /\ u.receiver_chains[j].ratchet_key = t.receiver_chains[j].ratchet_key
           /\ Root(u.receiver_chains[j]) = Root(t.receiver_chains[j])
  BY OnChainIs
<1>2. u \in Ratchets
  BY OnChainIs
<1> HIDE DEF u
<1>3. 1 \in DOMAIN t.receiver_chains
  BY PartsType
<1>4. Newest(u) = Newest(t)
  BY <1>1, <1>2, <1>3, NewestType
<1>5. RootIsOfChain(u)
  BY <1>1, <1>3 DEF DeviceOK, RootIsOfChain
<1>6. ChainsInOrder(u, Other(p))
  BY <1>1, <1>4 DEF DeviceOK, ChainsInOrder
<1>7. SentRoots(u, msgs) /\ SenderKey(u) = SenderKey(t)
  BY <1>1 DEF DeviceOK, SentRoots, SenderKey
<1> QED BY <1>1, <1>5, <1>6, <1>7 DEF DeviceOK, u

\* Reading on a chain keeps the devices in touch.
LEMMA OnChainKeepsTouch ==
  ASSUME NEW t \in Ratchets, NEW m \in Messages, NEW i \in DOMAIN t.receiver_chains,
         ReadsOnChain(t.receiver_chains[i].chain_key, m),
         NEW s, NEW g, NEW h, InTouch(t, s, g, h)
  PROVE  InTouch(OnChain(t, m, i), s, g, h)
<1> DEFINE u == OnChain(t, m, i)
<1>1. /\ u.root_key = t.root_key /\ u.sender_chain = t.sender_chain
      /\ DOMAIN u.receiver_chains = DOMAIN t.receiver_chains
      /\ \A j \in DOMAIN t.receiver_chains :
           /\ u.receiver_chains[j].ratchet_key = t.receiver_chains[j].ratchet_key
           /\ Root(u.receiver_chains[j]) = Root(t.receiver_chains[j])
  BY OnChainIs
<1>2. u \in Ratchets /\ 1 \in DOMAIN t.receiver_chains
  BY OnChainIs, PartsType
<1> HIDE DEF u
<1>3. Newest(u) = Newest(t) /\ SenderKey(u) = SenderKey(t)
  BY <1>1, <1>2, NewestType DEF SenderKey
<1>4. Root(u.receiver_chains[1]) = Root(t.receiver_chains[1])
  BY <1>1, <1>2
<1>5. CASE Heard(t, s, g, h) \/ Heard(s, t, h, g)
  BY <1>1, <1>3, <1>5 DEF InTouch, Heard, u
<1>6. CASE Ahead(t, s, g, h) \/ Ahead(s, t, h, g)
  BY <1>1, <1>3, <1>4, <1>6 DEF InTouch, Ahead, u
<1> QED BY <1>5, <1>6 DEF InTouch

\* Reading a message of s on a chain keeps what t holds of the messages of s.
LEMMA OnChainKeepsLink ==
  ASSUME NEW t \in Ratchets, NEW msgs \in SUBSET Messages, NEW m \in msgs, NEW rd, NEW lost,
         NEW i \in ChainsFor(t, m), ReadsOnChain(t.receiver_chains[i].chain_key, m),
         NEW s \in Ratchets, SentRoots(s, msgs), ListsBounded(s), ChainsDistinct(t),
         \A a, b \in msgs : Header(a) = Header(b) => a = b,
         s.sender_chain # <<>> /\ m.ratchet_key = SenderKey(s) =>
           m.counter < Index(s.sender_chain[1]),
         LinkOK(s, msgs, t, rd, lost)
  PROVE  LinkOK(s, msgs, OnChain(t, m, i), rd \cup {m},
                lost \cup Dropped(AllSkipped(t.receiver_chains[i], m, t)))
<1> DEFINE u == OnChain(t, m, i)
<1>1. /\ m \in Messages /\ i \in DOMAIN t.receiver_chains
      /\ t.receiver_chains[i].ratchet_key = m.ratchet_key
  BY DEF ChainsFor
<1>2. /\ DOMAIN u.receiver_chains = DOMAIN t.receiver_chains
      /\ \A j \in DOMAIN t.receiver_chains :
           /\ u.receiver_chains[j].ratchet_key = t.receiver_chains[j].ratchet_key
           /\ Root(u.receiver_chains[j]) = Root(t.receiver_chains[j])
           /\ Index(u.receiver_chains[j]) =
                IF j = i THEN m.counter + 1 ELSE Index(t.receiver_chains[j])
  BY <1>1, OnChainIs
<1>3. SkippedOrForgotten(u, msgs, rd \cup {m},
                         lost \cup Dropped(AllSkipped(t.receiver_chains[i], m, t)))
  BY OnChainKeepsSkipped DEF LinkOK, SentRoots
<1> HIDE DEF u
<1>4. RootsAgree(msgs, u)
  BY <1>2 DEF LinkOK, RootsAgree, ChainsFor
<1>5. NotPast(s, u)
  <2> SUFFICES ASSUME s.sender_chain # <<>>, NEW j \in DOMAIN t.receiver_chains,
                      t.receiver_chains[j].ratchet_key = SenderKey(s)
               PROVE  Index(u.receiver_chains[j]) <= Index(s.sender_chain[1])
    BY <1>2 DEF NotPast
  <2>1. Index(t.receiver_chains[j]) <= Index(s.sender_chain[1])
    BY DEF LinkOK, NotPast
  <2>2. Index(s.sender_chain[1]) \in Nat /\ m.counter \in Nat
    BY <1>1, SenderType, ChainType, MessageType
  <2>3. CASE j = i
    BY <1>1, <1>2, <2>2, <2>3
  <2>4. CASE j # i
    BY <1>2, <2>1, <2>4
  <2> QED BY <2>3, <2>4
<1> QED BY <1>3, <1>4, <1>5 DEF LinkOK, u

\* The session t becomes v by starting a chain for the message m.
ChainStarted(t, m, v) ==
  /\ v \in Ratchets /\ v.sender_chain = <<>>
  /\ v.skipped_message_keys = t.skipped_message_keys
  /\ t.sender_chain # <<>> /\ v.root_key = NextRoot(t.root_key, SenderKey(t), m.ratchet_key)
  /\ m.key.root = v.root_key /\ Len(v.root_key) = Len(t.root_key) + 1
  /\ 1 \in DOMAIN v.receiver_chains /\ v.receiver_chains[1].ratchet_key = m.ratchet_key
  /\ Root(v.receiver_chains[1]) = v.root_key /\ Index(v.receiver_chains[1]) = 0
  /\ \A i \in DOMAIN v.receiver_chains : i # 1 =>
       /\ i - 1 \in DOMAIN t.receiver_chains
       /\ v.receiver_chains[i] = t.receiver_chains[i - 1]
  /\ Len(v.receiver_chains) < MAX_RECEIVER_CHAINS =>
       Len(v.receiver_chains) = Len(t.receiver_chains) + 1

\* The session that starting a chain leaves.
LEMMA ChainStartedIs ==
  ASSUME NEW t \in Ratchets, NEW rd \in SUBSET Messages, KeysOK(t, rd),
         NEW m \in Messages, ReadsOnNewChain(t, m)
  PROVE  ChainStarted(t, m, WithReceiverChain(t, m))
<1> DEFINE key == NewChainKey(t, m)
           chain == [ratchet_key |-> m.ratchet_key, chain_key |-> key]
           new == Insert(t.receiver_chains, chain, MAX_RECEIVER_CHAINS)
           none == Erase(t.sender_chain, 1)
           root == NextRoot(t.root_key, SenderKey(t), m.ratchet_key)
           v == WithReceiverChain(t, m)
<1>1. /\ ChainsFor(t, m) = {} /\ t.sender_chain # <<>> /\ ReadsOnChain(key, m)
      /\ ListsBounded(t)
  BY DEF ReadsOnNewChain, KeysOK
<1>2. v \in Ratchets
  BY NewChainKeepsKeys
<1>3. /\ t.root_key \in Seq(SUBSET RatchetKeys) /\ SenderKey(t) \in RatchetKeys
      /\ m.ratchet_key \in RatchetKeys /\ 1 \in DOMAIN t.sender_chain
      /\ Len(t.sender_chain) = 1
  BY <1>1, PartsType, SenderType, MessageType
<1>4. root \in Seq(SUBSET RatchetKeys) /\ Len(root) = Len(t.root_key) + 1
  <2> DEFINE pair == {SenderKey(t), m.ratchet_key}
  <2>1. pair \in SUBSET RatchetKeys
    BY <1>3
  <2> HIDE DEF pair
  <2> QED BY <1>3, <2>1 DEF NextRoot, pair
<1>5. key = FirstChainKey(root)
  BY DEF NewChainKey, SenderKey
<1> HIDE DEF root
<1>6. key \in ChainKeys /\ key.root = root /\ key.index = 0
  BY <1>4, <1>5 DEF FirstChainKey, ChainKeys
<1>7. m.key.root = root
  BY <1>1, <1>6, ChainRead
<1> HIDE DEF key
<1>8. chain \in Chains /\ Root(chain) = root /\ Index(chain) = 0
      /\ chain.ratchet_key = m.ratchet_key
  BY <1>3, <1>6 DEF Chains, Root, Index
<1> HIDE DEF chain
<1>9. /\ t.receiver_chains \in Seq(Chains) /\ Len(t.receiver_chains) <= MAX_RECEIVER_CHAINS
      /\ MAX_RECEIVER_CHAINS \in Nat \ {0}
  BY <1>1, PartsType, LimitsAssumption DEF ListsBounded
<1>10. /\ new \in Seq(Chains) /\ 1 \in DOMAIN new /\ new[1] = chain
       /\ \A i \in DOMAIN new : i # 1 =>
            i - 1 \in DOMAIN t.receiver_chains /\ new[i] = t.receiver_chains[i - 1]
       /\ Len(new) < MAX_RECEIVER_CHAINS => Len(new) = Len(t.receiver_chains) + 1
  BY <1>8, <1>9, InsertIs, InsertGrows
<1>11. none \in Seq(Chains) /\ none = <<>>
  <2>1. t.sender_chain \in Seq(Chains)
    BY PartsType
  <2>2. none \in Seq(Chains) /\ Len(none) = 0
    <3>1. none \in Seq(Chains) /\ Len(none) = Len(t.sender_chain) - 1
      BY <1>3, <2>1, EraseIs
    <3> QED BY <1>3, <3>1
  <2> HIDE DEF none
  <2> QED BY <2>2, EmptySeq
<1> HIDE DEF new, none
<1>12. v = [t EXCEPT !.root_key = key.root, !.receiver_chains = new, !.sender_chain = none]
  BY <1>1 DEF WithReceiverChain, chain, key, new, none
<1> HIDE DEF v
<1>13. /\ v.root_key = root /\ v.receiver_chains = new /\ v.sender_chain = none
       /\ v.skipped_message_keys = t.skipped_message_keys
  BY <1>6, <1>12 DEF Ratchets
<1>14. ChainStarted(t, m, v)
  BY <1>1, <1>2, <1>4, <1>7, <1>8, <1>10, <1>11, <1>13 DEF ChainStarted, root
<1> QED BY <1>14 DEF v

\* Only a device that is ahead has sent a message that starts a chain, and on the chain
\* it still sends on.
LEMMA StartsAhead ==
  ASSUME NEW s \in Ratchets, NEW t \in Ratchets, NEW g, NEW h, InTouch(s, t, g, h),
         NEW msgs \in SUBSET Messages, NEW m \in msgs, SentRoots(s, msgs),
         NEW v, ChainStarted(t, m, v), ListsBounded(s), ListsBounded(t)
  PROVE  /\ Ahead(s, t, g, h)
         /\ m.ratchet_key = SenderKey(s) /\ v.root_key = s.root_key
<1>1. Len(s.root_key) \in Nat /\ Len(t.root_key) \in Nat /\ t.sender_chain # <<>>
      /\ Len(m.key.root) = Len(t.root_key) + 1 /\ Len(m.key.root) <= Len(s.root_key)
      /\ m.key.root = v.root_key
  BY PartsType DEF ChainStarted, SentRoots
<1>2. ~Heard(s, t, g, h)
  BY <1>1 DEF Heard
<1>3. ~Heard(t, s, h, g)
  BY <1>1 DEF Heard
<1>4. ASSUME NEW a \in Ratchets, NEW b \in Ratchets, ListsBounded(a), ListsBounded(b),
             NEW x, NEW y, Ahead(a, b, x, y)
      PROVE  Len(a.root_key) = Len(b.root_key) + 1
  <2> DEFINE pair == {SenderKey(a), SenderKey(b)}
  <2>1. pair \in SUBSET RatchetKeys
    BY <1>4, SenderType DEF Ahead
  <2>2. a.root_key = Append(b.root_key, pair)
    BY <1>4 DEF Ahead, NextRoot
  <2>3. b.root_key \in Seq(SUBSET RatchetKeys)
    BY PartsType
  <2> HIDE DEF pair
  <2> QED BY <2>1, <2>2, <2>3
<1>5. ~Ahead(t, s, h, g)
  <2>1. ASSUME Ahead(t, s, h, g) PROVE FALSE
    <3>1. Len(t.root_key) = Len(s.root_key) + 1
      BY <1>4, <2>1
    <3> QED BY <1>1, <3>1
  <2> QED BY <2>1
<1>6. Ahead(s, t, g, h)
  BY <1>2, <1>3, <1>5 DEF InTouch
<1>7. Len(s.root_key) = Len(t.root_key) + 1
  BY <1>4, <1>6
<1>8. m.ratchet_key = SenderKey(s) /\ m.key.root = s.root_key
  BY <1>1, <1>6, <1>7 DEF SentRoots, Ahead
<1> QED BY <1>1, <1>6, <1>8

\* Starting a chain keeps the device in order, and the other device is heard then.
LEMMA StartKeepsDevice ==
  ASSUME NEW s, NEW t \in Ratchets, NEW p \in Parties, NEW g \in Nat, NEW h \in Nat,
         NEW msgs, NEW mine \in SUBSET Messages,
         DeviceOK(s, Other(p), g, msgs), DeviceOK(t, p, h, mine),
         Ahead(s, t, g, h), NEW m, NEW v, ChainStarted(t, m, v),
         m.ratchet_key = SenderKey(s), v.root_key = s.root_key
  PROVE  DeviceOK(v, p, h, mine) /\ Heard(s, v, g, h)
<1>1. /\ v \in Ratchets /\ v.sender_chain = <<>> /\ 1 \in DOMAIN v.receiver_chains
      /\ v.receiver_chains[1].ratchet_key = <<Other(p), g>>
      /\ Root(v.receiver_chains[1]) = v.root_key
  BY DEF ChainStarted, DeviceOK, Ahead
<1>2. Newest(v) = g /\ Newest(t) = g - 1 /\ Newest(t) \in Nat
  <2>1. Newest(v) = v.receiver_chains[1].ratchet_key[2]
    BY <1>1, NewestType
  <2> QED BY <1>1, <2>1, NewestType DEF Ahead
<1>3. ChainsInOrder(v, Other(p))
  <2>1. ASSUME NEW i \in DOMAIN v.receiver_chains
        PROVE  v.receiver_chains[i].ratchet_key = <<Other(p), Newest(v) - i + 1>>
    <3>1. i \in Nat /\ g - 1 + 1 = g
      BY <1>1, PartsType
    <3>2. CASE i = 1
      BY <1>1, <1>2, <3>1, <3>2
    <3>3. CASE i # 1
      <4>1. /\ i - 1 \in DOMAIN t.receiver_chains
            /\ v.receiver_chains[i] = t.receiver_chains[i - 1]
        BY <3>3 DEF ChainStarted
      <4>2. v.receiver_chains[i].ratchet_key = <<Other(p), Newest(t) - (i - 1) + 1>>
        BY <4>1 DEF DeviceOK, ChainsInOrder
      <4>3. Newest(t) - (i - 1) + 1 = Newest(v) - i + 1
        BY <1>2, <3>1
      <4> QED BY <4>2, <4>3
    <3> QED BY <3>2, <3>3
  <2>2. ASSUME Len(v.receiver_chains) < MAX_RECEIVER_CHAINS
        PROVE  Newest(v) = Len(v.receiver_chains)
    <3>1. Len(v.receiver_chains) = Len(t.receiver_chains) + 1
      BY <2>2 DEF ChainStarted
    <3>2. Len(t.receiver_chains) \in Nat /\ MAX_RECEIVER_CHAINS \in Nat
      BY PartsType, LimitsAssumption
    <3>3. Newest(t) = Len(t.receiver_chains)
      BY <2>2, <3>1, <3>2 DEF DeviceOK, ChainsInOrder
    <3> QED BY <1>2, <3>1, <3>2, <3>3
  <2> QED BY <2>1, <2>2 DEF ChainsInOrder
<1>4. SentRoots(v, mine)
  <2>1. Len(v.root_key) = Len(t.root_key) + 1 /\ Len(t.root_key) \in Nat
    BY PartsType DEF ChainStarted
  <2>2. \A n \in mine : /\ n.key.index = n.counter /\ Len(n.key.root) <= Len(t.root_key)
                        /\ Len(n.key.root) \in Nat
    BY MessageType DEF DeviceOK, SentRoots
  <2> QED BY <1>1, <2>1, <2>2 DEF SentRoots
<1>5. DeviceOK(v, p, h, mine)
  BY <1>1, <1>3, <1>4 DEF DeviceOK, RootIsOfChain
<1>6. Heard(s, v, g, h)
  BY <1>1, <1>2 DEF Heard, Ahead
<1> QED BY <1>5, <1>6

\* Starting a chain keeps what the device holds of the messages of the other.
LEMMA StartKeepsLink ==
  ASSUME NEW s \in Ratchets, NEW t \in Ratchets, NEW msgs \in SUBSET Messages, NEW rd, NEW lost,
         LinkOK(s, msgs, t, rd, lost), SentRoots(s, msgs), ListsBounded(s),
         s.sender_chain # <<>>,
         NEW m, NEW v, ChainStarted(t, m, v),
         m.ratchet_key = SenderKey(s), v.root_key = s.root_key
  PROVE  LinkOK(s, msgs, v, rd, lost)
<1>1. /\ 1 \in DOMAIN v.receiver_chains /\ v.receiver_chains[1].ratchet_key = SenderKey(s)
      /\ Root(v.receiver_chains[1]) = s.root_key /\ Index(v.receiver_chains[1]) = 0
      /\ v.skipped_message_keys = t.skipped_message_keys
      /\ \A i \in DOMAIN v.receiver_chains : i # 1 =>
           /\ i - 1 \in DOMAIN t.receiver_chains
           /\ v.receiver_chains[i] = t.receiver_chains[i - 1]
  BY DEF ChainStarted
<1>2. \A n \in msgs : \A i \in ChainsFor(v, n) : i # 1 =>
        /\ i - 1 \in ChainsFor(t, n)
        /\ v.receiver_chains[i] = t.receiver_chains[i - 1]
  BY <1>1 DEF ChainsFor
<1>3. RootsAgree(msgs, v)
  <2> SUFFICES ASSUME NEW n \in msgs, NEW i \in ChainsFor(v, n)
               PROVE  n.key.root = Root(v.receiver_chains[i])
    BY DEF RootsAgree
  <2>1. CASE i = 1
    <3>1. n.ratchet_key = SenderKey(s)
      BY <1>1, <2>1 DEF ChainsFor
    <3> QED BY <1>1, <2>1, <3>1 DEF SentRoots
  <2>2. CASE i # 1
    BY <1>2, <2>2 DEF LinkOK, RootsAgree
  <2> QED BY <2>1, <2>2
<1>4. NotPast(s, v)
  <2>1. Index(s.sender_chain[1]) \in Nat
    BY SenderType, ChainType
  <2> SUFFICES ASSUME NEW i \in DOMAIN v.receiver_chains,
                      v.receiver_chains[i].ratchet_key = SenderKey(s)
               PROVE  Index(v.receiver_chains[i]) <= Index(s.sender_chain[1])
    BY DEF NotPast
  <2>2. CASE i = 1
    BY <1>1, <2>1, <2>2
  <2>3. CASE i # 1
    BY <1>1, <2>3 DEF LinkOK, NotPast
  <2> QED BY <2>2, <2>3
<1>5. SkippedOrForgotten(v, msgs, rd, lost)
  <2> SUFFICES ASSUME NEW n \in msgs \ rd, NEW i \in ChainsFor(v, n),
                      n.counter < Index(v.receiver_chains[i])
               PROVE  \/ Header(n) \in lost
                      \/ \E k \in DOMAIN v.skipped_message_keys :
                           /\ v.skipped_message_keys[k].ratchet_key = n.ratchet_key
                           /\ v.skipped_message_keys[k].chain_key = n.key
    BY DEF SkippedOrForgotten
  <2>1. n.counter \in Nat
    BY MessageType
  <2>2. i # 1
    BY <1>1, <2>1
  <2> QED BY <1>1, <1>2, <2>2 DEF LinkOK, SkippedOrForgotten
<1> QED BY <1>3, <1>4, <1>5 DEF LinkOK

\* Reading under a skipped key keeps the other skipped keys.
LEMMA SkippedKeepsLink ==
  ASSUME NEW t \in Ratchets, NEW msgs \in SUBSET Messages, NEW m \in msgs, NEW rd, NEW lost,
         NEW k \in SkippedFor(t, m), NEW s, LinkOK(s, msgs, t, rd, lost),
         SentRoots(s, msgs), \A a, b \in msgs : Header(a) = Header(b) => a = b,
         NEW u, u.receiver_chains = t.receiver_chains,
         u.skipped_message_keys = Erase(t.skipped_message_keys, k)
  PROVE  LinkOK(s, msgs, u, rd \cup {m}, lost)
<1> DEFINE list == t.skipped_message_keys
<1>1. list \in Seq(Chains) /\ k \in DOMAIN list
      /\ list[k].ratchet_key = m.ratchet_key /\ list[k].chain_key = m.key
  BY PartsType DEF SkippedFor
<1>2. RootsAgree(msgs, u) /\ NotPast(s, u)
  BY DEF LinkOK, RootsAgree, NotPast, ChainsFor
<1>3. SkippedOrForgotten(u, msgs, rd \cup {m}, lost)
  <2> SUFFICES ASSUME NEW n \in msgs, n \notin rd, n # m, NEW i \in ChainsFor(u, n),
                      n.counter < Index(u.receiver_chains[i]), Header(n) \notin lost
               PROVE  \E l \in DOMAIN u.skipped_message_keys :
                        /\ u.skipped_message_keys[l].ratchet_key = n.ratchet_key
                        /\ u.skipped_message_keys[l].chain_key = n.key
    BY DEF SkippedOrForgotten
  <2>1. i \in ChainsFor(t, n) /\ n.counter < Index(t.receiver_chains[i])
    BY DEF ChainsFor
  <2>2. PICK j \in DOMAIN list :
          list[j].ratchet_key = n.ratchet_key /\ list[j].chain_key = n.key
    BY <2>1 DEF LinkOK, SkippedOrForgotten
  <2>3. j # k
    <3> SUFFICES ASSUME j = k PROVE FALSE
      OBVIOUS
    <3>1. n.ratchet_key = m.ratchet_key /\ n.key = m.key
      BY <1>1, <2>2
    <3>2. n.counter = m.counter
      BY <3>1 DEF SentRoots
    <3> QED BY <3>1, <3>2 DEF Header
  <2> HIDE DEF list
  <2>4. \E l \in DOMAIN Erase(list, k) : Erase(list, k)[l] = list[j]
    BY <1>1, <2>3, EraseKeeps
  <2> QED BY <2>2, <2>4 DEF list
<1> QED BY <1>2, <1>3 DEF LinkOK

-----------------------------------------------------------------------------
\* What TypeOK and IInv say of a device, put together.
LEMMA DeviceType ==
  ASSUME IInv, NEW p \in Parties
  PROVE  /\ generated[p] \in Nat /\ sent[p] \in SUBSET Messages /\ read[p] \in SUBSET Messages
         /\ \A m \in sent[p] : m.ratchet_key[1] = p /\ m.ratchet_key[2] <= generated[p]
         /\ \A a, b \in sent[p] : Header(a) = Header(b) => a = b
         /\ Established(p) =>
              /\ session[p] \in Ratchets /\ KeysOK(session[p], read[p])
              /\ ListsBounded(session[p])
BY DEF IInv, TypeOK, HeadersFresh, Established, KeysOK

\* Each of the two devices stands to the other as the invariant says.
LEMMA PairOf ==
  ASSUME SyncInv, Established("bob"), NEW p \in Parties
  PROVE  PairOK(p, Other(p))
<1>1. PairOK("alice", "bob")
  BY DEF SyncInv
<1>2. PairOK("bob", "alice")
  BY <1>1 DEF PairOK, InTouch
<1> QED BY <1>1, <1>2 DEF Parties, Other

\* A device that can be reached has the session, and so has the one that reaches it.
LEMMA BothEstablished ==
  ASSUME IInv, SyncInv, NEW p \in Parties, Established(p), NEW m \in sent[Other(p)]
  PROVE  Established("bob") /\ Established(Other(p))
<1>1. Established("alice")
  BY DEF IInv, Started
<1>2. CASE p = "alice"
  <2>1. sent["bob"] # {}
    BY <1>2 DEF Other
  <2> QED BY <1>2, <2>1 DEF SyncInv, AliceAlone, Other
<1>3. CASE p = "bob"
  BY <1>1, <1>3 DEF Other
<1> QED BY <1>2, <1>3, PartiesAre

\* What there is to show of a step that leaves the session to both devices.
LEMMA SyncAfter ==
  ASSUME NEW p \in Parties, NEW q \in Parties, q = Other(p),
         session'[p] # NoSession, session'[q] # NoSession,
         DeviceOK(session'[p], p, generated'[p], sent'[p]),
         DeviceOK(session'[q], q, generated'[q], sent'[q]),
         InTouch(session'[p], session'[q], generated'[p], generated'[q]),
         LinkOK(session'[q], sent'[q], session'[p], read'[p], forgotten'[p]),
         LinkOK(session'[p], sent'[p], session'[q], read'[q], forgotten'[q])
  PROVE  SyncInv'
<1>1. \A r \in Parties : r = p \/ r = q
  BY DEF Parties, Other
<1>2. \A r \in Parties : DeviceOK(session'[r], r, generated'[r], sent'[r])
  BY <1>1
<1>3. PairOK(p, q)' /\ PairOK(q, p)'
  BY DEF PairOK, InTouch
<1>4. PairOK("alice", "bob")'
  BY <1>3 DEF Parties, Other
<1>5. Established("bob")'
  BY <1>1 DEF Established, Parties
<1> QED BY <1>2, <1>4, <1>5 DEF SyncInv

\* Encrypting keeps the devices in step.
LEMMA EncryptSync ==
  ASSUME IInv, SyncInv, NEW p \in Parties, Encrypt(p)
  PROVE  SyncInv'
<1> DEFINE q == Other(p)
           s == session[p]
           key == <<p, generated[p] + 1>>
           w == WithSenderChain(s, key)
           u == [w EXCEPT !.sender_chain[1].chain_key = Advanced(@, 1)]
           m == MessageOf(w)
           g == IF s.sender_chain = <<>> THEN generated[p] + 1 ELSE generated[p]
<1>1. /\ Established(p) /\ q \in Parties /\ q # p
      /\ NewKey(p) = key /\ key \in RatchetKeys
  BY DeviceType, PartiesAre DEF Encrypt, Established, NewKey, RatchetKeys
<1>2. /\ s \in Ratchets /\ KeysOK(s, read[p]) /\ ListsBounded(s) /\ generated[p] \in Nat
      /\ sent[p] \in SUBSET Messages /\ read[p] \in SUBSET Messages
      /\ \A n \in sent[p] : n.ratchet_key[2] <= generated[p]
      /\ DeviceOK(s, p, generated[p], sent[p])
  BY <1>1, DeviceType DEF SyncInv
<1>3. Encrypted(s, key, u, m)
  BY <1>1, <1>2, EncryptIs
<1>4. /\ session' = [session EXCEPT ![p] = u]
      /\ sent' = [sent EXCEPT ![p] = @ \cup {m}]
      /\ generated' = [generated EXCEPT ![p] = IF s.sender_chain = <<>> THEN @ + 1 ELSE @]
      /\ read' = read /\ forgotten' = forgotten
  BY <1>1 DEF Encrypt
<1> HIDE DEF u, m, w
<1>5. /\ session'[p] = u /\ sent'[p] = sent[p] \cup {m} /\ generated'[p] = g
      /\ \A r \in Parties : r # p =>
           session'[r] = session[r] /\ sent'[r] = sent[r] /\ generated'[r] = generated[r]
  BY <1>4 DEF IInv, TypeOK
<1>6. u # NoSession /\ u \in Ratchets
  BY <1>3, NoSessionAssumption DEF Encrypted
<1>7. DeviceOK(u, p, g, sent[p] \cup {m})
  BY <1>2, <1>3, EncryptKeepsDevice
<1>8. CASE Established("bob")
  <2>1. Established(q) /\ PairOK(p, q)
    BY <1>1, <1>8, PairOf, PartiesAre DEF IInv, Started
  <2>2. /\ session[q] \in Ratchets /\ generated[q] \in Nat /\ sent[q] \in SUBSET Messages
        /\ DeviceOK(session[q], q, generated[q], sent[q])
    BY <1>1, <2>1, DeviceType DEF SyncInv
  <2>3. Other(q) = p
    BY PartiesAre DEF Other, Parties
  <2>4. InTouch(u, session[q], g, generated[q])
    BY <1>2, <1>3, <2>1, <2>2, EncryptKeepsTouch DEF PairOK
  <2>5. LinkOK(session[q], sent[q], u, read[p], forgotten[p])
    BY <1>3, <2>1, EncryptKeepsHeld DEF PairOK
  <2>6. LinkOK(u, sent[p] \cup {m}, session[q], read[q], forgotten[q])
    <3>1. RootIsOfChain(session[q]) /\ ChainsInOrder(session[q], p)
      BY <2>2, <2>3 DEF DeviceOK
    <3>2. LinkOK(s, sent[p], session[q], read[q], forgotten[q])
          /\ InTouch(s, session[q], generated[p], generated[q])
      BY <2>1 DEF PairOK
    <3> HIDE DEF q, s, key
    <3>3. Encrypted(s, <<p, generated[p] + 1>>, u, m)
      BY <1>3 DEF key
    <3> QED BY <1>2, <2>2, <3>1, <3>2, <3>3, EncryptKeepsLink
  <2>7. session[q] # NoSession
    BY <2>1 DEF Established
  <2> QED BY <1>1, <1>4, <1>5, <1>6, <1>7, <2>2, <2>4, <2>5, <2>6, <2>7, SyncAfter
<1>9. CASE ~Established("bob")
  <2>1. p = "alice" /\ AliceAlone
    BY <1>1, <1>9, PartiesAre DEF SyncInv
  <2>2. u.sender_chain # <<>> /\ u.receiver_chains = <<>> /\ u.root_key = <<>> /\ g = 1
    BY <1>3, <2>1 DEF AliceAlone, Encrypted
  <2>3. AliceAlone'
    BY <1>5, <2>1, <2>2, PartiesAre DEF AliceAlone
  <2>4. ~Established("bob")'
    BY <1>5, <1>9, <2>1, PartiesAre DEF Established
  <2>5. \A r \in Parties : Established(r)' =>
          DeviceOK(session'[r], r, generated'[r], sent'[r])
    <3> SUFFICES ASSUME NEW r \in Parties, Established(r)'
                 PROVE  DeviceOK(session'[r], r, generated'[r], sent'[r])
      OBVIOUS
    <3>1. r # "bob"
      BY <2>4
    <3>2. r = p
      BY <2>1, <3>1, PartiesAre
    <3>3. DeviceOK(session'[p], p, generated'[p], sent'[p])
      BY <1>5, <1>7
    <3> QED BY <3>2, <3>3
  <2> QED BY <2>3, <2>4, <2>5 DEF SyncInv
<1> QED BY <1>8, <1>9

\* What a device that is read from holds, and has to send on, is the business of the other.
LEMMA SenderKept ==
  ASSUME NEW t, NEW u, u.sender_chain = t.sender_chain \/ u.sender_chain = <<>>,
         NEW msgs, NEW s, NEW rd, NEW lost, LinkOK(t, msgs, s, rd, lost)
  PROVE  LinkOK(u, msgs, s, rd, lost)
BY DEF LinkOK, NotPast, SenderKey

\* Reading on a chain of v keeps the devices in step, where v stands to the other device
\* as the invariant says.
LEMMA OnChainSync ==
  ASSUME IInv, NEW p \in Parties, NEW q \in Parties, q = Other(p), Established(q),
         NEW m \in sent[q], NEW v \in Ratchets, KeysOK(v, read[p]),
         NEW i \in ChainsFor(v, m),
         \E j \in ChainsFor(v, m) : ReadsOnChain(v.receiver_chains[j].chain_key, m),
         DeviceOK(v, p, generated[p], sent[p]),
         DeviceOK(session[q], q, generated[q], sent[q]),
         InTouch(v, session[q], generated[p], generated[q]),
         LinkOK(session[q], sent[q], v, read[p], forgotten[p]),
         LinkOK(v, sent[p], session[q], read[q], forgotten[q]),
         session' = [session EXCEPT ![p] = OnChain(v, m, i)],
         forgotten' = [forgotten EXCEPT
           ![p] = @ \cup Dropped(AllSkipped(v.receiver_chains[i], m, v))],
         Deliver(p, m), UNCHANGED <<generated, sent, written>>
  PROVE  SyncInv'
<1> DEFINE u == OnChain(v, m, i)
           lost == forgotten[p] \cup Dropped(AllSkipped(v.receiver_chains[i], m, v))
           t == session[q]
<1>1. q # p /\ m \in Messages /\ i \in DOMAIN v.receiver_chains
      /\ t \in Ratchets /\ ListsBounded(t) /\ sent[q] \in SUBSET Messages
      /\ \A a, b \in sent[q] : Header(a) = Header(b) => a = b
  BY DeviceType, PartiesAre DEF ChainsFor
<1>2. ReadsOnChain(v.receiver_chains[i].chain_key, m)
  BY DEF KeysOK, ChainsDistinct, ChainsFor
<1>3. u \in Ratchets /\ u.sender_chain = v.sender_chain
  BY <1>1, <1>2, OnChainIs
<1>4. DeviceOK(u, p, generated[p], sent[p])
  BY <1>1, <1>2, OnChainKeepsDevice
<1>5. InTouch(u, t, generated[p], generated[q])
  BY <1>1, <1>2, OnChainKeepsTouch
<1>6. LinkOK(t, sent[q], u, read[p] \cup {m}, lost)
  <2>1. t.sender_chain # <<>> /\ m.ratchet_key = SenderKey(t) =>
          m.counter < Index(t.sender_chain[1])
    BY DEF IInv, HeadersFresh, SenderKey
  <2>2. SentRoots(t, sent[q]) /\ ChainsDistinct(v)
    BY DEF DeviceOK, KeysOK
  <2> QED BY <1>1, <1>2, <2>1, <2>2, OnChainKeepsLink
<1>7. LinkOK(u, sent[p], t, read[q], forgotten[q])
  BY <1>3, SenderKept
<1>8. /\ session'[p] = u /\ session'[q] = t /\ read'[p] = read[p] \cup {m}
      /\ read'[q] = read[q] /\ forgotten'[p] = lost /\ forgotten'[q] = forgotten[q]
      /\ generated' = generated /\ sent' = sent
  BY <1>1 DEF IInv, TypeOK, Deliver
<1>9. u # NoSession /\ t # NoSession
  BY <1>3, NoSessionAssumption DEF Established
<1> HIDE DEF u, lost, t
<1>10. DeviceOK(t, q, generated[q], sent[q])
  BY DEF t
<1> QED BY <1>4, <1>5, <1>6, <1>7, <1>8, <1>9, <1>10, SyncAfter

\* Decrypting keeps the devices in step.
LEMMA DecryptSync ==
  ASSUME IInv, SyncInv, NEW p \in Parties, NEW m \in sent[Other(p)], Decrypt(p, m)
  PROVE  SyncInv'
<1> DEFINE q == Other(p)
           s == session[p]
           t == session[q]
<1>1. Established(p) /\ Reads(s, m) /\ q \in Parties /\ q # p /\ Other(q) = p
  BY PartiesAre DEF Decrypt, Established, Other, Parties
<1>2. Established(q) /\ PairOK(p, q)
  BY <1>1, BothEstablished, PairOf
<1>3. /\ s \in Ratchets /\ KeysOK(s, read[p]) /\ ListsBounded(s) /\ generated[p] \in Nat
      /\ sent[p] \in SUBSET Messages /\ read[p] \in SUBSET Messages
      /\ DeviceOK(s, p, generated[p], sent[p])
      /\ t \in Ratchets /\ ListsBounded(t) /\ generated[q] \in Nat
      /\ sent[q] \in SUBSET Messages /\ m \in Messages
      /\ \A a, b \in sent[q] : Header(a) = Header(b) => a = b
      /\ DeviceOK(t, q, generated[q], sent[q]) /\ SentRoots(t, sent[q])
  BY <1>1, <1>2, DeviceType DEF SyncInv, DeviceOK
<1>4. /\ InTouch(s, t, generated[p], generated[q])
      /\ LinkOK(t, sent[q], s, read[p], forgotten[p])
      /\ LinkOK(s, sent[p], t, read[q], forgotten[q])
  BY <1>2 DEF PairOK
<1>5. Deliver(p, m) /\ UNCHANGED <<generated, sent, written>>
  BY DEF Decrypt
<1>6. CASE SkippedFor(s, m) # {}
  <2>1. PICK k \in SkippedFor(s, m) :
          /\ session' = [session EXCEPT ![p] =
               [s EXCEPT !.skipped_message_keys = Erase(@, k), !.received_message = TRUE]]
          /\ forgotten' = forgotten
    BY <1>6 DEF Decrypt, DecryptSkipped
  <2> DEFINE u == [s EXCEPT !.skipped_message_keys = Erase(@, k), !.received_message = TRUE]
  <2>2. /\ u.root_key = s.root_key /\ u.sender_chain = s.sender_chain
        /\ u.receiver_chains = s.receiver_chains
        /\ u.skipped_message_keys = Erase(s.skipped_message_keys, k)
    BY <1>3 DEF Ratchets
  <2>3. u \in Ratchets
    BY <1>3, SkippedKeepsKeys
  <2>4. session'[p] = u /\ session'[q] = t /\ read'[p] = read[p] \cup {m}
        /\ read'[q] = read[q] /\ forgotten' = forgotten /\ generated' = generated
        /\ sent' = sent
    BY <1>1, <1>5, <2>1 DEF IInv, TypeOK, Deliver
  <2> HIDE DEF u, s, t, q
  <2>5. DeviceOK(u, p, generated[p], sent[p])
    BY <1>3, <2>2
       DEF DeviceOK, RootIsOfChain, ChainsInOrder, SentRoots, Newest, SenderKey
  <2>6. InTouch(u, t, generated[p], generated[q])
    BY <1>4, <2>2 DEF InTouch, Heard, Ahead, Newest, SenderKey
  <2>7. LinkOK(t, sent[q], u, read[p] \cup {m}, forgotten[p])
    BY <1>3, <1>4, <2>2, SkippedKeepsLink DEF q
  <2>8. LinkOK(u, sent[p], t, read[q], forgotten[q])
    BY <1>4, <2>2, SenderKept
  <2>9. u # NoSession /\ t # NoSession
    BY <1>2, <2>3, NoSessionAssumption DEF Established, t
  <2> QED BY <1>1, <1>3, <2>4, <2>5, <2>6, <2>7, <2>8, <2>9, SyncAfter DEF q
<1>7. CASE SkippedFor(s, m) = {}
  <2> DEFINE v == WithReceiverChain(s, m)
  <2>1. DecryptOnChain(p, v, m)
    BY <1>7 DEF Decrypt
  <2>2. PICK i \in ChainsFor(v, m) :
          /\ session' = [session EXCEPT ![p] = OnChain(v, m, i)]
          /\ forgotten' = [forgotten EXCEPT
               ![p] = @ \cup Dropped(AllSkipped(v.receiver_chains[i], m, v))]
    BY <2>1 DEF DecryptOnChain, OnChain
  <2> HIDE DEF s, t, q
  <2>3. CASE ReadsOnNewChain(s, m)
    <3>1. /\ v \in Ratchets /\ KeysOK(v, read[p])
          /\ \E j \in ChainsFor(v, m) : ReadsOnChain(v.receiver_chains[j].chain_key, m)
      BY <1>3, <2>3, NewChainKeepsKeys
    <3>2. ChainStarted(s, m, v)
      BY <1>3, <2>3, ChainStartedIs
    <3> HIDE DEF v
    <3>3. InTouch(t, s, generated[q], generated[p]) /\ m \in sent[q]
      BY <1>4 DEF InTouch, q
    <3>4. /\ Ahead(t, s, generated[q], generated[p])
          /\ m.ratchet_key = SenderKey(t) /\ v.root_key = t.root_key
      BY <1>3, <3>2, <3>3, StartsAhead
    <3>5. DeviceOK(v, p, generated[p], sent[p]) /\ Heard(t, v, generated[q], generated[p])
      BY <1>3, <3>2, <3>4, StartKeepsDevice DEF q
    <3>6. InTouch(v, t, generated[p], generated[q])
      BY <3>5 DEF InTouch
    <3>7. t.sender_chain # <<>> /\ v.sender_chain = <<>>
      BY <3>4, <3>2 DEF Ahead, ChainStarted
    <3>8. LinkOK(t, sent[q], v, read[p], forgotten[p])
      BY <1>3, <1>4, <3>2, <3>4, <3>7, StartKeepsLink
    <3>9. LinkOK(v, sent[p], t, read[q], forgotten[q])
      BY <1>4, <3>7, SenderKept
    <3> QED BY <1>1, <1>2, <1>3, <1>5, <2>2, <3>1, <3>3, <3>5, <3>6, <3>8, <3>9, OnChainSync
            DEF q, t
  <2>4. CASE ReadsOnHeldChain(s, m)
    <3>1. v = s
      BY <2>4 DEF ReadsOnHeldChain, WithReceiverChain
    <3> HIDE DEF v
    <3>2. \E j \in ChainsFor(v, m) : ReadsOnChain(v.receiver_chains[j].chain_key, m)
      BY <2>4, <3>1 DEF ReadsOnHeldChain
    <3> QED BY <1>1, <1>2, <1>3, <1>4, <1>5, <2>2, <3>1, <3>2, OnChainSync DEF q, t
  <2> QED BY <1>1, <1>7, <2>3, <2>4 DEF Reads, s
<1> QED BY <1>6, <1>7

\* The session that bob makes stands to alice's as the invariant says.
LEMMA InboundIs ==
  ASSUME IInv, SyncInv, ~Established("bob"), NEW m \in sent["alice"]
  PROVE  LET v == AsBob(m.ratchet_key)
             s == session["alice"]
         IN /\ DeviceOK(v, "bob", generated["bob"], sent["bob"])
            /\ InTouch(v, s, generated["bob"], generated["alice"])
            /\ LinkOK(s, sent["alice"], v, read["bob"], forgotten["bob"])
            /\ LinkOK(v, sent["bob"], s, read["alice"], forgotten["alice"])
<1> DEFINE v == AsBob(m.ratchet_key)
           s == session["alice"]
           one == [ratchet_key |-> m.ratchet_key, chain_key |-> FirstChainKey(<<>>)]
<1>1. /\ AliceAlone /\ Established("alice") /\ s \in Ratchets /\ ListsBounded(s)
      /\ DeviceOK(s, "alice", generated["alice"], sent["alice"])
      /\ sent["alice"] \in SUBSET Messages /\ m \in Messages
  BY DeviceType, PartiesAre DEF SyncInv, IInv, Started
<1>2. /\ s.sender_chain # <<>> /\ s.receiver_chains = <<>> /\ s.root_key = <<>>
      /\ generated["alice"] = 1 /\ generated["bob"] = 0 /\ sent["bob"] = {}
  BY <1>1 DEF AliceAlone
<1>3. SenderKey(s) = <<"alice", 1>> /\ SentRoots(s, sent["alice"])
  BY <1>1, <1>2 DEF DeviceOK
<1>4. \A n \in sent["alice"] : n.ratchet_key = <<"alice", 1>> /\ n.key.root = <<>>
  <2> SUFFICES ASSUME NEW n \in sent["alice"]
               PROVE  n.ratchet_key = <<"alice", 1>> /\ n.key.root = <<>>
    OBVIOUS
  <2>1. Len(s.root_key) = 0
    BY <1>1, <1>2, PartsType, EmptySeq
  <2>2. Len(n.key.root) \in Nat /\ Len(n.key.root) <= Len(s.root_key)
    BY <1>1, <1>3, MessageType DEF SentRoots
  <2>3. n.ratchet_key = SenderKey(s)
    BY <1>2, <1>3, <2>1, <2>2 DEF SentRoots
  <2> QED BY <1>2, <1>3, <2>3 DEF SentRoots
<1>5. /\ v.root_key = <<>> /\ v.sender_chain = <<>> /\ v.skipped_message_keys = <<>>
      /\ v.receiver_chains = <<one>>
  BY DEF AsBob
<1>6. /\ DOMAIN v.receiver_chains = {1} /\ Len(v.receiver_chains) = 1
      /\ v.receiver_chains[1] = one
  BY <1>5
<1>7. /\ one.ratchet_key = <<"alice", 1>> /\ Root(one) = <<>> /\ Index(one) = 0
  BY <1>4 DEF Root, Index, FirstChainKey
<1> HIDE DEF v, one
<1>8. Newest(v) = 1 /\ Newest(s) = 0
  <2>1. v.receiver_chains # <<>>
    BY <1>6
  <2> QED BY <1>2, <1>6, <1>7, <2>1 DEF Newest
<1>9. DeviceOK(v, "bob", generated["bob"], sent["bob"])
  <2>1. ChainsInOrder(v, Other("bob"))
    <3>1. 1 - 1 + 1 = 1
      OBVIOUS
    <3> QED BY <1>6, <1>7, <1>8, <3>1, PartiesAre DEF ChainsInOrder
  <2>2. RootIsOfChain(v) /\ SentRoots(v, sent["bob"])
    BY <1>2, <1>5, <1>6, <1>7 DEF RootIsOfChain, SentRoots
  <2> QED BY <1>5, <2>1, <2>2 DEF DeviceOK
<1>10. InTouch(v, s, generated["bob"], generated["alice"])
  BY <1>2, <1>5, <1>8 DEF InTouch, Heard
<1>11. LinkOK(s, sent["alice"], v, read["bob"], forgotten["bob"])
  <2>1. RootsAgree(sent["alice"], v)
    BY <1>4, <1>6, <1>7 DEF RootsAgree, ChainsFor
  <2>2. NotPast(s, v)
    <3>1. Index(s.sender_chain[1]) \in Nat
      BY <1>1, <1>2, SenderType, ChainType
    <3> QED BY <1>6, <1>7, <3>1 DEF NotPast
  <2>3. SkippedOrForgotten(v, sent["alice"], read["bob"], forgotten["bob"])
    <3>1. \A n \in sent["alice"] : n.counter \in Nat
      BY <1>1, MessageType
    <3> QED BY <1>6, <1>7, <3>1 DEF SkippedOrForgotten, ChainsFor
  <2> QED BY <2>1, <2>2, <2>3 DEF LinkOK
<1>12. LinkOK(v, sent["bob"], s, read["alice"], forgotten["alice"])
  BY <1>2, <1>5 DEF LinkOK, RootsAgree, NotPast, SkippedOrForgotten
<1> QED BY <1>9, <1>10, <1>11, <1>12 DEF v

\* Making bob's session leaves the devices in step.
LEMMA CreateInboundSync ==
  ASSUME IInv, SyncInv, NEW m \in sent["alice"], CreateInbound(m)
  PROVE  SyncInv'
<1> DEFINE v == AsBob(m.ratchet_key)
           s == session["alice"]
<1>1. /\ ~Established("bob") /\ UNCHANGED <<generated, sent, written>>
  BY DEF CreateInbound, Established
<1>2. /\ DeviceOK(v, "bob", generated["bob"], sent["bob"])
      /\ InTouch(v, s, generated["bob"], generated["alice"])
      /\ LinkOK(s, sent["alice"], v, read["bob"], forgotten["bob"])
      /\ LinkOK(v, sent["bob"], s, read["alice"], forgotten["alice"])
  BY <1>1, InboundIs
<1>3. /\ Established("alice") /\ read["bob"] = {} /\ m.ratchet_key \in RatchetKeys
      /\ DeviceOK(s, "alice", generated["alice"], sent["alice"])
      /\ "alice" = Other("bob") /\ "bob" \in Parties /\ "alice" \in Parties
  BY <1>1, PartiesAre, DeviceType, MessageType DEF SyncInv, IInv, Started
<1>4. v \in Ratchets /\ KeysOK(v, {}) /\ v.sender_chain = <<>>
  BY <1>3, AsBobOK
<1>5. CASE Reads(v, m)
  <2>1. DecryptOnChain("bob", v, m) /\ Deliver("bob", m)
    BY <1>5 DEF CreateInbound
  <2>2. ReadsOnHeldChain(v, m)
    <3>1. ~ReadsOnNewChain(v, m)
      BY <1>4 DEF ReadsOnNewChain
    <3>2. SkippedFor(v, m) = {}
      BY DEF SkippedFor, AsBob
    <3> QED BY <1>5, <3>1, <3>2 DEF Reads
  <2>3. PICK i \in ChainsFor(v, m) :
          /\ session' = [session EXCEPT !["bob"] = OnChain(v, m, i)]
          /\ forgotten' = [forgotten EXCEPT
               !["bob"] = @ \cup Dropped(AllSkipped(v.receiver_chains[i], m, v))]
    BY <2>1 DEF DecryptOnChain, OnChain
  <2>4. \E j \in ChainsFor(v, m) : ReadsOnChain(v.receiver_chains[j].chain_key, m)
    BY <2>2 DEF ReadsOnHeldChain
  <2> HIDE DEF v
  <2> QED BY <1>1, <1>2, <1>3, <1>4, <2>1, <2>3, <2>4, OnChainSync
<1>6. CASE ~Reads(v, m)
  <2>1. session' = [session EXCEPT !["bob"] = v] /\ UNCHANGED <<read, delivered, forgotten>>
    BY <1>6 DEF CreateInbound
  <2> HIDE DEF v
  <2>2. session'["bob"] = v /\ session'["alice"] = s /\ v # NoSession /\ s # NoSession
    BY <1>3, <1>4, <2>1, NoSessionAssumption DEF IInv, TypeOK, Established, Other
  <2> HIDE DEF s
  <2> QED BY <1>1, <1>2, <1>3, <2>1, <2>2, SyncAfter
<1> QED BY <1>5, <1>6

\* The devices are in step at first: alice has just made her session.
LEMMA InitSync == Init => SyncInv
<1> SUFFICES ASSUME Init PROVE SyncInv
  OBVIOUS
<1>1. /\ session["alice"] = AsAlice /\ session["bob"] = NoSession
      /\ sent["alice"] = {} /\ sent["bob"] = {}
      /\ generated["alice"] = 1 /\ generated["bob"] = 0
  BY PartiesAre DEF Init
<1>2. /\ AsAlice.root_key = <<>> /\ AsAlice.receiver_chains = <<>>
      /\ AsAlice.sender_chain # <<>>
      /\ SenderKey(AsAlice) = <<"alice", 1>> /\ Root(AsAlice.sender_chain[1]) = <<>>
  BY AsAliceOK DEF AsAlice, SenderKey, Root, FirstChainKey
<1>3. ~Established("bob")
  BY <1>1 DEF Established
<1>4. ChainsInOrder(AsAlice, "bob")
  <2>1. Newest(AsAlice) = 0 /\ DOMAIN AsAlice.receiver_chains = {}
        /\ Len(AsAlice.receiver_chains) = 0
    BY <1>2 DEF Newest
  <2> QED BY <2>1 DEF ChainsInOrder
<1>5. DeviceOK(AsAlice, "alice", 1, {})
  BY <1>2, <1>4 DEF DeviceOK, RootIsOfChain, SentRoots, Other
<1>6. AliceAlone
  BY <1>1, <1>2 DEF AliceAlone
<1> QED BY <1>1, <1>3, <1>5, <1>6, PartiesAre DEF SyncInv

\* Every step keeps the devices in step.
LEMMA NextSync == IInv /\ SyncInv /\ [Next]_vars => SyncInv'
<1> SUFFICES ASSUME IInv, SyncInv, [Next]_vars PROVE SyncInv'
  OBVIOUS
<1>1. CASE \E p \in Parties : Encrypt(p)
  BY <1>1, EncryptSync
<1>2. CASE \E p \in Parties : \E m \in sent[Other(p)] : Decrypt(p, m)
  BY <1>2, DecryptSync
<1>3. CASE \E m \in sent["alice"] : CreateInbound(m)
  BY <1>3, CreateInboundSync
<1>4. CASE UNCHANGED vars
  BY <1>4 DEF vars, SyncInv, PairOK, AliceAlone, Established
<1> QED BY <1>1, <1>2, <1>3, <1>4 DEF Next

\* The devices are always in step.
THEOREM InStep == Spec => [](IInv /\ SyncInv)
BY InitIInv, NextIInv, InitSync, NextSync, PTL DEF Spec

\* A message that is of the key of a chain, further on, is read on it.
LEMMA ReadableOn ==
  ASSUME NEW key \in ChainKeys, NEW m \in Messages, m.key.root = key.root,
         m.key.index = m.counter, m.counter >= key.index,
         m.counter - key.index <= MAX_MESSAGE_GAP
  PROVE  ReadsOnChain(key, m)
<1>1. key.index \in Nat /\ m.counter \in Nat /\ m.key \in ChainKeys
  BY MessageType DEF ChainKeys
<1> DEFINE n == m.counter - key.index
           a == Advanced(key, n)
<1>2. n \in Int /\ key.index + n = m.counter
  BY <1>1
<1> HIDE DEF n
<1>3. a \in ChainKeys /\ a.root = key.root /\ a.index = m.counter
  BY <1>1, <1>2, AdvancedIs
<1> HIDE DEF a
<1>4. a = m.key
  BY <1>1, <1>3, SameChainKey
<1> QED BY <1>4 DEF ReadsOnChain, a, n

\* A message of the chain that an ahead device sends on starts a chain.
LEMMA ReadableNew ==
  ASSUME NEW t \in Ratchets, ListsBounded(t), NEW m \in Messages,
         t.sender_chain # <<>>, ChainsFor(t, m) = {},
         m.key.root = NextRoot(t.root_key, m.ratchet_key, SenderKey(t)),
         m.key.index = m.counter, m.counter <= MAX_MESSAGE_GAP
  PROVE  ReadsOnNewChain(t, m)
<1> DEFINE key == NewChainKey(t, m)
<1>1. NextRoot(t.root_key, m.ratchet_key, SenderKey(t)) =
        NextRoot(t.root_key, SenderKey(t), m.ratchet_key)
  <2>1. {m.ratchet_key, SenderKey(t)} = {SenderKey(t), m.ratchet_key}
    OBVIOUS
  <2> QED BY <2>1 DEF NextRoot
<1>2. key = [root |-> m.key.root, index |-> 0]
  BY <1>1 DEF NewChainKey, FirstChainKey, SenderKey
<1>3. m.counter \in Nat /\ m.key \in ChainKeys
  BY MessageType
<1>4. key \in ChainKeys /\ key.root = m.key.root /\ key.index = 0
  BY <1>2, <1>3 DEF ChainKeys
<1> HIDE DEF key
<1>5. ReadsOnChain(key, m)
  BY <1>3, <1>4, ReadableOn
<1> QED BY <1>5 DEF ReadsOnNewChain, key

\* What a device would write next can be read by the other one.
LEMMA NextReadable ==
  ASSUME IInv, SyncInv, NEW p \in Parties, Established(p), Established(Other(p))
  PROVE  LET m == MessageOf(WithSenderChain(session[p], NewKey(p)))
             s == session[Other(p)]
             held == {s.receiver_chains[i].chain_key.index : i \in ChainsFor(s, m)}
             from == IF held = {} THEN 0 ELSE CHOOSE i \in held : TRUE
         IN m.counter - from <= MAX_MESSAGE_GAP => Reads(s, m)
<1> DEFINE q == Other(p)
           s == session[p]
           t == session[q]
           g == generated[p]
           h == generated[q]
           w == WithSenderChain(s, <<p, g + 1>>)
           u == [w EXCEPT !.sender_chain[1].chain_key = Advanced(@, 1)]
           m == MessageOf(w)
           held == {t.receiver_chains[i].chain_key.index : i \in ChainsFor(t, m)}
           from == IF held = {} THEN 0 ELSE CHOOSE i \in held : TRUE
<1>1. /\ q \in Parties /\ q # p /\ Other(q) = p /\ Established("bob")
      /\ NewKey(p) = <<p, g + 1>>
  BY PartiesAre DEF NewKey, Other, Parties
<1>2. /\ s \in Ratchets /\ KeysOK(s, read[p]) /\ ListsBounded(s) /\ g \in Nat
      /\ read[p] \in SUBSET Messages /\ DeviceOK(s, p, g, sent[p])
      /\ t \in Ratchets /\ ListsBounded(t) /\ h \in Nat /\ KeysOK(t, read[q])
      /\ DeviceOK(t, q, h, sent[q])
  BY <1>1, DeviceType DEF SyncInv
<1>3. /\ InTouch(s, t, g, h) /\ NotPast(s, t)
  BY <1>1, PairOf DEF PairOK, LinkOK
<1>4. Encrypted(s, <<p, g + 1>>, u, m)
  <2>1. <<p, g + 1>> \in RatchetKeys
    BY <1>2 DEF RatchetKeys
  <2> HIDE DEF s, g
  <2> QED BY <1>2, <2>1, EncryptIs
<1> HIDE DEF w, u, m, s, t, g, h
<1>5. m \in Messages /\ m.counter \in Nat /\ m.key.index = m.counter /\ m.key \in ChainKeys
  BY <1>4, MessageType DEF Encrypted
<1>6. \A i \in DOMAIN t.receiver_chains : /\ t.receiver_chains[i] \in Chains
                                          /\ Index(t.receiver_chains[i]) \in Nat
  BY <1>2, PartsType, ChainType
<1>7. ChainsInOrder(t, p) /\ RootIsOfChain(t) /\ Newest(t) \in Nat
  BY <1>1, <1>2, NewestType DEF DeviceOK
<1> SUFFICES ASSUME m.counter - from <= MAX_MESSAGE_GAP PROVE Reads(t, m)
  BY <1>1 DEF q, t, m, w, s, g
<1>8. ASSUME ChainsFor(t, m) = {} PROVE m.counter <= MAX_MESSAGE_GAP
  <2>1. held = {}
    BY <1>8
  <2>2. from = 0
    BY <2>1
  <2> HIDE DEF from
  <2> QED BY <1>5, <2>2
<1>9. ASSUME NEW n \in Nat, n > Newest(t), m.ratchet_key = <<p, n>>
      PROVE  ChainsFor(t, m) = {}
  <2> SUFFICES ASSUME NEW i \in DOMAIN t.receiver_chains,
                      t.receiver_chains[i].ratchet_key = <<p, n>>
               PROVE  FALSE
    BY <1>9 DEF ChainsFor
  <2>1. n \in Nat \ {0} /\ ~(n <= Newest(t))
    BY <1>7, <1>9
  <2> QED BY <1>2, <1>7, <2>1, InOrder
<1>10. CASE s.sender_chain = <<>>
  <2>1. /\ m.ratchet_key = <<p, g + 1>> /\ 1 \in DOMAIN s.receiver_chains
        /\ m.key.root = NextRoot(s.root_key, m.ratchet_key, s.receiver_chains[1].ratchet_key)
    BY <1>4, <1>10 DEF Encrypted, FirstChainKey
  <2>2. /\ t.sender_chain # <<>> /\ s.root_key = t.root_key /\ Newest(t) = g /\ Newest(s) = h
    BY <1>3, <1>10 DEF InTouch, Heard, Ahead
  <2>3. s.receiver_chains[1].ratchet_key = SenderKey(t)
    <3>1. s.receiver_chains[1].ratchet_key = <<q, Newest(s) - 1 + 1>>
      BY <1>2, <2>1 DEF DeviceOK, ChainsInOrder
    <3>2. h - 1 + 1 = h
      BY <1>2
    <3> QED BY <1>2, <2>2, <3>1, <3>2 DEF DeviceOK
  <2>4. g + 1 \in Nat /\ g + 1 > Newest(t)
    BY <1>2, <2>2
  <2>5. ChainsFor(t, m) = {}
    BY <1>9, <2>1, <2>4
  <2>6. ReadsOnNewChain(t, m)
    BY <1>2, <1>5, <1>8, <2>1, <2>2, <2>3, <2>5, ReadableNew
  <2> QED BY <2>6 DEF Reads
<1>11. CASE s.sender_chain # <<>>
  <2>1. /\ m.ratchet_key = SenderKey(s) /\ SenderKey(s) = <<p, g>>
        /\ m.key.root = s.root_key /\ m.counter = Index(s.sender_chain[1])
    BY <1>2, <1>4, <1>5, <1>11 DEF Encrypted, DeviceOK, RootIsOfChain, Root, Index
  <2>2. g \in Nat \ {0}
    BY <1>2, <1>11, <2>1, SenderType DEF RatchetKeys
  <2>3. CASE Ahead(s, t, g, h)
    <3>1. g > Newest(t) /\ t.sender_chain # <<>>
          /\ m.key.root = NextRoot(t.root_key, m.ratchet_key, SenderKey(t))
      BY <1>2, <2>1, <2>3 DEF Ahead
    <3>2. ChainsFor(t, m) = {}
      BY <1>2, <1>9, <2>1, <3>1
    <3>3. ReadsOnNewChain(t, m)
      BY <1>2, <1>5, <1>8, <3>1, <3>2, ReadableNew
    <3> QED BY <3>3 DEF Reads
  <2>4. CASE Heard(s, t, g, h) \/ Ahead(t, s, h, g)
    <3>1. Newest(t) = g /\ Root(t.receiver_chains[1]) = s.root_key
      BY <1>7, <2>4 DEF Heard, Ahead, RootIsOfChain
    <3>2. /\ 1 \in DOMAIN t.receiver_chains
          /\ t.receiver_chains[1].ratchet_key = m.ratchet_key
      <4>1. 1 \in DOMAIN t.receiver_chains
        BY <1>2, <2>2, <3>1, NewestType
      <4>2. t.receiver_chains[1].ratchet_key = <<p, Newest(t) - 1 + 1>>
        BY <1>7, <4>1 DEF ChainsInOrder
      <4>3. g - 1 + 1 = g
        BY <1>2
      <4> QED BY <2>1, <3>1, <4>1, <4>2, <4>3
    <3>3. ChainsFor(t, m) = {1}
      BY <1>2, <3>2 DEF ChainsFor, KeysOK, ChainsDistinct
    <3> DEFINE c == t.receiver_chains[1]
    <3>4. c \in Chains /\ Index(c) \in Nat /\ c.chain_key \in ChainKeys
          /\ c.chain_key.root = s.root_key /\ c.chain_key.index = Index(c)
      BY <1>6, <3>1, <3>2, ChainType
    <3>5. held = {Index(c)}
      BY <3>3 DEF Index
    <3>6. from = Index(c)
      BY <3>5
    <3>7. Index(c) <= m.counter
      BY <1>3, <1>11, <2>1, <3>2 DEF NotPast
    <3> HIDE DEF from, held
    <3>8. ReadsOnChain(c.chain_key, m)
      <4> HIDE DEF c
      <4> QED BY <1>5, <2>1, <3>4, <3>6, <3>7, ReadableOn
    <3> QED BY <3>3, <3>8 DEF Reads, ReadsOnHeldChain
  <2>5. ~Heard(t, s, h, g)
    BY <1>11 DEF Heard
  <2> QED BY <1>3, <2>3, <2>4, <2>5 DEF InTouch
<1> QED BY <1>10, <1>11

\* A message that was not read can still be read, or was given up for one of the reasons
\* that UnreadIsReadable names.
LEMMA UnreadReadable ==
  ASSUME IInv, SyncInv, NEW p \in Parties, Established(p),
         NEW m \in sent[Other(p)], m \notin read[p]
  PROVE  LET s == session[p] IN
         \/ Reads(s, m)
         \/ <<m.ratchet_key, m.counter>> \in forgotten[p]
         \/ /\ Len(s.receiver_chains) = MAX_RECEIVER_CHAINS
            /\ \A i \in DOMAIN s.receiver_chains :
                 s.receiver_chains[i].ratchet_key[2] > m.ratchet_key[2]
         \/ /\ ChainsFor(s, m) = {} /\ m.counter > MAX_MESSAGE_GAP
         \/ \E i \in ChainsFor(s, m) :
              m.counter - s.receiver_chains[i].chain_key.index > MAX_MESSAGE_GAP
<1> DEFINE q == Other(p)
           t == session[p]
           s == session[q]
           h == generated[p]
           g == generated[q]
           n == m.ratchet_key[2]
           rc == t.receiver_chains
<1>1. q \in Parties /\ Other(q) = p /\ Established("bob") /\ Established(q)
  BY BothEstablished, PartiesAre DEF Other, Parties
<1>2. /\ t \in Ratchets /\ ListsBounded(t) /\ s \in Ratchets /\ ListsBounded(s)
      /\ g \in Nat /\ sent[q] \in SUBSET Messages /\ m \in Messages
      /\ DeviceOK(t, p, h, sent[p]) /\ DeviceOK(s, q, g, sent[q])
      /\ m.ratchet_key[1] = q /\ n <= g
  BY <1>1, DeviceType DEF SyncInv
<1>3. InTouch(t, s, h, g) /\ LinkOK(s, sent[q], t, read[p], forgotten[p])
  BY <1>1, PairOf DEF PairOK
<1>4. /\ m.counter \in Nat /\ n \in Nat \ {0} /\ m.ratchet_key = <<q, n>>
      /\ m.key.index = m.counter
  <2>1. SentRoots(s, sent[q]) /\ m \in sent[q]
    BY <1>2 DEF DeviceOK
  <2> QED BY <1>2, <2>1, MessageType DEF SentRoots
<1>5. CASE ChainsFor(t, m) # {}
  <2>1. PICK i \in ChainsFor(t, m) : TRUE
    BY <1>5
  <2>2. i \in DOMAIN rc /\ rc[i].ratchet_key = m.ratchet_key
    BY DEF ChainsFor
  <2> DEFINE c == rc[i]
  <2>3. c \in Chains /\ Index(c) \in Nat /\ c.chain_key \in ChainKeys
        /\ c.chain_key.root = Root(c) /\ c.chain_key.index = Index(c)
    BY <1>2, <2>2, PartsType, ChainType
  <2>4. m.key.root = Root(c)
    BY <1>3 DEF LinkOK, RootsAgree
  <2>5. CASE m.counter < Index(c)
    <3>1. \/ Header(m) \in forgotten[p]
          \/ \E k \in DOMAIN t.skipped_message_keys :
               /\ t.skipped_message_keys[k].ratchet_key = m.ratchet_key
               /\ t.skipped_message_keys[k].chain_key = m.key
      BY <1>3, <2>5 DEF LinkOK, SkippedOrForgotten
    <3>2. c.chain_key.index > m.counter
      BY <1>4, <2>3, <2>5
    <3>3. CASE Header(m) \in forgotten[p]
      BY <3>3 DEF Header
    <3>4. CASE \E k \in DOMAIN t.skipped_message_keys :
                 /\ t.skipped_message_keys[k].ratchet_key = m.ratchet_key
                 /\ t.skipped_message_keys[k].chain_key = m.key
      <4>1. SkippedFor(t, m) # {}
        BY <3>2, <3>4 DEF SkippedFor
      <4> QED BY <4>1 DEF Reads
    <3> QED BY <3>1, <3>3, <3>4
  <2>6. CASE ~(m.counter < Index(c)) /\ m.counter - Index(c) <= MAX_MESSAGE_GAP
    <3> HIDE DEF c
    <3>1. ReadsOnChain(c.chain_key, m)
      BY <1>2, <1>4, <2>3, <2>4, <2>6, ReadableOn
    <3> QED BY <3>1 DEF Reads, ReadsOnHeldChain, c
  <2>7. CASE ~(m.counter - Index(c) <= MAX_MESSAGE_GAP)
    <3>1. m.counter - c.chain_key.index > MAX_MESSAGE_GAP
      <4> HIDE DEF c
      <4> QED BY <1>4, <2>3, <2>7, LimitsAssumption
    <3> QED BY <3>1
  <2> QED BY <2>5, <2>6, <2>7
<1>6. CASE ChainsFor(t, m) = {}
  <2>1. /\ Newest(t) \in Nat /\ ChainsInOrder(t, q)
        /\ Len(rc) \in Nat /\ DOMAIN rc = 1..Len(rc) /\ Len(rc) <= MAX_RECEIVER_CHAINS
        /\ MAX_RECEIVER_CHAINS \in Nat
    BY <1>2, PartsType, NewestType, LimitsAssumption DEF DeviceOK, ListsBounded
  <2>2. \A i \in DOMAIN rc : rc[i].ratchet_key = <<q, Newest(t) - i + 1>>
    BY <2>1 DEF ChainsInOrder
  <2>3. \A i \in DOMAIN rc : n # Newest(t) - i + 1
    BY <1>4, <1>6, <2>2 DEF ChainsFor
  <2>4. Len(rc) < MAX_RECEIVER_CHAINS => Newest(t) = Len(rc)
    BY <2>1 DEF ChainsInOrder
  <2> HIDE DEF rc, n
  <2>5. CASE n <= Newest(t)
    <3>1. n <= Newest(t) - Len(rc)
      <4> SUFFICES ASSUME n > Newest(t) - Len(rc) PROVE FALSE
        BY <1>4, <2>1
      <4>1. Newest(t) - n + 1 \in DOMAIN rc
            /\ Newest(t) - (Newest(t) - n + 1) + 1 = n
        BY <1>4, <2>1, <2>5
      <4> QED BY <2>3, <4>1
    <3>2. Len(rc) = MAX_RECEIVER_CHAINS
      <4>1. n \in Nat /\ n > 0
        BY <1>4
      <4>2. Newest(t) # Len(rc)
        BY <2>1, <3>1, <4>1
      <4>3. ~(Len(rc) < MAX_RECEIVER_CHAINS)
        BY <2>4, <4>2
      <4>4. /\ Len(rc) \in Nat /\ MAX_RECEIVER_CHAINS \in Nat
            /\ Len(rc) <= MAX_RECEIVER_CHAINS
        BY <2>1
      <4> QED BY <4>3, <4>4
    <3>3. \A i \in DOMAIN rc : rc[i].ratchet_key[2] > n
      <4> SUFFICES ASSUME NEW i \in DOMAIN rc PROVE rc[i].ratchet_key[2] > n
        OBVIOUS
      <4>1. rc[i].ratchet_key[2] = Newest(t) - i + 1 /\ i \in 1..Len(rc)
        BY <2>1, <2>2
      <4>2. Newest(t) - i + 1 > n
        BY <1>4, <2>1, <3>1, <4>1
      <4> QED BY <4>1, <4>2
    <3> QED BY <3>2, <3>3 DEF rc, n
  <2>6. CASE n > Newest(t)
    <3>1. Newest(t) < g
      BY <1>2, <1>4, <2>1, <2>6
    <3>2. Ahead(s, t, g, h)
      <4>1. Newest(t) # g
        BY <1>2, <2>1, <3>1
      <4> QED BY <1>3, <4>1 DEF InTouch, Heard, Ahead
    <3>3. n = g /\ m.ratchet_key = SenderKey(s)
      <4>1. Newest(t) = g - 1 /\ s.sender_chain # <<>>
        BY <3>2 DEF Ahead
      <4>2. n = g
        BY <1>2, <1>4, <2>6, <4>1
      <4> QED BY <1>2, <1>4, <4>1, <4>2 DEF DeviceOK
    <3>4. m.key.root = s.root_key /\ t.sender_chain # <<>>
          /\ s.root_key = NextRoot(t.root_key, SenderKey(s), SenderKey(t))
      BY <1>2, <3>2, <3>3 DEF DeviceOK, SentRoots, Ahead
    <3>5. CASE m.counter <= MAX_MESSAGE_GAP
      <4>1. ReadsOnNewChain(t, m)
        BY <1>2, <1>4, <1>6, <3>3, <3>4, <3>5, ReadableNew
      <4> QED BY <4>1 DEF Reads
    <3>6. CASE m.counter > MAX_MESSAGE_GAP
      BY <1>6, <3>6
    <3> QED BY <1>4, <3>5, <3>6, LimitsAssumption
  <2> QED BY <1>4, <2>1, <2>5, <2>6
<1> QED BY <1>5, <1>6

\* Whatever the server lost, repeated or reordered, the two devices do not drift apart:
\* what one would write next the other can read (ratchet.cpp, the root keys on both sides).
THEOREM NextIsReadable == Spec => []NextMessageIsReadable
<1>1. IInv /\ SyncInv => NextMessageIsReadable
  BY NextReadable DEF NextMessageIsReadable
<1> QED BY <1>1, InStep, PTL

\* No message is lost to its reader but by the limits of the lists and of the gap
\* (ratchet.cpp, decrypt; list.hh, insert).
THEOREM UnreadStaysReadable == Spec => []UnreadIsReadable
<1>1. IInv /\ SyncInv => UnreadIsReadable
  BY UnreadReadable DEF UnreadIsReadable
<1> QED BY <1>1, InStep, PTL
================================================================================
