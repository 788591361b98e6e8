-------------------------- MODULE GroupSession_proofs --------------------------
(***************************************************************************)
(* Theorems about Megolm sessions for every size of a byte, number of      *)
(* sessions and of messages below half of the counters.                    *)
(*                                                                         *)
(* A ratchet is put in closed form: RatchetAt says how often each part was *)
(* hashed with each seed, as a function of the counter alone.  One step    *)
(* and a jump both end at the closed form of the counter they end at       *)
(* (StepAgrees, JumpAgrees); the inductive invariant says that every       *)
(* ratchet in the system is one, and the properties follow.  At the end    *)
(* the sessions are shown to implement MegolmHistory, which has no ratchet *)
(* and no index: only who can read what.                                   *)
(***************************************************************************)
EXTENDS GroupSession, TLAPS

\* 1 when a byte above byte i is not zero.
Carried(c, i) == IF \E g \in Parts : g < i /\ c[g] # 0 THEN 1 ELSE 0

\* The part of the random data that part k of the ratchet derives from.
Origin(c, k) ==
  IF c[0] # 0 \/ k = 0 THEN 0
  ELSE IF c[1] # 0 \/ k = 1 THEN 1
  ELSE IF c[2] # 0 \/ k = 2 THEN 2
  ELSE 3

\* How often part k was hashed with the seed of part i.
Count(c, k, i) ==
  IF i > k THEN 0
  ELSE IF i = k THEN c[k] + Carried(c, k)
  ELSE IF c[i] = 0 THEN 0
  ELSE c[i] + Carried(c, i) - 1

\* The ratchet at a counter in closed form, whatever way it got there.
RatchetAt(c) ==
  [counter |-> c,
   data |-> [k \in Parts |-> [seed |-> Origin(c, k),
                              hashes |-> [i \in Parts |-> Count(c, k, i)]]]]

\* A counter with the bytes below byte j cleared.
Cut(c, j) == [k \in Parts |-> IF k <= j THEN c[k] ELSE 0]

\* A byte is itself modulo the values of a byte.
LEMMA SmallModulo ==
  ASSUME NEW x \in 0..(PartSize - 1)
  PROVE  x % PartSize = x
BY PartSizeAssumption

\* A new ratchet is the one at zero.
LEMMA NewRatchetIs == NewRatchet = RatchetAt([k \in Parts |-> 0])
BY DEF NewRatchet, RandomData, RatchetAt, Origin, Count, Carried, Parts

\* Hashing adds to one count.
LEMMA HashIs ==
  ASSUME NEW s, NEW f, NEW k \in Parts, NEW n \in Int
  PROVE  Hash([seed |-> s, hashes |-> [i \in Parts |-> f[i]]], k, n)
           = [seed |-> s, hashes |-> [i \in Parts |-> IF i = k THEN f[i] + n ELSE f[i]]]
BY DEF Hash

\* megolm_advance_to on a byte that is behind: the ratchet is the one at the target
\* cut after that byte.
LEMMA BumpAhead ==
  ASSUME NEW c \in Counters, NEW to \in Counters, NEW j \in Parts,
         \A i \in Parts : i < j => c[i] = to[i],
         c[j] < to[j]
  PROVE  BumpPart(RatchetAt(c), j, to) = RatchetAt(Cut(to, j))
<1> DEFINE r == RatchetAt(c)
<1>1. Steps(r, j, to) = to[j] - c[j]
  <2>1. to[j] - c[j] \in 1..(PartSize - 1)
    BY PartSizeAssumption DEF Counters, Parts
  <2>2. (to[j] - c[j]) % PartSize = to[j] - c[j]
    BY <2>1, SmallModulo
  <2> QED BY <2>1, <2>2 DEF Steps, RatchetAt
<1>2. ASSUME NEW k \in Parts
      PROVE  BumpPart(r, j, to).data[k] = RatchetAt(Cut(to, j)).data[k]
  <2> DEFINE last == Hash(r.data[j], j, to[j] - c[j] - 1)
             new == RatchetAt(Cut(to, j)).data[k]
  <2>0. BumpPart(r, j, to).data[k] = IF k < j THEN r.data[k] ELSE Hash(last, k, 1)
    BY <1>1, PartSizeAssumption DEF BumpPart, Counters, Parts
  <2>1. /\ last.seed = Origin(c, j)
        /\ last.hashes = [i \in Parts |->
             IF i = j THEN to[j] + Carried(c, j) - 1 ELSE Count(c, j, i)]
    <3>1. r.data[j].hashes = [i \in Parts |-> Count(c, j, i)]
      BY DEF RatchetAt
    <3>2. r.data[j].seed = Origin(c, j)
      BY DEF RatchetAt
    <3>3. Count(c, j, j) = c[j] + Carried(c, j)
      BY DEF Count, Parts
    <3>4. c[j] \in Int /\ to[j] \in Int /\ Carried(c, j) \in Int
      BY PartSizeAssumption DEF Counters, Carried
    <3> QED BY <3>1, <3>2, <3>3, <3>4 DEF Hash
  <2>2. CASE k < j
    BY <2>0, <2>2 DEF RatchetAt, Origin, Count, Carried, Cut, Parts, Counters
  <2>3. CASE k >= j
    <3>1. Hash(last, k, 1).seed = Origin(Cut(to, j), k)
      BY <2>1, <2>3, PartSizeAssumption DEF Hash, Origin, Cut, Parts, Counters
    <3>2. ASSUME NEW i \in Parts
          PROVE  (IF i = k THEN last.hashes[i] + 1 ELSE last.hashes[i])
                    = Count(Cut(to, j), k, i)
      BY <2>1, <2>3, PartSizeAssumption DEF Count, Carried, Cut, Parts, Counters
    <3>3. Hash(last, k, 1).hashes = [i \in Parts |-> Count(Cut(to, j), k, i)]
      BY <2>1, <3>2 DEF Hash
    <3>4. Hash(last, k, 1)
            = [seed |-> Hash(last, k, 1).seed, hashes |-> Hash(last, k, 1).hashes]
      BY DEF Hash
    <3>5. new = [seed |-> Origin(Cut(to, j), k),
                 hashes |-> [i \in Parts |-> Count(Cut(to, j), k, i)]]
      BY DEF RatchetAt
    <3>6. ~(k < j)
      BY <2>3 DEF Parts
    <3> QED BY <2>0, <3>1, <3>3, <3>4, <3>5, <3>6
  <2> QED BY <2>2, <2>3 DEF Parts
<1>3. BumpPart(r, j, to).counter = Cut(to, j)
  BY <1>1, PartSizeAssumption DEF BumpPart, Cut, Counters, Parts
<1>4. /\ BumpPart(r, j, to) = [counter |-> BumpPart(r, j, to).counter,
                                data |-> BumpPart(r, j, to).data]
      /\ BumpPart(r, j, to).data = [k \in Parts |-> BumpPart(r, j, to).data[k]]
  BY <1>1, PartSizeAssumption DEF BumpPart, Counters, Parts
<1>5. RatchetAt(Cut(to, j)).data = [k \in Parts |-> RatchetAt(Cut(to, j)).data[k]]
  BY DEF RatchetAt
<1>6. BumpPart(r, j, to).data = RatchetAt(Cut(to, j)).data
  BY <1>2, <1>4, <1>5
<1>7. RatchetAt(Cut(to, j)) = [counter |-> Cut(to, j), data |-> RatchetAt(Cut(to, j)).data]
  BY DEF RatchetAt
<1> QED
  BY <1>3, <1>4, <1>6, <1>7

\* A byte that is right already is left alone.
LEMMA BumpSame ==
  ASSUME NEW c \in Counters, NEW to \in Counters, NEW j \in Parts,
         c[j] = to[j], ~Less(to, c)
  PROVE  BumpPart(RatchetAt(c), j, to) = RatchetAt(c)
<1>1. Steps(RatchetAt(c), j, to) = 0
  <2>1. (to[j] - c[j]) % PartSize = 0
    BY PartSizeAssumption, 0 \in 0..(PartSize - 1), SmallModulo DEF Counters
  <2> QED BY <2>1 DEF Steps, RatchetAt
<1> QED BY <1>1 DEF BumpPart

\* From the target cut before a byte to the target cut after it.
LEMMA BumpCut ==
  ASSUME NEW to \in Counters, NEW j \in 1..3
  PROVE  BumpPart(RatchetAt(Cut(to, j - 1)), j, to) = RatchetAt(Cut(to, j))
<1> DEFINE c == Cut(to, j - 1)
<1>1. c \in Counters /\ j \in Parts
  BY PartSizeAssumption DEF Cut, Counters, Parts
<1>2. CASE to[j] = 0
  <2>1. c[j] = to[j] /\ ~Less(to, c)
    BY <1>2, PartSizeAssumption DEF Cut, Less, Counters, Parts
  <2>2. Cut(to, j) = c
    BY <1>2, PartSizeAssumption DEF Cut, Counters, Parts
  <2> QED BY <1>1, <2>1, <2>2, BumpSame
<1>3. CASE to[j] # 0
  <2>1. c[j] < to[j] /\ \A i \in Parts : i < j => c[i] = to[i]
    BY <1>3, PartSizeAssumption DEF Cut, Counters, Parts
  <2> QED BY <1>1, <2>1, BumpAhead
<1> QED BY <1>2, <1>3

\* Nothing is cut after the last byte.
LEMMA CutAll == ASSUME NEW to \in Counters PROVE Cut(to, 3) = to
BY DEF Cut, Counters, Parts

\* Two counters in order differ first at a byte where the later is greater.
LEMMA FirstDifference ==
  ASSUME NEW a \in Counters, NEW b \in Counters, ~Less(b, a), a # b
  PROVE  \E k \in Parts : a[k] < b[k] /\ \A i \in Parts : i < k => a[i] = b[i]
<1>1. \E k \in Parts : a[k] # b[k]
  BY DEF Counters
<1>2. \E k \in Parts : a[k] # b[k] /\ \A i \in Parts : i < k => a[i] = b[i]
  BY <1>1 DEF Parts
<1> QED BY <1>2, PartSizeAssumption DEF Less, Counters

\* megolm_advance_to ends at the ratchet of its target, from any counter that is not
\* after it: what a receiver jumps to does not depend on where it jumps from.
THEOREM JumpAgrees ==
  ASSUME NEW c \in Counters, NEW to \in Counters, ~Less(to, c)
  PROVE  AdvanceTo(RatchetAt(c), to) = RatchetAt(to)
<1>1. CASE c = to
  BY <1>1, BumpSame DEF AdvanceTo, Parts
<1>2. CASE c # to
  <2>1. PICK k \in Parts : c[k] < to[k] /\ \A i \in Parts : i < k => c[i] = to[i]
    BY <1>2, FirstDifference
  <2>2. \A j \in Parts : j < k => BumpPart(RatchetAt(c), j, to) = RatchetAt(c)
    BY <2>1, BumpSame
  <2>3. BumpPart(RatchetAt(c), k, to) = RatchetAt(Cut(to, k))
    BY <2>1, BumpAhead
  <2>4. /\ BumpPart(RatchetAt(Cut(to, 0)), 1, to) = RatchetAt(Cut(to, 1))
        /\ BumpPart(RatchetAt(Cut(to, 1)), 2, to) = RatchetAt(Cut(to, 2))
        /\ BumpPart(RatchetAt(Cut(to, 2)), 3, to) = RatchetAt(Cut(to, 3))
    <3>1. \A j \in 1..3 : BumpPart(RatchetAt(Cut(to, j - 1)), j, to) = RatchetAt(Cut(to, j))
      BY BumpCut
    <3> QED BY <3>1
  <2>5. k = 0 \/ k = 1 \/ k = 2 \/ k = 3
    BY DEF Parts
  <2>6. CASE k = 0
    BY <2>3, <2>4, <2>6, CutAll DEF AdvanceTo
  <2>7. CASE k = 1
    BY <2>2, <2>3, <2>4, <2>7, CutAll DEF AdvanceTo, Parts
  <2>8. CASE k = 2
    BY <2>2, <2>3, <2>4, <2>8, CutAll DEF AdvanceTo, Parts
  <2>9. CASE k = 3
    BY <2>2, <2>3, <2>9, CutAll DEF AdvanceTo, Parts
  <2> QED BY <2>5, <2>6, <2>7, <2>8, <2>9
<1> QED BY <1>1, <1>2

\* The counter before it wraps.
IsLast(c) == \A k \in Parts : c[k] = PartSize - 1

\* The increment clears the bytes below the part that is rekeyed from.
LEMMA SuccessorIs ==
  ASSUME NEW c \in Counters, ~IsLast(c)
  PROVE  /\ Successor(c) \in Counters
         /\ \E h \in Parts :
              /\ RekeyFrom(Successor(c)) = h
              /\ c[h] + 1 = Successor(c)[h]
              /\ \A i \in Parts : i < h => Successor(c)[i] = c[i]
              /\ \A i \in Parts : i > h => Successor(c)[i] = 0 /\ c[i] = PartSize - 1
<1> DEFINE d == Successor(c)
<1>1. \A k \in Parts : c[k] < PartSize - 1 => (c[k] + 1) % PartSize = c[k] + 1
  BY SmallModulo, PartSizeAssumption DEF Counters
<1>2. PartSize % PartSize = 0
  BY PartSizeAssumption
<1>3. PICK h \in Parts : c[h] # PartSize - 1 /\ \A i \in Parts : i > h => c[i] = PartSize - 1
  BY DEF IsLast, Parts
<1>4. /\ d[h] = c[h] + 1
      /\ \A i \in Parts : i < h => d[i] = c[i]
      /\ \A i \in Parts : i > h => d[i] = 0
  BY <1>1, <1>2, <1>3, PartSizeAssumption DEF Successor, Counters, Parts
<1>5. d \in Counters
  BY <1>4, PartSizeAssumption, <1>3 DEF Successor, Counters, Parts
<1>6. /\ \A i \in Parts : i > h => d[i] = 0
      /\ \A g \in Parts : g < h => \E i \in Parts : i > g /\ d[i] # 0
  BY <1>4, PartSizeAssumption DEF Counters
<1>7. \A x \in Parts : /\ \A i \in Parts : i > x => d[i] = 0
                       /\ \A g \in Parts : g < x => \E i \in Parts : i > g /\ d[i] # 0
                       => x = h
  BY <1>6 DEF Parts
<1>8. RekeyFrom(d) = h
  BY <1>6, <1>7 DEF RekeyFrom
<1> QED BY <1>3, <1>4, <1>5, <1>8

\* megolm_advance ends at the ratchet of the next counter: the sender, who makes single
\* steps, is where the receiver who jumps arrives.
THEOREM StepAgrees ==
  ASSUME NEW c \in Counters, ~IsLast(c)
  PROVE  Advance(RatchetAt(c)) = RatchetAt(Successor(c))
<1> DEFINE d == Successor(c)
           r == RatchetAt(c)
<1>1. PICK h \in Parts :
              /\ RekeyFrom(d) = h
              /\ c[h] + 1 = d[h]
              /\ \A i \in Parts : i < h => d[i] = c[i]
              /\ \A i \in Parts : i > h => d[i] = 0 /\ c[i] = PartSize - 1
  BY SuccessorIs
<1>2. d \in Counters /\ c[h] < d[h]
  BY <1>1, SuccessorIs, PartSizeAssumption DEF Counters
<1>3. BumpPart(r, h, d) = RatchetAt(Cut(d, h))
  BY <1>1, <1>2, BumpAhead
<1>4. Cut(d, h) = d
  BY <1>1, <1>2 DEF Cut, Counters, Parts
<1>5. Steps(r, h, d) = 1
  <2>1. (d[h] - c[h]) % PartSize = 1
    <3>1. d[h] - c[h] = 1 /\ 1 \in 0..(PartSize - 1)
      BY <1>1, <1>2, PartSizeAssumption DEF Counters
    <3> QED BY <3>1, SmallModulo
  <2> QED BY <2>1 DEF Steps, RatchetAt
<1>6. Hash(r.data[h], h, 0) = r.data[h]
  <2>1. Count(c, h, h) \in Int
    BY PartSizeAssumption DEF Count, Carried, Counters, Parts
  <2> QED BY <2>1 DEF Hash, RatchetAt
<1>7. r.counter = c
  BY DEF RatchetAt
<1>8. d = [k \in Parts |-> IF k <= h THEN d[k] ELSE 0]
  BY <1>4 DEF Cut
<1>9. Advance(r) = BumpPart(r, h, d)
  BY <1>1, <1>5, <1>6, <1>7, <1>8 DEF Advance, BumpPart
<1> QED BY <1>3, <1>4, <1>9

-----------------------------------------------------------------------------
\* A greater digit outweighs what follows.
LEMMA DigitOrder ==
  ASSUME NEW x \in Int, NEW y \in Int, NEW u \in 0..(PartSize - 1), NEW v \in Nat,
         x < y
  PROVE  x * PartSize + u < y * PartSize + v
<1>1. PICK e \in Nat : y = x + 1 + e
  BY y - x - 1 \in Nat
<1>2. y * PartSize = x * PartSize + PartSize + e * PartSize
  BY <1>1, PartSizeAssumption
<1>3. e * PartSize >= 0
  BY PartSizeAssumption
<1>4. x * PartSize \in Int /\ y * PartSize \in Int /\ e * PartSize \in Int
  BY PartSizeAssumption
<1> QED BY <1>2, <1>3, <1>4, PartSizeAssumption

\* The number of a counter is a natural number, as are those of its upper bytes.
LEMMA NumberType ==
  ASSUME NEW c \in Counters
  PROVE  /\ c[0] * PartSize + c[1] \in Nat
         /\ (c[0] * PartSize + c[1]) * PartSize + c[2] \in Nat
         /\ Number(c) \in Nat
<1>1. c[0] \in Nat /\ c[1] \in Nat /\ c[2] \in Nat /\ c[3] \in Nat
  BY PartSizeAssumption DEF Counters, Parts
<1>2. \A x, y \in Nat : x * PartSize + y \in Nat
  BY PartSizeAssumption
<1> QED BY <1>1, <1>2 DEF Number

\* An earlier counter has the smaller number.
LEMMA LessNumber ==
  ASSUME NEW a \in Counters, NEW b \in Counters, Less(a, b)
  PROVE  Number(a) < Number(b)
<1> DEFINE two(c) == c[0] * PartSize + c[1]
           three(c) == two(c) * PartSize + c[2]
<1>1. \A k \in Parts : a[k] \in 0..(PartSize - 1) /\ b[k] \in 0..(PartSize - 1)
  BY DEF Counters
<1>2. /\ \A k \in Parts : a[k] \in Int /\ b[k] \in Int /\ b[k] \in Nat
      /\ two(a) \in Int /\ two(b) \in Int /\ three(a) \in Int /\ three(b) \in Int
  BY <1>1, NumberType, PartSizeAssumption
<1>3. 0 \in Parts /\ 1 \in Parts /\ 2 \in Parts /\ 3 \in Parts
  BY DEF Parts
<1>4. PICK k \in Parts : a[k] < b[k] /\ \A i \in Parts : i < k => a[i] = b[i]
  BY DEF Less
<1>5. CASE k = 0
  <2>1. two(a) < two(b)
    BY <1>1, <1>2, <1>3, <1>4, <1>5, DigitOrder
  <2>2. three(a) < three(b)
    BY <1>1, <1>2, <1>3, <2>1, DigitOrder
  <2> QED BY <1>1, <1>2, <1>3, <2>2, DigitOrder DEF Number
<1>6. CASE k = 1
  <2>1. two(a) < two(b)
    BY <1>2, <1>3, <1>4, <1>6, PartSizeAssumption DEF Parts
  <2>2. three(a) < three(b)
    BY <1>1, <1>2, <1>3, <2>1, DigitOrder
  <2> QED BY <1>1, <1>2, <1>3, <2>2, DigitOrder DEF Number
<1>7. CASE k = 2
  <2>1. two(a) = two(b)
    BY <1>3, <1>4, <1>7
  <2>2. three(a) < three(b)
    BY <2>1, <1>2, <1>3, <1>4, <1>7, PartSizeAssumption
  <2> QED BY <1>1, <1>2, <1>3, <2>2, DigitOrder DEF Number
<1>8. CASE k = 3
  <2>1. three(a) = three(b)
    BY <1>3, <1>4, <1>8
  <2> QED BY <2>1, <1>2, <1>3, <1>4, <1>8, PartSizeAssumption DEF Number
<1> QED BY <1>5, <1>6, <1>7, <1>8 DEF Parts

\* The order of counters is the order of their numbers.
LEMMA NumberOrder ==
  ASSUME NEW a \in Counters, NEW b \in Counters
  PROVE  Less(a, b) <=> Number(a) < Number(b)
<1>1. Number(a) \in Nat /\ Number(b) \in Nat
  BY NumberType
<1>2. CASE Less(a, b)
  BY <1>2, LessNumber
<1>3. CASE a = b
  BY <1>1, <1>3, PartSizeAssumption DEF Less, Counters
<1>4. CASE ~Less(a, b) /\ a # b
  <2>1. Less(b, a)
    <3>1. PICK k \in Parts : a[k] # b[k] /\ \A i \in Parts : i < k => a[i] = b[i]
      <4>1. \E k \in Parts : a[k] # b[k]
        BY <1>4 DEF Counters
      <4> QED BY <4>1 DEF Parts
    <3> QED BY <1>4, <3>1, PartSizeAssumption DEF Less, Counters
  <2> QED BY <1>1, <1>4, <2>1, LessNumber
<1> QED BY <1>2, <1>3, <1>4

\* Half of the counters is half.
LEMMA CounterSizeType ==
  CounterSize \in Nat /\ Half \in Nat /\ Half + Half <= CounterSize /\ CounterSize > 1
<1>1. PartSize * PartSize \in Nat /\ PartSize * PartSize > 1
  BY PartSizeAssumption
<1>2. PartSize * PartSize * PartSize \in Nat /\ PartSize * PartSize * PartSize > 1
  BY <1>1, PartSizeAssumption
<1>3. CounterSize \in Nat /\ CounterSize > 1
  BY <1>2, PartSizeAssumption DEF CounterSize
<1> QED BY <1>3 DEF Half

\* The number of the last counter.
LEMMA LastNumber ==
  ASSUME NEW c \in Counters, IsLast(c)
  PROVE  Number(c) = CounterSize - 1
<1>1. c[0] = PartSize - 1 /\ c[1] = PartSize - 1 /\ c[2] = PartSize - 1 /\ c[3] = PartSize - 1
  BY DEF IsLast, Parts
<1>2. c[0] * PartSize + c[1] = PartSize * PartSize - 1
  BY <1>1, PartSizeAssumption
<1>3. \A x \in Int : (x - 1) * PartSize + (PartSize - 1) = x * PartSize - 1
  BY PartSizeAssumption
<1>4. PartSize * PartSize \in Int /\ PartSize * PartSize * PartSize \in Int
  BY PartSizeAssumption
<1> QED BY <1>1, <1>2, <1>3, <1>4 DEF Number, CounterSize

\* The increment adds one, before the counter wraps.
LEMMA SuccessorNumber ==
  ASSUME NEW c \in Counters, ~IsLast(c)
  PROVE  Number(Successor(c)) = Number(c) + 1
<1> DEFINE d == Successor(c)
<1>1. PICK h \in Parts :
              /\ c[h] + 1 = d[h]
              /\ \A i \in Parts : i < h => d[i] = c[i]
              /\ \A i \in Parts : i > h => d[i] = 0 /\ c[i] = PartSize - 1
  BY SuccessorIs
<1>2. c[0] \in Int /\ c[1] \in Int /\ c[2] \in Int /\ c[3] \in Int
  BY PartSizeAssumption DEF Counters, Parts
<1>3. \A x \in Int : (x + 1) * PartSize = x * PartSize + (PartSize - 1) + 1
  BY PartSizeAssumption
<1>4. /\ c[0] * PartSize \in Int
      /\ c[0] * PartSize + c[1] \in Int
      /\ (c[0] * PartSize + c[1]) * PartSize \in Int
      /\ (c[0] * PartSize + c[1]) * PartSize + c[2] \in Int
      /\ ((c[0] * PartSize + c[1]) * PartSize + c[2]) * PartSize \in Int
  BY <1>2, PartSizeAssumption
<1>5. CASE h = 3
  BY <1>1, <1>2, <1>4, <1>5 DEF Number, Parts
<1>6. CASE h = 2
  <2>1. d[0] = c[0] /\ d[1] = c[1] /\ d[2] = c[2] + 1 /\ d[3] = 0 /\ c[3] = PartSize - 1
    BY <1>1, <1>6 DEF Parts
  <2> QED BY <2>1, <1>2, <1>3, <1>4, PartSizeAssumption DEF Number
<1>7. CASE h = 1
  <2>1. /\ d[0] = c[0] /\ d[1] = c[1] + 1 /\ d[2] = 0 /\ d[3] = 0
        /\ c[2] = PartSize - 1 /\ c[3] = PartSize - 1
    BY <1>1, <1>7 DEF Parts
  <2>2. (d[0] * PartSize + d[1]) * PartSize + d[2]
          = (c[0] * PartSize + c[1]) * PartSize + c[2] + 1
    BY <2>1, <1>2, <1>3, <1>4, PartSizeAssumption
  <2> QED BY <2>1, <2>2, <1>2, <1>3, <1>4, PartSizeAssumption DEF Number
<1>8. CASE h = 0
  <2>1. /\ d[0] = c[0] + 1 /\ d[1] = 0 /\ d[2] = 0 /\ d[3] = 0
        /\ c[1] = PartSize - 1 /\ c[2] = PartSize - 1 /\ c[3] = PartSize - 1
    BY <1>1, <1>8 DEF Parts
  <2>2. d[0] * PartSize + d[1] = c[0] * PartSize + c[1] + 1
    BY <2>1, <1>2, <1>3, <1>4, PartSizeAssumption
  <2>3. (d[0] * PartSize + d[1]) * PartSize + d[2]
          = (c[0] * PartSize + c[1]) * PartSize + c[2] + 1
    BY <2>1, <2>2, <1>2, <1>3, <1>4, PartSizeAssumption
  <2> QED BY <2>1, <2>3, <1>2, <1>3, <1>4, PartSizeAssumption DEF Number
<1> QED BY <1>5, <1>6, <1>7, <1>8 DEF Parts

\* An unsigned difference that wraps.
LEMMA NegativeModulo ==
  ASSUME NEW w \in Nat \ {0}, NEW x \in Int, x < 0, x + w >= 0
  PROVE  x % w = x + w
<1> DEFINE q == x \div w
           r == x % w
<1>1. q \in Int /\ r \in 0..(w - 1) /\ x = w * q + r
  OBVIOUS
<1>2. CASE q >= 0
  <2>1. w * q >= 0
    BY <1>1, <1>2
  <2> QED BY <1>1, <2>1
<1>3. CASE q <= -2
  <2>1. PICK e \in Nat : q = -2 - e
    BY <1>1, <1>3, -2 - q \in Nat
  <2>2. w * q = -w - w - w * e /\ w * e >= 0
    BY <2>1
  <2> QED BY <1>1, <2>2
<1>4. CASE q = -1
  BY <1>1, <1>4
<1> QED BY <1>1, <1>2, <1>3, <1>4

\* The comparison by an unsigned difference is the order of the counters, as long as
\* neither has reached 2^31.
THEOREM UnsignedDifference ==
  ASSUME NEW a \in Counters, NEW b \in Counters, Number(a) < Half, Number(b) < Half
  PROVE  AtOrAfter(a, b) <=> ~Less(a, b)
<1> DEFINE x == Number(a) - Number(b)
<1>1. Number(a) \in Nat /\ Number(b) \in Nat
  BY NumberType
<1>2. CASE x >= 0
  <2>1. x \in 0..(CounterSize - 1)
    BY <1>1, <1>2, CounterSizeType
  <2>2. x % CounterSize = x
    BY <2>1, CounterSizeType
  <2> QED BY <1>1, <1>2, <2>2, NumberOrder, CounterSizeType DEF AtOrAfter
<1>3. CASE x < 0
  <2>1. x + CounterSize \in 0..(CounterSize - 1)
    BY <1>1, <1>3, CounterSizeType
  <2>2. x % CounterSize = x + CounterSize
    BY <2>1, <1>1, <1>3, CounterSizeType, NegativeModulo
  <2> QED BY <1>1, <1>3, <2>2, NumberOrder, CounterSizeType DEF AtOrAfter
<1> QED BY <1>1, <1>2, <1>3

-----------------------------------------------------------------------------
\* The closed form is a ratchet.
LEMMA RatchetAtType ==
  ASSUME NEW c \in Counters
  PROVE  RatchetAt(c) \in Ratchets
<1>1. \A k, i \in Parts : Count(c, k, i) \in Nat
  BY PartSizeAssumption DEF Count, Carried, Counters
<1>2. \A k \in Parts : Origin(c, k) \in Parts
  BY DEF Origin, Parts
<1> QED BY <1>1, <1>2 DEF RatchetAt, Ratchets, Values

\* Different counters have different keys.
LEMMA RatchetAtInjective ==
  ASSUME NEW c \in Counters, NEW d \in Counters, c # d
  PROVE  RatchetAt(c).data # RatchetAt(d).data
<1>1. PICK k \in Parts : c[k] # d[k] /\ \A i \in Parts : i < k => c[i] = d[i]
  <2>1. \E k \in Parts : c[k] # d[k]
    BY DEF Counters
  <2> QED BY <2>1 DEF Parts
<1>2. Carried(c, k) = Carried(d, k) /\ Carried(c, k) \in Int
  BY <1>1 DEF Carried
<1>3. c[k] \in Int /\ d[k] \in Int
  BY PartSizeAssumption DEF Counters
<1>4. Count(c, k, k) # Count(d, k, k)
  BY <1>1, <1>2, <1>3 DEF Count, Parts
<1>5. /\ RatchetAt(c).data[k].hashes[k] = Count(c, k, k)
      /\ RatchetAt(d).data[k].hashes[k] = Count(d, k, k)
  BY DEF RatchetAt
<1> QED BY <1>4, <1>5

\* A ratchet that descends from the random data of the session.
IsRatchet(r) ==
  r.counter \in Counters /\ r = RatchetAt(r.counter)

\* The sender is at the number of messages it has sent.
OutboundIsAdvanced ==
  IsRatchet(outbound) /\ Number(outbound.counter) = Len(sent)

\* Message n was encrypted at counter n - 1.
MessagesAreNumbered ==
  \A n \in 1..Len(sent) :
    /\ Number(sent[n].index) = n - 1
    /\ sent[n].key = RatchetAt(sent[n].index).data

\* The two ratchets of a session are of the sender, the first not after the latest.
SessionsAreRatchets ==
  \A s \in Live :
    /\ IsRatchet(inbound[s].initial) /\ IsRatchet(inbound[s].latest)
    /\ Number(inbound[s].initial.counter) <= Number(inbound[s].latest.counter)
    /\ Number(inbound[s].latest.counter) <= Len(sent)

\* The inductive invariant.
IInv ==
  /\ TypeOK
  /\ Len(sent) <= MaxMessages
  /\ OutboundIsAdvanced
  /\ MessagesAreNumbered
  /\ SessionsAreRatchets

\* _get_megolm in closed form: which messages are refused, and the ratchet of the others.
LEMMA Lookup ==
  ASSUME IInv, NEW s \in Live, NEW index \in Counters,
         Number(index) <= Len(sent)
  PROVE  /\ AtOrAfter(index, inbound[s].latest.counter)
              <=> Number(index) >= Number(inbound[s].latest.counter)
         /\ Refuses(inbound[s], index)
              <=> Number(index) < Number(inbound[s].initial.counter)
         /\ ~Refuses(inbound[s], index)
              => RatchetFor(inbound[s], index) = RatchetAt(index)
<1> DEFINE ci == inbound[s].initial.counter
           cl == inbound[s].latest.counter
<1>1. /\ ci \in Counters /\ cl \in Counters
      /\ inbound[s].initial = RatchetAt(ci) /\ inbound[s].latest = RatchetAt(cl)
      /\ Number(ci) <= Number(cl) /\ Number(cl) <= Len(sent)
  BY DEF IInv, SessionsAreRatchets, IsRatchet
<1>2. Len(sent) < Half /\ Len(sent) \in Nat
  BY MaxMessagesAssumption, CounterSizeType DEF IInv, TypeOK
<1>3. Number(ci) \in Nat /\ Number(cl) \in Nat /\ Number(index) \in Nat
  BY <1>1, NumberType
<1>4. Number(ci) < Half /\ Number(cl) < Half /\ Number(index) < Half
  BY <1>1, <1>2, <1>3, CounterSizeType
<1>5. /\ AtOrAfter(index, cl) <=> Number(index) >= Number(cl)
      /\ AtOrAfter(index, ci) <=> Number(index) >= Number(ci)
      /\ Less(index, cl) <=> Number(index) < Number(cl)
      /\ Less(index, ci) <=> Number(index) < Number(ci)
  BY <1>1, <1>3, <1>4, UnsignedDifference, NumberOrder
<1>6. ~Less(index, cl) => AdvanceTo(inbound[s].latest, index) = RatchetAt(index)
  BY <1>1, JumpAgrees
<1>7. ~Less(index, ci) => AdvanceTo(inbound[s].initial, index) = RatchetAt(index)
  BY <1>1, JumpAgrees
<1>8. /\ AtOrAfter(index, cl) <=> ~Less(index, cl)
      /\ AtOrAfter(index, ci) <=> ~Less(index, ci)
      /\ Refuses(inbound[s], index) <=> Number(index) < Number(ci)
  BY <1>1, <1>3, <1>5 DEF Refuses
<1>9. ~Refuses(inbound[s], index) => RatchetFor(inbound[s], index) = RatchetAt(index)
  <2>1. CASE AtOrAfter(index, cl)
    BY <1>6, <1>8, <2>1 DEF RatchetFor
  <2>2. CASE ~AtOrAfter(index, cl)
    BY <1>7, <1>8, <2>2 DEF RatchetFor, Refuses
  <2> QED BY <2>1, <2>2
<1> QED BY <1>5, <1>8, <1>9

\* What the invariant says of one message.
LEMMA MessageFacts ==
  ASSUME IInv, NEW n \in 1..Len(sent)
  PROVE  /\ sent[n].index \in Counters
         /\ Number(sent[n].index) = n - 1
         /\ Number(sent[n].index) <= Len(sent)
         /\ sent[n].key = RatchetAt(sent[n].index).data
         /\ Len(sent) \in Nat
<1>1. Len(sent) \in Nat /\ sent[n] \in Messages
  BY DEF IInv, TypeOK
<1>2. Number(sent[n].index) = n - 1 /\ sent[n].key = RatchetAt(sent[n].index).data
  BY DEF IInv, MessagesAreNumbered
<1>3. sent[n].index \in Counters
  BY <1>1 DEF Messages
<1> QED BY <1>1, <1>2, <1>3

\* The invariant holds at first.
LEMMA InitIInv == Init => IInv
<1> SUFFICES ASSUME Init PROVE IInv
  OBVIOUS
<1> DEFINE zero == [k \in Parts |-> 0]
<1>1. zero \in Counters /\ Number(zero) = 0
  BY PartSizeAssumption DEF Counters, Number, Parts
<1>2. outbound = RatchetAt(zero) /\ outbound.counter = zero
  BY NewRatchetIs DEF Init, RatchetAt
<1>3. outbound \in Ratchets
  BY <1>1, <1>2, RatchetAtType
<1>4. Live = {}
  BY DEF Init, Live
<1>5. Len(sent) = 0 /\ sent \in Seq(Messages)
  BY DEF Init
<1>6. TypeOK
  BY <1>3, <1>5 DEF Init, TypeOK
<1> QED
  BY <1>1, <1>2, <1>4, <1>5, <1>6, MaxMessagesAssumption
  DEF IInv, OutboundIsAdvanced, IsRatchet, MessagesAreNumbered, SessionsAreRatchets

\* A session that is made from a ratchet of the sender.
LEMMA NewSession ==
  ASSUME NEW c \in Counters, NEW v \in BOOLEAN
  PROVE  /\ Imported(RatchetAt(c), v) \in Sessions
         /\ Imported(RatchetAt(c), v).initial = RatchetAt(c)
         /\ Imported(RatchetAt(c), v).latest = RatchetAt(c)
         /\ RatchetAt(c).counter = c
BY RatchetAtType DEF Imported, Sessions, RatchetAt

\* What _get_megolm leaves of a session.
LEMMA AfterLookupIs ==
  ASSUME IInv, NEW s \in Live, NEW index \in Counters,
         Number(index) <= Len(sent), ~Refuses(inbound[s], index)
  PROVE  /\ AfterLookup(inbound[s], index) \in Sessions
         /\ AfterLookup(inbound[s], index).initial = inbound[s].initial
         /\ AfterLookup(inbound[s], index).verified = inbound[s].verified
         /\ IsRatchet(AfterLookup(inbound[s], index).latest)
         /\ Number(inbound[s].latest.counter)
              <= Number(AfterLookup(inbound[s], index).latest.counter)
         /\ Number(AfterLookup(inbound[s], index).latest.counter) <= Len(sent)
<1>1. inbound[s] \in Sessions
  BY DEF IInv, TypeOK, Live
<1>2. /\ IsRatchet(inbound[s].latest)
      /\ Number(inbound[s].latest.counter) <= Len(sent)
  BY DEF IInv, SessionsAreRatchets
<1>3. CASE AtOrAfter(index, inbound[s].latest.counter)
  <2>1. AdvanceTo(inbound[s].latest, index) = RatchetAt(index)
    BY <1>3, Lookup DEF RatchetFor
  <2>2. AfterLookup(inbound[s], index) = [inbound[s] EXCEPT !.latest = RatchetAt(index)]
    BY <1>3, <2>1 DEF AfterLookup
  <2>3. RatchetAt(index) \in Ratchets /\ RatchetAt(index).counter = index
    BY RatchetAtType DEF RatchetAt
  <2>4. Number(index) >= Number(inbound[s].latest.counter)
    BY <1>3, Lookup
  <2>5. /\ AfterLookup(inbound[s], index) \in Sessions
        /\ AfterLookup(inbound[s], index).initial = inbound[s].initial
        /\ AfterLookup(inbound[s], index).verified = inbound[s].verified
        /\ AfterLookup(inbound[s], index).latest = RatchetAt(index)
    BY <1>1, <2>2, <2>3 DEF Sessions
  <2>6. Number(index) \in Nat /\ Number(inbound[s].latest.counter) \in Nat
    BY <1>2, NumberType DEF IsRatchet
  <2> QED BY <2>3, <2>4, <2>5, <2>6 DEF IsRatchet
<1>4. CASE ~AtOrAfter(index, inbound[s].latest.counter)
  <2>1. Number(inbound[s].latest.counter) \in Nat
    BY <1>2, NumberType DEF IsRatchet
  <2> QED BY <1>1, <1>2, <1>4, <2>1 DEF AfterLookup
<1> QED BY <1>3, <1>4

-----------------------------------------------------------------------------
\* Encrypting keeps the invariant.
LEMMA EncryptStep == IInv /\ Encrypt => IInv'
<1> SUFFICES ASSUME IInv, Encrypt PROVE IInv'
  OBVIOUS
<1> DEFINE c == outbound.counter
           m == [index |-> c, key |-> outbound.data]
<1>1. /\ c \in Counters /\ outbound = RatchetAt(c) /\ Number(c) = Len(sent)
      /\ Len(sent) \in Nat /\ Len(sent) < MaxMessages /\ sent \in Seq(Messages)
  BY DEF IInv, OutboundIsAdvanced, IsRatchet, Encrypt, TypeOK
<1>2. ~IsLast(c)
  BY <1>1, LastNumber, MaxMessagesAssumption, CounterSizeType
<1>3. /\ outbound' = RatchetAt(Successor(c))
      /\ Successor(c) \in Counters
      /\ Number(Successor(c)) = Len(sent) + 1
  BY <1>1, <1>2, StepAgrees, SuccessorIs, SuccessorNumber DEF Encrypt
<1>4. outbound' \in Ratchets /\ outbound'.counter = Successor(c)
  BY <1>3, RatchetAtType DEF RatchetAt
<1>5. m \in Messages /\ m.key = RatchetAt(c).data /\ m.index = c
  BY <1>1, RatchetAtType DEF Messages, Ratchets
<1>6. /\ sent' \in Seq(Messages) /\ Len(sent') = Len(sent) + 1
      /\ \A n \in 1..Len(sent) : sent'[n] = sent[n]
      /\ sent'[Len(sent) + 1] = m
  BY <1>1, <1>5 DEF Encrypt
<1>7. inbound' = inbound
  BY DEF Encrypt
<1>8. TypeOK'
  BY <1>4, <1>6, <1>7 DEF IInv, TypeOK
<1>9. OutboundIsAdvanced'
  BY <1>3, <1>4, <1>6 DEF OutboundIsAdvanced, IsRatchet
<1>10. MessagesAreNumbered'
  <2> SUFFICES ASSUME NEW n \in 1..Len(sent')
               PROVE  /\ Number(sent'[n].index) = n - 1
                      /\ sent'[n].key = RatchetAt(sent'[n].index).data
    BY DEF MessagesAreNumbered
  <2>1. CASE n \in 1..Len(sent)
    BY <1>6, <2>1 DEF IInv, MessagesAreNumbered
  <2>2. CASE n = Len(sent) + 1
    BY <1>1, <1>5, <1>6, <2>2
  <2> QED BY <1>1, <1>6, <2>1, <2>2
<1>11. SessionsAreRatchets'
  <2> SUFFICES ASSUME NEW s \in Live'
               PROVE  /\ IsRatchet(inbound'[s].initial) /\ IsRatchet(inbound'[s].latest)
                      /\ Number(inbound'[s].initial.counter) <= Number(inbound'[s].latest.counter)
                      /\ Number(inbound'[s].latest.counter) <= Len(sent')
    BY DEF SessionsAreRatchets, IsRatchet
  <2>1. s \in Live
    BY <1>7 DEF Live
  <2>2. /\ IsRatchet(inbound[s].initial) /\ IsRatchet(inbound[s].latest)
        /\ Number(inbound[s].initial.counter) <= Number(inbound[s].latest.counter)
        /\ Number(inbound[s].latest.counter) <= Len(sent)
    BY <2>1 DEF IInv, SessionsAreRatchets
  <2>3. Number(inbound[s].latest.counter) \in Nat
    BY <2>2, NumberType DEF IsRatchet
  <2> QED BY <1>1, <1>6, <1>7, <2>2, <2>3
<1> QED BY <1>1, <1>6, <1>8, <1>9, <1>10, <1>11, MaxMessagesAssumption DEF IInv

\* A step that leaves the sender alone keeps the invariant when every session it
\* leaves is either as before or made of ratchets of the sender.
LEMMA InboundStep ==
  ASSUME IInv, UNCHANGED <<outbound, sent>>,
         inbound' \in [Inbounds -> Sessions \cup {NoSession}],
         \A s \in Inbounds :
           \/ inbound'[s] = inbound[s]
           \/ /\ IsRatchet(inbound'[s].initial) /\ IsRatchet(inbound'[s].latest)
              /\ Number(inbound'[s].initial.counter) <= Number(inbound'[s].latest.counter)
              /\ Number(inbound'[s].latest.counter) <= Len(sent)
  PROVE  IInv'
<1>1. TypeOK' /\ (Len(sent) <= MaxMessages)'
  BY DEF IInv, TypeOK
<1>2. OutboundIsAdvanced'
  BY DEF IInv, OutboundIsAdvanced, IsRatchet
<1>3. MessagesAreNumbered'
  BY DEF IInv, MessagesAreNumbered
<1>4. SessionsAreRatchets'
  <2> SUFFICES ASSUME NEW s \in Live'
               PROVE  /\ IsRatchet(inbound'[s].initial) /\ IsRatchet(inbound'[s].latest)
                      /\ Number(inbound'[s].initial.counter) <= Number(inbound'[s].latest.counter)
                      /\ Number(inbound'[s].latest.counter) <= Len(sent')
    BY DEF SessionsAreRatchets, IsRatchet
  <2>1. s \in Inbounds /\ inbound'[s] # NoSession
    BY DEF Live
  <2>2. CASE inbound'[s] = inbound[s]
    <3>1. s \in Live
      BY <2>1, <2>2 DEF Live
    <3> QED BY <2>2, <3>1 DEF IInv, SessionsAreRatchets
  <2>3. CASE inbound'[s] # inbound[s]
    BY <2>1, <2>3
  <2> QED BY <2>2, <2>3
<1> QED BY <1>1, <1>2, <1>3, <1>4 DEF IInv

\* Sharing the key keeps the invariant.
LEMMA ShareKeyStep ==
  ASSUME IInv, NEW s \in Inbounds, ShareKey(s)
  PROVE  IInv'
<1> DEFINE c == outbound.counter
           new == Imported(RatchetAt(c), TRUE)
<1>1. c \in Counters /\ outbound = RatchetAt(c) /\ Number(c) = Len(sent) /\ Len(sent) \in Nat
  BY DEF IInv, OutboundIsAdvanced, IsRatchet, TypeOK
<1>2. inbound' = [inbound EXCEPT ![s] = new]
  BY <1>1 DEF ShareKey
<1>3. /\ new \in Sessions /\ new.initial = RatchetAt(c) /\ new.latest = RatchetAt(c)
      /\ RatchetAt(c).counter = c
  BY <1>1, NewSession
<1>4. inbound \in [Inbounds -> Sessions \cup {NoSession}]
  BY DEF IInv, TypeOK
<1>5. IsRatchet(new.initial) /\ IsRatchet(new.latest)
  BY <1>1, <1>3 DEF IsRatchet
<1>6. /\ Number(new.initial.counter) <= Number(new.latest.counter)
      /\ Number(new.latest.counter) <= Len(sent)
  <2>1. new.initial.counter = c /\ new.latest.counter = c
    BY <1>3
  <2> HIDE DEF new
  <2> QED BY <1>1, <2>1
<1>7. inbound'[s] = new /\ \A t \in Inbounds : t # s => inbound'[t] = inbound[t]
  BY <1>2, <1>4
<1>8. inbound' \in [Inbounds -> Sessions \cup {NoSession}]
  BY <1>2, <1>3, <1>4
<1>9. UNCHANGED <<outbound, sent>>
  BY DEF ShareKey
<1> QED BY <1>5, <1>6, <1>7, <1>8, <1>9, InboundStep

\* Exporting and importing keep the invariant.
LEMMA ExportStep ==
  ASSUME IInv, NEW s \in Inbounds, NEW t \in Inbounds, NEW n \in 1..Len(sent),
         Export(s, t, n)
  PROVE  IInv'
<1> DEFINE index == sent[n].index
           new == Imported(RatchetAt(index), FALSE)
           old == AfterLookup(inbound[s], index)
<1>1. s \in Live /\ s # t
  BY DEF Live, Export
<1>2. /\ index \in Counters /\ Number(index) <= Len(sent)
      /\ Number(index) \in Nat /\ Len(sent) \in Nat
  BY MessageFacts, NumberType
<1>3. ~Refuses(inbound[s], index)
  BY DEF Export
<1>4. RatchetFor(inbound[s], index) = RatchetAt(index)
  BY <1>1, <1>2, <1>3, Lookup
<1>5. [counter |-> index, data |-> RatchetAt(index).data] = RatchetAt(index)
  BY DEF RatchetAt
<1>6. inbound' = [inbound EXCEPT ![s] = old, ![t] = new]
  BY <1>1, <1>4, <1>5 DEF Export
<1>7. /\ old \in Sessions /\ old.initial = inbound[s].initial
      /\ IsRatchet(old.latest)
      /\ Number(inbound[s].latest.counter) <= Number(old.latest.counter)
      /\ Number(old.latest.counter) <= Len(sent)
  BY <1>1, <1>2, <1>3, AfterLookupIs
<1>8. /\ new \in Sessions /\ new.initial = RatchetAt(index) /\ new.latest = RatchetAt(index)
      /\ RatchetAt(index).counter = index
  BY <1>2, NewSession
<1>9. inbound \in [Inbounds -> Sessions \cup {NoSession}]
  BY DEF IInv, TypeOK
<1>10. /\ inbound'[s] = old /\ inbound'[t] = new
       /\ \A u \in Inbounds : u # s /\ u # t => inbound'[u] = inbound[u]
       /\ inbound' \in [Inbounds -> Sessions \cup {NoSession}]
  BY <1>1, <1>6, <1>7, <1>8, <1>9
<1>11. /\ IsRatchet(inbound[s].initial) /\ IsRatchet(inbound[s].latest)
       /\ Number(inbound[s].initial.counter) <= Number(inbound[s].latest.counter)
  BY <1>1 DEF IInv, SessionsAreRatchets
<1>12. /\ Number(inbound[s].initial.counter) \in Nat
       /\ Number(inbound[s].latest.counter) \in Nat
       /\ Number(old.latest.counter) \in Nat
  BY <1>7, <1>11, NumberType DEF IsRatchet
<1>13. /\ IsRatchet(old.initial) /\ IsRatchet(old.latest)
       /\ Number(old.initial.counter) <= Number(old.latest.counter)
       /\ Number(old.latest.counter) <= Len(sent)
  BY <1>7, <1>11, <1>12
<1>14. /\ IsRatchet(new.initial) /\ IsRatchet(new.latest)
       /\ Number(new.initial.counter) <= Number(new.latest.counter)
       /\ Number(new.latest.counter) <= Len(sent)
  <2>1. new.initial.counter = index /\ new.latest.counter = index
    BY <1>8
  <2>2. IsRatchet(new.initial) /\ IsRatchet(new.latest)
    BY <1>2, <1>8 DEF IsRatchet
  <2> HIDE DEF new
  <2> QED BY <1>2, <2>1, <2>2
<1>15. UNCHANGED <<outbound, sent>>
  BY DEF Export
<1> HIDE DEF new, old
<1> QED BY <1>10, <1>13, <1>14, <1>15, InboundStep

\* Decrypting keeps the invariant.
LEMMA DecryptStep ==
  ASSUME IInv, NEW s \in Inbounds, NEW n \in 1..Len(sent), Decrypt(s, n)
  PROVE  IInv'
<1> DEFINE index == sent[n].index
           looked == AfterLookup(inbound[s], index)
           v == looked.verified \/ Reads(inbound[s], sent[n])
           new == [looked EXCEPT !.verified = v]
<1>1. s \in Live
  BY DEF Live, Decrypt
<1>2. index \in Counters /\ Number(index) <= Len(sent) /\ Len(sent) \in Nat
  BY MessageFacts
<1>3. /\ looked \in Sessions /\ looked.initial = inbound[s].initial
      /\ IsRatchet(looked.latest)
      /\ Number(inbound[s].latest.counter) <= Number(looked.latest.counter)
      /\ Number(looked.latest.counter) <= Len(sent)
  BY <1>1, <1>2, AfterLookupIs DEF Decrypt
<1>4. v \in BOOLEAN
  BY <1>3 DEF Reads, Refuses, Sessions
<1>5. new \in Sessions /\ new.initial = looked.initial /\ new.latest = looked.latest
  BY <1>3, <1>4 DEF Sessions
<1>6. inbound' = [inbound EXCEPT ![s] = new]
  BY DEF Decrypt
<1>7. inbound \in [Inbounds -> Sessions \cup {NoSession}]
  BY DEF IInv, TypeOK
<1>8. /\ inbound'[s] = new
      /\ \A u \in Inbounds : u # s => inbound'[u] = inbound[u]
      /\ inbound' \in [Inbounds -> Sessions \cup {NoSession}]
  BY <1>5, <1>6, <1>7
<1>9. /\ IsRatchet(inbound[s].initial) /\ IsRatchet(inbound[s].latest)
      /\ Number(inbound[s].initial.counter) <= Number(inbound[s].latest.counter)
  BY <1>1 DEF IInv, SessionsAreRatchets
<1>10. /\ Number(inbound[s].initial.counter) \in Nat
       /\ Number(inbound[s].latest.counter) \in Nat
       /\ Number(looked.latest.counter) \in Nat
  BY <1>3, <1>9, NumberType DEF IsRatchet
<1>11. /\ IsRatchet(new.initial) /\ IsRatchet(new.latest)
       /\ Number(new.initial.counter) <= Number(new.latest.counter)
       /\ Number(new.latest.counter) <= Len(sent)
  BY <1>3, <1>5, <1>9, <1>10
<1>12. UNCHANGED <<outbound, sent>>
  BY DEF Decrypt
<1> HIDE DEF new
<1> QED BY <1>8, <1>11, <1>12, InboundStep

\* Every step keeps the invariant.
LEMMA NextIInv == IInv /\ [Next]_vars => IInv'
<1> SUFFICES ASSUME IInv, [Next]_vars PROVE IInv'
  OBVIOUS
<1>1. CASE Encrypt
  BY <1>1, EncryptStep
<1>2. CASE \E s \in Inbounds : ShareKey(s)
  BY <1>2, ShareKeyStep
<1>3. CASE \E s, t \in Inbounds, n \in 1..Len(sent) : n - 1 \in SharedAt /\ Export(s, t, n)
  BY <1>3, ExportStep
<1>4. CASE \E s \in Inbounds, n \in 1..Len(sent) : Decrypt(s, n)
  BY <1>4, DecryptStep
<1>5. CASE UNCHANGED vars
  <2>1. UNCHANGED <<outbound, sent>> /\ inbound' = inbound
    BY <1>5 DEF vars
  <2>2. inbound' \in [Inbounds -> Sessions \cup {NoSession}]
    BY <2>1 DEF IInv, TypeOK
  <2> QED BY <2>1, <2>2, InboundStep
<1> QED BY <1>1, <1>2, <1>3, <1>4, <1>5 DEF Next

\* The invariant always holds.
LEMMA Invariance == Spec => []IInv
BY InitIInv, NextIInv, PTL DEF Spec

-----------------------------------------------------------------------------
\* Every reachable state is well typed: no byte of a counter overflows, no part is lost.
THEOREM TypeCorrect == Spec => []TypeOK
<1>1. IInv => TypeOK
  BY DEF IInv
<1> QED BY <1>1, Invariance, PTL

\* Every session reads every message from its first known index on
\* (inbound_group_session.c, _decrypt).
THEOREM ReadsWhatFollows == Spec => []KnownMessagesAreRead
<1>1. IInv => KnownMessagesAreRead
  <2> SUFFICES ASSUME IInv, NEW s \in Live, NEW n \in 1..Len(sent),
                      ~Less(sent[n].index, inbound[s].initial.counter)
               PROVE  Reads(inbound[s], sent[n])
    BY DEF KnownMessagesAreRead
  <2>1. /\ sent[n].index \in Counters /\ Number(sent[n].index) <= Len(sent)
        /\ sent[n].key = RatchetAt(sent[n].index).data
    BY MessageFacts
  <2>2. inbound[s].initial.counter \in Counters
    BY DEF IInv, SessionsAreRatchets, IsRatchet
  <2>3. ~Refuses(inbound[s], sent[n].index)
    BY <2>1, <2>2, Lookup, NumberOrder
  <2>4. RatchetFor(inbound[s], sent[n].index) = RatchetAt(sent[n].index)
    BY <2>1, <2>3, Lookup
  <2> QED BY <2>1, <2>3, <2>4 DEF Reads
<1> QED BY <1>1, Invariance, PTL

\* No session reads a message before its first known index (_get_megolm).
THEOREM HistoryStaysClosed == Spec => []HistoryIsNotRead
<1>1. IInv => HistoryIsNotRead
  <2> SUFFICES ASSUME IInv, NEW s \in Live, NEW n \in 1..Len(sent),
                      Less(sent[n].index, inbound[s].initial.counter)
               PROVE  Refuses(inbound[s], sent[n].index)
    BY DEF HistoryIsNotRead
  <2>1. sent[n].index \in Counters /\ Number(sent[n].index) <= Len(sent)
    BY MessageFacts
  <2>2. inbound[s].initial.counter \in Counters
    BY DEF IInv, SessionsAreRatchets, IsRatchet
  <2> QED BY <2>1, <2>2, Lookup, NumberOrder
<1> QED BY <1>1, Invariance, PTL

\* No two messages are encrypted under the same key (olm_group_encrypt).
THEOREM FreshKeys == Spec => []KeysAreFresh
<1>1. IInv => KeysAreFresh
  <2> SUFFICES ASSUME IInv, NEW m \in 1..Len(sent), NEW n \in 1..Len(sent), m # n
               PROVE  sent[m].key # sent[n].key
    BY DEF KeysAreFresh
  <2>1. /\ sent[m].index \in Counters /\ Number(sent[m].index) = m - 1
        /\ sent[m].key = RatchetAt(sent[m].index).data
    BY MessageFacts
  <2>2. /\ sent[n].index \in Counters /\ Number(sent[n].index) = n - 1
        /\ sent[n].key = RatchetAt(sent[n].index).data
    BY MessageFacts
  <2>3. Len(sent) \in Nat
    BY DEF IInv, TypeOK
  <2>4. sent[m].index # sent[n].index
    BY <2>1, <2>2, <2>3
  <2> QED BY <2>1, <2>2, <2>4, RatchetAtInjective
<1> QED BY <1>1, Invariance, PTL

\* The steps of the action property, one per action that touches a session.
LEMMA LookupMovesForward ==
  ASSUME IInv, NEW s \in Live, NEW index \in Counters,
         Number(index) <= Len(sent), ~Refuses(inbound[s], index)
  PROVE  ~Less(AfterLookup(inbound[s], index).latest.counter, inbound[s].latest.counter)
<1>1. /\ IsRatchet(AfterLookup(inbound[s], index).latest)
      /\ Number(inbound[s].latest.counter)
              <= Number(AfterLookup(inbound[s], index).latest.counter)
  BY AfterLookupIs
<1>2. IsRatchet(inbound[s].latest)
  BY DEF IInv, SessionsAreRatchets
<1>3. /\ inbound[s].latest.counter \in Counters
      /\ AfterLookup(inbound[s], index).latest.counter \in Counters
  BY <1>1, <1>2 DEF IsRatchet
<1> QED BY <1>1, <1>3, NumberOrder, NumberType

\* The first known index never moves, the latest ratchet never goes back, and a session
\* that is verified stays so.
THEOREM ForwardOnly == Spec => OnlyTheLatestMoves
<1> DEFINE Step == \A s \in Live :
       /\ inbound'[s].initial = inbound[s].initial
       /\ ~Less(inbound'[s].latest.counter, inbound[s].latest.counter)
       /\ inbound[s].verified => inbound'[s].verified
<1>1. IInv /\ [Next]_vars => [Step]_vars
  <2> SUFFICES ASSUME IInv, Next, NEW s \in Live
               PROVE  /\ inbound'[s].initial = inbound[s].initial
                      /\ ~Less(inbound'[s].latest.counter, inbound[s].latest.counter)
                      /\ inbound[s].verified => inbound'[s].verified
    OBVIOUS
  <2>0. /\ s \in Inbounds /\ inbound[s] # NoSession /\ inbound[s] \in Sessions
        /\ inbound \in [Inbounds -> Sessions \cup {NoSession}]
    BY DEF Live, IInv, TypeOK
  <2>1. CASE inbound'[s] = inbound[s]
    <3>1. inbound[s].latest.counter \in Counters
      BY DEF IInv, SessionsAreRatchets, IsRatchet
    <3>2. ~Less(inbound[s].latest.counter, inbound[s].latest.counter)
      BY <3>1, NumberOrder, NumberType
    <3> QED BY <2>1, <3>2
  <2>2. CASE Encrypt
    BY <2>1, <2>2 DEF Encrypt
  <2>3. ASSUME NEW t \in Inbounds, ShareKey(t)
        PROVE  inbound'[s] = inbound[s]
    BY <2>0, <2>3 DEF ShareKey
  <2>4. ASSUME NEW u \in Inbounds, NEW t \in Inbounds, NEW n \in 1..Len(sent), Export(u, t, n)
        PROVE  \/ inbound'[s] = inbound[s]
               \/ u = s /\ ~Refuses(inbound[s], sent[n].index)
                  /\ inbound'[s] = AfterLookup(inbound[s], sent[n].index)
    BY <2>0, <2>4 DEF Export
  <2>5. ASSUME NEW u \in Inbounds, NEW n \in 1..Len(sent), Decrypt(u, n)
        PROVE  \/ inbound'[s] = inbound[s]
               \/ u = s /\ ~Refuses(inbound[s], sent[n].index)
                  /\ inbound'[s] = [AfterLookup(inbound[s], sent[n].index) EXCEPT
                                      !.verified = @ \/ Reads(inbound[s], sent[n])]
    BY <2>0, <2>5 DEF Decrypt
  <2>6. ASSUME NEW n \in 1..Len(sent), ~Refuses(inbound[s], sent[n].index)
        PROVE  LET looked == AfterLookup(inbound[s], sent[n].index) IN
               /\ looked \in Sessions
               /\ looked.initial = inbound[s].initial
               /\ looked.verified = inbound[s].verified
               /\ ~Less(looked.latest.counter, inbound[s].latest.counter)
    <3>1. sent[n].index \in Counters /\ Number(sent[n].index) <= Len(sent)
      BY MessageFacts
    <3> QED BY <2>6, <3>1, AfterLookupIs, LookupMovesForward
  <2>7. ASSUME NEW n \in 1..Len(sent), ~Refuses(inbound[s], sent[n].index),
               inbound'[s] = AfterLookup(inbound[s], sent[n].index)
        PROVE  /\ inbound'[s].initial = inbound[s].initial
               /\ ~Less(inbound'[s].latest.counter, inbound[s].latest.counter)
               /\ inbound[s].verified => inbound'[s].verified
    BY <2>6, <2>7
  <2>8. ASSUME NEW n \in 1..Len(sent), ~Refuses(inbound[s], sent[n].index),
               inbound'[s] = [AfterLookup(inbound[s], sent[n].index) EXCEPT
                                !.verified = @ \/ Reads(inbound[s], sent[n])]
        PROVE  /\ inbound'[s].initial = inbound[s].initial
               /\ ~Less(inbound'[s].latest.counter, inbound[s].latest.counter)
               /\ inbound[s].verified => inbound'[s].verified
    <3> DEFINE looked == AfterLookup(inbound[s], sent[n].index)
    <3>1. /\ looked \in Sessions
          /\ looked.initial = inbound[s].initial
          /\ looked.verified = inbound[s].verified
          /\ ~Less(looked.latest.counter, inbound[s].latest.counter)
      BY <2>6, <2>8
    <3>2. /\ inbound'[s].initial = looked.initial
          /\ inbound'[s].latest = looked.latest
          /\ looked.verified => inbound'[s].verified
      BY <2>8, <3>1 DEF Sessions
    <3> HIDE DEF looked
    <3> QED BY <3>1, <3>2
  <2>9. CASE \E t \in Inbounds : ShareKey(t)
    BY <2>1, <2>3, <2>9
  <2>10. CASE \E u, t \in Inbounds, n \in 1..Len(sent) : n - 1 \in SharedAt /\ Export(u, t, n)
    BY <2>1, <2>4, <2>7, <2>10
  <2>11. CASE \E u \in Inbounds, n \in 1..Len(sent) : Decrypt(u, n)
    BY <2>1, <2>5, <2>8, <2>11
  <2> QED BY <2>2, <2>9, <2>10, <2>11 DEF Next
<1> QED BY <1>1, Invariance, PTL DEF Spec, OnlyTheLatestMoves

-----------------------------------------------------------------------------
(***************************************************************************)
(* The refinement: the sessions implement MegolmHistory.                   *)
(***************************************************************************)

\* The function is the operator.
LEMMA CanReadIs ==
  ASSUME NEW session \in Sessions, NEW m \in Messages
  PROVE  CanRead[<<session, m>>] <=> Reads(session, m)
<1> DEFINE p == <<session, m>>
<1>1. p \in Sessions \X Messages /\ p[1] = session /\ p[2] = m
  OBVIOUS
<1> HIDE DEF p
<1>2. CanRead[p] = Reads(p[1], p[2])
  BY <1>1, Zenon DEF CanRead
<1>3. CanRead[p] = Reads(session, m)
  BY <1>1, <1>2, Zenon
<1> QED BY <1>3 DEF p

\* In closed form: a session reads the messages from its first index on.
LEMMA ReadableIs ==
  ASSUME IInv, NEW s \in Live
  PROVE  Readable(s) = {n \in 1..Len(sent) :
                          Number(inbound[s].initial.counter) <= n - 1}
<1>1. /\ inbound[s].initial.counter \in Counters
      /\ Number(inbound[s].initial.counter) \in Nat
      /\ inbound[s] \in Sessions
  BY NumberType DEF IInv, SessionsAreRatchets, IsRatchet, Live, TypeOK
<1>2. ASSUME NEW n \in 1..Len(sent)
      PROVE  CanRead[<<inbound[s], sent[n]>>]
               <=> Number(inbound[s].initial.counter) <= n - 1
  <2>1. /\ sent[n].index \in Counters
        /\ Number(sent[n].index) = n - 1
        /\ Number(sent[n].index) <= Len(sent)
        /\ sent[n].key = RatchetAt(sent[n].index).data
        /\ n - 1 \in Nat
    BY MessageFacts
  <2>2. sent[n] \in Messages
    BY DEF IInv, TypeOK
  <2>3. CanRead[<<inbound[s], sent[n]>>] <=> Reads(inbound[s], sent[n])
    BY <1>1, <2>2, CanReadIs
  <2>4. Refuses(inbound[s], sent[n].index)
          <=> n - 1 < Number(inbound[s].initial.counter)
    BY <2>1, Lookup
  <2>5. ~Refuses(inbound[s], sent[n].index) =>
          RatchetFor(inbound[s], sent[n].index).data = sent[n].key
    BY <2>1, Lookup
  <2>6. Reads(inbound[s], sent[n]) <=> ~Refuses(inbound[s], sent[n].index)
    BY <2>5 DEF Reads
  <2>7. Reads(inbound[s], sent[n]) <=> Number(inbound[s].initial.counter) <= n - 1
    BY <1>1, <2>1, <2>4, <2>6
  <2> QED BY <2>3, <2>7, Zenon
<1>3. \A n \in 1..Len(sent) : s \in Live /\ CanRead[<<inbound[s], sent[n]>>]
        <=> Number(inbound[s].initial.counter) <= n - 1
  BY <1>2, Zenon
<1> QED BY <1>3, Zenon DEF Readable

\* One that does not exist reads nothing.
LEMMA NothingReadable ==
  ASSUME NEW s, s \notin Live
  PROVE  Readable(s) = {}
BY DEF Readable

\* The closed form of all of them, now and after a step.
ReadableInClosedForm ==
  \A s \in Live : Readable(s) = {n \in 1..Len(sent) :
                                  Number(inbound[s].initial.counter) <= n - 1}

LEMMA ClosedForm == IInv => ReadableInClosedForm
BY ReadableIs DEF ReadableInClosedForm

LEMMA ClosedFormNext == IInv' => ReadableInClosedForm'
BY ClosedForm, PTL

\* A session that keeps its first ratchet while nothing is sent reads what it read.
LEMMA SameReadable ==
  ASSUME IInv, IInv', NEW s \in Inbounds, UNCHANGED sent,
         s \in Live' <=> s \in Live,
         s \in Live => inbound'[s].initial = inbound[s].initial
  PROVE  Readable(s)' = Readable(s)
<1>1. CASE s \in Live
  <2>1. Readable(s) = {n \in 1..Len(sent) :
                         Number(inbound[s].initial.counter) <= n - 1}
    BY <1>1, ClosedForm DEF ReadableInClosedForm
  <2>2. Readable(s)' = {n \in 1..Len(sent') :
                          Number(inbound'[s].initial.counter) <= n - 1}
    BY <1>1, ClosedFormNext DEF ReadableInClosedForm
  <2> QED BY <1>1, <2>1, <2>2
<1>2. CASE s \notin Live
  BY <1>2 DEF Readable
<1> QED BY <1>1, <1>2

\* The initial states are those of the history.
LEMMA MapsInit == Init => History!Init
BY DEF Init, History!Init, Live, Readable

\* A message sent can be read by every session there is.
LEMMA MapsEncrypt == ASSUME IInv, IInv', Encrypt PROVE History!Write
<1>1. /\ Len(sent) \in Nat /\ Len(sent') = Len(sent) + 1 /\ inbound' = inbound
  BY DEF IInv, TypeOK, Encrypt
<1>2. Live' = Live
  BY <1>1 DEF Live
<1>3. ASSUME NEW s \in Inbounds, s \in Live
      PROVE  Readable(s)' = Readable(s) \cup {Len(sent) + 1}
  <2>1. /\ Number(inbound[s].initial.counter) \in Nat
        /\ Number(inbound[s].initial.counter) <= Len(sent)
    <3>1. /\ inbound[s].initial.counter \in Counters
          /\ inbound[s].latest.counter \in Counters
          /\ Number(inbound[s].initial.counter) <= Number(inbound[s].latest.counter)
          /\ Number(inbound[s].latest.counter) <= Len(sent)
      BY <1>3 DEF IInv, SessionsAreRatchets, IsRatchet
    <3> QED BY <1>1, <3>1, NumberType
  <2>2. Readable(s) = {n \in 1..Len(sent) :
                         Number(inbound[s].initial.counter) <= n - 1}
    BY <1>3, ClosedForm DEF ReadableInClosedForm
  <2>3. Readable(s)' = {n \in 1..Len(sent') :
                          Number(inbound'[s].initial.counter) <= n - 1}
    BY <1>2, <1>3, ClosedFormNext DEF ReadableInClosedForm
  <2> QED BY <1>1, <2>1, <2>2, <2>3
<1>4. ASSUME NEW s \in Inbounds, s \notin Live PROVE Readable(s)' = {}
  BY <1>2, <1>4 DEF Readable
<1>5. [s \in Inbounds |-> Readable(s)]' =
        [s \in Inbounds |-> IF s \in Live
                            THEN [t \in Inbounds |-> Readable(t)][s] \cup {Len(sent) + 1}
                            ELSE {}]
  <2> HIDE DEF Readable
  <2> QED BY <1>3, <1>4
<1> QED BY <1>1, <1>2, <1>5 DEF History!Write

\* What is shared is what will be sent.
LEMMA MapsShareKey ==
  ASSUME IInv, IInv', NEW s \in Inbounds, ShareKey(s)
  PROVE  History!Share(s)
<1>1. /\ inbound[s] = NoSession /\ UNCHANGED <<outbound, sent>>
      /\ inbound' = [inbound EXCEPT ![s] = Imported(outbound, TRUE)]
      /\ Len(sent) \in Nat /\ inbound \in [Inbounds -> Sessions \cup {NoSession}]
  BY DEF ShareKey, IInv, TypeOK
<1>2. /\ outbound.counter \in Counters /\ outbound = RatchetAt(outbound.counter)
      /\ Number(outbound.counter) = Len(sent)
  BY DEF IInv, OutboundIsAdvanced, IsRatchet
<1>3. /\ Imported(outbound, TRUE) \in Sessions
      /\ Imported(outbound, TRUE).initial = outbound
  BY <1>2, NewSession
<1>4. /\ inbound'[s] \in Sessions /\ inbound'[s].initial = outbound
      /\ \A d \in Inbounds \ {s} : inbound'[d] = inbound[d]
  BY <1>1, <1>3
<1>5. s \notin Live /\ Live' = Live \cup {s}
  BY <1>1, <1>4, NoSessionAssumption DEF Live
<1>6. Readable(s) = {} /\ Readable(s)' = {}
  <2>1. Readable(s)' = {n \in 1..Len(sent') :
                          Number(inbound'[s].initial.counter) <= n - 1}
    BY <1>5, ClosedFormNext DEF ReadableInClosedForm
  <2>2. \A n \in 1..Len(sent) : ~(Len(sent) <= n - 1)
    BY <1>1
  <2> QED BY <1>1, <1>2, <1>4, <1>5, <2>1, <2>2, NothingReadable
<1>7. ASSUME NEW d \in Inbounds \ {s} PROVE Readable(d)' = Readable(d)
  BY <1>1, <1>4, <1>5, SameReadable
<1>8. [d \in Inbounds |-> Readable(d)]' = [d \in Inbounds |-> Readable(d)]
  <2> HIDE DEF Readable
  <2> QED BY <1>6, <1>7
<1> QED BY <1>1, <1>5, <1>8 DEF History!Share

\* What is exported is what follows.
LEMMA MapsExport ==
  ASSUME IInv, IInv', NEW s \in Inbounds, NEW t \in Inbounds,
         NEW n \in 1..Len(sent), Export(s, t, n)
  PROVE  History!Export(s, t, n)
<1> DEFINE index == sent[n].index
           exported == [counter |-> index, data |-> RatchetFor(inbound[s], index).data]
<1>1. /\ inbound[s] # NoSession /\ inbound[t] = NoSession /\ s # t
      /\ ~Refuses(inbound[s], index) /\ UNCHANGED <<outbound, sent>>
      /\ inbound' = [inbound EXCEPT ![s] = AfterLookup(@, index),
                                    ![t] = Imported(exported, FALSE)]
      /\ Len(sent) \in Nat /\ inbound \in [Inbounds -> Sessions \cup {NoSession}]
  BY DEF Export, IInv, TypeOK
<1>2. s \in Live /\ t \notin Live
  BY <1>1 DEF Live
<1>3. /\ index \in Counters /\ Number(index) = n - 1 /\ Number(index) <= Len(sent)
  BY MessageFacts
<1>4. /\ exported = RatchetAt(index)
      /\ Number(inbound[s].initial.counter) <= n - 1
  <2>1. inbound[s].initial.counter \in Counters
    BY <1>2 DEF IInv, SessionsAreRatchets, IsRatchet
  <2>2. RatchetFor(inbound[s], index) = RatchetAt(index)
    BY <1>1, <1>2, <1>3, Lookup
  <2>3. exported = RatchetAt(index)
    BY <2>2 DEF RatchetAt
  <2>4. ~(n - 1 < Number(inbound[s].initial.counter))
    BY <1>1, <1>2, <1>3, Lookup
  <2> QED BY <1>3, <2>1, <2>3, <2>4, NumberType
<1>5. /\ Imported(exported, FALSE) \in Sessions
      /\ Imported(exported, FALSE).initial.counter = index
  BY <1>3, <1>4, NewSession
<1>6. /\ AfterLookup(inbound[s], index) \in Sessions
      /\ AfterLookup(inbound[s], index).initial = inbound[s].initial
  BY <1>1, <1>2, <1>3, AfterLookupIs
<1> HIDE DEF exported
<1>7. /\ inbound'[s] \in Sessions /\ inbound'[s].initial = inbound[s].initial
      /\ inbound'[t] \in Sessions /\ inbound'[t].initial.counter = index
      /\ \A d \in Inbounds \ {s, t} : inbound'[d] = inbound[d]
  BY <1>1, <1>5, <1>6
<1>8. Live' = Live \cup {t}
  BY <1>1, <1>2, <1>7, NoSessionAssumption DEF Live
<1>9. n \in Readable(s) /\ Readable(t)' = {m \in Readable(s) : m >= n}
  <2>1. Readable(s) = {m \in 1..Len(sent) :
                         Number(inbound[s].initial.counter) <= m - 1}
    BY <1>2, ClosedForm DEF ReadableInClosedForm
  <2>2. Readable(t)' = {m \in 1..Len(sent') : Number(inbound'[t].initial.counter) <= m - 1}
    BY <1>8, ClosedFormNext DEF ReadableInClosedForm
  <2>3. Number(inbound'[t].initial.counter) = n - 1 /\ sent' = sent
    BY <1>1, <1>3, <1>7
  <2>4. Number(inbound[s].initial.counter) \in Nat
    BY <1>2, NumberType DEF IInv, SessionsAreRatchets, IsRatchet
  <2>5. Readable(t)' = {m \in 1..Len(sent) : n - 1 <= m - 1}
    BY <2>2, <2>3
  <2> HIDE DEF index
  <2>6. \A m \in 1..Len(sent) :
          n - 1 <= m - 1 <=> Number(inbound[s].initial.counter) <= m - 1 /\ m >= n
    BY <1>1, <1>4, <2>4
  <2>7. n \in Readable(s)
    BY <1>4, <2>1
  <2> QED BY <2>1, <2>5, <2>6, <2>7
<1>10. ASSUME NEW d \in Inbounds \ {t} PROVE Readable(d)' = Readable(d)
  BY <1>1, <1>2, <1>7, <1>8, SameReadable
<1>11. [d \in Inbounds |-> Readable(d)]' =
         [[d \in Inbounds |-> Readable(d)] EXCEPT
            ![t] = {m \in [d \in Inbounds |-> Readable(d)][s] : m >= n}]
  <2> HIDE DEF Readable
  <2> QED BY <1>9, <1>10
<1> QED BY <1>1, <1>2, <1>8, <1>9, <1>11 DEF History!Export

\* Reading changes nothing in what can be read.
LEMMA MapsDecrypt ==
  ASSUME IInv, IInv', NEW s \in Inbounds, NEW n \in 1..Len(sent), Decrypt(s, n)
  PROVE  UNCHANGED History!vars
<1> DEFINE looked == AfterLookup(inbound[s], sent[n].index)
<1>1. /\ inbound[s] # NoSession /\ UNCHANGED <<outbound, sent>>
      /\ ~Refuses(inbound[s], sent[n].index)
      /\ inbound' = [inbound EXCEPT
           ![s] = [looked EXCEPT !.verified = @ \/ Reads(inbound[s], sent[n])]]
      /\ inbound \in [Inbounds -> Sessions \cup {NoSession}]
  BY DEF Decrypt, IInv, TypeOK
<1>2. s \in Live
  BY <1>1 DEF Live
<1>3. looked \in Sessions /\ looked.initial = inbound[s].initial
  BY <1>1, <1>2, MessageFacts, AfterLookupIs
<1> HIDE DEF looked
<1>4. /\ inbound'[s] # NoSession /\ inbound'[s].initial = inbound[s].initial
      /\ \A d \in Inbounds \ {s} : inbound'[d] = inbound[d]
  BY <1>1, <1>3, NoSessionAssumption DEF Sessions
<1>5. Live' = Live
  BY <1>2, <1>4 DEF Live
<1>6. \A d \in Inbounds : Readable(d)' = Readable(d)
  BY <1>1, <1>4, <1>5, SameReadable
<1>7. [d \in Inbounds |-> Readable(d)]' = [d \in Inbounds |-> Readable(d)]
  <2> HIDE DEF Readable
  <2> QED BY <1>6
<1> QED BY <1>1, <1>5, <1>7 DEF History!vars

\* A step of the sessions is a step of the history, or changes nothing there.
LEMMA MapsNext == IInv /\ IInv' /\ [Next]_vars => [History!Next]_(History!vars)
<1> SUFFICES ASSUME IInv, IInv', [Next]_vars PROVE [History!Next]_(History!vars)
  OBVIOUS
<1>1. CASE Encrypt
  BY <1>1, MapsEncrypt DEF History!Next
<1>2. CASE \E s \in Inbounds : ShareKey(s)
  BY <1>2, MapsShareKey DEF History!Next
<1>3. CASE \E s, t \in Inbounds, n \in 1..Len(sent) : n - 1 \in SharedAt /\ Export(s, t, n)
  BY <1>3, MapsExport DEF History!Next
<1>4. CASE \E s \in Inbounds, n \in 1..Len(sent) : Decrypt(s, n)
  BY <1>4, MapsDecrypt
<1>5. CASE UNCHANGED vars
  BY <1>5 DEF vars, History!vars, Live, Readable
<1> QED BY <1>1, <1>2, <1>3, <1>4, <1>5 DEF Next

\* The sessions of libolm implement the history: whatever was read, shared and exported
\* before, a copy reads what follows the key it was made from, and nothing else
\* (inbound_group_session.c, _get_megolm and olm_export_inbound_group_session).
THEOREM ImplementsHistory == Spec => HistorySpec
BY MapsInit, MapsNext, Invariance, PTL DEF Spec, HistorySpec, History!Spec

\* The message that an exported copy reads from is the one asked for, not only some
\* message of its origin (olm_export_inbound_group_session).
ExportsFromItsMessage ==
  [][\A s, t \in Inbounds, n \in 1..Len(sent) :
       Export(s, t, n) => History!Export(s, t, n)]_vars

\* So an export neither holds back a message after it nor gives away one before.
THEOREM ExportGivesWhatFollows == Spec => ExportsFromItsMessage
<1>1. IInv /\ IInv' => \A s, t \in Inbounds, n \in 1..Len(sent) :
                         Export(s, t, n) => History!Export(s, t, n)
  BY MapsExport
<1> QED BY <1>1, Invariance, PTL DEF Spec, ExportsFromItsMessage

=============================================================================
