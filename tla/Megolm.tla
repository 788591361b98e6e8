-------------------------------- MODULE Megolm --------------------------------
(***************************************************************************)
(* The Megolm ratchet of libolm (megolm.c): a 32-bit counter and four      *)
(* parts R(0)..R(3), one for each byte of the counter, most significant    *)
(* first.  When byte h of the counter changes, R(h) is hashed and every    *)
(* part below it is derived again from the old R(h).                       *)
(*                                                                         *)
(* A counter is its four bytes.  HMAC-SHA-256 is taken as free of          *)
(* collisions: the value of a part is the way it was derived, which is the *)
(* part of the random data it started from and how often each of the four  *)
(* HASH_KEY_SEEDS was applied to it.  The order need not be kept: a part   *)
(* is only derived from one that is not below it, so along any derivation  *)
(* the seeds are applied in ascending order.                               *)
(***************************************************************************)
EXTENDS Integers

CONSTANT PartSize   \* the values of one byte of the counter: 256 in the code

ASSUME PartSizeAssumption == PartSize \in Nat \ {0, 1}

Parts == 0..3

Counters == [Parts -> 0..(PartSize - 1)]

Values == [seed : Parts, hashes : [Parts -> Nat]]

Ratchets == [counter : Counters, data : [Parts -> Values]]

\* The random data of a new ratchet.
RandomData == [k \in Parts |-> [seed |-> k, hashes |-> [i \in Parts |-> 0]]]

NewRatchet == [counter |-> [k \in Parts |-> 0], data |-> RandomData]

\* HMAC of a part with the seed of part k, n times.
Hash(value, k, n) ==
  [seed |-> value.seed, hashes |-> [value.hashes EXCEPT ![k] = @ + n]]

\* counter++ of an unsigned integer.
Successor(c) ==
  [k \in Parts |-> IF \A i \in Parts : i > k => c[i] = PartSize - 1
                   THEN (c[k] + 1) % PartSize
                   ELSE c[k]]

\* The unsigned comparison of two counters.
Less(a, b) ==
  \E k \in Parts : a[k] < b[k] /\ \A i \in Parts : i < k => a[i] = b[i]

Number(c) ==
  ((c[0] * PartSize + c[1]) * PartSize + c[2]) * PartSize + c[3]

(***************************************************************************)
(* megolm_advance: one step.  The part to rekey from is the first whose    *)
(* lower bytes are all zero after the increment.                           *)
(***************************************************************************)
RekeyFrom(c) ==
  CHOOSE h \in Parts :
    /\ \A i \in Parts : i > h => c[i] = 0
    /\ \A g \in Parts : g < h => \E i \in Parts : i > g /\ c[i] # 0

\* Mutant of Advance: the part to rekey from is not hashed itself.
AdvanceBelowOnly(r) ==
  LET c == Successor(r.counter)
      h == RekeyFrom(c)
  IN [counter |-> c,
      data |-> [k \in Parts |-> IF k <= h THEN r.data[k]
                                ELSE Hash(r.data[h], k, 1)]]

Advance(r) ==
  LET c == Successor(r.counter)
      h == RekeyFrom(c)
  IN [counter |-> c,
      data |-> [k \in Parts |-> IF k < h THEN r.data[k]
                                ELSE Hash(r.data[h], k, 1)]]

(***************************************************************************)
(* megolm_advance_to: a jump to any later counter, one part at a time.     *)
(***************************************************************************)
Steps(r, j, to) ==
  LET steps == (to[j] - r.counter[j]) % PartSize
  IN IF steps = 0 /\ Less(to, r.counter) THEN PartSize ELSE steps

\* Mutant of BumpPart: the lower bytes of the counter are not cleared.
BumpPartKeepsLowerBytes(r, j, to) ==
  LET steps == Steps(r, j, to)
      last  == Hash(r.data[j], j, steps - 1)
  IN IF steps = 0
     THEN r
     ELSE [counter |-> [k \in Parts |-> IF k <= j THEN to[k] ELSE r.counter[k]],
           data |-> [k \in Parts |-> IF k < j THEN r.data[k]
                                     ELSE Hash(last, k, 1)]]

BumpPart(r, j, to) ==
  LET steps == Steps(r, j, to)
      last  == Hash(r.data[j], j, steps - 1)
  IN IF steps = 0
     THEN r
     ELSE [counter |-> [k \in Parts |-> IF k <= j THEN to[k] ELSE 0],
           data |-> [k \in Parts |-> IF k < j THEN r.data[k]
                                     ELSE Hash(last, k, 1)]]

AdvanceTo(r, to) ==
  BumpPart(BumpPart(BumpPart(BumpPart(r, 0, to), 1, to), 2, to), 3, to)

=============================================================================
