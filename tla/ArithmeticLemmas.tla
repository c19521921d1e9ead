--------------------------- MODULE ArithmeticLemmas ---------------------------
(***************************************************************************)
(* Arithmetic that the proofs share.  First, that of the two rings of the  *)
(* code, rx_buf of micropython.c and rx_fifo of ch32fun_isler.c: R slots,  *)
(* of which those from a tail t up to but not including a head h are in    *)
(* use.  Slot is where the d-th byte after t lies, Dist is how many bytes  *)
(* are in use; the lemmas give both without remainders, and say what       *)
(* moving an end does to them.  Then, that of quotients: ticks of a        *)
(* counter, sectors and clusters of a volume.                              *)
(***************************************************************************)
EXTENDS Integers, TLAPS

Slots(R) == 0..(R - 1)
Slot(R, t, d) == IF t + d < R THEN t + d ELSE t + d - R
Dist(R, h, t) == IF h >= t THEN h - t ELSE h - t + R

(* (t + d) % R and (h - t) % R, as the code computes them.                 *)
LEMMA Remainders ==
    ASSUME NEW R \in Nat, R > 1
    PROVE  /\ \A t, d \in Slots(R) :
                 (t + d) % R = Slot(R, t, d) /\ Slot(R, t, d) \in Slots(R)
           /\ \A h, t \in Slots(R) :
                 (h - t) % R = Dist(R, h, t) /\ Dist(R, h, t) \in Slots(R)
           /\ 0 \in Slots(R) /\ 1 \in Slots(R)
<1>1. ASSUME NEW t \in Slots(R), NEW d \in Slots(R)
      PROVE  (t + d) % R = Slot(R, t, d) /\ Slot(R, t, d) \in Slots(R)
  BY DEF Slot, Slots
<1>2. ASSUME NEW h \in Slots(R), NEW t \in Slots(R)
      PROVE  (h - t) % R = Dist(R, h, t) /\ Dist(R, h, t) \in Slots(R)
  BY DEF Dist, Slots
<1> QED
  BY <1>1, <1>2 DEF Slots

(* One and only one distance leads to a slot: the slots before the head    *)
(* are those in use, and the head's is the first that is not.              *)
LEMMA SlotOfDist ==
    ASSUME NEW R \in Nat, R > 1, NEW h \in Slots(R), NEW t \in Slots(R)
    PROVE  /\ Slot(R, t, Dist(R, h, t)) = h
           /\ \A d \in Slots(R) : Slot(R, t, d) = h => d = Dist(R, h, t)
           /\ Dist(R, h, t) = 0 <=> h = t
  BY DEF Slots, Slot, Dist

(* The head moves on by n, which does not reach the tail again.            *)
LEMMA HeadMoves ==
    ASSUME NEW R \in Nat, R > 1, NEW h \in Slots(R), NEW t \in Slots(R), NEW n \in Slots(R),
           Dist(R, h, t) + n < R
    PROVE  Dist(R, Slot(R, h, n), t) = Dist(R, h, t) + n
  BY DEF Slots, Slot, Dist

(* One more slot may be taken unless that makes the ring look empty.       *)
LEMMA HeadMayMove ==
    ASSUME NEW R \in Nat, R > 1, NEW h \in Slots(R), NEW t \in Slots(R)
    PROVE  Slot(R, h, 1) # t <=> Dist(R, h, t) + 1 < R
  BY DEF Slots, Slot, Dist

(* The tail moves on by one.                                               *)
LEMMA TailMoves ==
    ASSUME NEW R \in Nat, R > 1, NEW h \in Slots(R), NEW t \in Slots(R), h # t
    PROVE  /\ Dist(R, h, Slot(R, t, 1)) = Dist(R, h, t) - 1
           /\ \A d \in Slots(R) :
                 d + 1 \in Slots(R) => Slot(R, Slot(R, t, 1), d) = Slot(R, t, d + 1)
           /\ Dist(R, t, Slot(R, t, 1)) = R - 1
  BY DEF Slots, Slot, Dist

(* The distance of a slot from the head, and from the tail.                *)
LEMMA DistOfSlot ==
    ASSUME NEW R \in Nat, R > 1, NEW h \in Slots(R), NEW t \in Slots(R), NEW i \in Slots(R)
    PROVE  \/ /\ Dist(R, i, t) < Dist(R, h, t)
              /\ Dist(R, i, h) = R - Dist(R, h, t) + Dist(R, i, t)
           \/ /\ Dist(R, i, t) >= Dist(R, h, t)
              /\ Dist(R, i, h) = Dist(R, i, t) - Dist(R, h, t)
  BY DEF Slots, Slot, Dist
-----------------------------------------------------------------------------
(* Quotients.                                                              *)

(* Products of naturals are naturals and grow with a factor.               *)
LEMMA Product ==
    ASSUME NEW m \in Nat, NEW n \in Nat, m <= n, NEW u \in Nat
    PROVE  m * u \in Nat /\ n * u \in Nat /\ m * u <= n * u
  OBVIOUS

(* A quotient times the divisor is the dividend, less a remainder.         *)
LEMMA Quotient ==
    ASSUME NEW x \in Nat, NEW u \in Nat, u > 0
    PROVE  /\ x \div u \in Nat
           /\ (x \div u) * u <= x
           /\ x < (x \div u) * u + u
  OBVIOUS

(* A quotient grows with the dividend and shrinks with the divisor.        *)
LEMMA QuotientGrows ==
    ASSUME NEW x \in Nat, NEW y \in Nat, x <= y,
           NEW u \in Nat, NEW v \in Nat, 0 < u, u <= v
    PROVE  x \div v <= y \div u
<1> DEFINE p == x \div v
           q == y \div u
<1>1. p \in Nat /\ p * v <= x
  BY Quotient
<1>2. q \in Nat /\ y < q * u + u
  BY Quotient
<1> HIDE DEF p, q
<1>3. ASSUME p > q
      PROVE  FALSE
  <2>1. p * u <= p * v
    BY <1>1
  <2>2. (q + 1) * u <= p * u
    BY <1>1, <1>2, <1>3, Product
  <2>3. (q + 1) * u = q * u + u
    BY <1>2
  <2> QED
    BY <1>1, <1>2, <2>1, <2>2, <2>3
<1> QED
  BY <1>1, <1>2, <1>3 DEF p, q

(* The quotient and the remainder are the only ones of their kind.         *)
LEMMA QuotientIs ==
    ASSUME NEW q \in Int, NEW u \in Nat, NEW r \in Nat, r < u
    PROVE  (q * u + r) \div u = q /\ (q * u + r) % u = r
<1> DEFINE x == q * u + r
           p == x \div u
<1>1. x \in Int /\ u > 0
  OBVIOUS
<1>2. p \in Int /\ p * u <= x /\ x < p * u + u /\ x % u = x - p * u
  BY <1>1
<1>3. p = q
  <2>1. ASSUME NEW i \in Int, NEW j \in Int, i < j
        PROVE  i * u + u <= j * u
    <3>1. (i + 1) * u <= j * u
      BY <2>1
    <3> QED
      BY <3>1
  <2> HIDE DEF p
  <2>2. ~(p < q)
    BY <1>1, <1>2, <2>1
  <2>3. ~(q < p)
    BY <1>1, <1>2, <2>1
  <2> QED
    BY <1>2, <2>2, <2>3
<1> QED
  BY <1>2, <1>3
=============================================================================
