---------------------------- MODULE NumberLemmas ----------------------------
(***************************************************************************)
(* A nonempty set of natural numbers, or of integers between two bounds,   *)
(* has a least element, and a bounded one a greatest: the facts behind     *)
(* "there is a newest one".                                                *)
(***************************************************************************)
EXTENDS Integers, WellFoundedInduction, TLAPS

LEMMA NatMin ==
    ASSUME NEW T, T \subseteq Nat, T # {}
    PROVE  \E x \in T : \A y \in T : x <= y
<1>1. \E x \in T : \A y \in T : ~(<<y, x>> \in OpToRel(<, Nat))
  BY NatLessThanWellFounded, WFMin, Zenon
<1>2. PICK x \in T : \A y \in T : ~(<<y, x>> \in OpToRel(<, Nat))
  BY <1>1
<1>3. ASSUME NEW y \in T PROVE x <= y
  <2>1. x \in Nat /\ y \in Nat
    BY <1>2, <1>3
  <2>2. SUFFICES ASSUME y < x PROVE FALSE
    BY <2>1
  <2>3. <<y, x>> \in Nat \X Nat
    BY <2>1
  <2>4. <<y, x>> \in OpToRel(<, Nat)
    BY <2>1, <2>2, <2>3 DEF OpToRel
  <2> QED
    BY <1>2, <1>3, <2>4, Zenon
<1> QED
  BY <1>2, <1>3, Zenon

(***************************************************************************)
(* A set of integers between two bounds has both.                          *)
(***************************************************************************)
LEMMA IntervalMin ==
    ASSUME NEW lo \in Int, NEW hi \in Int, NEW T, T \subseteq lo..hi, T # {}
    PROVE  \E x \in T : \A y \in T : x <= y
<1> DEFINE U == {m \in Nat : lo + m \in T}
<1>1. ASSUME NEW x \in T PROVE x - lo \in U /\ x \in Int
  <2>1. x \in lo..hi
    BY <1>1
  <2>2. x - lo \in Nat /\ lo + (x - lo) = x
    BY <2>1
  <2> QED
    BY <1>1, <2>1, <2>2
<1>2. U \subseteq Nat /\ U # {}
  BY <1>1
<1>3. U \subseteq Nat /\ \A m \in U : lo + m \in T
  OBVIOUS
<1> HIDE DEF U
<1>4. PICK u \in U : \A v \in U : u <= v
  BY <1>2, NatMin
<1>5. ASSUME NEW y \in T PROVE lo + u <= y
  <2>1. y - lo \in U /\ y \in Int
    BY <1>1, <1>5
  <2> QED
    BY <1>3, <1>4, <2>1
<1> QED
  BY <1>3, <1>4, <1>5

LEMMA IntervalMax ==
    ASSUME NEW lo \in Int, NEW hi \in Int, NEW T, T \subseteq lo..hi, T # {}
    PROVE  \E x \in T : \A y \in T : y <= x
<1> DEFINE U == {m \in Nat : hi - m \in T}
<1>1. ASSUME NEW x \in T PROVE hi - x \in U /\ x \in Int
  <2>1. x \in lo..hi
    BY <1>1
  <2>2. hi - x \in Nat /\ hi - (hi - x) = x
    BY <2>1
  <2> QED
    BY <1>1, <2>1, <2>2
<1>2. U \subseteq Nat /\ U # {}
  BY <1>1
<1>3. U \subseteq Nat /\ \A m \in U : hi - m \in T
  OBVIOUS
<1> HIDE DEF U
<1>4. PICK u \in U : \A v \in U : u <= v
  BY <1>2, NatMin
<1>5. ASSUME NEW y \in T PROVE y <= hi - u
  <2>1. hi - y \in U /\ y \in Int
    BY <1>1, <1>5
  <2> QED
    BY <1>3, <1>4, <2>1
<1> QED
  BY <1>3, <1>4, <1>5

LEMMA BoundedMax ==
    ASSUME NEW T, NEW n \in Nat, T \subseteq 0..n, T # {}
    PROVE  \E x \in T : \A y \in T : y <= x
<1>1. 0 \in Int /\ n \in Int
  OBVIOUS
<1> QED
  BY <1>1, IntervalMax
=============================================================================
