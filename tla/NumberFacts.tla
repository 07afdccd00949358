------------------------------ MODULE NumberFacts ------------------------------
(* Least and greatest elements of sets of numbers, and induction over the  *)
(* numbers up to a limit: facts that the proofs about buffers, lists and   *)
(* histories share.  They rest on the library's well-founded induction,    *)
(* because its theorems on induction take an operator as a parameter.      *)
EXTENDS Integers, WellFoundedInduction, TLAPS

(* A set of numbers that is not empty has a least element.                 *)
LEMMA LeastOf ==
  ASSUME NEW T \in SUBSET Nat, T # {}
  PROVE  \E x \in T : \A y \in T : x <= y
<1> DEFINE R == {ss \in Nat \X Nat : ss[1] < ss[2]}
<1>1. IsWellFoundedOn(R, Nat)
  BY NatLessThanWellFounded DEF OpToRel
<1> HIDE DEF R
<1>2. PICK x \in T : \A y \in T : ~ (<<y, x>> \in R)
  BY <1>1, WFMin
<1>3. ASSUME NEW y \in T PROVE x <= y
  <2>1. x \in Nat /\ y \in Nat
    OBVIOUS
  <2>2. <<y, x>> \notin R
    BY <1>2
  <2>3. <<y, x>> \in Nat \X Nat /\ <<y, x>>[1] = y /\ <<y, x>>[2] = x
    BY <2>1
  <2>4. ~(y < x)
    BY <2>2, <2>3 DEF R
  <2> QED
    BY <2>1, <2>4
<1> QED
  BY <1>3

(* What holds of 0, and of n if of n - 1, holds up to N.                   *)
LEMMA UpTo ==
  ASSUME NEW N \in Nat, NEW S, 0 \in S, \A n \in 1..N : n - 1 \in S => n \in S
  PROVE  N \in S
<1> SUFFICES ASSUME N \notin S PROVE FALSE
  OBVIOUS
<1> DEFINE T == {n \in 0..N : n \notin S}
<1>1. T \in SUBSET Nat /\ T # {}
  OBVIOUS
<1>2. \A n \in T : n \in 0..N /\ n \notin S
  OBVIOUS
<1>3. \A n \in 0..N : n \notin S => n \in T
  OBVIOUS
<1> HIDE DEF T
<1>4. PICK x \in T : \A y \in T : x <= y
  BY <1>1, LeastOf
<1>5. x \in 1..N
  BY <1>2
<1>6. x - 1 \in 0..N /\ x - 1 \notin T
  BY <1>4, <1>5
<1>7. x - 1 \in S
  BY <1>3, <1>6
<1> QED
  BY <1>2, <1>5, <1>7

(* A set of numbers with a bound has a greatest element.                   *)
LEMMA GreatestOf ==
  ASSUME NEW N \in Nat, NEW S \in SUBSET (0..N), S # {}
  PROVE  \E x \in S : \A y \in S : y <= x
<1> DEFINE T == {n \in 0..N : \A y \in S : y <= n}
<1>1. N \in T /\ T \in SUBSET Nat
  OBVIOUS
<1>2. \A n \in T : n \in 0..N /\ \A y \in S : y <= n
  OBVIOUS
<1>3. \A n \in 0..N : (\A y \in S : y <= n) => n \in T
  OBVIOUS
<1> HIDE DEF T
<1>4. PICK x \in T : \A y \in T : x <= y
  BY <1>1, LeastOf
<1>5. x \in S
  <2> SUFFICES ASSUME x \notin S PROVE FALSE
    OBVIOUS
  <2>1. \A y \in S : y <= x - 1
    BY <1>2
  <2>2. x - 1 \in 0..N
    <3>1. PICK y \in S : TRUE
      OBVIOUS
    <3>2. y \in 0..N /\ y <= x - 1 /\ x \in 0..N
      BY <1>2, <2>1
    <3> QED
      BY <3>2
  <2>3. x - 1 \in T
    BY <1>3, <2>1, <2>2
  <2> QED
    BY <1>2, <1>4, <2>3
<1>6. \A y \in S : x >= y
  BY <1>2
<1> QED
  BY <1>5, <1>6
=============================================================================
