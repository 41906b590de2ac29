------------------------------ MODULE NatLemmas ------------------------------
(***************************************************************************)
(* Facts about natural numbers the other proofs cite: least elements, an   *)
(* induction principle over a set, and bounds on finite families.          *)
(***************************************************************************)
EXTENDS Integers, WellFoundedInduction, TLAPS

\* The relation < on Nat, written as a set, is well founded.
LEMMA LessThanWellFounded ==
  IsWellFoundedOn({ss \in Nat \X Nat : ss[1] < ss[2]}, Nat)
BY NatLessThanWellFounded DEF OpToRel

\* A nonempty set of naturals has a least element.
LEMMA LeastElement ==
  ASSUME NEW T \in SUBSET Nat, T # {}
  PROVE  \E x \in T : \A y \in T : x <= y
<1> DEFINE R == {ss \in Nat \X Nat : ss[1] < ss[2]}
<1>1. \E x \in T : \A y \in T : ~(<<y, x>> \in R)
  <2> HIDE DEF R
  <2>1. IsWellFoundedOn(R, Nat) BY LessThanWellFounded DEF R
  <2> QED BY <2>1, WFMin
<1>2. PICK x \in T : \A y \in T : ~(<<y, x>> \in R)
  BY <1>1
<1>3. ASSUME NEW y \in T PROVE x <= y
  <2>1. <<y, x>> \in Nat \X Nat OBVIOUS
  <2>2. ~(<<y, x>> \in R) BY <1>2
  <2>3. ~(y < x) BY <2>1, <2>2, Zenon
  <2> QED BY <2>3
<1> QED BY <1>2, <1>3

\* Induction, with the predicate given as the set of numbers that satisfy it.
LEMMA SetInduction ==
  ASSUME NEW S, 0 \in S, \A n \in Nat : n \in S => n + 1 \in S
  PROVE  Nat \subseteq S
<1> SUFFICES ASSUME ~(Nat \subseteq S) PROVE FALSE OBVIOUS
<1>1. PICK x \in Nat \ S : \A y \in Nat \ S : x <= y
  <2>1. Nat \ S # {} OBVIOUS
  <2> QED BY <2>1, LeastElement
<1>2. x # 0 /\ x - 1 \in Nat OBVIOUS
<1>3. x - 1 \in S BY <1>1, <1>2
<1> QED BY <1>2, <1>3

\* A finite family of naturals, together with 0, has a greatest element.
LEMMA GreatestElement ==
  ASSUME NEW N \in Nat, NEW f \in [1 .. N -> Nat]
  PROVE  \E m \in {0} \cup {f[i] : i \in 1 .. N} :
           \A y \in {0} \cup {f[i] : i \in 1 .. N} : y <= m
<1> DEFINE Upto(n) == {0} \cup {f[i] : i \in 1 .. n}
           S == {n \in Nat : n <= N => \E m \in Upto(n) : \A y \in Upto(n) : y <= m}
<1>1. 0 \in S
  <2>1. Upto(0) = {0} OBVIOUS
  <2> QED BY <2>1
<1>2. ASSUME NEW n \in Nat, n \in S PROVE n + 1 \in S
  <2>1. SUFFICES ASSUME n + 1 <= N
                 PROVE  \E m \in Upto(n + 1) : \A y \in Upto(n + 1) : y <= m
    OBVIOUS
  <2>2. Upto(n + 1) = Upto(n) \cup {f[n + 1]} /\ f[n + 1] \in Nat
    <3>1. 1 .. (n + 1) = (1 .. n) \cup {n + 1} BY <2>1
    <3>2. n + 1 \in 1 .. N BY <2>1
    <3> QED BY <3>1, <3>2
  <2>3. Upto(n + 1) \subseteq Nat
    BY <2>1
  <2>4. PICK m \in Upto(n) : \A y \in Upto(n) : y <= m
    BY <1>2, <2>1
  <2>5. m \in Nat BY <2>2, <2>3
  <2> HIDE DEF Upto
  <2>6. CASE f[n + 1] <= m BY <2>2, <2>3, <2>4, <2>6
  <2>7. CASE ~(f[n + 1] <= m)
    <3>1. f[n + 1] \in Upto(n + 1) BY <2>2
    <3>2. \A y \in Upto(n + 1) : y <= f[n + 1]
      BY <2>2, <2>3, <2>4, <2>5, <2>7
    <3> QED BY <3>1, <3>2
  <2> QED BY <2>6, <2>7
<1>3. N \in S
  <2> HIDE DEF S
  <2> QED BY <1>1, <1>2, SetInduction
<1> QED BY <1>3
=============================================================================
