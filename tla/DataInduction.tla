----------------------------- MODULE DataInduction -----------------------------
(***************************************************************************)
(* Induction for the recursive functions of the other modules.  The        *)
(* library states induction over the naturals for an operator argument;    *)
(* these lemmas state it for sets and functions, which is the form the     *)
(* provers can instantiate.                                                *)
(***************************************************************************)
EXTENDS Integers, WellFoundedInduction, TLAPS

(* A set that holds zero and the successor of each of its naturals holds
   every natural: its complement would have a least element. *)
LEMMA SetInduction ==
    ASSUME NEW S, 0 \in S, \A n \in Nat : n \in S => n + 1 \in S
    PROVE  Nat \subseteq S
<1> SUFFICES ASSUME Nat \ S # {} PROVE FALSE
  OBVIOUS
<1> DEFINE R == OpToRel(<, Nat)
<1> HIDE DEF R
<1>1. IsWellFoundedOn(R, Nat)
  BY NatLessThanWellFounded DEF R
<1>2. PICK x \in Nat \ S : \A y \in Nat \ S : ~ (<<y, x>> \in R)
  BY <1>1, WFMin
<1>3. x - 1 \in Nat /\ x - 1 < x
  BY <1>2
<1>4. \A a, b \in Nat : a < b => <<a, b>> \in R
  BY DEF R, OpToRel
<1>5. x - 1 \in S
  BY <1>2, <1>3, <1>4
<1>6. (x - 1) + 1 \in S
  BY <1>3, <1>5
<1> QED BY <1>2, <1>6

\* The functions of 0..N that start at c and go from each value to the next
\* by the step of its index.
Runs(N, T, c, step) ==
    {f \in [0..N -> T] : f[0] = c /\ \A n \in 1..N : f[n] = step[n][f[n - 1]]}

(* Such a function exists for every start and every step. *)
LEMMA StepwiseFunction ==
    ASSUME NEW N \in Nat, NEW T, NEW c \in T, NEW step \in [1..N -> [T -> T]]
    PROVE  Runs(N, T, c, step) # {}
<1> DEFINE Upto(m) == \E f \in [0..m -> T] :
                          f[0] = c /\ \A n \in 1..m : f[n] = step[n][f[n - 1]]
           Good == {m \in Nat : m <= N => Upto(m)}
<1>1. 0 \in Good
  <2> DEFINE f == [x \in 0..0 |-> c]
  <2>1. f \in [0..0 -> T] /\ f[0] = c
    OBVIOUS
  <2>2. \A n \in 1..0 : f[n] = step[n][f[n - 1]]
    OBVIOUS
  <2> HIDE DEF f
  <2>3. Upto(0)
    BY <2>1, <2>2
  <2> QED BY <2>3
<1>2. ASSUME NEW m \in Nat, m \in Good PROVE m + 1 \in Good
  <2> SUFFICES ASSUME m + 1 <= N PROVE Upto(m + 1)
    OBVIOUS
  <2>1. PICK f \in [0..m -> T] : f[0] = c /\ \A n \in 1..m : f[n] = step[n][f[n - 1]]
    BY <1>2
  <2>2. step[m + 1][f[m]] \in T
    BY <2>1
  <2> DEFINE g == [x \in 0..(m + 1) |-> IF x = m + 1 THEN step[m + 1][f[m]] ELSE f[x]]
  <2>3. g \in [0..(m + 1) -> T]
    BY <2>1, <2>2
  <2>4. g[0] = c
    BY <2>1
  <2>5. ASSUME NEW n \in 1..(m + 1) PROVE g[n] = step[n][g[n - 1]]
    <3>1. CASE n = m + 1
      <4>1. g[n] = step[m + 1][f[m]] /\ g[n - 1] = f[m]
        BY <3>1
      <4> QED BY <3>1, <4>1
    <3>2. CASE n # m + 1
      <4>1. n \in 1..m /\ g[n] = f[n] /\ g[n - 1] = f[n - 1]
        BY <3>2
      <4> QED BY <2>1, <4>1
    <3> QED BY <3>1, <3>2
  <2> QED BY <2>3, <2>4, <2>5
<1> HIDE DEF Good
<1>3. N \in Good
  BY <1>1, <1>2, SetInduction
<1>4. Upto(N)
  BY <1>3 DEF Good
<1> QED BY <1>4 DEF Runs
=============================================================================
