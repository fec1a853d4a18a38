-------------------------- MODULE Induction_proofs --------------------------
(***************************************************************************)
(* Induction and recursion over numbers, stated of sets and functions so   *)
(* that they can be cited without an operator.                             *)
(***************************************************************************)
EXTENDS Naturals, WellFoundedInduction, TLAPS

\* A set of numbers has a least one.
LEMMA LeastElement ==
    ASSUME NEW S \in SUBSET Nat, S # {}
    PROVE  \E n \in S : \A m \in S : n <= m
<1> DEFINE less == {pair \in Nat \X Nat : pair[1] < pair[2]}
<1>1. OpToRel(<, Nat) = less
  BY DEF OpToRel
<1>2. PICK n \in S : \A m \in S : <<m, n>> \notin less
  BY <1>1, NatLessThanWellFounded, WFMin
<1>3. ASSUME NEW m \in S PROVE n <= m
  <2>1. n \in Nat /\ m \in Nat /\ ~(m < n)
    BY <1>2
  <2> QED
    BY <2>1
<1> QED
  BY <1>3

\* And a greatest one, if none is beyond some bound.
LEMMA GreatestElement ==
    ASSUME NEW N \in Nat, NEW S \in SUBSET (0..N), S # {}
    PROVE  \E n \in S : \A m \in S : n >= m
<1> DEFINE short == {N - n : n \in S}
<1>1. short \in SUBSET Nat /\ short # {}
  <2>1. \A n \in S : N - n \in Nat
    OBVIOUS
  <2>2. \A k \in short : k \in Nat
    BY <2>1
  <2>3. PICK n \in S : TRUE
    OBVIOUS
  <2>4. N - n \in short
    BY <2>3
  <2> QED
    BY <2>2, <2>4
<1>2. PICK k \in short : \A m \in short : k <= m
  BY <1>1, LeastElement
<1>3. PICK n \in S : k = N - n
  BY <1>2
<1>4. ASSUME NEW m \in S PROVE n >= m
  <2>1. k <= N - m
    BY <1>2
  <2> QED
    BY <1>3, <2>1
<1> QED
  BY <1>4

\* What 0 has, and the next number whenever a number has it, all numbers have.
LEMMA Induction ==
    ASSUME NEW S, 0 \in S, \A n \in Nat : n \in S => n + 1 \in S
    PROVE  \A n \in Nat : n \in S
<1> SUFFICES ASSUME Nat \ S # {} PROVE FALSE
  OBVIOUS
<1>1. Nat \ S \in SUBSET Nat
  OBVIOUS
<1>2. PICK n \in Nat \ S : \A m \in Nat \ S : n <= m
  BY <1>1, LeastElement
<1>3. n # 0 /\ n - 1 \in Nat /\ n - 1 \notin Nat \ S
  BY <1>2
<1> QED
  BY <1>2, <1>3

\* The functions whose first value is first, and whose value of n is what
\* step makes of n and of the value before.
Recursive(X, first, N, step) ==
    {g \in [0..N -> X] : g[0] = first /\ \A i \in 1..N : g[i] = step[i][g[i - 1]]}

\* There is one.
LEMMA RecursionExists ==
    ASSUME NEW X, NEW first \in X, NEW N \in Nat, NEW step,
           \A i \in 1..N : \A x \in X : step[i][x] \in X
    PROVE  Recursive(X, first, N, step) # {}
<1> DEFINE S == {n \in Nat : n <= N => Recursive(X, first, n, step) # {}}
<1>1. 0 \in S
  <2>1. [i \in 0..0 |-> first] \in Recursive(X, first, 0, step)
    BY DEF Recursive
  <2> QED
    BY <2>1
<1>2. ASSUME NEW n \in Nat, n \in S PROVE n + 1 \in S
  <2> SUFFICES ASSUME n + 1 <= N PROVE Recursive(X, first, n + 1, step) # {}
    OBVIOUS
  <2>1. PICK g \in Recursive(X, first, n, step) : TRUE
    BY <1>2
  <2> DEFINE h == [i \in 0..(n + 1) |-> IF i = n + 1 THEN step[n + 1][g[n]] ELSE g[i]]
  <2>2. h \in [0..(n + 1) -> X] /\ h[0] = first
    BY <2>1 DEF Recursive
  <2>3. ASSUME NEW i \in 1..(n + 1) PROVE h[i] = step[i][h[i - 1]]
    BY <2>1, <2>3 DEF Recursive
  <2>4. h \in Recursive(X, first, n + 1, step)
    BY <2>2, <2>3 DEF Recursive
  <2> QED
    BY <2>4
<1>3. N \in S
  <2> HIDE DEF S
  <2> QED
    BY <1>1, <1>2, Induction
<1> QED
  BY <1>3

\* A function that follows them is one of them.
LEMMA RecursionTyped ==
    ASSUME NEW X, NEW first \in X, NEW N \in Nat, NEW step,
           \A i \in 1..N : \A x \in X : step[i][x] \in X,
           NEW f, f = [i \in 0..N |-> f[i]], f[0] = first,
           \A i \in 1..N : f[i - 1] \in X => f[i] = step[i][f[i - 1]]
    PROVE  f \in Recursive(X, first, N, step)
<1> DEFINE S == {n \in Nat : n <= N => f[n] \in X}
<1>1. 0 \in S
  OBVIOUS
<1>2. ASSUME NEW n \in Nat, n \in S PROVE n + 1 \in S
  <2> SUFFICES ASSUME n + 1 <= N PROVE f[n + 1] \in X
    OBVIOUS
  <2>1. n + 1 \in 1..N /\ (n + 1) - 1 = n /\ f[n] \in X
    BY <1>2
  <2> QED
    BY <2>1
<1> HIDE DEF S
<1>3. \A n \in Nat : n \in S
  BY <1>1, <1>2, Induction
<1>4. \A i \in 0..N : f[i] \in X
  BY <1>3 DEF S
<1>5. \A i \in 1..N : i - 1 \in 0..N
  OBVIOUS
<1> QED
  BY <1>4, <1>5 DEF Recursive
=============================================================================
