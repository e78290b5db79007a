----------------------------- MODULE LoopTheorems -----------------------------
(***************************************************************************)
(* Induction, for the other proofs.  The induction theorems of the library    *)
(* are about an operator; here they are about a set: a set of numbers with    *)
(* 0 that is closed under the successor is Nat.  A loop over a sequence is a  *)
(* recursive function of the number of elements it has seen, and LoopRuns     *)
(* says that there is one.                                                 *)
(***************************************************************************)
EXTENDS Integers, Sequences, FiniteSets, FiniteSetTheorems, WellFoundedInduction, TLAPS

\* A set of numbers has a least one.
LEMMA LeastNatural ==
  ASSUME NEW T, T \subseteq Nat, T # {}
  PROVE  \E n \in T : \A m \in T : n <= m
<1>1. PICK n \in T : \A m \in T : ~(<<m, n>> \in OpToRel(<, Nat))
  BY NatLessThanWellFounded, WFMin
<1>2. \A m \in T : ~(m < n)
  BY <1>1 DEF OpToRel
<1> QED BY <1>2

\* Induction.
LEMMA SetInduction ==
  ASSUME NEW T, T \subseteq Nat, 0 \in T, \A n \in T : n + 1 \in T
  PROVE  T = Nat
<1> SUFFICES ASSUME Nat \ T # {} PROVE FALSE
  OBVIOUS
<1>1. PICK n \in Nat \ T : \A m \in Nat \ T : n <= m
  BY LeastNatural
<1>2. n - 1 \in T
  BY <1>1
<1> QED BY <1>1, <1>2

\* Induction up to a bound.
LEMMA BoundedInduction ==
  ASSUME NEW n \in Nat, NEW T, T \subseteq 0 .. n, 0 \in T,
         \A i \in T : i < n => i + 1 \in T
  PROVE  T = 0 .. n
<1> DEFINE U == T \cup {i \in Nat : i > n}
<1>1. U = Nat
  <2>1. U \subseteq Nat /\ 0 \in U
    <3>1. \A i \in 0 .. n : i \in Nat
      OBVIOUS
    <3> QED BY <3>1
  <2>2. ASSUME NEW i \in U PROVE i + 1 \in U
    <3>1. CASE i \in T /\ i < n
      BY <3>1
    <3>2. CASE ~(i \in T /\ i < n)
      <4>1. i \in Nat /\ i >= n
        BY <3>2
      <4> QED BY <4>1
    <3> QED BY <3>1, <3>2
  <2> HIDE DEF U
  <2> QED BY <2>1, <2>2, SetInduction
<1>2. \A i \in 0 .. n : i \in U /\ ~(i > n)
  BY <1>1
<1> QED BY <1>2

\* f has the states of a loop that begins with base and makes step[<<i, v>>] of
\* the state v in its i-th round, n rounds in all.
IsLoop(f, n, base, step) ==
  f[0] = base /\ \A i \in 1 .. n : f[i] = step[<<i, f[i - 1]>>]

\* Every loop runs.
LEMMA LoopRuns ==
  ASSUME NEW S, NEW base \in S, NEW n \in Nat, NEW step \in [(1 .. n) \X S -> S]
  PROVE  \E f \in [0 .. n -> S] : IsLoop(f, n, base, step)
<1> DEFINE Runs(f, k) == f[0] = base /\ \A i \in 1 .. k : f[i] = step[<<i, f[i - 1]>>]
           T == {k \in 0 .. n : \E f \in [0 .. k -> S] : Runs(f, k)}
<1>1. 0 \in T
  <2> DEFINE f == [i \in 0 .. 0 |-> base]
  <2>1. f \in [0 .. 0 -> S] /\ f[0] = base /\ 1 .. 0 = {}
    OBVIOUS
  <2>2. Runs(f, 0)
    BY <2>1
  <2> HIDE DEF f, Runs
  <2>3. \E g \in [0 .. 0 -> S] : Runs(g, 0)
    BY <2>1, <2>2
  <2> QED BY <2>3
<1>2. ASSUME NEW k \in T, k < n PROVE k + 1 \in T
  <2>1. k \in Nat /\ k + 1 \in 1 .. n
    BY <1>2
  <2>2. PICK f \in [0 .. k -> S] : Runs(f, k)
    OBVIOUS
  <2> DEFINE g == [i \in 0 .. k + 1 |-> IF i = k + 1 THEN step[<<k + 1, f[k]>>] ELSE f[i]]
  <2>3. g \in [0 .. k + 1 -> S]
    BY <2>1
  <2>4. \A i \in 0 .. k : g[i] = f[i]
    BY <2>1
  <2>5. g[k + 1] = step[<<k + 1, f[k]>>]
    BY <2>1
  <2> HIDE DEF g
  <2>6. g[0] = base
    BY <2>1, <2>2, <2>4
  <2>7. ASSUME NEW i \in 1 .. k + 1 PROVE g[i] = step[<<i, g[i - 1]>>]
    <3>1. i - 1 \in 0 .. k
      BY <2>1
    <3>2. g[i - 1] = f[i - 1]
      BY <2>4, <3>1
    <3>3. CASE i = k + 1
      BY <2>1, <2>5, <3>2, <3>3
    <3>4. CASE i # k + 1
      <4>1. i \in 1 .. k /\ i \in 0 .. k
        BY <2>1, <3>4
      <4>2. f[i] = step[<<i, f[i - 1]>>]
        BY <2>2, <4>1
      <4> QED BY <2>4, <3>2, <4>1, <4>2
    <3> QED BY <3>3, <3>4
  <2>8. Runs(g, k + 1)
    BY <2>6, <2>7
  <2> HIDE DEF Runs
  <2>9. \E h \in [0 .. k + 1 -> S] : Runs(h, k + 1)
    BY <2>3, <2>8
  <2>10. k + 1 \in 0 .. n
    BY <2>1
  <2> QED BY <2>9, <2>10
<1> HIDE DEF T
<1>3. T = 0 .. n
  <2>1. T \subseteq 0 .. n
    BY DEF T
  <2> QED BY <1>1, <1>2, <2>1, BoundedInduction
<1>4. PICK f \in [0 .. n -> S] : Runs(f, n)
  BY <1>3 DEF T
<1>5. IsLoop(f, n, base, step)
  BY <1>4 DEF IsLoop
<1> QED BY <1>5

\* Of a family of finite sets one is smallest.
LEMMA SmallestSet ==
  ASSUME NEW F, F # {}, \A X \in F : IsFiniteSet(X)
  PROVE  \E X \in F : \A Y \in F : Y \subseteq X => Y = X
<1> DEFINE sizes == {Cardinality(X) : X \in F}
<1>1. sizes \subseteq Nat /\ sizes # {}
  BY FS_CardinalityType
<1> HIDE DEF sizes
<1>2. PICK n \in sizes : \A m \in sizes : n <= m
  BY <1>1, LeastNatural
<1>3. PICK X \in F : Cardinality(X) = n
  BY <1>2 DEF sizes
<1>4. ASSUME NEW Y \in F, Y \subseteq X PROVE Y = X
  <2>1. Cardinality(Y) <= Cardinality(X) /\ (Cardinality(Y) = Cardinality(X) => Y = X)
    BY <1>4, FS_Subset
  <2>2. Cardinality(X) <= Cardinality(Y)
    BY <1>2, <1>3 DEF sizes
  <2>3. Cardinality(X) \in Nat /\ Cardinality(Y) \in Nat
    BY FS_CardinalityType
  <2> QED BY <2>1, <2>2, <2>3
<1> QED BY <1>4
=============================================================================
