--------------------------- MODULE Recursion_proofs ---------------------------
(***************************************************************************)
(* Lemmas about numbers that the proofs about searches, rounds and lists   *)
(* rest on: the least number of a set, induction, functions defined by     *)
(* recursion on a number, and sets of numbers listed in increasing order.  *)
(*                                                                         *)
(* The library states induction and recursion for an operator, which the   *)
(* provers in use cannot instantiate.  Here the claim is a set of numbers  *)
(* and the step of a recursion a function, which they can.                 *)
(***************************************************************************)
EXTENDS Integers, FiniteSets, FiniteSetTheorems, WellFoundedInduction, TLAPS

\* A set of numbers that is not empty has a least one.
LEMMA LeastNumber ==
  ASSUME NEW T, T \subseteq Nat, T # {}
  PROVE  \E x \in T : \A y \in T : x <= y
<1> DEFINE R == {ss \in Nat \X Nat : ss[1] < ss[2]}
<1>1. IsWellFoundedOn(R, Nat)  BY NatLessThanWellFounded DEF OpToRel
<1> HIDE DEF R
<1>2. PICK x \in T : \A y \in T : ~(<<y, x>> \in R)  BY <1>1, WFMin
<1>3. \A y \in T : ~(y < x)  BY <1>2 DEF R
<1> QED  BY <1>3

\* A set with 0 and with the successor of each of its numbers has all numbers: of those
\* it lacks none would be the least.
LEMMA Induction ==
  ASSUME NEW P, 0 \in P, \A k \in Nat : k \in P => k + 1 \in P
  PROVE  Nat \subseteq P
<1> DEFINE Lacks == {k \in Nat : k \notin P}
<1> SUFFICES ASSUME Lacks # {} PROVE FALSE  OBVIOUS
<1>1. PICK k \in Lacks : \A j \in Lacks : k <= j
  <2>1. Lacks \subseteq Nat  OBVIOUS
  <2> HIDE DEF Lacks
  <2> QED  BY <2>1, LeastNumber
<1>2. k \in Nat /\ k # 0  OBVIOUS
<1>3. k - 1 \in Nat /\ ~(k <= k - 1) /\ (k - 1) + 1 = k  BY <1>2
<1>4. k - 1 \in P  BY <1>1, <1>3
<1>5. k \in P  BY <1>3, <1>4
<1> QED  BY <1>5

-----------------------------------------------------------------------------
(* Functions defined by recursion                                          *)

\* The beginnings, up to m, of the function that starts at a and goes on by step.
Beginnings(S, a, step, m) ==
  {h \in [0..m -> S] : h[0] = a /\ \A k \in 0..m - 1 : h[k + 1] = step[h[k]]}

\* There is a beginning of every length.
LEMMA BeginningsExist ==
  ASSUME NEW S, NEW a \in S, NEW step \in [S -> S], NEW m \in Nat
  PROVE  Beginnings(S, a, step, m) # {}
<1> DEFINE P == {k \in Nat : Beginnings(S, a, step, k) # {}}
<1>1. 0 \in P
  <2> DEFINE h == [k \in 0..0 |-> a]
  <2>1. h \in Beginnings(S, a, step, 0)  BY DEF Beginnings
  <2> QED  BY <2>1
<1>2. ASSUME NEW k \in Nat, k \in P PROVE k + 1 \in P
  <2>1. PICK g \in Beginnings(S, a, step, k) : TRUE  BY <1>2
  <2>2. g \in [0..k -> S] /\ g[0] = a /\ \A i \in 0..k - 1 : g[i + 1] = step[g[i]]
    BY <2>1 DEF Beginnings
  <2> DEFINE h == [i \in 0..k + 1 |-> IF i <= k THEN g[i] ELSE step[g[k]]]
  <2>3. h \in [0..k + 1 -> S]
    <3>1. g[k] \in S  BY <2>2
    <3>2. \A i \in 0..k + 1 : i <= k => g[i] \in S  BY <2>2
    <3> QED  BY <3>1, <3>2
  <2>4. h[0] = a  BY <2>2
  <2>5. ASSUME NEW i \in 0..(k + 1) - 1 PROVE h[i + 1] = step[h[i]]
    <3>1. h[i] = g[i]  OBVIOUS
    <3>2. CASE i = k  BY <3>1, <3>2
    <3>3. CASE i # k
      <4>1. i \in 0..k - 1 /\ i + 1 <= k /\ i + 1 \in 0..k + 1  BY <3>3
      <4> QED  BY <2>2, <3>1, <4>1
    <3> QED  BY <3>2, <3>3
  <2> HIDE DEF h
  <2>6. h \in Beginnings(S, a, step, k + 1)  BY <2>3, <2>4, <2>5 DEF Beginnings
  <2> QED  BY <2>6
<1> HIDE DEF P
<1>3. m \in P  BY <1>1, <1>2, Induction
<1> QED  BY <1>3 DEF P

\* Two beginnings agree as far as both go.
LEMMA BeginningsAgree ==
  ASSUME NEW S, NEW a \in S, NEW step \in [S -> S], NEW m \in Nat, NEW l \in Nat,
         NEW g \in Beginnings(S, a, step, m), NEW h \in Beginnings(S, a, step, l),
         NEW n \in Nat, n <= m, n <= l
  PROVE  g[n] = h[n]
<1> DEFINE P == {k \in Nat : k <= m /\ k <= l => g[k] = h[k]}
<1>1. 0 \in P  BY DEF Beginnings
<1>2. ASSUME NEW k \in Nat, k \in P PROVE k + 1 \in P
  <2> SUFFICES ASSUME k + 1 <= m, k + 1 <= l PROVE g[k + 1] = h[k + 1]  OBVIOUS
  <2>1. k <= m /\ k <= l /\ k \in 0..m - 1 /\ k \in 0..l - 1  OBVIOUS
  <2>2. g[k] = h[k]  BY <1>2, <2>1
  <2>3. g[k + 1] = step[g[k]] /\ h[k + 1] = step[h[k]]  BY <2>1 DEF Beginnings
  <2> QED  BY <2>2, <2>3
<1> HIDE DEF P
<1>3. n \in P  BY <1>1, <1>2, Induction
<1> QED  BY <1>3 DEF P

\* g starts at a and goes on by step.
GoesOn(S, a, step, g) ==
  g \in [Nat -> S] /\ g[0] = a /\ \A k \in Nat : g[k + 1] = step[g[k]]

\* So there is a function on all numbers that starts at a and goes on by step.
LEMMA RecursionExists ==
  ASSUME NEW S, NEW a \in S, NEW step \in [S -> S]
  PROVE  \E g : GoesOn(S, a, step, g)
<1> DEFINE B(m) == Beginnings(S, a, step, m)
           begin(m) == CHOOSE h \in B(m) : TRUE
           g == [m \in Nat |-> begin(m)[m]]
<1>1. \A m \in Nat : begin(m) \in B(m)  BY BeginningsExist
<1>2. \A m \in Nat : begin(m)[m] \in S
  <2>1. ASSUME NEW m \in Nat PROVE begin(m)[m] \in S
    <3>1. begin(m) \in [0..m -> S]  BY <1>1 DEF Beginnings
    <3> QED  BY <3>1
  <2> QED  BY <2>1
<1>3. g \in [Nat -> S]  BY <1>2
<1>4. g[0] = a  BY <1>1 DEF Beginnings
<1>5. ASSUME NEW k \in Nat PROVE g[k + 1] = step[g[k]]
  <2>1. begin(k) \in B(k) /\ begin(k + 1) \in B(k + 1)  BY <1>1
  <2>2. begin(k)[k] = begin(k + 1)[k]
    <3> HIDE DEF begin
    <3> QED  BY <2>1, BeginningsAgree
  <2>3. begin(k + 1)[k + 1] = step[begin(k + 1)[k]]
    <3>1. k \in 0..(k + 1) - 1  OBVIOUS
    <3> HIDE DEF begin
    <3> QED  BY <2>1, <3>1 DEF Beginnings
  <2> QED  BY <2>2, <2>3
<1> HIDE DEF g
<1> QED  BY <1>3, <1>4, <1>5 DEF GoesOn

\* g starts at a and goes on by a step that may depend on how many there were before.
GoesOnAt(S, a, step, g) ==
  g \in [Nat -> S] /\ g[0] = a /\ \A k \in Nat : g[k + 1] = step[<<k, g[k]>>]

LEMMA RecursionAtExists ==
  ASSUME NEW S, NEW a \in S, NEW step \in [Nat \X S -> S]
  PROVE  \E g : GoesOnAt(S, a, step, g)
<1> DEFINE T == Nat \X S
           start == <<0, a>>
           next == [z \in T |-> <<z[1] + 1, step[z]>>]
<1>1. start \in T /\ next \in [T -> T]  OBVIOUS
<1>2. PICK f : GoesOn(T, start, next, f)
  <2> HIDE DEF T, start, next
  <2> QED  BY <1>1, RecursionExists
<1>3. /\ f[0] = <<0, a>> /\ \A k \in Nat : f[k] \in Nat \X S
      /\ \A k \in Nat : f[k + 1] = <<f[k][1] + 1, step[f[k]]>>
  BY <1>2 DEF GoesOn
<1> DEFINE P == {k \in Nat : f[k][1] = k}
<1>4. 0 \in P  BY <1>3
<1>5. \A k \in Nat : k \in P => k + 1 \in P  BY <1>3
<1>6. \A k \in Nat : f[k][1] = k
  <2> HIDE DEF P
  <2>1. Nat \subseteq P  BY <1>4, <1>5, Induction
  <2> QED  BY <2>1 DEF P
<1> DEFINE g == [k \in Nat |-> f[k][2]]
<1>7. g \in [Nat -> S] /\ g[0] = a  BY <1>3
<1>8. ASSUME NEW k \in Nat PROVE g[k + 1] = step[<<k, g[k]>>]
  <2>1. f[k] = <<f[k][1], f[k][2]>>  BY <1>3
  <2>2. f[k] = <<k, g[k]>>  BY <1>6, <2>1
  <2>3. f[k + 1] = <<f[k][1] + 1, step[<<k, g[k]>>]>>  BY <1>3, <2>2
  <2>4. g[k + 1] = f[k + 1][2]  OBVIOUS
  <2> QED  BY <2>3, <2>4
<1> HIDE DEF g
<1> QED  BY <1>7, <1>8 DEF GoesOnAt

-----------------------------------------------------------------------------
(* Lists in increasing order                                               *)

\* T can be listed in increasing order.
Listed(T, k) ==
  \E f \in [1..k -> T] : /\ \A i, j \in 1..k : i < j => f[i] < f[j]
                         /\ \A x \in T : \E i \in 1..k : f[i] = x

\* Every finite set of numbers can: by the least size at which one cannot, whose least
\* member is put before a list of the others.
LEMMA ListedAll ==
  ASSUME NEW n \in Nat, NEW U \in SUBSET Nat, IsFiniteSet(U), Cardinality(U) = n
  PROVE  Listed(U, n)
<1> DEFINE Bad == {k \in Nat : \E T \in SUBSET Nat : /\ IsFiniteSet(T) /\ Cardinality(T) = k
                                                    /\ ~Listed(T, k)}
<1> SUFFICES ASSUME Bad # {} PROVE FALSE  OBVIOUS
<1>1. PICK k \in Bad : \A j \in Bad : k <= j
  <2>1. Bad \subseteq Nat  OBVIOUS
  <2> HIDE DEF Bad
  <2> QED  BY <2>1, LeastNumber
<1>2. PICK T \in SUBSET Nat : IsFiniteSet(T) /\ Cardinality(T) = k /\ ~Listed(T, k)  OBVIOUS
<1>3. k \in Nat  OBVIOUS
<1>4. CASE k = 0
  <2>1. T = {}  BY <1>2, <1>4, FS_EmptySet
  <2>2. [i \in 1..0 |-> 0] \in [1..0 -> T]  OBVIOUS
  <2>3. Listed(T, 0)  BY <2>1, <2>2 DEF Listed
  <2> QED  BY <1>2, <1>4, <2>3
<1>5. CASE k # 0
  <2>1. T # {}  BY <1>2, <1>5, FS_EmptySet
  <2>2. PICK x \in T : \A y \in T : x <= y  BY <2>1, LeastNumber
  <2> DEFINE V == T \ {x}
  <2>3. IsFiniteSet(V) /\ Cardinality(V) = k - 1  BY <1>2, FS_RemoveElement
  <2>4. k - 1 \in Nat /\ ~(k <= k - 1)  BY <1>3, <1>5
  <2>5. Listed(V, k - 1)  BY <1>1, <2>3, <2>4
  <2>6. PICK g \in [1..k - 1 -> V] : /\ \A i, j \in 1..k - 1 : i < j => g[i] < g[j]
                                    /\ \A y \in V : \E i \in 1..k - 1 : g[i] = y
    BY <2>5 DEF Listed
  <2> DEFINE f == [i \in 1..k |-> IF i = 1 THEN x ELSE g[i - 1]]
  <2>7. \A i \in 1..k : i # 1 => i - 1 \in 1..k - 1  BY <1>3
  <2>8. f \in [1..k -> T]  BY <2>6, <2>7
  <2>9. ASSUME NEW i \in 1..k, NEW j \in 1..k, i < j PROVE f[i] < f[j]
    <3>1. f[j] = g[j - 1] /\ j - 1 \in 1..k - 1  BY <1>3, <2>7, <2>9
    <3>2. CASE i = 1
      <4>1. g[j - 1] \in V  BY <2>6, <3>1
      <4>2. x <= g[j - 1] /\ x # g[j - 1] /\ x \in Nat /\ g[j - 1] \in Nat  BY <2>2, <4>1
      <4> QED  BY <3>1, <3>2, <4>2
    <3>3. CASE i # 1
      <4>1. f[i] = g[i - 1] /\ i - 1 \in 1..k - 1 /\ i - 1 < j - 1  BY <1>3, <2>7, <2>9, <3>3
      <4> QED  BY <2>6, <3>1, <4>1
    <3> QED  BY <3>2, <3>3
  <2>10. ASSUME NEW y \in T PROVE \E i \in 1..k : f[i] = y
    <3>1. CASE y = x
      <4>1. 1 \in 1..k  BY <1>3, <1>5
      <4> QED  BY <3>1, <4>1
    <3>2. CASE y # x
      <4>1. PICK i \in 1..k - 1 : g[i] = y  BY <2>6, <3>2
      <4>2. i + 1 \in 1..k /\ i + 1 # 1 /\ (i + 1) - 1 = i  BY <1>3
      <4> QED  BY <4>1, <4>2
    <3> QED  BY <3>1, <3>2
  <2> HIDE DEF f
  <2>11. Listed(T, k)  BY <2>8, <2>9, <2>10 DEF Listed
  <2> QED  BY <1>2, <2>11
<1> QED  BY <1>4, <1>5

\* A list in increasing order of as many numbers as T has lists each of them, once.
LEMMA OrderedIsComplete ==
  ASSUME NEW T \in SUBSET Nat, IsFiniteSet(T), NEW f \in [1..Cardinality(T) -> T],
         \A i, j \in 1..Cardinality(T) : i < j => f[i] < f[j]
  PROVE  /\ \A i, j \in 1..Cardinality(T) : f[i] = f[j] => i = j
         /\ \A x \in T : \E i \in 1..Cardinality(T) : f[i] = x
<1> DEFINE n == Cardinality(T)
<1>1. n \in Nat  BY FS_CardinalityType
<1> HIDE DEF n
<1>2. ASSUME NEW i \in 1..n, NEW j \in 1..n, f[i] = f[j] PROVE i = j
  <2>1. f[i] \in Nat  BY DEF n
  <2>2. ~(f[i] < f[j]) /\ ~(f[j] < f[i])  BY <1>2, <2>1
  <2>3. ~(i < j) /\ ~(j < i)  BY <2>2 DEF n
  <2>4. i \in Nat /\ j \in Nat  BY <1>1
  <2> QED  BY <2>3, <2>4
<1>3. f \in Injection(1..n, T)  BY <1>2 DEF Injection, IsInjective, n
<1>4. IsFiniteSet(1..n) /\ Cardinality(1..n) = n
  <2>1. 1 \in Int /\ n \in Int  BY <1>1
  <2>2. Cardinality(1..n) = IF 1 > n THEN 0 ELSE n - 1 + 1  BY <2>1, FS_Interval
  <2> QED  BY <1>1, <2>1, <2>2, FS_Interval
<1>5. f \in Surjection(1..n, T)  BY <1>3, <1>4, FS_Injection DEF n
<1> QED  BY <1>2, <1>5 DEF Surjection, n
=============================================================================
