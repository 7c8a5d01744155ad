----------------------------- MODULE Iteration -----------------------------
(* A loop as a function of its state: the components write a loop that runs   *)
(* to a fixed point as a step function and a number of rounds.  The theorems  *)
(* are what their proofs need of such a loop.                                 *)
EXTENDS Integers, FiniteSets, FiniteSetTheorems, WellFoundedInduction, TLAPS

\* What is left of s after n rounds of step.
Iterate(step, s, n) ==
    LET after[k \in Nat] == IF k = 0 THEN s ELSE step[after[k - 1]] IN after[n]

-----------------------------------------------------------------------------
Below == OpToRel(<, Nat)

\* A set of naturals that is not empty has a least member.
LEMMA LeastNat ==
  ASSUME NEW T, T \subseteq Nat, T # {}
  PROVE  \E n \in T : \A m \in T : n <= m
<1>0. Below = {ss \in Nat \X Nat : ss[1] < ss[2]}  BY DEF Below, OpToRel
<1>1. IsWellFoundedOn(Below, Nat)  BY NatLessThanWellFounded DEF Below
<1> HIDE DEF Below
<1>2. PICK n \in T : \A m \in T : ~(<<m, n>> \in Below)  BY <1>1, WFMin
<1>3. \A m \in T : ~(m < n)  BY <1>0, <1>2
<1> QED  BY <1>3

\* Induction, the form in which it can be cited: a set of naturals with 0 and
\* with the successor of each of its members is all of them.
LEMMA Induction ==
  ASSUME NEW T, 0 \in T, \A n \in Nat : n \in T => n + 1 \in T
  PROVE  Nat \subseteq T
<1> SUFFICES ASSUME Nat \ T # {} PROVE FALSE  OBVIOUS
<1>1. PICK n \in Nat \ T : \A m \in Nat \ T : n <= m  BY LeastNat
<1>2. n - 1 \in Nat  BY <1>1
<1>3. n - 1 \in T  BY <1>1, <1>2
<1> QED  BY <1>1, <1>2, <1>3

\* The first n rounds of step from s.
Path(S, step, s, n) ==
    {h \in [0..n -> S] : h[0] = s /\ \A k \in 1..n : h[k] = step[h[k - 1]]}

LEMMA PathExists ==
  ASSUME NEW S, NEW step \in [S -> S], NEW s \in S
  PROVE  \A n \in Nat : Path(S, step, s, n) # {}
<1> DEFINE T == {n \in Nat : Path(S, step, s, n) # {}}
<1>1. 0 \in T
  <2>1. [k \in 0..0 |-> s] \in Path(S, step, s, 0)  BY DEF Path
  <2> QED  BY <2>1
<1>2. ASSUME NEW n \in Nat, n \in T PROVE n + 1 \in T
  <2>1. PICK h : h \in Path(S, step, s, n)  BY <1>2
  <2>2. h \in [0..n -> S] /\ h[0] = s /\ \A k \in 1..n : h[k] = step[h[k - 1]]  BY <2>1 DEF Path
  <2> DEFINE g == [k \in 0..(n + 1) |-> IF k = n + 1 THEN step[h[n]] ELSE h[k]]
  <2>3. g \in [0..(n + 1) -> S] /\ g[0] = s  BY <2>2
  <2>4. ASSUME NEW k \in 1..(n + 1) PROVE g[k] = step[g[k - 1]]
    <3>1. CASE k = n + 1  BY <3>1, <2>2
    <3>2. CASE k # n + 1
      <4>1. k \in 1..n /\ k - 1 \in 0..n /\ k - 1 # n + 1 /\ k \in 0..(n + 1) /\ k - 1 \in 0..(n + 1)  BY <3>2
      <4> QED  BY <4>1, <3>2, <2>2
    <3> QED  BY <3>1, <3>2
  <2>5. g \in Path(S, step, s, n + 1)  BY <2>3, <2>4 DEF Path
  <2> QED  BY <2>5
<1> HIDE DEF T
<1>3. Nat \subseteq T  BY <1>1, <1>2, Induction
<1> QED  BY <1>3 DEF T

LEMMA PathUnique ==
  ASSUME NEW S, NEW step \in [S -> S], NEW s \in S,
         NEW n \in Nat, NEW m \in Nat, NEW g \in Path(S, step, s, n), NEW h \in Path(S, step, s, m)
  PROVE  \A k \in Nat : k <= n /\ k <= m => g[k] = h[k]
<1> DEFINE T == {k \in Nat : k <= n /\ k <= m => g[k] = h[k]}
<1>0. /\ g[0] = s /\ \A k \in 1..n : g[k] = step[g[k - 1]]
      /\ h[0] = s /\ \A k \in 1..m : h[k] = step[h[k - 1]]
  BY DEF Path
<1>1. 0 \in T  BY <1>0
<1>2. ASSUME NEW k \in Nat, k \in T PROVE k + 1 \in T
  <2> SUFFICES ASSUME k + 1 <= n, k + 1 <= m PROVE g[k + 1] = h[k + 1]  OBVIOUS
  <2>1. k + 1 \in 1..n /\ k + 1 \in 1..m /\ (k + 1) - 1 = k /\ k <= n /\ k <= m  OBVIOUS
  <2>2. g[k] = h[k]  BY <1>2, <2>1
  <2> QED  BY <1>0, <2>1, <2>2
<1> HIDE DEF T
<1>3. Nat \subseteq T  BY <1>1, <1>2, Induction
<1> QED  BY <1>3 DEF T

\* The rounds are what one expects: none leaves s, one more applies step.
THEOREM Iterations ==
  ASSUME NEW S, NEW step \in [S -> S], NEW s \in S
  PROVE  /\ Iterate(step, s, 0) = s
         /\ \A n \in Nat : /\ Iterate(step, s, n) \in S
                           /\ Iterate(step, s, n + 1) = step[Iterate(step, s, n)]
<1> DEFINE h(n) == CHOOSE g : g \in Path(S, step, s, n)
           F == [n \in Nat |-> h(n)[n]]
           Is(f) == f = [k \in Nat |-> IF k = 0 THEN s ELSE step[f[k - 1]]]
<1>1. \A n \in Nat : h(n) \in Path(S, step, s, n)  BY PathExists
<1> HIDE DEF h
<1>2. F[0] = s  BY <1>1 DEF Path
<1>3. ASSUME NEW n \in Nat PROVE F[n] \in S /\ F[n + 1] = step[F[n]]
  <2>1. h(n) \in Path(S, step, s, n) /\ h(n + 1) \in Path(S, step, s, n + 1)  BY <1>1
  <2>2. h(n)[n] = h(n + 1)[n]  BY <2>1, PathUnique, n <= n, n <= n + 1, n + 1 \in Nat
  <2>3. h(n)[n] \in S  BY <2>1 DEF Path
  <2>4. h(n + 1)[n + 1] = step[h(n + 1)[(n + 1) - 1]]  BY <2>1, n + 1 \in 1..(n + 1) DEF Path
  <2> QED  BY <2>2, <2>3, <2>4
<1>4. Is(F)
  <2>1. \A k \in Nat : F[k] = IF k = 0 THEN s ELSE step[F[k - 1]]
    <3> TAKE k \in Nat
    <3>1. CASE k = 0  BY <3>1, <1>2
    <3>2. CASE k # 0
      <4>1. k - 1 \in Nat /\ (k - 1) + 1 = k  BY <3>2
      <4>2. F[(k - 1) + 1] = step[F[k - 1]]  BY <4>1, <1>3
      <4> QED  BY <3>2, <4>1, <4>2
    <3> QED  BY <3>1, <3>2
  <2>2. F = [k \in Nat |-> F[k]]  OBVIOUS
  <2> HIDE DEF F
  <2> QED  BY <2>1, <2>2
<1> HIDE DEF F
<1> DEFINE G == CHOOSE f : Is(f)
<1>5. Is(G)  BY <1>4
<1>6. \A n : Iterate(step, s, n) = G[n]  BY DEF Iterate
<1> HIDE DEF G
<1>7. G[0] = s  BY <1>5
<1>8. \A n \in Nat : G[n + 1] = step[G[n]]
  <2> TAKE n \in Nat
  <2>1. n + 1 \in Nat /\ n + 1 # 0 /\ (n + 1) - 1 = n  OBVIOUS
  <2> QED  BY <2>1, <1>5
<1> DEFINE T == {n \in Nat : G[n] \in S}
<1>9. 0 \in T  BY <1>7
<1>10. \A n \in Nat : n \in T => n + 1 \in T  BY <1>8
<1> HIDE DEF T
<1>11. Nat \subseteq T  BY <1>9, <1>10, Induction
<1>12. \A n \in Nat : G[n] \in S  BY <1>11 DEF T
<1> QED  BY <1>6, <1>7, <1>8, <1>12

\* A step that only adds members of a finite set adds none after as many rounds
\* as the set has members.
THEOREM FixedPoint ==
  ASSUME NEW T, IsFiniteSet(T), NEW step \in [SUBSET T -> SUBSET T], NEW s \in SUBSET T,
         \A m \in SUBSET T : m \subseteq step[m]
  PROVE  /\ Iterate(step, s, Cardinality(T)) \in SUBSET T
         /\ s \subseteq Iterate(step, s, Cardinality(T))
         /\ step[Iterate(step, s, Cardinality(T))] = Iterate(step, s, Cardinality(T))
<1> DEFINE it(n) == Iterate(step, s, n)
           N == Cardinality(T)
<1>1. it(0) = s /\ \A n \in Nat : it(n) \in SUBSET T /\ it(n + 1) = step[it(n)]
  BY Iterations
<1>2. N \in Nat  BY FS_CardinalityType
<1> HIDE DEF it
<1>3. \A n \in Nat : it(n) \in SUBSET T /\ it(n) \subseteq it(n + 1)  BY <1>1
<1> DEFINE K == {n \in Nat : s \subseteq it(n)}
<1>4. 0 \in K  BY <1>1
<1>5. \A n \in Nat : n \in K => n + 1 \in K  BY <1>3
<1> HIDE DEF K
<1>6. Nat \subseteq K  BY <1>4, <1>5, Induction
<1>7. s \subseteq it(N)  BY <1>2, <1>6 DEF K
<1> DEFINE F == {n \in Nat : it(n + 1) = it(n) \/ n + 1 <= Cardinality(it(n + 1))}
<1>8. \A n \in Nat : IsFiniteSet(it(n)) /\ Cardinality(it(n)) \in Nat
  BY <1>3, FS_Subset, FS_CardinalityType
<1>9. ASSUME NEW n \in Nat, it(n + 1) # it(n)
      PROVE  Cardinality(it(n)) + 1 <= Cardinality(it(n + 1))
  <2>1. it(n) \subseteq it(n + 1) /\ IsFiniteSet(it(n + 1)) /\ n + 1 \in Nat  BY <1>3, <1>8
  <2>2. /\ Cardinality(it(n)) <= Cardinality(it(n + 1))
        /\ Cardinality(it(n)) # Cardinality(it(n + 1))
    BY <2>1, <1>9, FS_Subset
  <2>3. Cardinality(it(n)) \in Nat /\ Cardinality(it(n + 1)) \in Nat  BY <2>1, <1>8
  <2> QED  BY <2>2, <2>3
<1>10. 0 \in F
  <2>1. CASE it(0 + 1) = it(0)  BY <2>1
  <2>2. CASE it(0 + 1) # it(0)
    <3>1. Cardinality(it(0)) + 1 <= Cardinality(it(0 + 1))  BY <2>2, <1>9
    <3>2. Cardinality(it(0)) \in Nat /\ Cardinality(it(0 + 1)) \in Nat  BY <1>8
    <3> QED  BY <3>1, <3>2
  <2> QED  BY <2>1, <2>2
<1>11. ASSUME NEW n \in Nat, n \in F PROVE n + 1 \in F
  <2>1. n + 1 \in Nat /\ (n + 1) + 1 \in Nat  OBVIOUS
  <2>2. CASE it(n + 1) = it(n)
    <3>1. it((n + 1) + 1) = it(n + 1)  BY <2>1, <2>2, <1>1
    <3> QED  BY <3>1, <2>1
  <2>3. CASE it((n + 1) + 1) = it(n + 1)  BY <2>3, <2>1
  <2>4. CASE it(n + 1) # it(n) /\ it((n + 1) + 1) # it(n + 1)
    <3>1. n + 1 <= Cardinality(it(n + 1))  BY <2>4, <1>11
    <3>2. Cardinality(it(n + 1)) + 1 <= Cardinality(it((n + 1) + 1))  BY <2>1, <2>4, <1>9
    <3>3. Cardinality(it(n + 1)) \in Nat /\ Cardinality(it((n + 1) + 1)) \in Nat  BY <1>8, <2>1
    <3>4. (n + 1) + 1 <= Cardinality(it((n + 1) + 1))  BY <3>1, <3>2, <3>3
    <3> QED  BY <3>4, <2>1
  <2> QED  BY <2>2, <2>3, <2>4
<1> HIDE DEF F
<1>12. Nat \subseteq F  BY <1>10, <1>11, Induction
<1>13. it(N + 1) = it(N)
  <2> SUFFICES ASSUME it(N + 1) # it(N) PROVE FALSE  OBVIOUS
  <2>1. N + 1 <= Cardinality(it(N + 1))  BY <1>2, <1>12 DEF F
  <2>2. it(N + 1) \subseteq T /\ N + 1 \in Nat  BY <1>2, <1>3
  <2>3. Cardinality(it(N + 1)) <= N  BY <2>2, FS_Subset
  <2>4. Cardinality(it(N + 1)) \in Nat  BY <2>2, <1>8
  <2> QED  BY <2>1, <2>3, <2>4, <1>2
<1> QED  BY <1>1, <1>2, <1>3, <1>7, <1>13 DEF it

\* Such a step leaves a set alone that it has no reason to leave.
THEOREM StaysWithin ==
  ASSUME NEW T, NEW step \in [SUBSET T -> SUBSET T], NEW s \in SUBSET T,
         NEW C, s \subseteq C, \A m \in SUBSET T : m \subseteq C => step[m] \subseteq C,
         NEW n \in Nat
  PROVE  Iterate(step, s, n) \subseteq C
<1> DEFINE it(k) == Iterate(step, s, k)
           K == {k \in Nat : it(k) \subseteq C}
<1>1. it(0) = s /\ \A k \in Nat : it(k) \in SUBSET T /\ it(k + 1) = step[it(k)]
  BY Iterations
<1> HIDE DEF it
<1>2. 0 \in K  BY <1>1
<1>3. \A k \in Nat : k \in K => k + 1 \in K  BY <1>1
<1> HIDE DEF K
<1>4. Nat \subseteq K  BY <1>2, <1>3, Induction
<1> QED  BY <1>4 DEF K, it

\* A loop keeps what each of its rounds keeps (J), and when each round that
\* changes anything lowers f, it is over after f[s] rounds.
THEOREM LoopEnds ==
  ASSUME NEW S, NEW step \in [S -> S], NEW J \in SUBSET S, NEW s \in J,
         \A x \in J : step[x] \in J,
         NEW f \in [J -> Nat], \A x \in J : step[x] = x \/ f[step[x]] < f[x],
         NEW n \in Nat, f[s] <= n
  PROVE  /\ Iterate(step, s, n) \in J
         /\ step[Iterate(step, s, n)] = Iterate(step, s, n)
<1> DEFINE it(k) == Iterate(step, s, k)
           K == {k \in Nat : it(k) \in J /\ (step[it(k)] = it(k) \/ f[it(k)] + k <= f[s])}
<1>1. it(0) = s /\ \A k \in Nat : it(k + 1) = step[it(k)]
  <2>1. s \in S  OBVIOUS
  <2>2. Iterate(step, s, 0) = s  BY <2>1, Iterations
  <2>3. \A k \in Nat : Iterate(step, s, k + 1) = step[Iterate(step, s, k)]  BY <2>1, Iterations
  <2> QED  BY <2>2, <2>3
<1> HIDE DEF it
<1>2. 0 \in K  BY <1>1
<1>3. ASSUME NEW k \in Nat, k \in K PROVE k + 1 \in K
  <2>1. it(k) \in J /\ it(k + 1) = step[it(k)] /\ it(k + 1) \in J  BY <1>1, <1>3
  <2>2. CASE step[it(k)] = it(k)  BY <2>1, <2>2
  <2>3. CASE step[it(k)] # it(k)
    <3>1. f[it(k + 1)] < f[it(k)] /\ f[it(k)] + k <= f[s]  BY <1>3, <2>1, <2>3
    <3>2. f[it(k + 1)] \in Nat /\ f[it(k)] \in Nat /\ f[s] \in Nat  BY <2>1
    <3>3. f[it(k + 1)] + (k + 1) <= f[s]  BY <3>1, <3>2
    <3> QED  BY <2>1, <3>3
  <2> QED  BY <2>2, <2>3
<1> HIDE DEF K
<1>4. Nat \subseteq K  BY <1>2, <1>3, Induction
<1>5. it(n) \in J /\ (step[it(n)] = it(n) \/ f[it(n)] + n <= f[s])  BY <1>4 DEF K
<1>6. step[it(n)] = it(n)
  <2> SUFFICES ASSUME step[it(n)] # it(n) PROVE FALSE  OBVIOUS
  <2>1. f[it(n)] + n <= f[s] /\ f[step[it(n)]] < f[it(n)] /\ step[it(n)] \in J  BY <1>5
  <2>2. f[it(n)] \in Nat /\ f[step[it(n)]] \in Nat /\ f[s] \in Nat  BY <1>5, <2>1
  <2> QED  BY <2>1, <2>2
<1> QED  BY <1>5, <1>6 DEF it

-----------------------------------------------------------------------------
(* A loop over 1..N that does something else in each round.                    *)

\* Induction up to N.
LEMMA InductionTo ==
  ASSUME NEW N \in Nat, NEW T, 0 \in T, \A n \in 1..N : n - 1 \in T => n \in T
  PROVE  \A n \in 0..N : n \in T
<1> DEFINE K == {n \in Nat : n <= N => n \in T}
<1>1. 0 \in K  OBVIOUS
<1>2. ASSUME NEW n \in Nat, n \in K PROVE n + 1 \in K
  <2> SUFFICES ASSUME n + 1 <= N PROVE n + 1 \in T  OBVIOUS
  <2>1. n + 1 \in 1..N /\ (n + 1) - 1 = n /\ n <= N  OBVIOUS
  <2>2. n \in T  BY <1>2, <2>1
  <2>3. (n + 1) - 1 \in T  BY <2>1, <2>2
  <2> QED  BY <2>1, <2>3
<1> HIDE DEF K
<1>3. Nat \subseteq K  BY <1>1, <1>2, Induction
<1>4. \A n \in 0..N : n \in K /\ n <= N  BY <1>3
<1> QED  BY <1>4 DEF K

\* The rounds of a loop over 1..N that starts from s and is in J[n] after n.
Rounds(J, N, step, s) ==
    {g \in [0..N -> UNION {J[n] : n \in 0..N}] :
       /\ g[0] = s /\ \A n \in 0..N : g[n] \in J[n]
       /\ \A n \in 1..N : g[n] = step[<<g[n - 1], n>>]}

LEMMA LoopExists ==
  ASSUME NEW N \in Nat, NEW J, NEW step, NEW s, s \in J[0],
         \A n \in 1..N : \A x \in J[n - 1] : step[<<x, n>>] \in J[n]
  PROVE  Rounds(J, N, step, s) # {}
<1> DEFINE T == {n \in 0..N : Rounds(J, n, step, s) # {}}
<1>1. 0 \in T
  <2>1. [k \in 0..0 |-> s] \in Rounds(J, 0, step, s)  BY DEF Rounds
  <2> QED  BY <2>1
<1>2. ASSUME NEW n \in 1..N, n - 1 \in T PROVE n \in T
  <2>0. n \in Nat /\ n - 1 \in Nat /\ n \in 0..N /\ n \in 0..n  OBVIOUS
  <2>1. PICK h : h \in Rounds(J, n - 1, step, s)  BY <1>2
  <2>2. /\ h[0] = s /\ \A k \in 0..(n - 1) : h[k] \in J[k]
        /\ \A k \in 1..(n - 1) : h[k] = step[<<h[k - 1], k>>]
    BY <2>1 DEF Rounds
  <2> DEFINE v == step[<<h[n - 1], n>>]
             g == [k \in 0..n |-> IF k = n THEN v ELSE h[k]]
  <2>3. h[n - 1] \in J[n - 1]  BY <2>0, <2>2
  <2>4. v \in J[n]  BY <2>3
  <2>5. \A k \in 0..n : g[k] = IF k = n THEN v ELSE h[k]  OBVIOUS
  <2>6. \A k \in 0..n : g[k] \in J[k]
    <3> TAKE k \in 0..n
    <3>1. CASE k = n  BY <3>1, <2>4, <2>5
    <3>2. CASE k # n
      <4>1. k \in 0..(n - 1)  BY <2>0, <3>2
      <4> QED  BY <4>1, <3>2, <2>2, <2>5
    <3> QED  BY <3>1, <3>2
  <2>7. g \in [0..n -> UNION {J[k] : k \in 0..n}]
    <3> HIDE DEF v
    <3>1. \A k \in 0..n : g[k] \in UNION {J[l] : l \in 0..n}  BY <2>6
    <3> QED  BY <3>1
  <2> HIDE DEF g
  <2>8. g[0] = s  BY <2>0, <2>2, <2>5
  <2>9. ASSUME NEW k \in 1..n PROVE g[k] = step[<<g[k - 1], k>>]
    <3>1. k - 1 \in 0..n /\ k - 1 # n /\ k \in 0..n  BY <2>0
    <3>2. g[k - 1] = h[k - 1]  BY <3>1, <2>5
    <3>3. CASE k = n  BY <3>1, <3>2, <3>3, <2>5
    <3>4. CASE k # n
      <4>1. k \in 1..(n - 1)  BY <2>0, <3>4
      <4>2. g[k] = h[k]  BY <3>1, <3>4, <2>5
      <4> QED  BY <4>1, <4>2, <3>2, <2>2
    <3> QED  BY <3>3, <3>4
  <2>10. g \in Rounds(J, n, step, s)  BY <2>6, <2>7, <2>8, <2>9 DEF Rounds
  <2> QED  BY <2>0, <2>10
<1> HIDE DEF T
<1>3. \A n \in 0..N : n \in T  BY <1>1, <1>2, InductionTo
<1>4. N \in T  BY <1>3
<1> QED  BY <1>4 DEF T
=============================================================================
