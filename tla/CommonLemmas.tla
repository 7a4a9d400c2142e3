---------------------------- MODULE CommonLemmas ----------------------------
(***************************************************************************)
(* Facts about numbers and finite sets that the proofs of several modules  *)
(* rest on and the provers do not find by themselves.  A proof by          *)
(* induction is given here as the absence of a least counterexample: the   *)
(* set of counterexamples is a set like another, so the well-foundedness   *)
(* theorems apply to it.                                                   *)
(***************************************************************************)
EXTENDS Integers, Sequences, FiniteSetsExt, WellFoundedInduction, FiniteSetTheorems, TLAPS

NatLess == {ss \in Nat \X Nat : ss[1] < ss[2]}

LEMMA NatLessWellFounded == IsWellFoundedOn(NatLess, Nat)
BY NatLessThanWellFounded, Zenon DEF OpToRel, NatLess

(* A set of naturals that is not empty has a least element. *)
LEMMA LeastOf ==
    ASSUME NEW T, T \subseteq Nat, T # {}
    PROVE  \E x \in T : \A y \in T : x <= y
<1>1. PICK x \in T : \A y \in T : ~ (<<y, x>> \in NatLess)
  BY NatLessWellFounded, WFMin
<1>2. ASSUME NEW y \in T PROVE x <= y
  <2>1. x \in Nat /\ y \in Nat
    OBVIOUS
  <2>2. <<y, x>> \notin NatLess
    BY <1>1
  <2>3. ~ (y < x)
    BY <2>1, <2>2 DEF NatLess
  <2> QED
    BY <2>1, <2>3
<1> QED
  BY <1>2

(* If each number of a set leads to a smaller one, there is none. *)
LEMMA NoDescent ==
    ASSUME NEW T, T \subseteq Nat, \A x \in T : \E y \in T : y < x
    PROVE  T = {}
<1> SUFFICES ASSUME T # {} PROVE FALSE
  OBVIOUS
<1>1. PICK x \in T : \A y \in T : x <= y
  BY LeastOf
<1>2. PICK y \in T : y < x
  OBVIOUS
<1> QED
  BY <1>1, <1>2

LEMMA ShortSeqs ==
    ASSUME NEW S, NEW x \in S
    PROVE  <<>> \in Seq(S) /\ <<x>> \in Seq(S) /\ Len(<<x>>) = 1 /\ <<x>>[1] = x
OBVIOUS

(* A sequence built up by appending g[0], g[1], ... is defined by its      *)
(* recursion equation.                                                     *)
IsFold(f, g, n) == f = [k \in 0 .. n |-> IF k = 0 THEN g[0] ELSE f[k - 1] \o g[k]]

LEMMA FoldExists ==
    ASSUME NEW n \in Nat, NEW g
    PROVE  \E f : IsFold(f, g, n)
<1> DEFINE T == {m \in Nat : ~ \E f : IsFold(f, g, m)}
<1>1. ASSUME NEW m \in T PROVE \E y \in T : y < m
  <2>1. m # 0
    <3>1. IsFold([k \in 0 .. 0 |-> g[0]], g, 0)
      BY DEF IsFold
    <3> QED
      BY <3>1
  <2>2. CASE \E f : IsFold(f, g, m - 1)
    <3>1. PICK f : IsFold(f, g, m - 1)
      BY <2>2
    <3> DEFINE h == [k \in 0 .. m |-> IF k < m THEN f[k] ELSE f[m - 1] \o g[m]]
    <3>2. ASSUME NEW k \in 0 .. m
          PROVE  h[k] = IF k = 0 THEN g[0] ELSE h[k - 1] \o g[k]
      BY <2>1, <3>1 DEF IsFold
    <3>3. IsFold(h, g, m)
      BY <3>2 DEF IsFold
    <3> QED
      BY <3>3
  <2>3. CASE m - 1 \in T
    BY <2>3
  <2> QED
    BY <2>1, <2>2, <2>3
<1>2. T = {}
  BY <1>1, NoDescent
<1> QED
  BY <1>2

(* The same for the subsets of a finite set. *)
LEMMA NoSetDescent ==
    ASSUME NEW S, IsFiniteSet(S), NEW T, T \subseteq SUBSET S,
           \A s \in T : \E x \in s : s \ {x} \in T
    PROVE  T = {}
<1> DEFINE sizes == {Cardinality(s) : s \in T}
<1>1. ASSUME NEW s \in T PROVE IsFiniteSet(s) /\ Cardinality(s) \in Nat
  <2>1. IsFiniteSet(s)
    BY FS_Subset
  <2> QED
    BY <2>1, FS_CardinalityType
<1>2. ASSUME NEW n \in sizes PROVE \E m \in sizes : m < n
  <2>1. PICK s \in T : n = Cardinality(s)
    OBVIOUS
  <2>2. PICK x \in s : s \ {x} \in T
    OBVIOUS
  <2>3. Cardinality(s \ {x}) = n - 1 /\ n \in Nat
    BY <1>1, <2>1, <2>2, FS_RemoveElement
  <2> QED
    BY <2>2, <2>3
<1>3. sizes \subseteq Nat
  BY <1>1
<1>4. sizes = {}
  <2> HIDE DEF sizes
  <2> QED
    BY <1>2, <1>3, NoDescent
<1> QED
  BY <1>4

(* What MapThenFoldSet builds over the subsets of S: the recursion has a   *)
(* solution when S is finite and the step stays in B.                      *)
Some(s) == CHOOSE x \in s : TRUE
IsSetFold(f, D, base, step) ==
    f = [s \in D |-> IF s = {} THEN base ELSE step[<<Some(s), f[s \ {Some(s)}]>>]]

LEMMA SetFoldExists ==
    ASSUME NEW S, IsFiniteSet(S), NEW B, NEW base \in B, NEW step \in [S \X B -> B]
    PROVE  \E f \in [SUBSET S -> B] : IsSetFold(f, SUBSET S, base, step)
<1> DEFINE D(n) == {s \in SUBSET S : Cardinality(s) <= n}
           Solved(n) == \E f \in [D(n) -> B] : IsSetFold(f, D(n), base, step)
           T == {n \in Nat : ~Solved(n)}
<1>1. ASSUME NEW s \in SUBSET S
      PROVE  /\ IsFiniteSet(s) /\ Cardinality(s) \in Nat
             /\ Cardinality(s) = 0 <=> s = {}
             /\ s # {} => /\ Some(s) \in s /\ s \ {Some(s)} \in SUBSET S
                         /\ Cardinality(s \ {Some(s)}) = Cardinality(s) - 1
  <2>1. IsFiniteSet(s)
    BY FS_Subset
  <2>2. Cardinality(s) \in Nat /\ (Cardinality(s) = 0 <=> s = {})
    BY <2>1, FS_CardinalityType, FS_EmptySet
  <2>3. s # {} => Some(s) \in s
    BY DEF Some
  <2>4. s # {} => Cardinality(s \ {Some(s)}) = Cardinality(s) - 1
    BY <2>1, <2>3, FS_RemoveElement
  <2> QED
    BY <2>1, <2>2, <2>3, <2>4
<1>2. Solved(0)
  <2> DEFINE f == [s \in D(0) |-> base]
  <2>1. ASSUME NEW s \in D(0) PROVE s = {}
    <3>1. s \in SUBSET S /\ Cardinality(s) <= 0
      OBVIOUS
    <3>2. Cardinality(s) \in Nat /\ (Cardinality(s) = 0 <=> s = {})
      BY <1>1, <3>1
    <3> QED
      BY <3>1, <3>2
  <2>2. f \in [D(0) -> B] /\ IsSetFold(f, D(0), base, step)
    BY <2>1 DEF IsSetFold
  <2> QED
    BY <2>2
<1>3. ASSUME NEW n \in Nat, n # 0, Solved(n - 1) PROVE Solved(n)
  <2>1. PICK f \in [D(n - 1) -> B] : IsSetFold(f, D(n - 1), base, step)
    BY <1>3
  <2> DEFINE h == [s \in D(n) |-> IF s = {} THEN base ELSE step[<<Some(s), f[s \ {Some(s)}]>>]]
  <2>2. ASSUME NEW s \in D(n), s # {}
        PROVE  s \ {Some(s)} \in D(n - 1) /\ Some(s) \in S
    BY <1>1, <2>2
  <2>3. ASSUME NEW s \in D(n - 1) PROVE s \in D(n)
    <3>1. s \in SUBSET S /\ Cardinality(s) <= n - 1
      OBVIOUS
    <3>2. Cardinality(s) \in Nat
      BY <1>1, <3>1
    <3> QED
      BY <3>1, <3>2
  <2>4. \A s \in D(n - 1) : f[s] = h[s]
    BY <2>1, <2>3 DEF IsSetFold
  <2>5. h \in [D(n) -> B]
    BY <2>2
  <2>6. IsSetFold(h, D(n), base, step)
    BY <2>2, <2>4 DEF IsSetFold
  <2> QED
    BY <2>5, <2>6
<1> HIDE DEF Solved
<1>4. T = {}
  <2>1. ASSUME NEW n \in T PROVE \E m \in T : m < n
    <3>1. n \in Nat /\ ~Solved(n)
      OBVIOUS
    <3>2. n # 0
      BY <1>2, <3>1
    <3>3. ~Solved(n - 1) /\ n - 1 \in Nat
      BY <1>3, <3>1, <3>2
    <3> QED
      BY <3>1, <3>3
  <2>2. T \subseteq Nat
    OBVIOUS
  <2> HIDE DEF T
  <2> QED
    BY <2>1, <2>2, NoDescent
<1>5. Solved(Cardinality(S))
  <2>1. Cardinality(S) \in Nat
    BY FS_CardinalityType
  <2> QED
    BY <1>4, <2>1
<1>6. D(Cardinality(S)) = SUBSET S
  BY FS_Subset
<1> QED
  BY <1>5, <1>6 DEF Solved

(* Sums over finite sets. *)
SumOver(f, S) == MapThenSumSet(LAMBDA x : f[x], S)

LEMMA SumFacts ==
    ASSUME NEW D, NEW f \in [D -> Nat], NEW S \in SUBSET D, IsFiniteSet(S)
    PROVE  /\ SumOver(f, {}) = 0
           /\ SumOver(f, S) \in Nat
           /\ \A x \in S : SumOver(f, S) = f[x] + SumOver(f, S \ {x})
<1> DEFINE Eqn(g, s) == g = [u \in SUBSET s |->
                          IF u = {} THEN 0 ELSE f[Some(u)] + g[u \ {Some(u)}]]
           iter(s) == CHOOSE g : Eqn(g, s)
<1>1. ASSUME NEW s PROVE SumOver(f, s) = iter(s)[s]
  BY DEF SumOver, MapThenSumSet, MapThenFoldSet, Some
<1>2. ASSUME NEW s \in SUBSET S PROVE Eqn(iter(s), s)
  <2> DEFINE step == [p \in s \X Nat |-> f[p[1]] + p[2]]
  <2>1. IsFiniteSet(s) /\ step \in [s \X Nat -> Nat] /\ 0 \in Nat
    BY FS_Subset
  <2> HIDE DEF step
  <2>2. PICK g \in [SUBSET s -> Nat] : IsSetFold(g, SUBSET s, 0, step)
    BY <2>1, SetFoldExists
  <2>3. ASSUME NEW u \in SUBSET s, u # {}
        PROVE  step[<<Some(u), g[u \ {Some(u)}]>>] = f[Some(u)] + g[u \ {Some(u)}]
    <3>1. Some(u) \in s /\ u \ {Some(u)} \in SUBSET s
      BY <2>3 DEF Some
    <3> QED
      BY <3>1 DEF step
  <2>4. Eqn(g, s)
    BY <2>2, <2>3 DEF IsSetFold
  <2> HIDE DEF Eqn
  <2> QED
    BY <2>4
<1> HIDE DEF iter
<1>3. ASSUME NEW s \in SUBSET S, NEW u \in SUBSET s, u # {}
      PROVE  /\ Some(u) \in u /\ u \ {Some(u)} \in SUBSET s
             /\ iter(s)[u] = f[Some(u)] + iter(s)[u \ {Some(u)}]
  <2>1. Some(u) \in u
    BY <1>3 DEF Some
  <2> QED
    BY <1>2, <1>3, <2>1
<1>4. ASSUME NEW s \in SUBSET S PROVE iter(s)[{}] = 0
  BY <1>2
<1>5. ASSUME NEW s \in SUBSET S, NEW u \in SUBSET s PROVE iter(s)[u] = iter(S)[u]
  <2> DEFINE T == {v \in SUBSET s : iter(s)[v] # iter(S)[v]}
  <2>1. ASSUME NEW v \in T PROVE \E x \in v : v \ {x} \in T
    <3>1. v # {}
      BY <1>4
    <3>2. /\ Some(v) \in v /\ v \ {Some(v)} \in SUBSET s
          /\ iter(s)[v] = f[Some(v)] + iter(s)[v \ {Some(v)}]
          /\ iter(S)[v] = f[Some(v)] + iter(S)[v \ {Some(v)}]
      BY <1>3, <3>1
    <3> QED
      BY <3>2
  <2>2. IsFiniteSet(s) /\ T \subseteq SUBSET s
    BY FS_Subset
  <2>3. T = {}
    <3> HIDE DEF T
    <3> QED
      BY <2>1, <2>2, NoSetDescent
  <2> QED
    BY <2>3
<1>6. ASSUME NEW s \in SUBSET S PROVE SumOver(f, s) = iter(S)[s]
  BY <1>1, <1>5
<1>7. ASSUME NEW s \in SUBSET S PROVE iter(S)[s] \in Nat
  <2> DEFINE T == {v \in SUBSET S : iter(S)[v] \notin Nat}
  <2>1. ASSUME NEW v \in T PROVE \E x \in v : v \ {x} \in T
    <3>1. v # {}
      BY <1>4
    <3>2. /\ Some(v) \in v /\ v \ {Some(v)} \in SUBSET S
          /\ iter(S)[v] = f[Some(v)] + iter(S)[v \ {Some(v)}]
      BY <1>3, <3>1
    <3>3. f[Some(v)] \in Nat
      BY <3>2
    <3>4. iter(S)[v] \notin Nat
      OBVIOUS
    <3> HIDE DEF T
    <3>5. iter(S)[v \ {Some(v)}] \notin Nat
      BY <3>2, <3>3, <3>4
    <3> QED
      BY <3>2, <3>5 DEF T
  <2>2. T \subseteq SUBSET S
    OBVIOUS
  <2>3. T = {}
    <3> HIDE DEF T
    <3> QED
      BY <2>1, <2>2, NoSetDescent
  <2> QED
    BY <2>3
<1>8. ASSUME NEW s \in SUBSET S, NEW x \in s PROVE iter(S)[s] = f[x] + iter(S)[s \ {x}]
  <2> DEFINE T == {v \in SUBSET S : \E y \in v : iter(S)[v] # f[y] + iter(S)[v \ {y}]}
  <2>1. ASSUME NEW v \in T PROVE \E y \in v : v \ {y} \in T
    <3>1. PICK y \in v : iter(S)[v] # f[y] + iter(S)[v \ {y}]
      OBVIOUS
    <3> DEFINE z == Some(v)
               w == v \ {y, z}
    <3>2. z \in v /\ iter(S)[v] = f[z] + iter(S)[v \ {z}]
      BY <1>3, <3>1
    <3>3. y # z
      BY <3>1, <3>2
    <3>4. /\ (v \ {y}) \ {z} = w /\ (v \ {z}) \ {y} = w
          /\ v \ {y} \in SUBSET S /\ v \ {z} \in SUBSET S /\ w \in SUBSET S
          /\ z \in v \ {y} /\ y \in v \ {z}
      BY <3>2, <3>3
    <3> HIDE DEF z, w
    <3>5. CASE v \ {y} \in T \/ v \ {z} \in T
      BY <3>2, <3>5
    <3>6. CASE v \ {y} \notin T /\ v \ {z} \notin T
      <4>1. iter(S)[v \ {y}] = f[z] + iter(S)[w] /\ iter(S)[v \ {z}] = f[y] + iter(S)[w]
        BY <3>4, <3>6
      <4>2. f[y] \in Nat /\ f[z] \in Nat /\ iter(S)[w] \in Nat
        BY <1>7, <3>2, <3>4
      <4> QED
        BY <3>1, <3>2, <4>1, <4>2
    <3> QED
      BY <3>5, <3>6
  <2>2. T \subseteq SUBSET S
    OBVIOUS
  <2>3. T = {}
    <3> HIDE DEF T
    <3> QED
      BY <2>1, <2>2, NoSetDescent
  <2> QED
    BY <2>3
<1>9. \A x \in S : SumOver(f, S) = f[x] + SumOver(f, S \ {x})
  BY <1>6, <1>8
<1> QED
  BY <1>4, <1>6, <1>7, <1>9

LEMMA SumAdd ==
    ASSUME NEW D, NEW f \in [D -> Nat], NEW S \in SUBSET D, IsFiniteSet(S), NEW x \in D, x \notin S
    PROVE  SumOver(f, S \cup {x}) = SumOver(f, S) + f[x]
<1>1. IsFiniteSet(S \cup {x}) /\ S \cup {x} \in SUBSET D /\ x \in S \cup {x}
  BY FS_AddElement
<1>2. (S \cup {x}) \ {x} = S
  OBVIOUS
<1>3. SumOver(f, S \cup {x}) = f[x] + SumOver(f, S)
  <2>1. SumOver(f, S \cup {x}) = f[x] + SumOver(f, (S \cup {x}) \ {x})
    BY <1>1, SumFacts
  <2> QED
    BY <1>2, <2>1, Zenon
<1>4. SumOver(f, S) \in Nat /\ f[x] \in Nat
  BY SumFacts
<1> QED
  BY <1>3, <1>4

LEMMA SumMonotone ==
    ASSUME NEW D, NEW f \in [D -> Nat], NEW S \in SUBSET D, IsFiniteSet(S), NEW R \in SUBSET S
    PROVE  SumOver(f, R) <= SumOver(f, S)
<1> DEFINE T == {v \in SUBSET S : R \subseteq v /\ ~ (SumOver(f, R) <= SumOver(f, v))}
<1>1. ASSUME NEW v \in T PROVE \E x \in v : v \ {x} \in T
  <2>1. IsFiniteSet(v) /\ IsFiniteSet(R) /\ v \in SUBSET D /\ R \in SUBSET D
    BY FS_Subset
  <2>2. SumOver(f, R) \in Nat /\ SumOver(f, v) \in Nat
    BY <2>1, SumFacts
  <2>3. v # R
    BY <2>2
  <2>4. PICK x \in v : x \notin R
    BY <2>3
  <2>5. SumOver(f, v) = f[x] + SumOver(f, v \ {x}) /\ f[x] \in Nat
    BY <2>1, SumFacts
  <2>6. v \ {x} \in SUBSET D /\ IsFiniteSet(v \ {x})
    BY <2>1, FS_RemoveElement
  <2>7. SumOver(f, v \ {x}) \in Nat
    BY <2>6, SumFacts
  <2>8. ~ (SumOver(f, R) <= SumOver(f, v \ {x}))
    BY <2>2, <2>5, <2>7
  <2> QED
    BY <2>4, <2>8
<1>2. T \subseteq SUBSET S
  OBVIOUS
<1>3. T = {}
  <2> HIDE DEF T
  <2> QED
    BY <1>1, <1>2, NoSetDescent
<1> QED
  BY <1>3

LEMMA SumScaled ==
    ASSUME NEW D, NEW f \in [D -> Nat], NEW g \in [D -> Nat], NEW p \in Nat, NEW q \in Nat,
           NEW S \in SUBSET D, IsFiniteSet(S), \A x \in S : p * f[x] <= q * g[x]
    PROVE  p * SumOver(f, S) <= q * SumOver(g, S)
<1> DEFINE T == {v \in SUBSET S : ~ (p * SumOver(f, v) <= q * SumOver(g, v))}
<1>1. ASSUME NEW v \in T PROVE \E x \in v : v \ {x} \in T
  <2>1. IsFiniteSet(v) /\ v \in SUBSET D
    BY FS_Subset
  <2>2. v # {}
    <3>1. SumOver(f, {}) = 0 /\ SumOver(g, {}) = 0
      BY <2>1, SumFacts
    <3>2. p * 0 = 0 /\ q * 0 = 0
      OBVIOUS
    <3> QED
      BY <3>1, <3>2
  <2>3. PICK x \in v : TRUE
    BY <2>2
  <2> DEFINE rest == v \ {x}
             fr == SumOver(f, rest)
             gr == SumOver(g, rest)
             fx == f[x]
             gx == g[x]
  <2>4. rest \in SUBSET D /\ IsFiniteSet(rest)
    BY <2>1, FS_RemoveElement
  <2>5. fr \in Nat /\ gr \in Nat
    <3> HIDE DEF rest
    <3> QED
      BY <2>4, SumFacts
  <2>6. SumOver(f, v) = fx + fr /\ SumOver(g, v) = gx + gr
    <3>1. SumOver(f, v) = fx + fr
      BY <2>1, <2>3, SumFacts
    <3>2. SumOver(g, v) = gx + gr
      BY <2>1, <2>3, SumFacts
    <3> QED
      BY <3>1, <3>2
  <2>7. fx \in Nat /\ gx \in Nat /\ p * fx <= q * gx
    BY <2>1, <2>3
  <2>8. ~ (p * (fx + fr) <= q * (gx + gr))
    BY <2>6
  <2> HIDE DEF rest, fr, gr, fx, gx
  <2>9. p * (fx + fr) = p * fx + p * fr /\ q * (gx + gr) = q * gx + q * gr
    BY <2>5, <2>7
  <2>10. p * fx \in Nat /\ p * fr \in Nat /\ q * gx \in Nat /\ q * gr \in Nat
    BY <2>5, <2>7
  <2>11. ~ (p * fr <= q * gr)
    BY <2>7, <2>8, <2>9, <2>10
  <2> QED
    BY <2>3, <2>11 DEF rest, fr, gr
<1>2. T \subseteq SUBSET S
  OBVIOUS
<1>3. T = {}
  <2> HIDE DEF T
  <2> QED
    BY <1>1, <1>2, NoSetDescent
<1> QED
  BY <1>3

(* A sum of terms no larger than m. *)
LEMMA SumBounded ==
    ASSUME NEW D, NEW f \in [D -> Nat], NEW m \in Nat,
           NEW S \in SUBSET D, IsFiniteSet(S), \A x \in S : f[x] <= m
    PROVE  SumOver(f, S) <= Cardinality(S) * m
<1> DEFINE T == {v \in SUBSET S : ~ (SumOver(f, v) <= Cardinality(v) * m)}
<1>1. ASSUME NEW v \in T PROVE \E x \in v : v \ {x} \in T
  <2>1. IsFiniteSet(v) /\ v \in SUBSET D
    BY FS_Subset
  <2>2. v # {}
    <3>1. SumOver(f, {}) = 0 /\ Cardinality({}) = 0
      BY <2>1, SumFacts, FS_EmptySet
    <3> QED
      BY <3>1
  <2>3. PICK x \in v : TRUE
    BY <2>2
  <2> DEFINE rest == v \ {x}
             fr == SumOver(f, rest)
             fx == f[x]
             n == Cardinality(rest)
  <2>4. rest \in SUBSET D /\ IsFiniteSet(rest) /\ n \in Nat /\ Cardinality(v) = n + 1
    <3>1. IsFiniteSet(rest) /\ Cardinality(rest) = Cardinality(v) - 1
      BY <2>1, <2>3, FS_RemoveElement
    <3>2. n \in Nat /\ Cardinality(v) \in Nat
      BY <2>1, <3>1, FS_CardinalityType
    <3> QED
      BY <2>1, <3>1, <3>2
  <2>5. fr \in Nat
    <3> HIDE DEF rest
    <3> QED
      BY <2>4, SumFacts
  <2>6. SumOver(f, v) = fx + fr
    BY <2>1, <2>3, SumFacts
  <2>7. fx \in Nat /\ fx <= m
    BY <2>1, <2>3
  <2>8. ~ (fx + fr <= (n + 1) * m)
    BY <2>4, <2>6
  <2> HIDE DEF rest, fr, fx, n
  <2>9. (n + 1) * m = n * m + m /\ n * m \in Nat
    BY <2>4
  <2>10. ~ (fr <= n * m)
    BY <2>5, <2>7, <2>8, <2>9
  <2> QED
    BY <2>3, <2>10 DEF rest, fr, n
<1>2. T \subseteq SUBSET S
  OBVIOUS
<1>3. T = {}
  <2> HIDE DEF T
  <2> QED
    BY <1>1, <1>2, NoSetDescent
<1> QED
  BY <1>3

LEMMA SumOfZeros ==
    ASSUME NEW D, NEW f \in [D -> Nat], NEW S \in SUBSET D, IsFiniteSet(S), \A x \in S : f[x] = 0
    PROVE  SumOver(f, S) = 0
<1>1. SumOver(f, S) \in Nat /\ Cardinality(S) \in Nat
  BY SumFacts, FS_CardinalityType
<1>2. SumOver(f, S) <= Cardinality(S) * 0
  BY SumBounded
<1> QED
  BY <1>1, <1>2

(* A term is no larger than the sum. *)
LEMMA SumAbove ==
    ASSUME NEW D, NEW f \in [D -> Nat], NEW S \in SUBSET D, IsFiniteSet(S), NEW x \in S
    PROVE  f[x] <= SumOver(f, S)
<1>1. S \ {x} \in SUBSET D /\ IsFiniteSet(S \ {x})
  BY FS_RemoveElement
<1>2. SumOver(f, S \ {x}) \in Nat /\ f[x] \in Nat
  BY <1>1, SumFacts
<1>3. SumOver(f, S) = f[x] + SumOver(f, S \ {x})
  BY SumFacts
<1> QED
  BY <1>2, <1>3

----------------------------------------------------------------------------
(***************************************************************************)
(* Bounded sets of naturals have a maximum, and rounding a natural up to a *)
(* multiple does not lower it or change the order of two.                  *)
(***************************************************************************)
LEMMA MaxFacts ==
    ASSUME NEW n \in Nat, NEW S, S \subseteq 0 .. n, S # {}
    PROVE  /\ Max(S) \in S
           /\ \A x \in S : x <= Max(S)
<1> DEFINE T == {n - x : x \in S}
<1>1. T \subseteq Nat /\ T # {}
  <2>1. PICK x : x \in S
    OBVIOUS
  <2>2. n - x \in T
    BY <2>1
  <2>3. \A y \in S : n - y \in Nat
    OBVIOUS
  <2> QED
    BY <2>2, <2>3
<1>2. PICK d \in T : \A y \in T : d <= y
  BY <1>1, LeastOf
<1>3. PICK m \in S : d = n - m
  BY <1>2
<1>4. ASSUME NEW x \in S PROVE m >= x
  <2>1. n - x \in T /\ m \in Nat /\ x \in Nat
    OBVIOUS
  <2>2. n - m <= n - x
    BY <1>2, <1>3, <2>1
  <2> QED
    BY <2>1, <2>2
<1>5. Max(S) \in S /\ \A x \in S : Max(S) >= x
  BY <1>4 DEF Max
<1>6. \A x \in S : x \in Int
  OBVIOUS
<1> QED
  BY <1>5, <1>6

LEMMA FiniteMaximum ==
    ASSUME NEW S \in SUBSET Nat, IsFiniteSet(S), S # {}
    PROVE  \E x \in S : \A y \in S : y <= x
<1> DEFINE same == [x \in S |-> x]
           sum == SumOver(same, S)
<1>1. same \in [S -> Nat] /\ S \in SUBSET S
  OBVIOUS
<1>2. sum \in Nat
  BY <1>1, SumFacts
<1>3. ASSUME NEW x \in S PROVE x \in 0 .. sum
  <2>1. same[x] <= sum
    BY <1>1, SumAbove
  <2>2. x <= sum /\ x \in Nat
    BY <2>1
  <2> QED
    BY <1>2, <2>2
<1> HIDE DEF sum
<1>4. Max(S) \in S /\ \A x \in S : x <= Max(S)
  BY <1>2, <1>3, MaxFacts
<1> QED
  BY <1>4

RoundedUp(p, k) == ((p + k - 1) \div k) * k

LEMMA RoundedUpFacts ==
    ASSUME NEW k \in Nat \ {0}, NEW p \in Nat
    PROVE  RoundedUp(p, k) \in Nat /\ RoundedUp(p, k) >= p
<1> DEFINE a == p + k - 1
<1>1. a \in Nat
  OBVIOUS
<1>2. a \div k \in Nat /\ a % k \in 0 .. k - 1 /\ a = k * (a \div k) + (a % k)
  BY <1>1
<1> QED
  BY <1>2 DEF RoundedUp

LEMMA RoundedUpMonotone ==
    ASSUME NEW k \in Nat \ {0}, NEW p \in Nat, NEW q \in Nat, p <= q
    PROVE  RoundedUp(p, k) <= RoundedUp(q, k)
<1> DEFINE a == p + k - 1
           b == q + k - 1
           x == a \div k
           y == b \div k
<1>1. a \in Nat /\ b \in Nat /\ a <= b
  OBVIOUS
<1>2. x \in Nat /\ a % k \in 0 .. k - 1 /\ a = k * x + (a % k)
  BY <1>1
<1>3. y \in Nat /\ b % k \in 0 .. k - 1 /\ b = k * y + (b % k)
  BY <1>1
<1> HIDE DEF x, y
<1>4. x <= y
  <2> SUFFICES ASSUME x > y PROVE FALSE
    BY <1>2, <1>3
  <2>1. PICK e \in Nat : x = y + 1 + e
    <3>1. x - y - 1 \in Nat /\ x = y + 1 + (x - y - 1)
      BY <1>2, <1>3
    <3> QED
      BY <3>1
  <2>2. k * x = k * y + k + k * e /\ k * e >= 0
    BY <1>3, <2>1
  <2> QED
    BY <1>1, <1>2, <1>3, <2>2
<1>5. x * k <= y * k
  <2>1. PICK e \in Nat : y = x + e
    <3>1. y - x \in Nat /\ y = x + (y - x)
      BY <1>2, <1>3, <1>4
    <3> QED
      BY <3>1
  <2>2. y * k = x * k + e * k /\ e * k >= 0
    BY <1>2, <2>1
  <2>3. x * k \in Int /\ e * k \in Int
    BY <1>2
  <2> QED
    BY <2>2, <2>3
<1> QED
  BY <1>5 DEF RoundedUp, x, y

(* A multiple of r divides without a remainder. *)
LEMMA ExactDivision ==
    ASSUME NEW r \in Nat \ {0}, NEW x \in Nat, NEW n \in Nat, n % r = 0
    PROVE  (x * n) \div r \in Nat /\ r * ((x * n) \div r) = x * n
<1> DEFINE q == n \div r
           a == x * n
           d == a \div r
<1>1. q \in Nat /\ n = r * q
  <2>1. q \in Nat /\ n = r * q + (n % r)
    OBVIOUS
  <2> QED
    BY <2>1
<1>2. a \in Nat
  OBVIOUS
<1>3. a = r * (x * q) /\ x * q \in Nat
  BY <1>1
<1> HIDE DEF a, q
<1>4. d \in Nat /\ a % r \in 0 .. r - 1 /\ a = r * d + (a % r)
  BY <1>2
<1> DEFINE e == x * q
<1> HIDE DEF d, e
<1>5. d = e
  <2>1. a = r * e /\ e \in Nat
    BY <1>3 DEF e
  <2>2. r * (e - d) = a % r
    BY <1>4, <2>1
  <2>3. CASE e > d
    <3>1. PICK k \in Nat : e - d = k + 1
      <4>1. e - d - 1 \in Nat /\ e - d = (e - d - 1) + 1
        BY <1>4, <2>1, <2>3
      <4> QED
        BY <4>1
    <3>2. r * (k + 1) = r * k + r /\ r * k \in Nat
      OBVIOUS
    <3> QED
      BY <1>4, <2>2, <3>1, <3>2
  <2>4. CASE e < d
    <3>1. PICK k \in Nat : e - d = -(k + 1)
      <4>1. d - e - 1 \in Nat /\ e - d = -((d - e - 1) + 1)
        BY <1>4, <2>1, <2>4
      <4> QED
        BY <4>1
    <3>2. r * (-(k + 1)) = -(r * k) - r /\ r * k \in Nat
      OBVIOUS
    <3> QED
      BY <1>4, <2>2, <3>1, <3>2
  <2> QED
    BY <1>4, <2>1, <2>3, <2>4
<1> QED
  BY <1>3, <1>4, <1>5 DEF a, d, e

LEMMA Scaled ==
    ASSUME NEW k \in Nat, NEW x \in Nat, NEW y \in Nat, x <= y
    PROVE  k * x <= k * y /\ k * x \in Nat /\ k * y \in Nat
<1>1. PICK e \in Nat : y = x + e
  <2>1. y - x \in Nat /\ y = x + (y - x)
    OBVIOUS
  <2> QED
    BY <2>1
<1>2. k * y = k * x + k * e /\ k * e \in Nat /\ k * x \in Nat
  BY <1>1
<1> QED
  BY <1>2

LEMMA Cancelled ==
    ASSUME NEW k \in Nat \ {0}, NEW x \in Nat, NEW y \in Nat, k * x <= k * y
    PROVE  x <= y
<1> SUFFICES ASSUME y < x PROVE FALSE
  OBVIOUS
<1>1. PICK e \in Nat : x = y + 1 + e
  <2>1. x - y - 1 \in Nat /\ x = y + 1 + (x - y - 1)
    OBVIOUS
  <2> QED
    BY <2>1
<1>2. k * x = k * y + k + k * e /\ k * e \in Nat /\ k * y \in Nat
  BY <1>1
<1> QED
  BY <1>2

----------------------------------------------------------------------------
(***************************************************************************)
(* Places: the k-th of m in the r-th row, rows and columns from 1, places  *)
(* from 0.                                                                 *)
(***************************************************************************)
PlaceNo(m, r, k) == (r - 1) * m + k - 1

LEMMA PlaceSteps ==
    ASSUME NEW m \in Nat, NEW r \in Nat \ {0}
    PROVE  /\ \A k \in Nat \ {0} : PlaceNo(m, r, k) \in Nat /\ PlaceNo(m, r, k + 1) = PlaceNo(m, r, k) + 1
           /\ PlaceNo(m, r, m + 1) = PlaceNo(m, r + 1, 1)
<1>1. (r - 1) * m \in Nat /\ (r + 1 - 1) * m = (r - 1) * m + m
  OBVIOUS
<1> QED
  BY <1>1 DEF PlaceNo

LEMMA PlaceOrder ==
    ASSUME NEW m \in Nat, NEW r \in Nat \ {0}, NEW s \in Nat \ {0}, r < s,
           NEW j \in 1 .. m, NEW k \in 1 .. m
    PROVE  PlaceNo(m, r, j) < PlaceNo(m, s, k)
<1>1. PICK d \in Nat : s = r + 1 + d
  <2>1. s - r - 1 \in Nat /\ s = r + 1 + (s - r - 1)
    OBVIOUS
  <2> QED
    BY <2>1
<1>2. (s - 1) * m = (r - 1) * m + m + d * m
  BY <1>1
<1>3. d * m \in Nat /\ (r - 1) * m \in Nat
  OBVIOUS
<1> QED
  BY <1>2, <1>3 DEF PlaceNo

LEMMA PlaceInjective ==
    ASSUME NEW m \in Nat, NEW r \in Nat \ {0}, NEW s \in Nat \ {0},
           NEW j \in 1 .. m, NEW k \in 1 .. m, PlaceNo(m, r, j) = PlaceNo(m, s, k)
    PROVE  r = s /\ j = k
<1>1. PlaceNo(m, r, j) \in Nat /\ PlaceNo(m, s, k) \in Nat
  <2>1. j \in Nat \ {0} /\ k \in Nat \ {0}
    OBVIOUS
  <2> QED
    BY <2>1, PlaceSteps
<1>2. r = s
  BY <1>1, PlaceOrder
<1>3. (r - 1) * m \in Int
  OBVIOUS
<1> QED
  BY <1>2, <1>3 DEF PlaceNo

(* Every place has a row and a column. *)
LEMMA PlaceOf ==
    ASSUME NEW m \in Nat \ {0}, NEW i \in Nat
    PROVE  /\ i \div m + 1 \in Nat \ {0} /\ (i % m) + 1 \in 1 .. m
           /\ PlaceNo(m, i \div m + 1, (i % m) + 1) = i
<1>1. i \div m \in Nat /\ i % m \in 0 .. m - 1 /\ i = m * (i \div m) + (i % m)
  OBVIOUS
<1>2. m * (i \div m) = (i \div m + 1 - 1) * m
  BY <1>1
<1>3. (i \div m + 1 - 1) * m \in Nat
  BY <1>1
<1> QED
  BY <1>1, <1>2, <1>3 DEF PlaceNo

(* The neighbours on a ring. *)
LEMMA RingSteps ==
    ASSUME NEW n \in Nat \ {0}, NEW c \in 0 .. n - 1
    PROVE  /\ (c - 1) % n = IF c = 0 THEN n - 1 ELSE c - 1
           /\ (c + 1) % n = IF c = n - 1 THEN 0 ELSE c + 1
           /\ \A k \in 0 .. n - 1 : (c - k) % n = IF c >= k THEN c - k ELSE c - k + n
OBVIOUS

=============================================================================
