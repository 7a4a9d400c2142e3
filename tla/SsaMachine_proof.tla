-------------------------- MODULE SsaMachine_proof --------------------------
(***************************************************************************)
(* Proofs about SsaMachine, for every set of well-formed kernels.          *)
(***************************************************************************)
EXTENDS SsaMachine, CommonLemmas, SequenceTheorems

(***************************************************************************)
(* Sequences and bindings.                                                 *)
(***************************************************************************)
LEMMA SeqFacts ==
    ASSUME NEW s, IsSeq(s)
    PROVE  Len(s) \in Nat /\ DOMAIN s = 1 .. Len(s) /\ s = [i \in 1 .. Len(s) |-> s[i]]
BY DEF IsSeq

LEMMA EmptyIsSeq == IsSeq(<<>>) /\ Len(<<>>) = 0
BY DEF IsSeq, Range

LEMMA RangeIs ==
    ASSUME NEW s, IsSeq(s), NEW x
    PROVE  x \in Range(s) <=> \E i \in 1 .. Len(s) : s[i] = x
BY SeqFacts DEF Range

LEMMA FunctionIsSeq ==
    ASSUME NEW n \in Nat, NEW s, s = [i \in 1 .. n |-> s[i]]
    PROVE  IsSeq(s) /\ Len(s) = n
<1>1. DOMAIN s = 1 .. n
  OBVIOUS
<1>2. \A i \in 1 .. n : s[i] \in Range(s)
  BY <1>1 DEF Range
<1>3. s \in [1 .. n -> Range(s)]
  BY <1>2
<1>4. s \in Seq(Range(s))
  BY <1>3
<1> QED
  BY <1>3, <1>4 DEF IsSeq

LEMMA MemberIsSeq ==
    ASSUME NEW S, NEW s \in Seq(S)
    PROVE  IsSeq(s)
<1>1. s \in [1 .. Len(s) -> S] /\ Len(s) \in Nat
  OBVIOUS
<1>2. s = [i \in 1 .. Len(s) |-> s[i]]
  BY <1>1
<1> QED
  BY <1>1, <1>2, FunctionIsSeq

IsAppend(s, e, r) ==
    /\ IsSeq(r) /\ Len(r) = Len(s) + 1
    /\ \A i \in 1 .. Len(s) : r[i] = s[i]
    /\ r[Len(s) + 1] = e

LEMMA AppendIs ==
    ASSUME NEW s, IsSeq(s), NEW e
    PROVE  IsAppend(s, e, Append(s, e))
<1> DEFINE S == Range(s) \cup {e}
           r == Append(s, e)
<1>1. s \in Seq(Range(s)) /\ e \in S
  BY DEF IsSeq
<1>2. s \in Seq(S)
  BY <1>1
<1>3. /\ r \in Seq(S) /\ Len(r) = Len(s) + 1 /\ Len(s) \in Nat
      /\ \A i \in 1 .. Len(s) : r[i] = s[i]
      /\ r[Len(s) + 1] = e
  BY <1>1, <1>2
<1>4. IsSeq(r)
  BY <1>3, MemberIsSeq
<1> QED
  BY <1>3, <1>4 DEF IsAppend

IsConcat(s, r, sr) ==
    /\ IsSeq(sr) /\ Len(sr) = Len(s) + Len(r)
    /\ \A i \in 1 .. Len(s) : sr[i] = s[i]
    /\ \A i \in 1 .. Len(r) : sr[Len(s) + i] = r[i]

LEMMA ConcatIs ==
    ASSUME NEW s, IsSeq(s), NEW r, IsSeq(r)
    PROVE  IsConcat(s, r, s \o r)
<1> DEFINE S == Range(s) \cup Range(r)
           sr == s \o r
<1>1. s \in Seq(Range(s)) /\ r \in Seq(Range(r)) /\ Len(s) \in Nat /\ Len(r) \in Nat
  BY DEF IsSeq
<1>2. s \in Seq(S) /\ r \in Seq(S)
  BY <1>1
<1>3. sr \in Seq(S)
  BY <1>2
<1>4. /\ Len(sr) = Len(s) + Len(r)
      /\ \A i \in 1 .. Len(s) + Len(r) : sr[i] = IF i <= Len(s) THEN s[i] ELSE r[i - Len(s)]
  BY <1>2
<1>5. IsSeq(sr)
  BY <1>3, MemberIsSeq
<1> HIDE DEF sr
<1>6. \A i \in 1 .. Len(s) : sr[i] = s[i]
  BY <1>1, <1>4
<1>7. \A i \in 1 .. Len(r) : sr[Len(s) + i] = r[i]
  <2> TAKE i \in 1 .. Len(r)
  <2>1. Len(s) + i \in 1 .. Len(s) + Len(r) /\ ~(Len(s) + i <= Len(s)) /\ Len(s) + i - Len(s) = i
    BY <1>1
  <2> QED
    BY <2>1, <1>4
<1> QED
  BY <1>4, <1>5, <1>6, <1>7 DEF IsConcat, sr

IsFront(s, r) ==
    /\ IsSeq(r) /\ Len(r) = Len(s) - 1
    /\ \A i \in 1 .. Len(s) - 1 : r[i] = s[i]

LEMMA FrontIs ==
    ASSUME NEW s, IsSeq(s), Len(s) >= 1
    PROVE  IsFront(s, Front(s))
<1> DEFINE r == SubSeq(s, 1, Len(s) - 1)
<1>1. s \in Seq(Range(s)) /\ Len(s) \in Nat
  BY DEF IsSeq
<1>a. \A i \in 1 .. Len(s) - 1 : s[i] \in Range(s)
  BY <1>1
<1>2. /\ r \in Seq(Range(s))
      /\ Len(r) = IF 1 <= Len(s) - 1 THEN Len(s) - 1 - 1 + 1 ELSE 0
      /\ \A i \in 1 .. Len(s) - 1 - 1 + 1 : r[i] = s[1 + i - 1]
  <2> HIDE DEF r
  <2>1. 1 \in Int /\ Len(s) - 1 \in Int
    BY <1>1
  <2> QED
    BY <2>1, <1>a, SubSeqProperties DEF r
<1>3. Len(r) = Len(s) - 1 /\ \A i \in 1 .. Len(s) - 1 : r[i] = s[i]
  <2> HIDE DEF r
  <2>a. ASSUME NEW k \in Nat, k >= 1
        PROVE  (IF 1 <= k - 1 THEN k - 1 - 1 + 1 ELSE 0) = k - 1
    BY <2>a
  <2>b. Len(r) = IF 1 <= Len(s) - 1 THEN Len(s) - 1 - 1 + 1 ELSE 0
    BY <1>2
  <2>1. Len(r) = Len(s) - 1
    BY <1>1, <2>a, <2>b
  <2>2. \A i \in Int : 1 + i - 1 = i
    OBVIOUS
  <2>3. Len(s) - 1 - 1 + 1 = Len(s) - 1
    BY <1>1
  <2> QED
    BY <1>2, <2>1, <2>2, <2>3
<1>4. IsSeq(r)
  BY <1>2, MemberIsSeq
<1> QED
  BY <1>3, <1>4 DEF IsFront, Front

IsReplaced(s, n, e, r) ==
    /\ IsSeq(r) /\ Len(r) = Len(s)
    /\ \A i \in 1 .. Len(s) : i # n => r[i] = s[i]
    /\ r[n] = e

LEMMA ReplaceIs ==
    ASSUME NEW s, IsSeq(s), NEW n \in 1 .. Len(s), NEW e
    PROVE  IsReplaced(s, n, e, [s EXCEPT ![n] = e])
<1> DEFINE r == [s EXCEPT ![n] = e]
<1>1. Len(s) \in Nat /\ DOMAIN s = 1 .. Len(s)
  BY SeqFacts
<1>2. r = [i \in 1 .. Len(s) |-> r[i]]
  BY <1>1
<1>3. IsSeq(r) /\ Len(r) = Len(s)
  BY <1>1, <1>2, FunctionIsSeq
<1> QED
  BY <1>1, <1>3 DEF IsReplaced

LEMMA OverlayIs ==
    ASSUME NEW f, NEW g
    PROVE  /\ DOMAIN Over(f, g) = DOMAIN f \cup DOMAIN g
           /\ \A x \in DOMAIN f : Over(f, g)[x] = f[x]
           /\ \A x \in DOMAIN g \ DOMAIN f : Over(f, g)[x] = g[x]
           /\ Over(f, g) = [x \in DOMAIN Over(f, g) |-> Over(f, g)[x]]
BY DEF Over

(* A row of names gets a row of values. *)
LEMMA AssignIs ==
    ASSUME NEW names, NEW vals, IsSeq(names), IsInjective(names)
    PROVE  /\ DOMAIN Assign(names, vals) = Range(names)
           /\ \A i \in 1 .. Len(names) : Assign(names, vals)[names[i]] = vals[i]
<1>1. DOMAIN names = 1 .. Len(names)
  BY SeqFacts
<1>2. \A i \in 1 .. Len(names) : (CHOOSE j \in DOMAIN names : names[j] = names[i]) = i
  BY <1>1 DEF IsInjective
<1> QED
  BY <1>1, <1>2 DEF Assign, Range

LEMMA WholeRow ==
    ASSUME NEW s, IsSeq(s)
    PROVE  SubSeq(s, 1, Len(s)) = s
BY SubSeqFull DEF IsSeq

(***************************************************************************)
(* The core's context.  Only the loop variable stands for a scalar.        *)
(***************************************************************************)
ScopeOK(c, s) ==
    /\ s = [n \in DOMAIN s |-> s[n]]
    /\ \A n \in DOMAIN s : IF n = "i" THEN s[n] = Scalar ELSE s[n] \in 1 .. Len(c.tiles)

CoreOK(c) ==
    /\ c = [scopes |-> c.scopes, uncharged |-> c.uncharged, tiles |-> c.tiles, bufs |-> c.bufs]
    /\ IsSeq(c.scopes) /\ IsSeq(c.tiles) /\ IsSeq(c.bufs)
    /\ \A d \in 1 .. Len(c.scopes) : ScopeOK(c, c.scopes[d])
    /\ \A t \in 1 .. Len(c.tiles) : c.tiles[t] \in 1 .. Len(c.bufs)
    /\ c.uncharged \subseteq BoundTiles(c.scopes)

(* Tile t is bound in one of the first d scopes. *)
HeldIn(c, d, t) == \E e \in 1 .. d : \E n \in DOMAIN c.scopes[e] : c.scopes[e][n] = t

(* No tile and no buffer goes away. *)
Extends(c, a) ==
    /\ Len(c.tiles) <= Len(a.tiles) /\ Len(c.bufs) <= Len(a.bufs)
    /\ \A t \in 1 .. Len(c.tiles) : a.tiles[t] = c.tiles[t]

(* The first d scopes and the literals in them stay. *)
Kept(c, a, d) ==
    /\ d <= Len(c.scopes) /\ d <= Len(a.scopes)
    /\ \A e \in 1 .. d : a.scopes[e] = c.scopes[e]
    /\ \A t \in 1 .. Len(c.tiles) : HeldIn(c, d, t) => (t \in a.uncharged <=> t \in c.uncharged)

(* Nothing is bound and no tile becomes a literal. *)
Tame(c, a) ==
    /\ a.uncharged \subseteq c.uncharged
    /\ \A d \in 1 .. Len(a.scopes) : \A n \in DOMAIN a.scopes[d] :
          /\ d \in 1 .. Len(c.scopes) /\ n \in DOMAIN c.scopes[d]
          /\ a.scopes[d][n] = c.scopes[d][n]

LEMMA BoundTilesAre ==
    ASSUME NEW scopes, IsSeq(scopes), NEW t
    PROVE  t \in BoundTiles(scopes) <=>
               /\ t # Scalar
               /\ \E d \in 1 .. Len(scopes) : \E n \in DOMAIN scopes[d] : scopes[d][n] = t
BY SeqFacts DEF BoundTiles, Range

LEMMA TilesAreHeld ==
    ASSUME NEW c, CoreOK(c), NEW t
    PROVE  /\ t \in BoundTiles(c.scopes) <=> t # Scalar /\ HeldIn(c, Len(c.scopes), t)
           /\ t \in BoundTiles(c.scopes) => t \in 1 .. Len(c.tiles)
           /\ t \in c.uncharged => t \in 1 .. Len(c.tiles) /\ HeldIn(c, Len(c.scopes), t)
<1>1. t \in BoundTiles(c.scopes) <=> t # Scalar /\ HeldIn(c, Len(c.scopes), t)
  BY BoundTilesAre DEF CoreOK, HeldIn
<1>2. t \in BoundTiles(c.scopes) => t \in 1 .. Len(c.tiles)
  BY <1>1 DEF CoreOK, ScopeOK, HeldIn
<1> QED
  BY <1>1, <1>2 DEF CoreOK

LEMMA LookupIs ==
    ASSUME NEW c, CoreOK(c), NEW n, Visible(c, n)
    PROVE  /\ Where(c, n) \in 1 .. Len(c.scopes) /\ n \in DOMAIN c.scopes[Where(c, n)]
           /\ Lookup(c, n) = c.scopes[Where(c, n)][n]
           /\ \A d \in 1 .. Len(c.scopes) : n \in DOMAIN c.scopes[d] => d <= Where(c, n)
           /\ n # "i" => Lookup(c, n) \in 1 .. Len(c.tiles)
           /\ n = "i" => Lookup(c, n) = Scalar
<1>1. Len(c.scopes) \in Nat /\ DOMAIN c.scopes = 1 .. Len(c.scopes)
  BY SeqFacts DEF CoreOK
<1>2. Depths(c, n) # {} /\ Depths(c, n) \subseteq 1 .. Len(c.scopes)
  BY <1>1 DEF Depths, Visible
<1>3. Where(c, n) \in Depths(c, n) /\ \A d \in Depths(c, n) : d <= Where(c, n)
  <2>1. Depths(c, n) \subseteq 0 .. Len(c.scopes)
    BY <1>1, <1>2
  <2> QED
    BY <1>1, <1>2, <2>1, MaxFacts DEF Where
<1>4. /\ Where(c, n) \in 1 .. Len(c.scopes) /\ n \in DOMAIN c.scopes[Where(c, n)]
      /\ \A d \in 1 .. Len(c.scopes) : n \in DOMAIN c.scopes[d] => d <= Where(c, n)
  BY <1>1, <1>2, <1>3 DEF Depths
<1>5. ScopeOK(c, c.scopes[Where(c, n)])
  BY <1>4 DEF CoreOK
<1> QED
  BY <1>4, <1>5 DEF Lookup, ScopeOK

LEMMA VisibleIs ==
    ASSUME NEW c, CoreOK(c), NEW n
    PROVE  Visible(c, n) <=> \E d \in 1 .. Len(c.scopes) : n \in DOMAIN c.scopes[d]
BY SeqFacts DEF CoreOK, Visible, Depths

(* Scopes lose names, or are closed. *)
IsPart(s, of) == DOMAIN s \subseteq DOMAIN of /\ s = [n \in DOMAIN s |-> of[n]]

LEMMA PartIs ==
    ASSUME NEW s, NEW of, IsPart(s, of), NEW n \in DOMAIN s
    PROVE  n \in DOMAIN of /\ s[n] = of[n]
<1>1. s[n] = [m \in DOMAIN s |-> of[m]][n]
  BY DEF IsPart
<1> QED
  BY <1>1 DEF IsPart

LEMMA ScopesChange ==
    ASSUME NEW c, CoreOK(c), NEW x, NEW y
    PROVE  [c EXCEPT !.scopes = x, !.uncharged = y] =
               [scopes |-> x, uncharged |-> y, tiles |-> c.tiles, bufs |-> c.bufs]
<1>1. PICK s, u, t, b : c = [scopes |-> s, uncharged |-> u, tiles |-> t, bufs |-> b]
  BY DEF CoreOK
<1>2. c.scopes = s /\ c.uncharged = u /\ c.tiles = t /\ c.bufs = b
  BY <1>1
<1> DEFINE d == [c EXCEPT !.scopes = x]
           e == [d EXCEPT !.uncharged = y]
<1>3. d = [scopes |-> x, uncharged |-> u, tiles |-> t, bufs |-> b]
  BY <1>1
<1>4. e = [scopes |-> x, uncharged |-> y, tiles |-> t, bufs |-> b]
  <2> HIDE DEF d
  <2> QED
    BY <1>3
<1>5. [c EXCEPT !.scopes = x, !.uncharged = y] = e
  OBVIOUS
<1> QED
  BY <1>2, <1>4, <1>5

LEMMA StoreChange ==
    ASSUME NEW c, CoreOK(c), NEW x, NEW y
    PROVE  [c EXCEPT !.tiles = x, !.bufs = y] =
               [scopes |-> c.scopes, uncharged |-> c.uncharged, tiles |-> x, bufs |-> y]
<1>1. PICK s, u, t, b : c = [scopes |-> s, uncharged |-> u, tiles |-> t, bufs |-> b]
  BY DEF CoreOK
<1>2. c.scopes = s /\ c.uncharged = u /\ c.tiles = t /\ c.bufs = b
  BY <1>1
<1> DEFINE d == [c EXCEPT !.tiles = x]
           e == [d EXCEPT !.bufs = y]
<1>3. d = [scopes |-> s, uncharged |-> u, tiles |-> x, bufs |-> b]
  BY <1>1
<1>4. e = [scopes |-> s, uncharged |-> u, tiles |-> x, bufs |-> y]
  <2> HIDE DEF d
  <2> QED
    BY <1>3
<1>5. [c EXCEPT !.tiles = x, !.bufs = y] = e
  OBVIOUS
<1> QED
  BY <1>2, <1>4, <1>5

LEMMA WithScopesIs ==
    ASSUME NEW c, CoreOK(c), NEW scopes
    PROVE  /\ WithScopes(c, scopes).scopes = scopes
           /\ WithScopes(c, scopes).uncharged = c.uncharged \cap BoundTiles(scopes)
           /\ WithScopes(c, scopes).tiles = c.tiles /\ WithScopes(c, scopes).bufs = c.bufs
           /\ WithScopes(c, scopes) =
                 [scopes |-> scopes, uncharged |-> c.uncharged \cap BoundTiles(scopes),
                  tiles |-> c.tiles, bufs |-> c.bufs]
<1>1. WithScopes(c, scopes) =
          [scopes |-> scopes, uncharged |-> c.uncharged \cap BoundTiles(scopes),
           tiles |-> c.tiles, bufs |-> c.bufs]
  BY ScopesChange DEF WithScopes
<1> QED
  BY <1>1

LEMMA Narrowed ==
    ASSUME NEW c, CoreOK(c), NEW scopes, IsSeq(scopes), Len(scopes) <= Len(c.scopes),
           \A d \in 1 .. Len(scopes) : IsPart(scopes[d], c.scopes[d]),
           NEW m \in 0 .. Len(scopes), \A d \in 1 .. m : scopes[d] = c.scopes[d]
    PROVE  LET a == WithScopes(c, scopes) IN
           CoreOK(a) /\ Extends(c, a) /\ Tame(c, a) /\ Kept(c, a, m)
<1> DEFINE a == WithScopes(c, scopes)
<1>1. /\ a.scopes = scopes /\ a.uncharged = c.uncharged \cap BoundTiles(scopes)
      /\ a.tiles = c.tiles /\ a.bufs = c.bufs
      /\ a = [scopes |-> a.scopes, uncharged |-> a.uncharged, tiles |-> a.tiles, bufs |-> a.bufs]
  BY WithScopesIs
<1>2. Len(c.scopes) \in Nat /\ Len(scopes) \in Nat /\ Len(c.tiles) \in Nat /\ Len(c.bufs) \in Nat
  BY SeqFacts DEF CoreOK
<1> HIDE DEF a
<1>3. ASSUME NEW d \in 1 .. Len(scopes) PROVE ScopeOK(a, scopes[d])
  <2>1. d \in 1 .. Len(c.scopes)
    BY <1>2
  <2>2. ScopeOK(c, c.scopes[d]) /\ IsPart(scopes[d], c.scopes[d])
    BY <2>1 DEF CoreOK
  <2> QED
    BY <2>2, <1>1 DEF ScopeOK, IsPart
<1>4. CoreOK(a)
  BY <1>1, <1>3 DEF CoreOK
<1>5. Extends(c, a)
  BY <1>1, <1>2 DEF Extends
<1>6. Tame(c, a)
  <2>1. ASSUME NEW d \in 1 .. Len(scopes), NEW n \in DOMAIN scopes[d]
        PROVE  d \in 1 .. Len(c.scopes) /\ n \in DOMAIN c.scopes[d] /\ scopes[d][n] = c.scopes[d][n]
    <3>1. d \in 1 .. Len(c.scopes) /\ IsPart(scopes[d], c.scopes[d])
      BY <1>2
    <3> QED
      BY <3>1, PartIs
  <2> QED
    BY <1>1, <2>1 DEF Tame
<1>7. Kept(c, a, m)
  <2>1. ASSUME NEW t \in 1 .. Len(c.tiles), HeldIn(c, m, t)
        PROVE  t \in BoundTiles(scopes)
    <3>1. PICK e \in 1 .. m : \E n \in DOMAIN c.scopes[e] : c.scopes[e][n] = t
      BY <2>1 DEF HeldIn
    <3>2. e \in 1 .. Len(scopes) /\ scopes[e] = c.scopes[e]
      BY <1>2
    <3>3. t # Scalar
      BY <1>2 DEF Scalar
    <3> QED
      BY <3>1, <3>2, <3>3, BoundTilesAre
  <2> QED
    BY <1>1, <1>2, <2>1 DEF Kept
<1> QED
  BY <1>4, <1>5, <1>6, <1>7 DEF a

(* What a fetch leaves in the topmost scope. *)
Consumed(c, names) ==
    {n \in Range(names) \cap usedOnce : n \in DOMAIN Last(c.scopes) /\ Last(c.scopes)[n] # Scalar}
FetchedIs(c, names, a) ==
    /\ CoreOK(a) /\ Extends(c, a) /\ Tame(c, a) /\ Kept(c, a, Len(c.scopes) - 1)
    /\ Len(a.scopes) = Len(c.scopes) /\ a.tiles = c.tiles /\ a.bufs = c.bufs
    /\ a.uncharged = c.uncharged \cap BoundTiles(a.scopes)
    /\ DOMAIN a.scopes[Len(c.scopes)] = DOMAIN c.scopes[Len(c.scopes)] \ Consumed(c, names)
    /\ \A d \in 1 .. Len(c.scopes) : \A n \in DOMAIN a.scopes[d] : a.scopes[d][n] = c.scopes[d][n]

LEMMA FetchKeeps ==
    ASSUME NEW c, CoreOK(c), Len(c.scopes) >= 1, NEW names
    PROVE  FetchedIs(c, names, Fetched(c, names))
<1> DEFINE top == Last(c.scopes)
           low == Without(top, Consumed(c, names))
           scopes == [c.scopes EXCEPT ![Len(c.scopes)] = low]
           a == WithScopes(c, scopes)
<1>1. Fetched(c, names) = a
  BY DEF Fetched, WithTop, Consumed
<1>2. Len(c.scopes) \in Nat /\ IsSeq(c.scopes)
  BY SeqFacts DEF CoreOK
<1>3. IsReplaced(c.scopes, Len(c.scopes), low, scopes)
  BY <1>2, ReplaceIs
<1>4. IsSeq(scopes) /\ Len(scopes) = Len(c.scopes) /\ scopes[Len(c.scopes)] = low
      /\ \A d \in 1 .. Len(c.scopes) - 1 : scopes[d] = c.scopes[d]
  BY <1>2, <1>3 DEF IsReplaced
<1> HIDE DEF scopes
<1>5. top = c.scopes[Len(c.scopes)]
  BY DEF Last
<1>6. \A d \in 1 .. Len(c.scopes) : ScopeOK(c, c.scopes[d])
  BY DEF CoreOK
<1>7. DOMAIN low = DOMAIN top \ Consumed(c, names) /\ IsPart(low, top)
  BY DEF Without, IsPart
<1>8. \A d \in 1 .. Len(scopes) : IsPart(scopes[d], c.scopes[d])
  <2> TAKE d \in 1 .. Len(scopes)
  <2>1. CASE d = Len(c.scopes)
    BY <2>1, <1>4, <1>5, <1>7
  <2>2. CASE d # Len(c.scopes)
    <3>1. scopes[d] = c.scopes[d] /\ ScopeOK(c, c.scopes[d])
      BY <2>2, <1>2, <1>4, <1>6
    <3> QED
      BY <3>1 DEF IsPart, ScopeOK
  <2> QED
    BY <2>1, <2>2
<1>9. Len(c.scopes) - 1 \in 0 .. Len(scopes)
  BY <1>2, <1>4
<1>10. CoreOK(a) /\ Extends(c, a) /\ Tame(c, a) /\ Kept(c, a, Len(c.scopes) - 1)
  BY <1>2, <1>4, <1>8, <1>9, Narrowed
<1>11. a.scopes = scopes /\ a.tiles = c.tiles /\ a.bufs = c.bufs
       /\ a.uncharged = c.uncharged \cap BoundTiles(scopes)
  BY WithScopesIs
<1> HIDE DEF a, low
<1>12. \A d \in 1 .. Len(c.scopes) : \A n \in DOMAIN a.scopes[d] : a.scopes[d][n] = c.scopes[d][n]
  BY <1>4, <1>8, <1>11, PartIs
<1> QED
  BY <1>1, <1>4, <1>5, <1>7, <1>10, <1>11, <1>12 DEF FetchedIs

PoppedIs(c, a) ==
    /\ CoreOK(a) /\ Extends(c, a) /\ Tame(c, a) /\ Kept(c, a, Len(c.scopes) - 1)
    /\ Len(a.scopes) = Len(c.scopes) - 1 /\ a.tiles = c.tiles /\ a.bufs = c.bufs

LEMMA PopKeeps ==
    ASSUME NEW c, CoreOK(c), Len(c.scopes) >= 1
    PROVE  PoppedIs(c, Popped(c))
<1> DEFINE scopes == Front(c.scopes)
           a == WithScopes(c, scopes)
<1>1. Len(c.scopes) \in Nat /\ IsSeq(c.scopes)
  BY SeqFacts DEF CoreOK
<1>2. IsFront(c.scopes, scopes)
  BY <1>1, FrontIs
<1> HIDE DEF scopes
<1>3. /\ IsSeq(scopes) /\ Len(scopes) = Len(c.scopes) - 1
      /\ \A d \in 1 .. Len(c.scopes) - 1 : scopes[d] = c.scopes[d]
  BY <1>2 DEF IsFront
<1>4. \A d \in 1 .. Len(c.scopes) : ScopeOK(c, c.scopes[d])
  BY DEF CoreOK
<1>5. \A d \in 1 .. Len(scopes) : IsPart(scopes[d], c.scopes[d])
  BY <1>1, <1>3, <1>4 DEF IsPart, ScopeOK
<1>6. CoreOK(a) /\ Extends(c, a) /\ Tame(c, a) /\ Kept(c, a, Len(scopes))
  BY <1>1, <1>3, <1>5, Narrowed
<1>7. a.scopes = scopes /\ a.tiles = c.tiles /\ a.bufs = c.bufs
  BY WithScopesIs
<1> QED
  BY <1>3, <1>6, <1>7 DEF PoppedIs, Popped, scopes

(* Tiles and buffers are added, and nothing else happens to the scopes. *)
GrownIs(c, a) ==
    /\ CoreOK(a) /\ Extends(c, a) /\ Tame(c, a) /\ Kept(c, a, Len(c.scopes))
    /\ a.scopes = c.scopes /\ a.uncharged = c.uncharged

LEMMA Grown ==
    ASSUME NEW c, CoreOK(c), NEW tiles, NEW bufs, IsSeq(tiles), IsSeq(bufs),
           Len(c.tiles) <= Len(tiles), Len(c.bufs) <= Len(bufs),
           \A t \in 1 .. Len(c.tiles) : tiles[t] = c.tiles[t],
           \A t \in 1 .. Len(tiles) : tiles[t] \in 1 .. Len(bufs),
           NEW a, a = [scopes |-> c.scopes, uncharged |-> c.uncharged, tiles |-> tiles, bufs |-> bufs]
    PROVE  GrownIs(c, a)
<1>1. /\ a.scopes = c.scopes /\ a.uncharged = c.uncharged /\ a.tiles = tiles /\ a.bufs = bufs
      /\ a = [scopes |-> a.scopes, uncharged |-> a.uncharged, tiles |-> a.tiles, bufs |-> a.bufs]
  OBVIOUS
<1>2. Len(c.scopes) \in Nat /\ Len(c.tiles) \in Nat /\ Len(tiles) \in Nat
  BY SeqFacts DEF CoreOK
<1>3. \A d \in 1 .. Len(c.scopes) : ScopeOK(a, c.scopes[d])
  <2> TAKE d \in 1 .. Len(c.scopes)
  <2>1. ScopeOK(c, c.scopes[d])
    BY DEF CoreOK
  <2>2. \A n \in DOMAIN c.scopes[d] :
            IF n = "i" THEN c.scopes[d][n] = Scalar ELSE c.scopes[d][n] \in 1 .. Len(tiles)
    BY <2>1, <1>2 DEF ScopeOK
  <2> QED
    BY <1>1, <2>1, <2>2 DEF ScopeOK
<1>4. CoreOK(a)
  BY <1>1, <1>3 DEF CoreOK
<1>5. DOMAIN c.scopes = 1 .. Len(c.scopes)
  BY SeqFacts DEF CoreOK
<1> QED
  BY <1>1, <1>2, <1>4 DEF GrownIs, Extends, Tame, Kept

MadeIs(c, a, term) ==
    /\ GrownIs(c, a)
    /\ Len(a.tiles) = Len(c.tiles) + 1 /\ Len(a.bufs) = Len(c.bufs) + 1
    /\ a.tiles[Len(c.tiles) + 1] = Len(c.bufs) + 1
    /\ \A b \in 1 .. Len(c.bufs) : a.bufs[b] = c.bufs[b]
    /\ a.bufs[Len(c.bufs) + 1] = term
    /\ Newest(a) = Len(c.tiles) + 1 /\ Newest(a) \in 1 .. Len(a.tiles)

LEMMA MakeKeeps ==
    ASSUME NEW c, CoreOK(c), NEW term
    PROVE  MadeIs(c, Made(c, term), term)
<1> DEFINE tiles == Append(c.tiles, Len(c.bufs) + 1)
           bufs == Append(c.bufs, term)
           a == Made(c, term)
<1>1. /\ IsAppend(c.tiles, Len(c.bufs) + 1, tiles) /\ IsAppend(c.bufs, term, bufs)
      /\ Len(c.tiles) \in Nat /\ Len(c.bufs) \in Nat
  BY AppendIs, SeqFacts DEF CoreOK
<1> HIDE DEF tiles, bufs
<1>2. a = [scopes |-> c.scopes, uncharged |-> c.uncharged, tiles |-> tiles, bufs |-> bufs]
  BY StoreChange DEF Made, tiles, bufs
<1>3. \A t \in 1 .. Len(c.tiles) : c.tiles[t] \in 1 .. Len(c.bufs)
  BY DEF CoreOK
<1> HIDE DEF a
<1>4. \A t \in 1 .. Len(tiles) : tiles[t] \in 1 .. Len(bufs)
  <2> TAKE t \in 1 .. Len(tiles)
  <2>1. t \in 1 .. Len(c.tiles) \/ t = Len(c.tiles) + 1
    BY <1>1 DEF IsAppend
  <2> QED
    BY <2>1, <1>1, <1>3 DEF IsAppend
<1>5. GrownIs(c, a)
  BY <1>1, <1>2, <1>4, Grown DEF IsAppend
<1>6. a.tiles = tiles /\ a.bufs = bufs
  BY <1>2
<1> QED
  BY <1>1, <1>5, <1>6 DEF MadeIs, IsAppend, Newest, a

ViewedIs(c, a, v) ==
    /\ GrownIs(c, a)
    /\ Len(a.tiles) = Len(c.tiles) + 1 /\ a.tiles[Len(c.tiles) + 1] = c.tiles[v]
    /\ a.bufs = c.bufs
    /\ Newest(a) = Len(c.tiles) + 1 /\ Newest(a) \in 1 .. Len(a.tiles)

LEMMA ViewKeeps ==
    ASSUME NEW c, CoreOK(c), NEW v \in 1 .. Len(c.tiles)
    PROVE  ViewedIs(c, Viewed(c, v), v)
<1> DEFINE tiles == Append(c.tiles, c.tiles[v])
           a == Viewed(c, v)
<1>1. IsAppend(c.tiles, c.tiles[v], tiles) /\ Len(c.tiles) \in Nat /\ Len(c.bufs) \in Nat
  BY AppendIs, SeqFacts DEF CoreOK
<1> HIDE DEF tiles
<1>2. a = [scopes |-> c.scopes, uncharged |-> c.uncharged, tiles |-> tiles, bufs |-> c.bufs]
  <2>1. PICK s, u, t, b : c = [scopes |-> s, uncharged |-> u, tiles |-> t, bufs |-> b]
    BY DEF CoreOK
  <2>2. c.scopes = s /\ c.uncharged = u /\ c.tiles = t /\ c.bufs = b
    BY <2>1
  <2>3. a = [c EXCEPT !.tiles = tiles]
    BY DEF Viewed, tiles
  <2> HIDE DEF a
  <2> QED
    BY <2>1, <2>2, <2>3
<1>3. \A t \in 1 .. Len(c.tiles) : c.tiles[t] \in 1 .. Len(c.bufs)
  BY DEF CoreOK
<1> HIDE DEF a
<1>4. \A t \in 1 .. Len(tiles) : tiles[t] \in 1 .. Len(c.bufs)
  <2> TAKE t \in 1 .. Len(tiles)
  <2>1. t \in 1 .. Len(c.tiles) \/ t = Len(c.tiles) + 1
    BY <1>1 DEF IsAppend
  <2> QED
    BY <2>1, <1>1, <1>3 DEF IsAppend
<1>5. IsSeq(c.bufs)
  BY DEF CoreOK
<1>6. GrownIs(c, a)
  BY <1>1, <1>2, <1>4, <1>5, Grown DEF IsAppend
<1>7. a.tiles = tiles /\ a.bufs = c.bufs
  BY <1>2
<1> QED
  BY <1>1, <1>6, <1>7 DEF ViewedIs, IsAppend, Newest, a

WrittenIs(c, a, k, term) ==
    /\ GrownIs(c, a)
    /\ a.tiles = c.tiles /\ Len(a.bufs) = Len(c.bufs)
    /\ \A b \in 1 .. Len(c.bufs) : b # k => a.bufs[b] = c.bufs[b]
    /\ a.bufs[k] = term

LEMMA WriteKeeps ==
    ASSUME NEW c, CoreOK(c), NEW k \in 1 .. Len(c.bufs), NEW term
    PROVE  WrittenIs(c, [c EXCEPT !.bufs[k] = term], k, term)
<1> DEFINE bufs == [c.bufs EXCEPT ![k] = term]
           a == [c EXCEPT !.bufs[k] = term]
<1>1. IsReplaced(c.bufs, k, term, bufs) /\ Len(c.tiles) \in Nat /\ Len(c.bufs) \in Nat
  BY ReplaceIs, SeqFacts DEF CoreOK
<1> HIDE DEF bufs
<1>2. a = [scopes |-> c.scopes, uncharged |-> c.uncharged, tiles |-> c.tiles, bufs |-> bufs]
  <2>1. PICK s, u, t, b : c = [scopes |-> s, uncharged |-> u, tiles |-> t, bufs |-> b]
    BY DEF CoreOK
  <2>2. c.scopes = s /\ c.uncharged = u /\ c.tiles = t /\ c.bufs = b
    BY <2>1
  <2>3. a = [c EXCEPT !.bufs = bufs]
    BY DEF bufs
  <2> HIDE DEF a
  <2> QED
    BY <2>1, <2>2, <2>3
<1> HIDE DEF a
<1>3. \A t \in 1 .. Len(c.tiles) : c.tiles[t] \in 1 .. Len(bufs)
  BY <1>1 DEF CoreOK, IsReplaced
<1>4. IsSeq(c.tiles)
  BY DEF CoreOK
<1>5. GrownIs(c, a)
  BY <1>1, <1>2, <1>3, <1>4, Grown DEF IsReplaced
<1>6. a.tiles = c.tiles /\ a.bufs = bufs
  BY <1>2
<1> QED
  BY <1>1, <1>5, <1>6 DEF WrittenIs, IsReplaced, a

(* The copies a loop starts with. *)
InitsAre(names, a, vals) ==
    /\ GrownIs(core, a) /\ IsSeq(vals) /\ Len(vals) = Len(names)
    /\ Len(a.tiles) = Len(core.tiles) + Len(names) /\ Len(a.bufs) = Len(core.bufs) + Len(names)
    /\ \A b \in 1 .. Len(core.bufs) : a.bufs[b] = core.bufs[b]
    /\ \A i \in 1 .. Len(names) :
          /\ vals[i] = Len(core.tiles) + i /\ vals[i] \in 1 .. Len(a.tiles)
          /\ a.tiles[Len(core.tiles) + i] = Len(core.bufs) + i
          /\ a.bufs[Len(core.bufs) + i] = Holds(core, Lookup(core, names[i]))

LEMMA InitsKeep ==
    ASSUME CoreOK(core), NEW names, IsSeq(names)
    PROVE  InitsAre(names, IterInits(names).core, IterInits(names).vals)
<1> DEFINE fresh == [i \in DOMAIN names |-> Len(core.bufs) + i]
           terms == Contents(names)
           tiles == core.tiles \o fresh
           bufs == core.bufs \o terms
           vals == [i \in DOMAIN names |-> Newest(core) + i]
           a == [core EXCEPT !.tiles = tiles, !.bufs = bufs]
<1>1. Len(names) \in Nat /\ DOMAIN names = 1 .. Len(names)
  BY SeqFacts
<1>2. /\ IsSeq(fresh) /\ Len(fresh) = Len(names)
      /\ \A i \in 1 .. Len(names) : fresh[i] = Len(core.bufs) + i
  BY <1>1, FunctionIsSeq
<1>3. /\ IsSeq(terms) /\ Len(terms) = Len(names)
      /\ \A i \in 1 .. Len(names) : terms[i] = Holds(core, Lookup(core, names[i]))
  BY <1>1, FunctionIsSeq DEF Contents
<1>4. /\ IsSeq(vals) /\ Len(vals) = Len(names)
      /\ \A i \in 1 .. Len(names) : vals[i] = Len(core.tiles) + i
  BY <1>1, FunctionIsSeq DEF Newest
<1>5. a = IterInits(names).core /\ vals = IterInits(names).vals
  BY DEF IterInits
<1> HIDE DEF fresh, terms, vals
<1>6. /\ IsConcat(core.tiles, fresh, tiles) /\ IsConcat(core.bufs, terms, bufs)
      /\ Len(core.tiles) \in Nat /\ Len(core.bufs) \in Nat
  BY <1>2, <1>3, ConcatIs, SeqFacts DEF CoreOK
<1> HIDE DEF tiles, bufs
<1>7. a = [scopes |-> core.scopes, uncharged |-> core.uncharged, tiles |-> tiles, bufs |-> bufs]
  BY StoreChange
<1> HIDE DEF a
<1>8. \A t \in 1 .. Len(core.tiles) : core.tiles[t] \in 1 .. Len(core.bufs)
  BY DEF CoreOK
<1>9. \A t \in 1 .. Len(tiles) : tiles[t] \in 1 .. Len(bufs)
  <2> TAKE t \in 1 .. Len(tiles)
  <2>1. CASE t \in 1 .. Len(core.tiles)
    <3>1. tiles[t] = core.tiles[t] /\ Len(bufs) = Len(core.bufs) + Len(names)
      BY <2>1, <1>3, <1>6 DEF IsConcat
    <3>2. core.tiles[t] \in 1 .. Len(core.bufs)
      BY <2>1, <1>8
    <3> QED
      BY <3>1, <3>2, <1>1, <1>6
  <2>2. CASE t \notin 1 .. Len(core.tiles)
    <3> DEFINE i == t - Len(core.tiles)
    <3>1. i \in 1 .. Len(names) /\ t = Len(core.tiles) + i
      BY <2>2, <1>1, <1>2, <1>6 DEF IsConcat
    <3> HIDE DEF i
    <3>2. tiles[t] = Len(core.bufs) + i /\ Len(bufs) = Len(core.bufs) + Len(names)
      BY <3>1, <1>2, <1>3, <1>6 DEF IsConcat
    <3> QED
      BY <3>1, <3>2, <1>1, <1>6
  <2> QED
    BY <2>1, <2>2
<1>10. GrownIs(core, a)
  <2>1. /\ IsSeq(tiles) /\ IsSeq(bufs)
        /\ Len(core.tiles) <= Len(tiles) /\ Len(core.bufs) <= Len(bufs)
        /\ \A t \in 1 .. Len(core.tiles) : tiles[t] = core.tiles[t]
    BY <1>1, <1>2, <1>3, <1>6 DEF IsConcat
  <2> QED
    BY <2>1, <1>7, <1>9, Grown
<1>11. a.tiles = tiles /\ a.bufs = bufs
  BY <1>7
<1>12. \A i \in 1 .. Len(names) :
          /\ vals[i] = Len(core.tiles) + i /\ vals[i] \in 1 .. Len(tiles)
          /\ tiles[Len(core.tiles) + i] = Len(core.bufs) + i
          /\ bufs[Len(core.bufs) + i] = Holds(core, Lookup(core, names[i]))
  BY <1>1, <1>2, <1>3, <1>4, <1>6 DEF IsConcat
<1>13. /\ Len(tiles) = Len(core.tiles) + Len(names) /\ Len(bufs) = Len(core.bufs) + Len(names)
       /\ \A b \in 1 .. Len(core.bufs) : bufs[b] = core.bufs[b]
  BY <1>2, <1>3, <1>6 DEF IsConcat
<1> QED
  BY <1>4, <1>5, <1>10, <1>11, <1>12, <1>13 DEF InitsAre

(* A region's scope is opened. *)
PushedIs(c, a) ==
    /\ CoreOK(a) /\ Extends(c, a) /\ Kept(c, a, Len(c.scopes))
    /\ IsAppend(c.scopes, EmptyScope, a.scopes)
    /\ a.uncharged = c.uncharged /\ a.tiles = c.tiles /\ a.bufs = c.bufs

LEMMA PushKeeps ==
    ASSUME NEW c, CoreOK(c)
    PROVE  PushedIs(c, Pushed(c))
<1> DEFINE scopes == Append(c.scopes, EmptyScope)
           a == Pushed(c)
<1>1. /\ IsAppend(c.scopes, EmptyScope, scopes)
      /\ Len(c.scopes) \in Nat /\ Len(c.tiles) \in Nat /\ Len(c.bufs) \in Nat
  BY AppendIs, SeqFacts DEF CoreOK
<1> HIDE DEF scopes
<1>2. a = [scopes |-> scopes, uncharged |-> c.uncharged, tiles |-> c.tiles, bufs |-> c.bufs]
  <2>1. PICK s, u, t, b : c = [scopes |-> s, uncharged |-> u, tiles |-> t, bufs |-> b]
    BY DEF CoreOK
  <2>2. c.scopes = s /\ c.uncharged = u /\ c.tiles = t /\ c.bufs = b
    BY <2>1
  <2>3. a = [c EXCEPT !.scopes = scopes]
    BY DEF Pushed, scopes
  <2> HIDE DEF a
  <2> QED
    BY <2>1, <2>2, <2>3
<1> HIDE DEF a
<1>3. /\ a.scopes = scopes /\ a.uncharged = c.uncharged /\ a.tiles = c.tiles /\ a.bufs = c.bufs
      /\ a = [scopes |-> a.scopes, uncharged |-> a.uncharged, tiles |-> a.tiles, bufs |-> a.bufs]
  BY <1>2
<1>4. /\ IsSeq(scopes) /\ Len(scopes) = Len(c.scopes) + 1
      /\ \A d \in 1 .. Len(c.scopes) : scopes[d] = c.scopes[d]
      /\ scopes[Len(c.scopes) + 1] = EmptyScope
  BY <1>1 DEF IsAppend
<1>5. DOMAIN EmptyScope = {} /\ EmptyScope = [n \in DOMAIN EmptyScope |-> EmptyScope[n]]
  BY DEF EmptyScope
<1>6. \A d \in 1 .. Len(scopes) : ScopeOK(a, scopes[d])
  <2> TAKE d \in 1 .. Len(scopes)
  <2>1. CASE d \in 1 .. Len(c.scopes)
    <3>1. ScopeOK(c, c.scopes[d]) /\ scopes[d] = c.scopes[d]
      BY <2>1, <1>4 DEF CoreOK
    <3> QED
      BY <3>1, <1>3 DEF ScopeOK
  <2>2. CASE d = Len(c.scopes) + 1
    BY <2>2, <1>4, <1>5 DEF ScopeOK
  <2> QED
    BY <2>1, <2>2, <1>1, <1>4
<1>7. a.uncharged \subseteq BoundTiles(scopes)
  <2> SUFFICES ASSUME NEW t \in c.uncharged PROVE t \in BoundTiles(scopes)
    BY <1>3
  <2>1. t \in BoundTiles(c.scopes) /\ IsSeq(c.scopes)
    BY DEF CoreOK
  <2>2. t # Scalar /\ \E d \in 1 .. Len(c.scopes) : \E n \in DOMAIN c.scopes[d] : c.scopes[d][n] = t
    BY <2>1, BoundTilesAre
  <2>3. \E d \in 1 .. Len(scopes) : \E n \in DOMAIN scopes[d] : scopes[d][n] = t
    BY <2>2, <1>1, <1>4
  <2> QED
    BY <2>2, <2>3, <1>4, BoundTilesAre
<1>8. CoreOK(a)
  BY <1>3, <1>4, <1>6, <1>7 DEF CoreOK
<1>9. Extends(c, a) /\ Kept(c, a, Len(c.scopes))
  BY <1>1, <1>3, <1>4 DEF Extends, Kept
<1> QED
  BY <1>1, <1>3, <1>8, <1>9 DEF PushedIs, a

(* Values are bound to names in the topmost scope. *)
BoundIs(c, names, vals, charge, a) ==
    /\ CoreOK(a) /\ Kept(c, a, Len(c.scopes) - 1)
    /\ a.tiles = c.tiles /\ a.bufs = c.bufs /\ Len(a.scopes) = Len(c.scopes)
    /\ DOMAIN a.scopes[Len(c.scopes)] = DOMAIN c.scopes[Len(c.scopes)] \cup Range(names)
    /\ \A i \in 1 .. Len(names) : a.scopes[Len(c.scopes)][names[i]] = vals[i]
    /\ \A n \in DOMAIN c.scopes[Len(c.scopes)] \ Range(names) :
          /\ a.scopes[Len(c.scopes)][n] = c.scopes[Len(c.scopes)][n]
          /\ c.scopes[Len(c.scopes)][n] \in c.uncharged =>
                c.scopes[Len(c.scopes)][n] \in a.uncharged
    /\ a.uncharged \subseteq c.uncharged \cup IF charge THEN {} ELSE Range(vals)
    /\ ~charge => Range(vals) \ {Scalar} \subseteq a.uncharged

(* The values fit the names. *)
Fits(c, names, vals, charge) ==
    /\ IsSeq(names) /\ IsSeq(vals) /\ IsInjective(names) /\ Len(vals) = Len(names)
    /\ \A i \in 1 .. Len(names) :
          IF names[i] = "i" THEN vals[i] = Scalar ELSE vals[i] \in 1 .. Len(c.tiles)
    /\ ~charge => \A e \in 1 .. Len(c.scopes) : \A n \in DOMAIN c.scopes[e] :
                     c.scopes[e][n] \notin Range(vals)

LEMMA MinOfOne == \A k : Min({k, k}) = k
BY DEF Min

LEMMA BindKeeps ==
    ASSUME NEW c, CoreOK(c), Len(c.scopes) >= 1, NEW names, NEW vals, NEW charge \in BOOLEAN,
           Fits(c, names, vals, charge)
    PROVE  BoundIs(c, names, vals, charge, Bound(c, names, vals, charge))
<1> DEFINE N == Len(c.scopes)
           m == Len(names)
           top == c.scopes[N]
           outer == Front(c.scopes)
           given == Assign(names, vals)
           heldAt(i) == BoundTiles(Append(outer, Without(top, Range(SubSeq(names, 1, i)))))
                        \cup Range(SubSeq(vals, 1, i - 1))
           scopes == Append(outer, Over(given, top))
           uncharged == {t \in c.uncharged : \A i \in 1 .. m : t \in heldAt(i)}
                        \cup IF charge THEN {} ELSE Range(vals) \ {Scalar}
           a == Bound(c, names, vals, charge)
<1>1. /\ N \in Nat /\ m \in Nat /\ IsSeq(c.scopes) /\ Len(c.tiles) \in Nat
      /\ IsSeq(names) /\ IsSeq(vals) /\ IsInjective(names) /\ Len(vals) = m
  BY SeqFacts DEF CoreOK, Fits
<1>2. SubSeq(names, 1, m) = names /\ Min({Len(names), Len(vals)}) = m
  BY <1>1, WholeRow, MinOfOne
<1>3. a = [scopes |-> scopes, uncharged |-> uncharged, tiles |-> c.tiles, bufs |-> c.bufs]
  <2>1. a = [c EXCEPT !.scopes = scopes, !.uncharged = uncharged]
    BY <1>1, <1>2 DEF Bound, Last
  <2> HIDE DEF scopes, uncharged, a
  <2> QED
    BY <2>1, ScopesChange
<1>4. DOMAIN given = Range(names) /\ \A i \in 1 .. m : given[names[i]] = vals[i]
  BY <1>1, AssignIs
<1>5. /\ DOMAIN Over(given, top) = DOMAIN top \cup Range(names)
      /\ \A i \in 1 .. m : Over(given, top)[names[i]] = vals[i]
      /\ \A n \in DOMAIN top \ Range(names) : Over(given, top)[n] = top[n]
      /\ Over(given, top) = [n \in DOMAIN Over(given, top) |-> Over(given, top)[n]]
  <2>1. \A i \in 1 .. m : names[i] \in Range(names)
    BY <1>1, RangeIs
  <2> HIDE DEF given, top
  <2>2. /\ DOMAIN Over(given, top) = DOMAIN given \cup DOMAIN top
        /\ \A x \in DOMAIN given : Over(given, top)[x] = given[x]
        /\ \A x \in DOMAIN top \ DOMAIN given : Over(given, top)[x] = top[x]
        /\ Over(given, top) = [x \in DOMAIN Over(given, top) |-> Over(given, top)[x]]
    BY OverlayIs
  <2> DEFINE new == Over(given, top)
  <2> HIDE DEF new
  <2>3. /\ DOMAIN new = DOMAIN top \cup Range(names)
        /\ \A i \in 1 .. m : new[names[i]] = vals[i]
        /\ \A n \in DOMAIN top \ Range(names) : new[n] = top[n]
    BY <2>1, <2>2, <1>4 DEF new
  <2> QED
    BY <2>2, <2>3 DEF new
<1>6. IsFront(c.scopes, outer)
  BY <1>1, FrontIs
<1>7. IsAppend(outer, Over(given, top), scopes)
  BY <1>6, AppendIs DEF IsFront
<1>8. /\ IsSeq(scopes) /\ Len(scopes) = N
      /\ \A d \in 1 .. N - 1 : scopes[d] = c.scopes[d]
      /\ scopes[N] = Over(given, top)
  <2> HIDE DEF scopes, outer, given, top
  <2> QED
    BY <1>1, <1>6, <1>7 DEF IsFront, IsAppend
(* A literal that stays bound is a literal all the time. *)
<1>9. ASSUME NEW t \in c.uncharged,
             HeldIn(c, N - 1, t) \/ \E n \in DOMAIN top \ Range(names) : top[n] = t
      PROVE  t \in uncharged
  <2> SUFFICES ASSUME NEW i \in 1 .. m PROVE t \in heldAt(i)
    OBVIOUS
  <2> DEFINE some == Without(top, Range(SubSeq(names, 1, i)))
             held == Append(outer, some)
  <2>1. IsAppend(outer, some, held)
    BY <1>6, AppendIs DEF IsFront
  <2>2. /\ IsSeq(held) /\ Len(held) = N /\ held[N] = some
        /\ \A d \in 1 .. N - 1 : held[d] = c.scopes[d]
    <3> HIDE DEF held, outer, some, top
    <3> QED
      BY <1>1, <1>6, <2>1 DEF IsFront, IsAppend
  <2>3. Range(SubSeq(names, 1, i)) \subseteq Range(names)
    <3>1. i \in Int /\ 1 \in Int /\ \A k \in 1 .. i : names[k] \in Range(names)
      BY <1>1, RangeIs
    <3>2. SubSeq(names, 1, i) \in Seq(Range(names))
      BY <3>1, SubSeqProperties
    <3> QED
      BY <3>2 DEF Range
  <2>4. \A n \in DOMAIN top \ Range(names) : n \in DOMAIN some /\ some[n] = top[n]
    BY <2>3 DEF Without
  <2> HIDE DEF held, some, top
  <2>5. \E d \in 1 .. N : \E n \in DOMAIN held[d] : held[d][n] = t
    <3>1. CASE HeldIn(c, N - 1, t)
      BY <3>1, <1>1, <2>2 DEF HeldIn
    <3>2. CASE \E n \in DOMAIN top \ Range(names) : top[n] = t
      BY <3>2, <1>1, <2>2, <2>4
    <3> QED
      BY <3>1, <3>2, <1>9
  <2>6. t # Scalar
    BY TilesAreHeld, <1>1 DEF Scalar
  <2>7. t \in BoundTiles(held)
    BY <2>2, <2>5, <2>6, BoundTilesAre
  <2> QED
    BY <2>7 DEF held, some, top
<1>10. a.scopes = scopes /\ a.uncharged = uncharged /\ a.tiles = c.tiles /\ a.bufs = c.bufs
       /\ a = [scopes |-> a.scopes, uncharged |-> a.uncharged, tiles |-> a.tiles, bufs |-> a.bufs]
  BY <1>3
<1>11. \A d \in 1 .. N : ScopeOK(a, scopes[d])
  <2> TAKE d \in 1 .. N
  <2>1. ScopeOK(c, c.scopes[d])
    BY DEF CoreOK
  <2>2. CASE d # N
    BY <2>1, <2>2, <1>1, <1>8, <1>10 DEF ScopeOK
  <2>3. CASE d = N
    <3> HIDE DEF a, given, top, scopes
    <3>1. \A n \in DOMAIN top : IF n = "i" THEN top[n] = Scalar ELSE top[n] \in 1 .. Len(c.tiles)
      BY <2>1, <2>3 DEF ScopeOK, top
    <3>2. \A n \in Range(names) : \E i \in 1 .. m : names[i] = n
      BY <1>1, RangeIs
    <3>3. \A i \in 1 .. m : IF names[i] = "i" THEN vals[i] = Scalar ELSE vals[i] \in 1 .. Len(c.tiles)
      BY DEF Fits
    <3>4. \A n \in DOMAIN Over(given, top) :
              IF n = "i" THEN Over(given, top)[n] = Scalar ELSE Over(given, top)[n] \in 1 .. Len(c.tiles)
      BY <3>1, <3>2, <3>3, <1>5
    <3> QED
      BY <3>4, <2>3, <1>5, <1>8, <1>10 DEF ScopeOK
  <2> QED
    BY <2>2, <2>3
<1>12. uncharged \subseteq BoundTiles(scopes)
  <2> SUFFICES ASSUME NEW t \in uncharged PROVE t \in BoundTiles(scopes)
    OBVIOUS
  <2>1. \A i \in 1 .. m : \E n \in DOMAIN scopes[N] : scopes[N][n] = vals[i]
    <3>1. \A i \in 1 .. m : names[i] \in Range(names)
      BY <1>1, RangeIs
    <3> HIDE DEF given, top, scopes
    <3> QED
      BY <3>1, <1>5, <1>8
  <2>2. CASE t \in Range(vals) \ {Scalar}
    <3>1. \E i \in 1 .. m : vals[i] = t
      BY <2>2, <1>1, RangeIs
    <3> HIDE DEF scopes
    <3> QED
      BY <3>1, <2>1, <2>2, <1>1, <1>8, BoundTilesAre
  <2>3. CASE t \in c.uncharged /\ m = 0
    <3>1. Range(names) = {}
      BY <2>3, <1>1, RangeIs
    <3>2. t # Scalar /\ \E d \in 1 .. N : \E n \in DOMAIN c.scopes[d] : c.scopes[d][n] = t
      BY <2>3, TilesAreHeld, <1>1 DEF CoreOK, HeldIn, Scalar
    <3>3. \A d \in 1 .. N : \A n \in DOMAIN c.scopes[d] : n \in DOMAIN scopes[d] /\ scopes[d][n] = c.scopes[d][n]
      <4> HIDE DEF given, scopes
      <4> QED
        BY <3>1, <1>1, <1>5, <1>8
    <3> HIDE DEF scopes
    <3> QED
      BY <3>2, <3>3, <1>8, BoundTilesAre
  <2>4. CASE t \in c.uncharged /\ m # 0 /\ t \in heldAt(m)
    <3> DEFINE some == Without(top, Range(names))
               held == Append(outer, some)
    <3>1. t \in BoundTiles(held) \/ t \in Range(SubSeq(vals, 1, m - 1))
      BY <2>4, <1>2
    <3>2. t # Scalar
      BY <2>4, TilesAreHeld, <1>1 DEF Scalar
    <3>3. CASE t \in Range(SubSeq(vals, 1, m - 1))
      <4>1. t \in Range(vals)
        <5>1. m - 1 \in Int /\ 1 \in Int /\ \A k \in 1 .. m - 1 : vals[k] \in Range(vals)
          BY <1>1, RangeIs
        <5>2. SubSeq(vals, 1, m - 1) \in Seq(Range(vals))
          BY <5>1, SubSeqProperties
        <5> QED
          BY <5>2, <3>3 DEF Range
      <4> QED
        BY <4>1, <3>2, <2>2
    <3>4. CASE t \in BoundTiles(held)
      <4>1. IsAppend(outer, some, held)
        BY <1>6, AppendIs DEF IsFront
      <4>2. /\ IsSeq(held) /\ Len(held) = N /\ held[N] = some
            /\ \A d \in 1 .. N - 1 : held[d] = c.scopes[d]
        <5> HIDE DEF held, outer, some, top
        <5> QED
          BY <1>1, <1>6, <4>1 DEF IsFront, IsAppend
      <4>3. \A n \in DOMAIN some : n \in DOMAIN top \ Range(names) /\ some[n] = top[n]
        BY DEF Without
      <4> HIDE DEF held, some, top, scopes, given
      <4>4. \E d \in 1 .. N : \E n \in DOMAIN held[d] : held[d][n] = t
        BY <3>4, <4>2, BoundTilesAre
      <4>5. \E d \in 1 .. N : \E n \in DOMAIN scopes[d] : scopes[d][n] = t
        BY <4>2, <4>3, <4>4, <1>1, <1>5, <1>8
      <4> QED
        BY <4>5, <3>2, <1>8, BoundTilesAre
    <3> QED
      BY <3>1, <3>3, <3>4
  <2> QED
    BY <2>2, <2>3, <2>4, <1>1
<1>13. CoreOK(a)
  <2> HIDE DEF a, scopes, uncharged
  <2> QED
    BY <1>8, <1>10, <1>11, <1>12 DEF CoreOK
<1>14. Kept(c, a, N - 1)
  <2>1. ASSUME NEW t \in 1 .. Len(c.tiles), HeldIn(c, N - 1, t)
        PROVE  t \in uncharged <=> t \in c.uncharged
    <3>1. PICK e \in 1 .. N - 1 : \E n \in DOMAIN c.scopes[e] : c.scopes[e][n] = t
      BY <2>1 DEF HeldIn
    <3>2. e \in 1 .. N
      BY <1>1
    <3>3. ~charge => t \notin Range(vals)
      BY <3>1, <3>2 DEF Fits
    <3> QED
      BY <3>3, <1>9, <2>1
  <2> HIDE DEF a, scopes, uncharged
  <2> QED
    BY <2>1, <1>1, <1>8, <1>10 DEF Kept
<1>15. \A n \in DOMAIN top \ Range(names) : top[n] \in c.uncharged => top[n] \in uncharged
  BY <1>9
<1>16. /\ uncharged \subseteq c.uncharged \cup IF charge THEN {} ELSE Range(vals)
       /\ ~charge => Range(vals) \ {Scalar} \subseteq uncharged
  OBVIOUS
<1> HIDE DEF scopes, uncharged, given
<1>17. /\ a.tiles = c.tiles /\ a.bufs = c.bufs /\ Len(a.scopes) = N
       /\ DOMAIN a.scopes[N] = DOMAIN top \cup Range(names)
       /\ \A i \in 1 .. m : a.scopes[N][names[i]] = vals[i]
       /\ \A n \in DOMAIN top \ Range(names) : a.scopes[N][n] = top[n]
  BY <1>5, <1>8, <1>10
<1> QED
  BY <1>10, <1>13, <1>14, <1>15, <1>16, <1>17 DEF BoundIs

(***************************************************************************)
(* The regions being executed.                                             *)
(***************************************************************************)
IsSite(b, i) == prog \in Kernels /\ b \in DOMAIN prog /\ i \in 1 .. Len(prog[b])

LEMMA OpFacts ==
    ASSUME NEW b, NEW i, IsSite(b, i)
    PROVE  /\ IsOp(prog[b][i])
           /\ Range(prog[b][i].ins \o prog[b][i].outs) \subseteq InScope(prog, b, i)
           /\ Regions(prog[b][i]) \subseteq DOMAIN prog \ {"main"}
           /\ \A d \in Regions(prog[b][i]) : Terminated(prog[b][i], prog[d])
           /\ \A c, j : IsSite(c, j) /\ Regions(prog[b][i]) \cap Regions(prog[c][j]) # {} =>
                           c = b /\ j = i
<1>1. WellFormed(prog)
  BY KernelsAssumption DEF IsSite
<1>2. \A c \in DOMAIN prog : IsSeq(prog[c])
  BY <1>1 DEF WellFormed
<1>3. \A c, j : IsSite(c, j) => c \in DOMAIN prog /\ j \in DOMAIN prog[c]
  BY <1>2, SeqFacts DEF IsSite
<1> QED
  BY <1>1, <1>3 DEF WellFormed

LEMMA BlockIs ==
    ASSUME prog \in Kernels, NEW b \in DOMAIN prog
    PROVE  /\ IsSeq(prog[b]) /\ Len(prog[b]) \in Nat /\ DOMAIN prog[b] = 1 .. Len(prog[b])
           /\ \A i : i \in DOMAIN prog[b] <=> IsSite(b, i)
<1>1. IsSeq(prog[b])
  BY KernelsAssumption DEF WellFormed
<1> QED
  BY <1>1, SeqFacts DEF IsSite

RowsAre(op) ==
    /\ IsSeq(op.res) /\ IsSeq(op.ins) /\ IsSeq(op.outs) /\ IsSeq(op.args) /\ IsSeq(op.blks)
    /\ Len(op.res) \in Nat /\ Len(op.ins) \in Nat /\ Len(op.outs) \in Nat
    /\ Len(op.args) \in Nat /\ Len(op.blks) \in Nat

LEMMA RowFacts == ASSUME NEW op, IsOp(op) PROVE RowsAre(op)
<1>1. IsSeq(op.res) /\ IsSeq(op.ins) /\ IsSeq(op.outs) /\ IsSeq(op.args) /\ IsSeq(op.blks)
  BY DEF IsOp
<1> QED
  BY <1>1, SeqFacts DEF RowsAre

FrameFields == {"k", "blk", "pc", "env", "vals", "terms", "at", "to", "by", "live", "outer"}
IsFrame(f) == f = [x \in FrameFields |-> f[x]]

(* Frame g is f but for some of its fields. *)
SameBut(f, g, fields) == IsFrame(g) /\ \A x \in FrameFields \ fields : g[x] = f[x]

OwnerOf(fs, d) == prog[fs[d - 1].blk][fs[d - 1].pc]

(* How many values a region has yielded: a loop starts with its inits.     *)
YieldsSoFar(f, op) ==
    IF f.k = "for" THEN Len(op.args)
    ELSE IF f.pc > Len(prog[f.blk]) THEN Len(op.res) ELSE 0

FrameOK(fs, d) ==
    /\ IsFrame(fs[d])
    /\ fs[d].blk \in DOMAIN prog /\ fs[d].pc \in 0 .. Len(prog[fs[d].blk]) + 1
    /\ fs[d].pc = 0 => d = Len(fs) /\ fs[d].k = "for"
    /\ IsSeq(fs[d].vals)
    /\ IF d = 1 THEN fs[d].k = "func" /\ fs[d].blk = "main" /\ Len(fs[d].vals) = 0
       ELSE /\ IsSite(fs[d - 1].blk, fs[d - 1].pc)
            /\ fs[d].blk \in Regions(OwnerOf(fs, d))
            /\ fs[d].k = OwnerOf(fs, d).k /\ fs[d].k \in {"for", "if"}
            /\ Len(fs[d].vals) = YieldsSoFar(fs[d], OwnerOf(fs, d))

FramesOK(fs) ==
    /\ IsSeq(fs) /\ Len(fs) >= 1
    /\ \A d \in 1 .. Len(fs) : FrameOK(fs, d)
    /\ \A d, e \in 1 .. Len(fs) : fs[d].blk = fs[e].blk => d = e

(* The frames below are those of fs, and the last one is g. *)
EndsIn(fs, m, g, gs) ==
    /\ IsSeq(gs) /\ Len(gs) = m + 1 /\ gs[m + 1] = g
    /\ \A d \in 1 .. m : gs[d] = fs[d]

LEMMA FramesChange ==
    ASSUME prog \in Kernels, NEW fs, FramesOK(fs), NEW m \in 0 .. Len(fs) - 1, NEW g, NEW gs,
           EndsIn(fs, m, g, gs),
           IsFrame(g), g.k = fs[m + 1].k, g.blk = fs[m + 1].blk, IsSeq(g.vals),
           g.pc \in 0 .. Len(prog[g.blk]) + 1, g.pc = 0 => g.k = "for",
           IF m = 0 THEN Len(g.vals) = 0 ELSE Len(g.vals) = YieldsSoFar(g, OwnerOf(fs, m + 1))
    PROVE  FramesOK(gs)
<1>1. Len(fs) \in Nat /\ m + 1 \in 1 .. Len(fs) /\ m \in Nat
  BY SeqFacts DEF FramesOK
<1>2. IsSeq(gs) /\ Len(gs) = m + 1 /\ gs[m + 1] = g /\ \A d \in 1 .. m : gs[d] = fs[d]
  BY DEF EndsIn
<1>3. \A d \in 1 .. m + 1 : gs[d].blk = fs[d].blk
  BY <1>1, <1>2
<1>4. \A d, e \in 1 .. Len(gs) : gs[d].blk = gs[e].blk => d = e
  BY <1>1, <1>2, <1>3 DEF FramesOK
<1>5. \A d \in 2 .. m + 1 : OwnerOf(gs, d) = OwnerOf(fs, d) /\ gs[d - 1] = fs[d - 1]
  BY <1>1, <1>2 DEF OwnerOf
<1>6. ASSUME NEW d \in 1 .. m PROVE FrameOK(gs, d)
  <2>1. FrameOK(fs, d) /\ gs[d] = fs[d] /\ d # Len(fs) /\ d \in 1 .. m + 1
    BY <1>1, <1>2 DEF FramesOK
  <2>2. d # 1 => OwnerOf(gs, d) = OwnerOf(fs, d) /\ gs[d - 1] = fs[d - 1]
    BY <1>5, <2>1
  <2> QED
    BY <2>1, <2>2 DEF FrameOK
<1>7. FrameOK(gs, m + 1)
  <2>1. FrameOK(fs, m + 1)
    BY <1>1 DEF FramesOK
  <2>2. CASE m = 0
    BY <2>1, <2>2, <1>2 DEF FrameOK
  <2>3. CASE m # 0
    <3>1. OwnerOf(gs, m + 1) = OwnerOf(fs, m + 1) /\ gs[m + 1 - 1] = fs[m + 1 - 1] /\ m + 1 # 1
      BY <2>3, <1>1, <1>5
    <3> QED
      BY <3>1, <2>1, <2>3, <1>2 DEF FrameOK
  <2> QED
    BY <2>2, <2>3
<1> QED
  BY <1>1, <1>2, <1>4, <1>6, <1>7 DEF FramesOK

(* The op loop goes on to the next op of the block. *)
LEMMA FramesAdvance ==
    ASSUME prog \in Kernels, NEW fs, FramesOK(fs), NEW m \in 0 .. Len(fs) - 1, NEW g, NEW gs,
           EndsIn(fs, m, g, gs), SameBut(fs[m + 1], g, {"pc", "env"}),
           fs[m + 1].pc \in 1 .. Len(prog[fs[m + 1].blk]), g.pc = fs[m + 1].pc + 1,
           prog[fs[m + 1].blk][fs[m + 1].pc].k # "yield"
    PROVE  FramesOK(gs)
<1> DEFINE f == fs[m + 1]
           o == OwnerOf(fs, m + 1)
<1>1. m + 1 \in 1 .. Len(fs) /\ FrameOK(fs, m + 1)
  BY SeqFacts DEF FramesOK
<1>2. IsFrame(g) /\ g.k = f.k /\ g.blk = f.blk /\ g.vals = f.vals
  BY DEF SameBut, FrameFields
<1>3. f.blk \in DOMAIN prog /\ IsSeq(prog[f.blk]) /\ Len(prog[f.blk]) \in Nat
  BY <1>1, BlockIs DEF FrameOK
<1>4. g.pc \in 1 .. Len(prog[g.blk]) + 1
  BY <1>2, <1>3
<1>5. ASSUME m # 0 PROVE Len(g.vals) = YieldsSoFar(g, o)
  <2>1. /\ IsSite(fs[m].blk, fs[m].pc) /\ f.blk \in Regions(o) /\ f.k \in {"for", "if"}
        /\ f.k = o.k /\ Len(f.vals) = YieldsSoFar(f, o)
    BY <1>1, <1>5 DEF FrameOK, OwnerOf
  <2>2. CASE f.k = "for"
    BY <2>1, <2>2, <1>2 DEF YieldsSoFar
  <2>3. CASE f.k = "if"
    <3>1. Len(g.vals) = 0
      BY <2>1, <2>3, <1>2, <1>3 DEF YieldsSoFar
    <3>2. ASSUME g.pc > Len(prog[g.blk]) PROVE Len(o.res) = 0
      <4>1. f.pc = Len(prog[f.blk])
        BY <3>2, <1>2, <1>3
      <4>2. Terminated(o, prog[f.blk]) /\ IsOp(o)
        BY <2>1, OpFacts DEF OwnerOf
      <4>3. o.res = <<>>
        BY <4>1, <4>2 DEF Terminated, Last
      <4> QED
        BY <4>3, EmptyIsSeq
    <3> QED
      BY <3>1, <3>2, <2>3, <1>2 DEF YieldsSoFar
  <2> QED
    BY <2>1, <2>2, <2>3
<1>6. m = 0 => Len(g.vals) = 0
  BY <1>1, <1>2 DEF FrameOK
<1>7. IsSeq(g.vals) /\ g.pc # 0
  BY <1>1, <1>2, <1>3 DEF FrameOK
<1> QED
  BY <1>2, <1>4, <1>5, <1>6, <1>7, <1>3, FramesChange

(* A region is entered: no block is entered while it is executed.          *)
LEMMA FramesEnter ==
    ASSUME prog \in Kernels, NEW fs, FramesOK(fs), NEW g, NEW gs, IsAppend(fs, g, gs),
           fs[Len(fs)].pc \in 1 .. Len(prog[fs[Len(fs)].blk]),
           IsFrame(g), IsSeq(g.vals),
           LET op == prog[fs[Len(fs)].blk][fs[Len(fs)].pc] IN
           /\ g.blk \in Regions(op) /\ g.k = op.k /\ g.k \in {"for", "if"}
           /\ g.pc = IF g.k = "for" THEN 0 ELSE 1
           /\ Len(g.vals) = YieldsSoFar(g, op)
    PROVE  FramesOK(gs)
<1> DEFINE N == Len(fs)
           f == fs[N]
           op == prog[f.blk][f.pc]
<1>1. N \in Nat /\ N >= 1 /\ N \in 1 .. N
  BY SeqFacts DEF FramesOK
<1>2. IsSeq(gs) /\ Len(gs) = N + 1 /\ gs[N + 1] = g /\ \A d \in 1 .. N : gs[d] = fs[d]
  BY DEF IsAppend
<1>3. \A d \in 1 .. N : FrameOK(fs, d)
  BY DEF FramesOK
<1>4. IsSite(f.blk, f.pc)
  BY <1>1, <1>3 DEF FrameOK, IsSite
<1>5. g.blk \in DOMAIN prog \ {"main"}
  BY <1>4, OpFacts
<1>6. ASSUME NEW d \in 1 .. N PROVE FrameOK(gs, d)
  <2>1. FrameOK(fs, d) /\ gs[d] = fs[d] /\ (d # 1 => gs[d - 1] = fs[d - 1])
    BY <1>1, <1>2, <1>3
  <2>2. d # 1 => OwnerOf(gs, d) = OwnerOf(fs, d)
    BY <2>1 DEF OwnerOf
  <2>3. fs[d].pc # 0
    <3>1. d = N => fs[d].pc # 0
      OBVIOUS
    <3> QED
      BY <3>1, <2>1 DEF FrameOK
  <2> QED
    BY <2>1, <2>2, <2>3 DEF FrameOK
<1>7. FrameOK(gs, N + 1)
  <2>1. gs[N + 1] = g /\ gs[N + 1 - 1] = f /\ N + 1 # 1 /\ N + 1 = Len(gs)
    BY <1>1, <1>2
  <2>2. OwnerOf(gs, N + 1) = op
    BY <2>1 DEF OwnerOf
  <2>3. Len(prog[g.blk]) \in Nat
    BY <1>5, BlockIs
  <2>4. g.pc \in 0 .. Len(prog[g.blk]) + 1 /\ (g.pc = 0 => g.k = "for")
    BY <2>3
  <2> QED
    BY <2>1, <2>2, <2>4, <1>4, <1>5 DEF FrameOK
<1>8. ASSUME NEW d \in 1 .. N PROVE fs[d].blk # g.blk
  <2>1. SUFFICES ASSUME fs[d].blk = g.blk PROVE FALSE
    OBVIOUS
  <2>2. FrameOK(fs, d)
    BY <1>3
  <2>3. d # 1
    BY <2>1, <2>2, <1>5 DEF FrameOK
  <2>4. IsSite(fs[d - 1].blk, fs[d - 1].pc) /\ g.blk \in Regions(OwnerOf(fs, d))
    BY <2>1, <2>2, <2>3 DEF FrameOK
  <2>5. fs[d - 1].blk = f.blk
    BY <2>4, <1>4, OpFacts DEF OwnerOf
  <2>6. d - 1 \in 1 .. N /\ d - 1 # N
    BY <2>3, <1>1
  <2> QED
    BY <2>5, <2>6, <1>1 DEF FramesOK
<1>9. \A d, e \in 1 .. Len(gs) : gs[d].blk = gs[e].blk => d = e
  <2> SUFFICES ASSUME NEW d \in 1 .. N + 1, NEW e \in 1 .. N + 1, gs[d].blk = gs[e].blk
               PROVE  d = e
    BY <1>2
  <2>1. CASE d = N + 1 /\ e # N + 1
    BY <2>1, <1>1, <1>2, <1>8
  <2>2. CASE d # N + 1 /\ e = N + 1
    BY <2>2, <1>1, <1>2, <1>8
  <2>3. CASE d # N + 1 /\ e # N + 1
    BY <2>3, <1>1, <1>2 DEF FramesOK
  <2> QED
    BY <2>1, <2>2, <2>3
<1>10. \A d \in 1 .. Len(gs) : FrameOK(gs, d)
  BY <1>1, <1>2, <1>6, <1>7
<1> QED
  BY <1>1, <1>2, <1>9, <1>10 DEF FramesOK

(* Fields of one frame are set. *)
SetIs(fs, n, fields, gs) ==
    IsReplaced(fs, n, gs[n], gs) /\ SameBut(fs[n], gs[n], fields)

SetField(fs, n, x, v) == [fs EXCEPT ![n][x] = v]

LEMMA FieldIs ==
    ASSUME NEW fs, IsSeq(fs), NEW n \in 1 .. Len(fs), IsFrame(fs[n]), NEW x \in FrameFields, NEW v
    PROVE  SetIs(fs, n, {x}, SetField(fs, n, x, v)) /\ SetField(fs, n, x, v)[n][x] = v
<1> DEFINE f == fs[n]
           g == [f EXCEPT ![x] = v]
           gs == SetField(fs, n, x, v)
<1>1. DOMAIN f = FrameFields /\ f = [y \in FrameFields |-> f[y]]
  BY DEF IsFrame
<1>2. IsFrame(g) /\ g[x] = v /\ \A y \in FrameFields \ {x} : g[y] = f[y]
  BY <1>1 DEF IsFrame
<1>3. gs = [fs EXCEPT ![n] = g]
  BY DEF SetField
<1> HIDE DEF g
<1>4. IsReplaced(fs, n, g, [fs EXCEPT ![n] = g])
  BY ReplaceIs
<1> HIDE DEF gs
<1>5. IsReplaced(fs, n, g, gs)
  BY <1>3, <1>4
<1>6. gs[n] = g
  BY <1>5 DEF IsReplaced
<1>7. SetIs(fs, n, {x}, gs) /\ gs[n][x] = v
  BY <1>2, <1>5, <1>6 DEF SetIs, SameBut
<1> QED
  BY <1>7 DEF gs

LEMMA TwoFieldsAre ==
    ASSUME NEW fs, IsSeq(fs), NEW n \in 1 .. Len(fs), IsFrame(fs[n]),
           NEW x \in FrameFields, NEW v, NEW y \in FrameFields, NEW w, x # y
    PROVE  LET hs == SetField(SetField(fs, n, x, v), n, y, w) IN
           SetIs(fs, n, {x, y}, hs) /\ hs[n][x] = v /\ hs[n][y] = w
<1> DEFINE gs == SetField(fs, n, x, v)
           hs == SetField(gs, n, y, w)
<1>1. SetIs(fs, n, {x}, gs) /\ gs[n][x] = v
  BY FieldIs
<1> HIDE DEF gs
<1>2. IsSeq(gs) /\ Len(gs) = Len(fs) /\ IsFrame(gs[n])
  BY <1>1 DEF SetIs, IsReplaced, SameBut
<1>3. n \in 1 .. Len(gs)
  BY <1>2
<1>4. SetIs(gs, n, {y}, hs) /\ hs[n][y] = w
  BY <1>2, <1>3, FieldIs
<1> HIDE DEF hs
<1>5. IsReplaced(fs, n, hs[n], hs)
  BY <1>1, <1>4 DEF SetIs, IsReplaced
<1>6. SameBut(fs[n], hs[n], {x, y})
  BY <1>1, <1>4 DEF SetIs, SameBut
<1>7. hs[n][x] = v
  BY <1>1, <1>4 DEF SetIs, SameBut
<1>8. SetIs(fs, n, {x, y}, hs) /\ hs[n][x] = v /\ hs[n][y] = w
  BY <1>4, <1>5, <1>6, <1>7 DEF SetIs
<1> QED
  BY <1>8 DEF hs, gs

LEMMA FieldsAre == {"pc", "env", "at", "vals", "terms"} \subseteq FrameFields
BY DEF FrameFields

SetPcEnv(fs, n, v, w) == [fs EXCEPT ![n].pc = v, ![n].env = w]
SetPcAt(fs, n, v, w) == [fs EXCEPT ![n].pc = v, ![n].at = w]
SetPcValsTerms(fs, n, v, w, z) == [fs EXCEPT ![n].pc = v, ![n].vals = w, ![n].terms = z]

LEMMA PcAndEnv ==
    ASSUME NEW fs, IsSeq(fs), NEW n \in 1 .. Len(fs), IsFrame(fs[n]), NEW v, NEW w
    PROVE  LET hs == SetPcEnv(fs, n, v, w) IN
           SetIs(fs, n, {"pc", "env"}, hs) /\ hs[n].pc = v /\ hs[n].env = w
<1> DEFINE hs == SetPcEnv(fs, n, v, w)
<1>1. hs = SetField(SetField(fs, n, "pc", v), n, "env", w)
  BY DEF SetField, SetPcEnv
<1>2. "pc" \in FrameFields /\ "env" \in FrameFields /\ "pc" # "env"
  BY FieldsAre
<1> DEFINE gs == SetField(SetField(fs, n, "pc", v), n, "env", w)
<1>3. SetIs(fs, n, {"pc", "env"}, gs) /\ gs[n]["pc"] = v /\ gs[n]["env"] = w
  BY <1>2, TwoFieldsAre
<1>4. hs = gs
  BY <1>1
<1> HIDE DEF gs, hs
<1>5. SetIs(fs, n, {"pc", "env"}, hs) /\ hs[n]["pc"] = v /\ hs[n]["env"] = w
  BY <1>3, <1>4
<1> QED
  BY <1>5 DEF hs

LEMMA PcAndAt ==
    ASSUME NEW fs, IsSeq(fs), NEW n \in 1 .. Len(fs), IsFrame(fs[n]), NEW v, NEW w
    PROVE  LET hs == SetPcAt(fs, n, v, w) IN
           SetIs(fs, n, {"pc", "at"}, hs) /\ hs[n].pc = v /\ hs[n].at = w
<1> DEFINE hs == SetPcAt(fs, n, v, w)
<1>1. hs = SetField(SetField(fs, n, "pc", v), n, "at", w)
  BY DEF SetField, SetPcAt
<1>2. "pc" \in FrameFields /\ "at" \in FrameFields /\ "pc" # "at"
  BY FieldsAre
<1> DEFINE gs == SetField(SetField(fs, n, "pc", v), n, "at", w)
<1>3. SetIs(fs, n, {"pc", "at"}, gs) /\ gs[n]["pc"] = v /\ gs[n]["at"] = w
  BY <1>2, TwoFieldsAre
<1>4. hs = gs
  BY <1>1
<1> HIDE DEF gs, hs
<1>5. SetIs(fs, n, {"pc", "at"}, hs) /\ hs[n]["pc"] = v /\ hs[n]["at"] = w
  BY <1>3, <1>4
<1> QED
  BY <1>5 DEF hs

LEMMA PcValsTerms ==
    ASSUME NEW fs, IsSeq(fs), NEW n \in 1 .. Len(fs), IsFrame(fs[n]), NEW v, NEW w, NEW z
    PROVE  LET hs == SetPcValsTerms(fs, n, v, w, z) IN
           /\ SetIs(fs, n, {"pc", "vals", "terms"}, hs)
           /\ hs[n].pc = v /\ hs[n].vals = w /\ hs[n].terms = z
<1> DEFINE hs == SetPcValsTerms(fs, n, v, w, z)
           gs == SetField(SetField(fs, n, "pc", v), n, "vals", w)
           h == SetField(gs, n, "terms", z)
<1>1. hs = h
  BY DEF SetField, SetPcValsTerms
<1>2. /\ "pc" \in FrameFields /\ "vals" \in FrameFields /\ "terms" \in FrameFields
      /\ "pc" # "vals"
  BY FieldsAre
<1>3. SetIs(fs, n, {"pc", "vals"}, gs) /\ gs[n]["pc"] = v /\ gs[n]["vals"] = w
  BY <1>2, TwoFieldsAre
<1> HIDE DEF gs
<1>4. IsSeq(gs) /\ Len(gs) = Len(fs) /\ IsFrame(gs[n])
  BY <1>3 DEF SetIs, IsReplaced, SameBut
<1>5. n \in 1 .. Len(gs)
  BY <1>4
<1>10. SetIs(gs, n, {"terms"}, h) /\ h[n]["terms"] = z
  BY <1>2, <1>4, <1>5, FieldIs
<1> HIDE DEF h, hs
<1>6. SetIs(gs, n, {"terms"}, hs) /\ hs[n]["terms"] = z
  BY <1>1, <1>10
<1>7. IsReplaced(fs, n, hs[n], hs)
  BY <1>3, <1>6 DEF SetIs, IsReplaced
<1>8. SameBut(fs[n], hs[n], {"pc", "vals", "terms"})
  BY <1>3, <1>6 DEF SetIs, SameBut
<1>9. hs[n]["pc"] = v /\ hs[n]["vals"] = w
  BY <1>2, <1>3, <1>6 DEF SetIs, SameBut
<1>11. /\ SetIs(fs, n, {"pc", "vals", "terms"}, hs)
       /\ hs[n].pc = v /\ hs[n].vals = w /\ hs[n].terms = z
  BY <1>6, <1>7, <1>8, <1>9 DEF SetIs
<1> QED
  BY <1>11 DEF hs

(***************************************************************************)
(* The type invariant: scopes and regions correspond, what is bound and    *)
(* what a region has yielded are tiles, and a region's yields fit its op.  *)
(***************************************************************************)
ScopesMatch(c, fs) == Len(c.scopes) = Len(fs) - IF fs[Len(fs)].pc = 0 THEN 1 ELSE 0
ValsOK(c, fs) ==
    \A d \in 1 .. Len(fs) : \A j \in 1 .. Len(fs[d].vals) : fs[d].vals[j] \in 1 .. Len(c.tiles)
StatusOK ==
    /\ status \in {"running", "parked", "done", "KeyError", "AssertionError"}
    /\ status = "parked" =>
          Frame.pc \in DOMAIN prog[Frame.blk] /\ Op.k = "receive" /\ Len(core.tiles) >= 1

TypeInv ==
    /\ prog \in Kernels
    /\ usedOnce = {n \in Operands(prog) : UseCount(prog, n) = 1}
    /\ CoreOK(core) /\ FramesOK(frames)
    /\ ScopesMatch(core, frames) /\ ValsOK(core, frames)
    /\ StatusOK

N == Len(frames)

(* Where the op loop stands. *)
Here ==
    /\ prog \in Kernels /\ N \in Nat /\ N >= 1 /\ Len(core.scopes) = N
    /\ CoreOK(core) /\ FramesOK(frames) /\ FrameOK(frames, N)
    /\ IsSite(Frame.blk, Frame.pc) /\ IsOp(Op) /\ RowsAre(Op)

LEMMA HereIs ==
    ASSUME TypeInv, Frame.pc \in DOMAIN prog[Frame.blk]
    PROVE  Here
<1>1. N \in Nat /\ N >= 1 /\ FrameOK(frames, N) /\ prog \in Kernels
  BY SeqFacts DEF TypeInv, FramesOK, N
<1>2. Frame.blk \in DOMAIN prog /\ Frame = frames[N]
  BY <1>1 DEF FrameOK, Frame, N
<1>3. IsSite(Frame.blk, Frame.pc)
  BY <1>1, <1>2, BlockIs
<1>4. IsOp(Op) /\ RowsAre(Op)
  BY <1>3, OpFacts, RowFacts DEF Op
<1>5. Frame.pc # 0
  BY <1>2, <1>3 DEF IsSite
<1>6. Len(core.scopes) = N
  BY <1>1, <1>2, <1>5 DEF TypeInv, ScopesMatch, N
<1> QED
  BY <1>1, <1>3, <1>4, <1>6 DEF Here, TypeInv

(* The core goes on: scopes below the topmost one stay.                    *)
Steps(c, a) ==
    /\ CoreOK(a) /\ Len(a.scopes) = Len(c.scopes)
    /\ Extends(c, a) /\ Kept(c, a, Len(c.scopes) - 1)

LEMMA StepsCompose ==
    ASSUME NEW c, NEW b, NEW a, CoreOK(c), Len(c.scopes) >= 1, Steps(c, b), Steps(b, a)
    PROVE  Steps(c, a)
<1> DEFINE m == Len(c.scopes) - 1
<1>1. /\ Len(c.tiles) \in Nat /\ Len(b.tiles) \in Nat /\ Len(a.tiles) \in Nat
      /\ Len(c.bufs) \in Nat /\ Len(b.bufs) \in Nat /\ Len(a.bufs) \in Nat
      /\ Len(c.scopes) \in Nat /\ m \in Nat
      /\ Len(b.scopes) = Len(c.scopes) /\ Len(a.scopes) = Len(c.scopes)
  BY SeqFacts DEF Steps, CoreOK
<1>2. Kept(c, b, m) /\ Kept(b, a, m) /\ Extends(c, b) /\ Extends(b, a)
  BY <1>1 DEF Steps
<1>3. Extends(c, a)
  BY <1>1, <1>2 DEF Extends
<1>4. \A e \in 1 .. m : a.scopes[e] = c.scopes[e] /\ b.scopes[e] = c.scopes[e]
  BY <1>2 DEF Kept
<1>5. ASSUME NEW t \in 1 .. Len(c.tiles), HeldIn(c, m, t)
      PROVE  t \in a.uncharged <=> t \in c.uncharged
  <2>1. HeldIn(b, m, t)
    BY <1>4, <1>5 DEF HeldIn
  <2>2. t \in 1 .. Len(b.tiles)
    BY <1>1, <1>2 DEF Extends
  <2> QED
    BY <1>2, <1>5, <2>1, <2>2 DEF Kept
<1>6. Kept(c, a, m)
  BY <1>1, <1>4, <1>5 DEF Kept
<1> QED
  BY <1>1, <1>3, <1>6 DEF Steps

LEMMA StepsAre ==
    ASSUME NEW c, CoreOK(c), Len(c.scopes) >= 1, NEW a
    PROVE  /\ \A names : FetchedIs(c, names, a) => Steps(c, a)
           /\ GrownIs(c, a) => Steps(c, a)
           /\ \A names, vals, charge : BoundIs(c, names, vals, charge, a) => Steps(c, a)
<1>1. Len(c.scopes) \in Nat /\ Len(c.tiles) \in Nat /\ Len(c.bufs) \in Nat
  BY SeqFacts DEF CoreOK
<1>2. ASSUME NEW names, FetchedIs(c, names, a) PROVE Steps(c, a)
  BY <1>2 DEF FetchedIs, Steps
<1>3. ASSUME GrownIs(c, a) PROVE Steps(c, a)
  <2>1. /\ CoreOK(a) /\ Extends(c, a) /\ a.scopes = c.scopes /\ a.uncharged = c.uncharged
    BY <1>3 DEF GrownIs
  <2>2. Kept(c, a, Len(c.scopes) - 1)
    BY <1>1, <2>1 DEF Kept
  <2> QED
    BY <2>1, <2>2 DEF Steps
<1>4. ASSUME NEW names, NEW vals, NEW charge, BoundIs(c, names, vals, charge, a)
      PROVE  Steps(c, a)
  <2>1. /\ CoreOK(a) /\ Kept(c, a, Len(c.scopes) - 1)
        /\ a.tiles = c.tiles /\ a.bufs = c.bufs /\ Len(a.scopes) = Len(c.scopes)
    BY <1>4 DEF BoundIs
  <2> QED
    BY <1>1, <2>1 DEF Steps, Extends
<1> QED
  BY <1>2, <1>3, <1>4

(* A fetch that does not fail finds every name. *)
LEMMA FetchFinds ==
    ASSUME NEW c, CoreOK(c), Len(c.scopes) >= 1, NEW names, IsSeq(names),
           ~FetchFails(c, names), NEW i \in 1 .. Len(names)
    PROVE  /\ Visible(c, names[i])
           /\ names[i] # "i" => Lookup(c, names[i]) \in 1 .. Len(c.tiles)
<1> DEFINE b == Fetched(c, SubSeq(names, 1, i - 1))
<1>1. Visible(b, names[i])
  BY SeqFacts DEF FetchFails
<1>2. FetchedIs(c, SubSeq(names, 1, i - 1), b)
  BY FetchKeeps
<1> HIDE DEF b
<1>3. CoreOK(b) /\ Tame(c, b)
  BY <1>2 DEF FetchedIs
<1>4. Visible(c, names[i])
  BY <1>1, <1>3, VisibleIs DEF Tame
<1> QED
  BY <1>4, LookupIs

(* The frames once the op loop goes on to the next op. *)
Advanced ==
    /\ EndsIn(frames, N - 1, frames'[N], frames')
    /\ SameBut(Frame, frames'[N], {"pc", "env"}) /\ frames'[N].pc = Frame.pc + 1

LEMMA AdvancedIs ==
    ASSUME Here, NEW env,
           frames' = [frames EXCEPT ![Len(frames)].pc = @ + 1, ![Len(frames)].env = env]
    PROVE  Advanced
<1>1. N \in Nat /\ N \in 1 .. Len(frames) /\ IsSeq(frames) /\ IsFrame(frames[N]) /\ Frame = frames[N]
  BY DEF Here, N, FramesOK, FrameOK, Frame
<1>2. frames' = SetPcEnv(frames, N, Frame.pc + 1, env)
  BY DEF Frame, N, SetPcEnv
<1> DEFINE gs == SetPcEnv(frames, N, Frame.pc + 1, env)
<1>6. SetIs(frames, N, {"pc", "env"}, gs) /\ gs[N].pc = Frame.pc + 1
  BY <1>1, PcAndEnv
<1> HIDE DEF gs
<1>3. SetIs(frames, N, {"pc", "env"}, frames') /\ frames'[N].pc = Frame.pc + 1
  BY <1>2, <1>6 DEF gs
<1>4. /\ IsSeq(frames') /\ Len(frames') = N
      /\ \A d \in 1 .. Len(frames) : d # N => frames'[d] = frames[d]
  BY <1>3 DEF SetIs, IsReplaced, N
<1>5. \A d \in 1 .. N - 1 : frames'[d] = frames[d]
  BY <1>1, <1>4
<1> QED
  BY <1>1, <1>3, <1>4, <1>5 DEF Advanced, EndsIn, SetIs

(* An op ran: it consumed names, and bound others in the topmost scope. *)
Ran(names, new) ==
    /\ Steps(core, core')
    /\ DOMAIN core'.scopes[N] = (DOMAIN core.scopes[N] \ Consumed(core, names)) \cup new
    /\ Advanced /\ status' = "running"

LEMMA RanKeeps ==
    ASSUME TypeInv, Here, Op.k # "yield", NEW names, NEW new, Ran(names, new),
           UNCHANGED <<prog, usedOnce>>
    PROVE  TypeInv'
<1>1. N \in Nat /\ N >= 1 /\ N = Len(frames) /\ N \in 1 .. Len(frames)
  BY DEF Here, N
<1>2. /\ IsSeq(frames') /\ Len(frames') = N
      /\ \A d \in 1 .. N - 1 : frames'[d] = frames[d]
      /\ SameBut(frames[N], frames'[N], {"pc", "env"}) /\ frames'[N].pc = frames[N].pc + 1
  BY <1>1 DEF Ran, Advanced, EndsIn, Frame, N
<1>3. FramesOK(frames)'
  <2>1. EndsIn(frames, N - 1, frames'[N], frames') /\ N - 1 \in 0 .. Len(frames) - 1 /\ N - 1 + 1 = N
    BY <1>1 DEF Ran, Advanced
  <2>2. /\ frames[N].pc \in 1 .. Len(prog[frames[N].blk]) /\ prog \in Kernels /\ FramesOK(frames)
        /\ prog[frames[N].blk][frames[N].pc].k # "yield"
    BY <1>1 DEF Here, IsSite, Op, Frame
  <2>3. FramesOK(frames')
    BY <1>2, <2>1, <2>2, FramesAdvance
  <2> QED
    BY <2>3 DEF FramesOK, FrameOK, OwnerOf, IsSite, YieldsSoFar
<1>4. frames'[N].vals = frames[N].vals
  BY <1>2 DEF SameBut, FrameFields
<1>5. \A d \in 1 .. N : frames'[d].vals = frames[d].vals
  BY <1>1, <1>2, <1>4
<1>6. Len(core.tiles) \in Nat /\ Len(core'.tiles) \in Nat /\ Len(core.tiles) <= Len(core'.tiles)
  BY SeqFacts DEF Ran, Steps, Extends, CoreOK, Here
<1>7. ValsOK(core, frames)'
  <2>1. ValsOK(core', frames')
    BY <1>1, <1>2, <1>5, <1>6 DEF ValsOK, TypeInv
  <2> QED
    BY <2>1 DEF ValsOK
<1>8. ScopesMatch(core, frames)'
  <2>1. frames[N].pc \in Nat \ {0} /\ Len(core'.scopes) = N
    BY <1>1 DEF Here, IsSite, Frame, Ran, Steps
  <2> QED
    BY <1>1, <1>2, <2>1 DEF ScopesMatch
<1>9. CoreOK(core)' /\ StatusOK'
  BY DEF Ran, Steps, StatusOK, CoreOK, ScopeOK, BoundTiles
<1> QED
  BY <1>3, <1>7, <1>8, <1>9 DEF TypeInv, Operands, UseCount

(***************************************************************************)
(* What each op does, in terms of its steps.                               *)
(***************************************************************************)
LEMMA OneValue ==
    ASSUME NEW v
    PROVE  IsSeq(<<v>>) /\ Len(<<v>>) = 1 /\ <<v>>[1] = v /\ Range(<<v>>) = {v}
<1> DEFINE s == <<v>>
<1>1. s = [i \in 1 .. 1 |-> s[i]] /\ DOMAIN s = 1 .. 1 /\ s[1] = v
  OBVIOUS
<1> HIDE DEF s
<1>2. IsSeq(s) /\ Len(s) = 1
  BY <1>1, FunctionIsSeq
<1>3. Range(s) = {v}
  BY <1>1 DEF Range
<1> QED
  BY <1>1, <1>2, <1>3 DEF s

LEMMA NothingFetched ==
    ASSUME NEW c, CoreOK(c), Len(c.scopes) >= 1
    PROVE  FetchedIs(c, <<>>, c)
<1>1. Len(c.scopes) \in Nat /\ Len(c.tiles) \in Nat /\ Len(c.bufs) \in Nat
  BY SeqFacts DEF CoreOK
<1>2. Consumed(c, <<>>) = {}
  BY DEF Consumed, Range
<1>3. Extends(c, c) /\ Tame(c, c) /\ Kept(c, c, Len(c.scopes) - 1)
  BY <1>1 DEF Extends, Tame, Kept
<1>4. c.uncharged = c.uncharged \cap BoundTiles(c.scopes)
  BY DEF CoreOK
<1> QED
  BY <1>2, <1>3, <1>4 DEF FetchedIs

(* A new tile is bound to nothing. *)
LEMMA NewestIsFree ==
    ASSUME NEW c, CoreOK(c), NEW a, GrownIs(c, a), NEW t, t = Len(c.tiles) + 1
    PROVE  /\ \A e \in 1 .. Len(a.scopes) : \A n \in DOMAIN a.scopes[e] : a.scopes[e][n] # t
           /\ t \notin a.uncharged
<1>1. Len(c.tiles) \in Nat /\ a.scopes = c.scopes /\ a.uncharged = c.uncharged
  BY SeqFacts DEF CoreOK, GrownIs
<1>2. \A e \in 1 .. Len(c.scopes) : ScopeOK(c, c.scopes[e])
  BY DEF CoreOK
<1>3. ASSUME NEW e \in 1 .. Len(a.scopes), NEW n \in DOMAIN a.scopes[e]
      PROVE  a.scopes[e][n] # t
  <2>1. ScopeOK(c, c.scopes[e]) /\ n \in DOMAIN c.scopes[e] /\ a.scopes[e][n] = c.scopes[e][n]
    BY <1>1, <1>2
  <2>2. c.scopes[e][n] = 0 \/ c.scopes[e][n] \in 1 .. Len(c.tiles)
    BY <2>1 DEF ScopeOK, Scalar
  <2> QED
    BY <2>1, <2>2, <1>1
<1>4. t \notin c.uncharged
  BY <1>1, TilesAreHeld
<1> QED
  BY <1>1, <1>3, <1>4

LEMMA OneFits ==
    ASSUME NEW c, NEW names, IsSeq(names), Len(names) = 1, "i" \notin Range(names),
           NEW v \in 1 .. Len(c.tiles), NEW charge,
           ~charge => \A e \in 1 .. Len(c.scopes) : \A n \in DOMAIN c.scopes[e] : c.scopes[e][n] # v
    PROVE  Fits(c, names, <<v>>, charge)
<1>1. IsSeq(<<v>>) /\ Len(<<v>>) = 1 /\ <<v>>[1] = v /\ Range(<<v>>) = {v}
  BY OneValue
<1>2. DOMAIN names = 1 .. 1
  BY SeqFacts
<1>3. IsInjective(names)
  BY <1>2 DEF IsInjective
<1>4. \A i \in 1 .. 1 : names[i] # "i" /\ <<v>>[i] = v
  BY <1>1, RangeIs
<1> QED
  BY <1>1, <1>3, <1>4 DEF Fits

(* No operand is the loop variable. *)
LEMMA RangeOfConcat ==
    ASSUME NEW s, NEW r, IsSeq(s), IsSeq(r), NEW x
    PROVE  x \in Range(s \o r) <=> x \in Range(s) \/ x \in Range(r)
<1> DEFINE sr == s \o r
<1>1. Len(s) \in Nat /\ Len(r) \in Nat
  BY SeqFacts
<1>2. IsConcat(s, r, sr)
  BY ConcatIs
<1> HIDE DEF sr
<1>3. IsSeq(sr) /\ Len(sr) = Len(s) + Len(r)
  BY <1>2 DEF IsConcat
<1>4. ASSUME NEW i \in 1 .. Len(s) PROVE i \in 1 .. Len(sr) /\ sr[i] = s[i]
  BY <1>1, <1>2 DEF IsConcat
<1>5. ASSUME NEW i \in 1 .. Len(r)
      PROVE  Len(s) + i \in 1 .. Len(sr) /\ sr[Len(s) + i] = r[i]
  BY <1>1, <1>2 DEF IsConcat
<1>6. ASSUME NEW i \in 1 .. Len(sr)
      PROVE  i \in 1 .. Len(s) \/ (i - Len(s) \in 1 .. Len(r) /\ sr[i] = r[i - Len(s)])
  <2>1. i \notin 1 .. Len(s) => i - Len(s) \in 1 .. Len(r) /\ Len(s) + (i - Len(s)) = i
    BY <1>1, <1>3
  <2> QED
    BY <2>1, <1>5
<1>7. x \in Range(s) \/ x \in Range(r) => x \in Range(sr)
  <2>1. ASSUME NEW i \in 1 .. Len(sr), sr[i] = x PROVE x \in Range(sr)
    BY <1>3, <2>1, RangeIs
  <2>2. ASSUME x \in Range(s) PROVE x \in Range(sr)
    BY <1>4, <2>1, <2>2, RangeIs
  <2>3. ASSUME x \in Range(r) PROVE x \in Range(sr)
    BY <1>5, <2>1, <2>3, RangeIs
  <2> QED
    BY <2>2, <2>3
<1>8. x \in Range(sr) => x \in Range(s) \/ x \in Range(r)
  BY <1>3, <1>4, <1>6, RangeIs
<1> QED
  BY <1>7, <1>8 DEF sr

LEMMA NamesAre ==
    ASSUME Here, "i" \notin Range(Op.ins \o Op.outs)
    PROVE  /\ \A i \in 1 .. Len(Op.ins) : Op.ins[i] # "i"
           /\ \A i \in 1 .. Len(Op.outs) : Op.outs[i] # "i"
<1>1. IsSeq(Op.ins) /\ IsSeq(Op.outs)
  BY DEF Here, RowsAre
<1>2. "i" \notin Range(Op.ins) /\ "i" \notin Range(Op.outs)
  BY <1>1, RangeOfConcat
<1> QED
  BY <1>1, <1>2, RangeIs

LEMMA OneResultFits ==
    ASSUME Here, Op.k \in OneResult, NEW c, NEW v \in 1 .. Len(c.tiles), NEW charge,
           ~charge => \A e \in 1 .. Len(c.scopes) : \A n \in DOMAIN c.scopes[e] : c.scopes[e][n] # v
    PROVE  Fits(c, Op.res, <<v>>, charge)
<1>1. IsSeq(Op.res) /\ Len(Op.res) = 1 /\ "i" \notin Range(Op.res)
  BY DEF Here, IsOp, RowsAre
<1> QED
  BY <1>1, OneFits

Done(c, vals) ==
    /\ BoundIs(c, Op.res, vals, Op.k # "constant", core')
    /\ Advanced /\ status' = "running"

LEMMA FinishIs ==
    ASSUME Here, NEW c, CoreOK(c), Len(c.scopes) = N, NEW vals,
           Fits(c, Op.res, vals, Op.k # "constant"), NEW env, Finish(c, frames, vals, env)
    PROVE  Done(c, vals)
<1>1. core' = Bound(c, Op.res, vals, Op.k # "constant")
  BY DEF Finish
<1>2. Len(c.scopes) >= 1 /\ (Op.k # "constant") \in BOOLEAN
  BY DEF Here
<1> DEFINE b == Bound(c, Op.res, vals, Op.k # "constant")
<1>3. BoundIs(c, Op.res, vals, Op.k # "constant", b)
  BY <1>2, BindKeeps
<1> HIDE DEF b
<1>4. BoundIs(c, Op.res, vals, Op.k # "constant", core')
  BY <1>1, <1>3 DEF b
<1>5. frames' = [frames EXCEPT ![Len(frames)].pc = @ + 1, ![Len(frames)].env = env]
  BY DEF Finish
<1>6. Advanced
  BY <1>5, AdvancedIs
<1>7. status' = "running"
  BY DEF Finish
<1> QED
  BY <1>4, <1>6, <1>7 DEF Done

(* Names are fetched, tiles and buffers are added or written, and the      *)
(* results are bound.                                                      *)
LEMMA ChainRan ==
    ASSUME Here, NEW names, NEW b, FetchedIs(core, names, b), NEW c, GrownIs(b, c),
           NEW vals, Done(c, vals)
    PROVE  Ran(names, Range(Op.res))
<1>1. /\ CoreOK(core) /\ Len(core.scopes) = N /\ N >= 1 /\ N \in Nat
      /\ CoreOK(b) /\ Len(b.scopes) = N /\ CoreOK(c) /\ c.scopes = b.scopes
  BY DEF Here, FetchedIs, GrownIs
<1>2. Steps(core, b) /\ Steps(b, c)
  BY <1>1, StepsAre
<1>3. BoundIs(c, Op.res, vals, Op.k # "constant", core')
  BY DEF Done
<1>4. Steps(c, core')
  BY <1>1, <1>3, StepsAre
<1>5. Steps(core, c)
  BY <1>1, <1>2, StepsCompose
<1>6. Steps(core, core')
  BY <1>1, <1>4, <1>5, StepsCompose
<1>7. DOMAIN core'.scopes[N] = (DOMAIN core.scopes[N] \ Consumed(core, names)) \cup Range(Op.res)
  BY <1>1, <1>3 DEF FetchedIs, BoundIs
<1> QED
  BY <1>6, <1>7 DEF Ran, Done

ConstantRan ==
    \E c : MadeIs(core, c, Term(Op.res[1], <<>>)) /\ Done(c, <<Newest(c)>>)

LEMMA ConstantIs ==
    ASSUME Here, Constant
    PROVE  ConstantRan
<1> DEFINE c == Made(core, Term(Op.res[1], <<>>))
<1>1. MadeIs(core, c, Term(Op.res[1], <<>>)) /\ CoreOK(core)
  BY MakeKeeps DEF Here
<1>2. PICK env : Finish(c, frames, <<Newest(c)>>, env)
  BY DEF Constant
<1> HIDE DEF c
<1>3. /\ GrownIs(core, c) /\ Newest(c) = Len(core.tiles) + 1 /\ Newest(c) \in 1 .. Len(c.tiles)
      /\ CoreOK(c) /\ Len(c.scopes) = N
  BY <1>1 DEF MadeIs, GrownIs, Here
<1>4. Op.k \in OneResult
  BY DEF Constant, Ready, OneResult
<1>5. Fits(c, Op.res, <<Newest(c)>>, Op.k # "constant")
  BY <1>1, <1>3, <1>4, NewestIsFree, OneResultFits
<1> QED
  BY <1>1, <1>2, <1>3, <1>5, FinishIs DEF ConstantRan

ComputeRan ==
    \E b, c : /\ FetchedIs(core, Op.ins, b)
              /\ MadeIs(b, c, Term(Op.res[1], Contents(Op.ins)))
              /\ Done(c, <<Newest(c)>>)

LEMMA ComputeIs ==
    ASSUME Here, Compute, ~FetchFails(core, Op.ins)
    PROVE  ComputeRan
<1> DEFINE b == Fetched(core, Op.ins)
           term == Term(Op.res[1], Contents(Op.ins))
           c == Made(b, term)
<1>1. FetchedIs(core, Op.ins, b)
  BY FetchKeeps DEF Here
<1>2. PICK env : Finish(c, frames, <<Newest(c)>>, env)
  BY DEF Compute
<1> HIDE DEF b
<1>3. MadeIs(b, c, term)
  BY <1>1, MakeKeeps DEF FetchedIs
<1> HIDE DEF c, term
<1>4. Newest(c) \in 1 .. Len(c.tiles) /\ CoreOK(c) /\ Len(c.scopes) = N
  BY <1>1, <1>3 DEF MadeIs, GrownIs, FetchedIs, Here
<1>5. Op.k \in OneResult /\ Op.k # "constant"
  BY DEF Compute, Ready, OneResult
<1>6. Fits(c, Op.res, <<Newest(c)>>, Op.k # "constant")
  BY <1>4, <1>5, OneResultFits
<1>7. Done(c, <<Newest(c)>>)
  BY <1>2, <1>4, <1>6, FinishIs
<1> QED
  BY <1>1, <1>3, <1>7 DEF ComputeRan, term

ReshapeRan ==
    \E b, c : /\ FetchedIs(core, Op.ins, b)
              /\ Lookup(core, Op.ins[1]) \in 1 .. Len(core.tiles)
              /\ Visible(core, Op.ins[1]) /\ Op.ins[1] # "i"
              /\ ViewedIs(b, c, Lookup(core, Op.ins[1]))
              /\ Done(c, <<Newest(c)>>)

LEMMA ReshapeIs ==
    ASSUME Here, Reshape, ~FetchFails(core, Op.ins)
    PROVE  ReshapeRan
<1> DEFINE b == Fetched(core, Op.ins)
           v == Lookup(core, Op.ins[1])
           c == Viewed(b, v)
<1>1. FetchedIs(core, Op.ins, b)
  BY FetchKeeps DEF Here
<1>2. PICK env : Finish(c, frames, <<Newest(c)>>, env)
  BY DEF Reshape
<1>3. Op.k = "reshape" /\ Op.k \in OneResult /\ Op.k # "constant"
  BY DEF Reshape, Ready, OneResult
<1>4. IsSeq(Op.ins) /\ 1 \in 1 .. Len(Op.ins) /\ "i" \notin Range(Op.ins \o Op.outs)
  BY <1>3 DEF Here, IsOp, RowsAre
<1>5. Op.ins[1] # "i"
  BY <1>4, NamesAre
<1>6. Visible(core, Op.ins[1]) /\ v \in 1 .. Len(core.tiles)
  BY <1>4, <1>5, FetchFinds DEF Here
<1> HIDE DEF b
<1>7. v \in 1 .. Len(b.tiles) /\ CoreOK(b)
  BY <1>1, <1>6 DEF FetchedIs
<1>8. ViewedIs(b, c, v)
  BY <1>7, ViewKeeps
<1> HIDE DEF c
<1>9. Newest(c) \in 1 .. Len(c.tiles) /\ CoreOK(c) /\ Len(c.scopes) = N
  BY <1>1, <1>8 DEF ViewedIs, GrownIs, FetchedIs, Here
<1>10. Fits(c, Op.res, <<Newest(c)>>, Op.k # "constant")
  BY <1>3, <1>9, OneResultFits
<1>11. Done(c, <<Newest(c)>>)
  BY <1>2, <1>9, <1>10, FinishIs
<1> QED
  BY <1>1, <1>5, <1>6, <1>8, <1>11 DEF ReshapeRan

(* acc += a, into a copy of an accumulator that is a literal. *)
MatmulRan ==
    \E b, c, d, t :
        /\ FetchedIs(core, Op.ins, b)
        /\ Visible(core, Op.ins[2]) /\ Op.ins[2] # "i"
        /\ IF Lookup(core, Op.ins[2]) \in b.uncharged
           THEN \E term : MadeIs(b, c, term) /\ t = Newest(c)
           ELSE c = b /\ t = Lookup(core, Op.ins[2])
        /\ t \in 1 .. Len(c.tiles) /\ c.tiles[t] \in 1 .. Len(c.bufs)
        /\ WrittenIs(c, d, c.tiles[t], Term("matmul", Contents(Op.ins)))
        /\ IF OutsReplaced(d, Op.ins[2], t)
           THEN Raise("AssertionError")
           ELSE Done(d, <<t>>)

LEMMA MatmulIs ==
    ASSUME Here, Matmul, ~FetchFails(core, Op.ins)
    PROVE  MatmulRan
<1> DEFINE b == Fetched(core, Op.ins)
           v == Lookup(core, Op.ins[2])
           into == Accumulator(b, v)
           c == into.core
           t == into.tile
           sum == Term("matmul", Contents(Op.ins))
           d == [c EXCEPT !.bufs[c.tiles[t]] = sum]
<1>1. FetchedIs(core, Op.ins, b)
  BY FetchKeeps DEF Here
<1>2. Op.k = "matmul" /\ Op.k \in OneResult /\ Op.k # "constant"
  BY DEF Matmul, Ready, OneResult
<1>3. IsSeq(Op.ins) /\ 2 \in 1 .. Len(Op.ins) /\ "i" \notin Range(Op.ins \o Op.outs)
  BY <1>2 DEF Here, IsOp, RowsAre
<1>4. Op.ins[2] # "i"
  BY <1>3, NamesAre
<1>5. Visible(core, Op.ins[2]) /\ v \in 1 .. Len(core.tiles)
  BY <1>3, <1>4, FetchFinds DEF Here
<1>6. IF OutsReplaced(d, Op.ins[2], t) THEN Raise("AssertionError")
      ELSE \E env : Finish(d, frames, <<t>>, env)
  BY DEF Matmul
<1> HIDE DEF b
<1>7. v \in 1 .. Len(b.tiles) /\ CoreOK(b)
  BY <1>1, <1>5 DEF FetchedIs
<1>8. /\ IF v \in b.uncharged THEN \E term : MadeIs(b, c, term) /\ t = Newest(c)
         ELSE c = b /\ t = v
      /\ t \in 1 .. Len(c.tiles) /\ CoreOK(c) /\ c.scopes = b.scopes
  <2>1. CASE v \in b.uncharged
    <3> DEFINE e == Made(b, Holds(b, v))
    <3>1. MadeIs(b, e, Holds(b, v))
      BY <1>7, MakeKeeps
    <3>2. c = e /\ t = Newest(e)
      BY <2>1 DEF Accumulator
    <3> HIDE DEF e, into
    <3>3. Newest(e) \in 1 .. Len(e.tiles) /\ CoreOK(e) /\ e.scopes = b.scopes
      BY <3>1 DEF MadeIs, GrownIs
    <3> QED
      BY <2>1, <3>1, <3>2, <3>3
  <2>2. CASE v \notin b.uncharged
    <3>1. c = b /\ t = v
      BY <2>2 DEF Accumulator
    <3> QED
      BY <2>2, <3>1, <1>7
  <2> QED
    BY <2>1, <2>2
<1> HIDE DEF into
<1>9. c.tiles[t] \in 1 .. Len(c.bufs)
  BY <1>8 DEF CoreOK
<1>10. WrittenIs(c, d, c.tiles[t], sum)
  BY <1>8, <1>9, WriteKeeps
<1> HIDE DEF d
<1>11. t \in 1 .. Len(d.tiles) /\ CoreOK(d) /\ Len(d.scopes) = N
  BY <1>1, <1>8, <1>10 DEF WrittenIs, GrownIs, FetchedIs, Here
<1>12. Fits(d, Op.res, <<t>>, Op.k # "constant")
  BY <1>2, <1>11, OneResultFits
<1>13. IF OutsReplaced(d, Op.ins[2], t) THEN Raise("AssertionError") ELSE Done(d, <<t>>)
  BY <1>6, <1>11, <1>12, FinishIs
<1> HIDE DEF c, t, v
<1> QED
  BY <1>1, <1>4, <1>5, <1>8, <1>9, <1>10, <1>13 DEF MatmulRan, v

(* The result is bound to the outs name and to the op's own. *)
ReduceRan ==
    \E b, c, d :
        /\ FetchedIs(core, Op.ins \o Op.outs, b)
        /\ MadeIs(b, c, Term("reduce", Contents(Op.ins \o Op.outs)))
        /\ BoundIs(c, Op.outs, <<Newest(c)>>, TRUE, d)
        /\ Done(d, <<Newest(c)>>)

LEMMA ReduceIs ==
    ASSUME Here, Reduce, ~FetchFails(core, Op.ins \o Op.outs)
    PROVE  ReduceRan
<1> DEFINE names == Op.ins \o Op.outs
           b == Fetched(core, names)
           term == Term("reduce", Contents(names))
           c == Made(b, term)
           d == Bound(c, Op.outs, <<Newest(c)>>, TRUE)
<1>1. FetchedIs(core, names, b)
  BY FetchKeeps DEF Here
<1>2. PICK env : Finish(d, frames, <<Newest(c)>>, env)
  BY DEF Reduce
<1>3. Op.k = "reduce" /\ Op.k \in OneResult /\ Op.k # "constant"
  BY DEF Reduce, Ready, OneResult
<1>4. IsSeq(Op.outs) /\ Len(Op.outs) = 1 /\ IsSeq(Op.ins) /\ "i" \notin Range(names)
  BY <1>3 DEF Here, IsOp, RowsAre
<1>5. "i" \notin Range(Op.outs)
  BY <1>4, RangeOfConcat
<1> HIDE DEF names, b
<1>6. MadeIs(b, c, term)
  BY <1>1, MakeKeeps DEF FetchedIs
<1> HIDE DEF c, term
<1>7. Newest(c) \in 1 .. Len(c.tiles) /\ CoreOK(c) /\ Len(c.scopes) = N /\ N >= 1
  BY <1>1, <1>6 DEF MadeIs, GrownIs, FetchedIs, Here
<1>8. Fits(c, Op.outs, <<Newest(c)>>, TRUE)
  BY <1>4, <1>5, <1>7, OneFits
<1>9. BoundIs(c, Op.outs, <<Newest(c)>>, TRUE, d)
  BY <1>7, <1>8, BindKeeps
<1> HIDE DEF d
<1>10. Newest(c) \in 1 .. Len(d.tiles) /\ CoreOK(d) /\ Len(d.scopes) = N
  BY <1>7, <1>9 DEF BoundIs
<1>11. Fits(d, Op.res, <<Newest(c)>>, Op.k # "constant")
  BY <1>3, <1>10, OneResultFits
<1>12. Done(d, <<Newest(c)>>)
  BY <1>2, <1>10, <1>11, FinishIs
<1> QED
  BY <1>1, <1>6, <1>9, <1>12 DEF ReduceRan, term, names

ParkRan ==
    \E b : /\ FetchedIs(core, Op.ins, b)
           /\ MadeIs(b, core', Term(Op.res[1], Contents(Op.ins)))
           /\ status' = "parked" /\ frames' = frames

LEMMA ParkIs ==
    ASSUME Here, Park, ~FetchFails(core, Op.ins)
    PROVE  ParkRan
<1> DEFINE b == Fetched(core, Op.ins)
           term == Term(Op.res[1], Contents(Op.ins))
           c == Made(b, term)
<1>1. FetchedIs(core, Op.ins, b)
  BY FetchKeeps DEF Here
<1>2. core' = c /\ status' = "parked" /\ frames' = frames
  BY DEF Park
<1> HIDE DEF b
<1>3. MadeIs(b, c, term)
  BY <1>1, MakeKeeps DEF FetchedIs
<1> HIDE DEF c, term
<1> QED
  BY <1>1, <1>2, <1>3 DEF ParkRan, term

ResumeRan == Op.k = "receive" /\ Newest(core) \in 1 .. Len(core.tiles) /\ Done(core, <<Newest(core)>>)

LEMMA ResumeIs ==
    ASSUME Here, TypeInv, Resume
    PROVE  ResumeRan
<1>1. Op.k = "receive" /\ Newest(core) \in 1 .. Len(core.tiles) /\ Op.k \in OneResult
  BY SeqFacts DEF Resume, TypeInv, StatusOK, OneResult, Newest, CoreOK
<1>2. PICK env : Finish(core, frames, <<Newest(core)>>, env)
  BY DEF Resume
<1>3. Fits(core, Op.res, <<Newest(core)>>, Op.k # "constant")
  BY <1>1, OneResultFits
<1> QED
  BY <1>1, <1>2, <1>3, FinishIs DEF ResumeRan, Here

(* scf.if without the branch that is taken. *)
SkipRan == Op.k = "if" /\ Op.res = <<>> /\ Done(core, <<>>)

LEMMA SkipIs ==
    ASSUME Here, NEW branch \in 1 .. 2, EnterIf(branch), Op.blks[branch] = "none"
    PROVE  SkipRan
<1>1. Op.k = "if" /\ Finish(core, frames, <<>>, Frame.env)
  BY DEF EnterIf, Ready
<1>2. IsSeq(Op.blks) /\ Len(Op.blks) = 2 /\ (Op.res # <<>> => "none" \notin Range(Op.blks))
  BY <1>1 DEF Here, IsOp, RowsAre
<1>3. Op.res = <<>>
  BY <1>2, RangeIs
<1>4. Fits(core, <<>>, <<>>, TRUE)
  BY EmptyIsSeq DEF Fits, IsInjective
<1> QED
  BY <1>1, <1>3, <1>4, FinishIs DEF SkipRan, Here

LEMMA YieldReturnIs ==
    ASSUME Here, Yield \/ Return, ~FetchFails(core, Op.ins)
    PROVE  FetchedIs(core, Op.ins, core')
<1> DEFINE b == Fetched(core, Op.ins)
<1>1. FetchedIs(core, Op.ins, b)
  BY FetchKeeps DEF Here
<1>2. core' = b
  BY DEF Yield, Return
<1> HIDE DEF b
<1> QED
  BY <1>1, <1>2

Yields(vals) ==
    /\ IsSeq(vals) /\ Len(vals) = Len(Op.ins)
    /\ \A j \in 1 .. Len(Op.ins) :
          /\ Visible(core, Op.ins[j]) /\ Op.ins[j] # "i"
          /\ vals[j] = Lookup(core, Op.ins[j]) /\ vals[j] \in 1 .. Len(core.tiles)

YieldRan ==
    /\ Op.k = "yield" /\ FetchedIs(core, Op.ins, core') /\ status' = status
    /\ SetIs(frames, N, {"pc", "vals", "terms"}, frames')
    /\ frames'[N].pc = Frame.pc + 1 /\ Yields(frames'[N].vals)
    /\ frames'[N].terms = Meaning(Op.ins)

LEMMA YieldIs ==
    ASSUME Here, Yield, ~FetchFails(core, Op.ins)
    PROVE  YieldRan
<1> DEFINE vals == [j \in DOMAIN Op.ins |-> Lookup(core, Op.ins[j])]
           gs == SetPcValsTerms(frames, N, Frame.pc + 1, vals, Meaning(Op.ins))
<1>1. /\ N \in Nat /\ N \in 1 .. Len(frames) /\ IsSeq(frames) /\ IsFrame(frames[N])
      /\ Frame = frames[N]
  BY DEF Here, N, FramesOK, FrameOK, Frame
<1>2. Op.k = "yield" /\ status' = status /\ frames' = gs
  BY DEF Yield, Ready, SetPcValsTerms, Frame, N
<1>3. /\ IsSeq(Op.ins) /\ Len(Op.ins) \in Nat /\ DOMAIN Op.ins = 1 .. Len(Op.ins)
      /\ "i" \notin Range(Op.ins \o Op.outs)
  BY <1>2, SeqFacts DEF Here, IsOp, RowsAre
<1>4. IsSeq(vals) /\ Len(vals) = Len(Op.ins) /\ \A j \in 1 .. Len(Op.ins) : vals[j] = Lookup(core, Op.ins[j])
  BY <1>3, FunctionIsSeq
<1> HIDE DEF vals
<1>5. Yields(vals)
  <2>1. \A j \in 1 .. Len(Op.ins) : Op.ins[j] # "i"
    BY <1>3, NamesAre
  <2>2. ASSUME NEW j \in 1 .. Len(Op.ins)
        PROVE  Visible(core, Op.ins[j]) /\ Lookup(core, Op.ins[j]) \in 1 .. Len(core.tiles)
    BY <1>3, <2>1, FetchFinds DEF Here
  <2> QED
    BY <1>4, <2>1, <2>2 DEF Yields
<1>6. /\ SetIs(frames, N, {"pc", "vals", "terms"}, gs)
      /\ gs[N].pc = Frame.pc + 1 /\ gs[N].vals = vals /\ gs[N].terms = Meaning(Op.ins)
  BY <1>1, PcValsTerms
<1> HIDE DEF gs
<1> QED
  BY <1>2, <1>5, <1>6, YieldReturnIs DEF YieldRan

(* Where a region stands in its op. *)
Within ==
    /\ prog \in Kernels /\ N \in Nat /\ N >= 2 /\ CoreOK(core)
    /\ FramesOK(frames) /\ FrameOK(frames, N)
    /\ Parent = frames[N - 1] /\ Frame = frames[N] /\ Owner = OwnerOf(frames, N)
    /\ IsSite(Parent.blk, Parent.pc) /\ IsOp(Owner) /\ RowsAre(Owner)
    /\ Frame.blk \in Regions(Owner) /\ Frame.k = Owner.k
    /\ IsSeq(Frame.vals) /\ Len(Frame.vals) = YieldsSoFar(Frame, Owner)
    /\ \A j \in 1 .. Len(Frame.vals) : Frame.vals[j] \in 1 .. Len(core.tiles)
    /\ Len(core.scopes) = IF Frame.pc = 0 THEN N - 1 ELSE N

LEMMA WithinIs ==
    ASSUME TypeInv, Frame.k \in {"for", "if"}
    PROVE  Within
<1>1. N \in Nat /\ N >= 1 /\ FrameOK(frames, N) /\ prog \in Kernels /\ Frame = frames[N]
  BY SeqFacts DEF TypeInv, FramesOK, N, Frame
<1>2. N # 1
  BY <1>1 DEF FrameOK
<1>3. /\ IsSite(Parent.blk, Parent.pc) /\ Frame.blk \in Regions(Owner) /\ Frame.k = Owner.k
      /\ Len(Frame.vals) = YieldsSoFar(Frame, Owner) /\ IsSeq(Frame.vals)
      /\ Parent = frames[N - 1] /\ Owner = OwnerOf(frames, N)
  BY <1>1, <1>2 DEF FrameOK, Parent, Owner, OwnerOf, N
<1>4. IsOp(Owner) /\ RowsAre(Owner)
  BY <1>3, OpFacts, RowFacts DEF Owner
<1>5. \A j \in 1 .. Len(Frame.vals) : Frame.vals[j] \in 1 .. Len(core.tiles)
  BY <1>1 DEF TypeInv, ValsOK, N
<1>6. Len(core.scopes) = IF Frame.pc = 0 THEN N - 1 ELSE N
  BY <1>1 DEF TypeInv, ScopesMatch, N
<1> QED
  BY <1>1, <1>2, <1>3, <1>4, <1>5, <1>6 DEF Within, TypeInv

(* The values of a region fit the names that receive them.                 *)
LEMMA ValuesFit ==
    ASSUME Within, NEW c, CoreOK(c), c.tiles = core.tiles, NEW names,
           names \in {Owner.args, Owner.res}, Len(names) = Len(Frame.vals)
    PROVE  Fits(c, names, Frame.vals, TRUE)
<1>1. IsSeq(names) /\ IsInjective(names) /\ "i" \notin Range(names)
  BY DEF Within, IsOp, RowsAre
<1>2. \A i \in 1 .. Len(names) : names[i] # "i"
  BY <1>1, RangeIs
<1> QED
  BY <1>1, <1>2 DEF Fits, Within

LEMMA ValuesMatch ==
    ASSUME Within
    PROVE  /\ Frame.k = "for" => Len(Owner.args) = Len(Frame.vals) /\ Len(Owner.res) = Len(Frame.vals)
           /\ Frame.k = "if" /\ Frame.pc > Len(prog[Frame.blk]) => Len(Owner.res) = Len(Frame.vals)
BY DEF Within, IsOp, YieldsSoFar

IterationEnv ==
    Over(Assign(Owner.args, Frame.terms), Over(Assign(<<"i">>, <<ScalarTerm>>), Frame.outer))
IterateRan ==
    /\ \E b : PushedIs(core, b) /\ BoundIs(b, <<"i">>, <<Scalar>>, TRUE, core')
    /\ SetIs(frames, N, {"pc", "env"}, frames') /\ frames'[N].pc = 1
    /\ frames'[N].env = IterationEnv
    /\ Frame.k = "for" /\ Frame.pc = 0 /\ status' = status

LEMMA IterateIs ==
    ASSUME Within, Iterate
    PROVE  IterateRan
<1> DEFINE b == Pushed(core)
           a == Bound(b, <<"i">>, <<Scalar>>, TRUE)
           gs == SetPcEnv(frames, N, 1, IterationEnv)
<1>1. PushedIs(core, b)
  BY PushKeeps DEF Within
<1>2. core' = a /\ frames' = gs /\ Frame.k = "for" /\ Frame.pc = 0 /\ status' = status
  BY DEF Iterate, AtHead, SetPcEnv, N, IterationEnv
<1> HIDE DEF b
<1>3. CoreOK(b) /\ Len(b.scopes) >= 1
  BY <1>1 DEF PushedIs, IsAppend, Within
<1>4. Fits(b, <<"i">>, <<Scalar>>, TRUE)
  <2>1. /\ IsSeq(<<"i">>) /\ Len(<<"i">>) = 1 /\ <<"i">>[1] = "i"
        /\ IsSeq(<<Scalar>>) /\ Len(<<Scalar>>) = 1 /\ <<Scalar>>[1] = Scalar
    BY OneValue
  <2>2. IsInjective(<<"i">>)
    BY DEF IsInjective
  <2> QED
    BY <2>1, <2>2 DEF Fits
<1>5. BoundIs(b, <<"i">>, <<Scalar>>, TRUE, a)
  BY <1>3, <1>4, BindKeeps
<1>6. N \in 1 .. Len(frames) /\ IsSeq(frames) /\ IsFrame(frames[N])
  BY DEF Within, N, FramesOK, FrameOK
<1>7. SetIs(frames, N, {"pc", "env"}, gs) /\ gs[N].pc = 1 /\ gs[N].env = IterationEnv
  BY <1>6, PcAndEnv
<1> HIDE DEF a, gs
<1> QED
  BY <1>1, <1>2, <1>5, <1>7 DEF IterateRan

EndIterationRan ==
    /\ \E b : PoppedIs(core, b) /\ BoundIs(b, Owner.args, Frame.vals, TRUE, core')
    /\ SetIs(frames, N, {"pc", "at"}, frames') /\ frames'[N].pc = 0
    /\ Frame.k = "for" /\ Frame.pc = Len(prog[Frame.blk]) + 1 /\ status' = status

LEMMA EndIterationIs ==
    ASSUME Within, EndIteration
    PROVE  EndIterationRan
<1> DEFINE b == Popped(core)
           a == Bound(b, Owner.args, Frame.vals, TRUE)
           gs == SetPcAt(frames, N, 0, Frame.at + Frame.by)
<1>1. /\ core' = a /\ frames' = gs /\ status' = status
      /\ Frame.k = "for" /\ Frame.pc = Len(prog[Frame.blk]) + 1
  BY DEF EndIteration, AtEnd, SetPcAt, N, Rebound, Frame
<1>2. Frame.pc # 0
  BY <1>1, BlockIs DEF Within, FrameOK
<1>3. PoppedIs(core, b)
  BY <1>2, PopKeeps DEF Within
<1> HIDE DEF b
<1>4. CoreOK(b) /\ Len(b.scopes) >= 1 /\ b.tiles = core.tiles
  BY <1>2, <1>3 DEF PoppedIs, Within
<1>5. Fits(b, Owner.args, Frame.vals, TRUE)
  BY <1>1, <1>4, ValuesFit, ValuesMatch
<1>6. BoundIs(b, Owner.args, Frame.vals, TRUE, a)
  BY <1>4, <1>5, BindKeeps
<1>7. N \in 1 .. Len(frames) /\ IsSeq(frames) /\ IsFrame(frames[N])
  BY DEF Within, N, FramesOK, FrameOK
<1>8. SetIs(frames, N, {"pc", "at"}, gs) /\ gs[N].pc = 0
  BY <1>7, PcAndAt
<1> HIDE DEF a, gs
<1> QED
  BY <1>1, <1>3, <1>6, <1>8 DEF EndIterationRan

(* A region is left: its values go to its op's results. *)
LeaveRan ==
    /\ \E b : /\ IF Frame.k = "for" THEN b = core /\ Frame.pc = 0
                 ELSE PoppedIs(core, b) /\ Frame.pc = Len(prog[Frame.blk]) + 1 /\ Frame.k = "if"
              /\ BoundIs(b, Owner.res, Frame.vals, TRUE, core')
    /\ EndsIn(frames, N - 2, frames'[N - 1], frames')
    /\ SameBut(Parent, frames'[N - 1], {"pc", "env"}) /\ frames'[N - 1].pc = Parent.pc + 1
    /\ frames'[N - 1].env = Over(Assign(Owner.res, Frame.terms), Parent.env)
    /\ status' = status

LEMMA LeaveFrames ==
    ASSUME Within, NEW env,
           frames' = SetPcEnv(Front(frames), N - 1, Parent.pc + 1, env)
    PROVE  /\ EndsIn(frames, N - 2, frames'[N - 1], frames')
           /\ SameBut(Parent, frames'[N - 1], {"pc", "env"}) /\ frames'[N - 1].pc = Parent.pc + 1
           /\ frames'[N - 1].env = env
<1> DEFINE fs == Front(frames)
           gs == SetPcEnv(fs, N - 1, Parent.pc + 1, env)
<1>1. /\ N \in Nat /\ N >= 2 /\ IsSeq(frames) /\ Parent = frames[N - 1]
      /\ N = Len(frames) /\ \A d \in 1 .. Len(frames) : FrameOK(frames, d)
  BY DEF Within, N, FramesOK
<1>2. IsFront(frames, fs)
  BY <1>1, FrontIs
<1> HIDE DEF fs
<1>3. IsSeq(fs) /\ Len(fs) = N - 1 /\ \A d \in 1 .. N - 1 : fs[d] = frames[d]
  BY <1>1, <1>2 DEF IsFront
<1>4. N - 1 \in 1 .. Len(fs) /\ fs[N - 1] = Parent /\ IsFrame(fs[N - 1])
  BY <1>1, <1>3 DEF FrameOK
<1>5. SetIs(fs, N - 1, {"pc", "env"}, gs) /\ gs[N - 1].pc = Parent.pc + 1 /\ gs[N - 1].env = env
  BY <1>3, <1>4, PcAndEnv
<1> HIDE DEF gs
<1>6. frames' = gs
  BY DEF gs, fs
<1>7. /\ IsSeq(gs) /\ Len(gs) = N - 1 /\ \A d \in 1 .. N - 1 : d # N - 1 => gs[d] = fs[d]
      /\ SameBut(Parent, gs[N - 1], {"pc", "env"})
  BY <1>3, <1>4, <1>5 DEF SetIs, IsReplaced
<1>8. \A d \in 1 .. N - 2 : gs[d] = frames[d]
  BY <1>1, <1>3, <1>7
<1>9. EndsIn(frames, N - 2, gs[N - 1], gs)
  BY <1>1, <1>7, <1>8 DEF EndsIn
<1> QED
  BY <1>5, <1>6, <1>7, <1>9

LEMMA LeaveIs ==
    ASSUME Within, NEW c, Leave(c), CoreOK(c), Len(c.scopes) >= 1, c.tiles = core.tiles,
           IF Frame.k = "for" THEN c = core /\ Frame.pc = 0
           ELSE PoppedIs(core, c) /\ Frame.pc = Len(prog[Frame.blk]) + 1 /\ Frame.k = "if"
    PROVE  LeaveRan
<1> DEFINE a == Bound(c, Owner.res, Frame.vals, TRUE)
           env == Over(Assign(Owner.res, Frame.terms), Parent.env)
<1>1. core' = a /\ status' = status
  BY DEF Leave
<1>2. frames' = SetPcEnv(Front(frames), N - 1, Parent.pc + 1, env)
  <2>1. IsFront(frames, Front(frames)) /\ N \in Nat /\ N >= 2 /\ N = Len(frames)
    BY FrontIs DEF Within, FramesOK, N
  <2>2. Front(frames)[Len(frames) - 1] = Parent
    BY <2>1 DEF IsFront, Parent, N
  <2> QED
    BY <2>2 DEF Leave, SetPcEnv, N
<1>3. Len(Owner.res) = Len(Frame.vals)
  <2>1. CASE Frame.k = "for"
    BY <2>1, ValuesMatch
  <2>2. CASE Frame.k # "for"
    <3>1. Frame.k = "if" /\ Frame.pc = Len(prog[Frame.blk]) + 1 /\ Len(prog[Frame.blk]) \in Nat
      BY <2>2, BlockIs DEF Within, FrameOK
    <3>2. Frame.pc > Len(prog[Frame.blk])
      BY <3>1
    <3> QED
      BY <3>1, <3>2, ValuesMatch
  <2> QED
    BY <2>1, <2>2
<1>4. Fits(c, Owner.res, Frame.vals, TRUE)
  BY <1>3, ValuesFit
<1>5. BoundIs(c, Owner.res, Frame.vals, TRUE, a)
  BY <1>4, BindKeeps
<1>6. /\ EndsIn(frames, N - 2, frames'[N - 1], frames')
      /\ SameBut(Parent, frames'[N - 1], {"pc", "env"}) /\ frames'[N - 1].pc = Parent.pc + 1
      /\ frames'[N - 1].env = env
  BY <1>2, LeaveFrames
<1> HIDE DEF a
<1> QED
  BY <1>1, <1>5, <1>6 DEF LeaveRan

LEMMA ExitIs ==
    ASSUME Within, ExitFor \/ ExitIf
    PROVE  LeaveRan
<1>1. Len(core.scopes) = (IF Frame.pc = 0 THEN N - 1 ELSE N) /\ N >= 2 /\ N \in Nat /\ CoreOK(core)
  BY DEF Within
<1>2. CASE ExitFor
  <2>1. Leave(core) /\ Frame.k = "for" /\ Frame.pc = 0
    BY <1>2 DEF ExitFor, AtHead
  <2> QED
    BY <1>1, <2>1, LeaveIs
<1>3. CASE ExitIf
  <2> DEFINE c == Popped(core)
  <2>1. Leave(c) /\ Frame.k = "if" /\ Frame.pc = Len(prog[Frame.blk]) + 1
    BY <1>3 DEF ExitIf, AtEnd
  <2>2. Frame.pc # 0
    BY <2>1, BlockIs DEF Within, FrameOK
  <2>3. PoppedIs(core, c)
    BY <1>1, <2>2, PopKeeps
  <2> HIDE DEF c
  <2>4. CoreOK(c) /\ Len(c.scopes) >= 1 /\ c.tiles = core.tiles
    BY <1>1, <2>2, <2>3 DEF PoppedIs
  <2> QED
    BY <2>1, <2>3, <2>4, LeaveIs
<1> QED
  BY <1>2, <1>3

(* A region is entered. *)
EnterForRan ==
    /\ Op.k = "for" /\ status' = status
    /\ \A n \in Range(Op.ins) : Visible(core, n)
    /\ \E b, vals, g :
          /\ InitsAre(Op.ins, b, vals) /\ BoundIs(b, Op.args, vals, TRUE, core')
          /\ IsAppend(frames, g, frames') /\ IsFrame(g)
          /\ g.k = "for" /\ g.blk = Op.blks[1] /\ g.pc = 0 /\ g.vals = vals
          /\ g.terms = Meaning(Op.ins) /\ g.env = Frame.env /\ g.outer = Frame.env
          /\ g.live = Live(core')

LoopFrame(blk, env, vals, terms, to, by, live) ==
    [Region("for", blk, 0, env) EXCEPT !.vals = vals, !.terms = terms, !.to = to,
                                       !.by = by, !.live = live]

LEMMA LoopRegion ==
    ASSUME NEW blk, NEW env, NEW vals, NEW terms, NEW to, NEW by, NEW live
    PROVE  LoopFrame(blk, env, vals, terms, to, by, live) =
               [k |-> "for", blk |-> blk, pc |-> 0, env |-> env, vals |-> vals, terms |-> terms,
                at |-> 0, to |-> to, by |-> by, live |-> live, outer |-> env]
<1> DEFINE r == Region("for", blk, 0, env)
           r1 == [r EXCEPT !.vals = vals]
           r2 == [r1 EXCEPT !.terms = terms]
           r3 == [r2 EXCEPT !.to = to]
           r4 == [r3 EXCEPT !.by = by]
           r5 == [r4 EXCEPT !.live = live]
<1>1. r1 = [k |-> "for", blk |-> blk, pc |-> 0, env |-> env, vals |-> vals, terms |-> <<>>,
            at |-> 0, to |-> 0, by |-> 0, live |-> 0, outer |-> env]
  BY DEF Region
<1>2. r2 = [k |-> "for", blk |-> blk, pc |-> 0, env |-> env, vals |-> vals, terms |-> terms,
            at |-> 0, to |-> 0, by |-> 0, live |-> 0, outer |-> env]
  <2> HIDE DEF r1
  <2> QED
    BY <1>1
<1>3. r3 = [k |-> "for", blk |-> blk, pc |-> 0, env |-> env, vals |-> vals, terms |-> terms,
            at |-> 0, to |-> to, by |-> 0, live |-> 0, outer |-> env]
  <2> HIDE DEF r2
  <2> QED
    BY <1>2
<1>4. r4 = [k |-> "for", blk |-> blk, pc |-> 0, env |-> env, vals |-> vals, terms |-> terms,
            at |-> 0, to |-> to, by |-> by, live |-> 0, outer |-> env]
  <2> HIDE DEF r3
  <2> QED
    BY <1>3
<1>5. r5 = [k |-> "for", blk |-> blk, pc |-> 0, env |-> env, vals |-> vals, terms |-> terms,
            at |-> 0, to |-> to, by |-> by, live |-> live, outer |-> env]
  <2> HIDE DEF r4
  <2> QED
    BY <1>4
<1>6. LoopFrame(blk, env, vals, terms, to, by, live) = r5
  BY DEF LoopFrame
<1> QED
  BY <1>5, <1>6

LEMMA EnterForIs ==
    ASSUME Here, NEW to, NEW step, EnterFor(to, step),
           ~\E n \in Range(Op.ins) : ~Visible(core, n)
    PROVE  EnterForRan
<1> DEFINE inits == IterInits(Op.ins)
           b == inits.core
           vals == inits.vals
           c == Bound(b, Op.args, vals, TRUE)
           g == [k |-> "for", blk |-> Op.blks[1], pc |-> 0, env |-> Frame.env, vals |-> vals,
                 terms |-> Meaning(Op.ins), at |-> 0, to |-> to, by |-> Stride(step),
                 live |-> Live(c), outer |-> Frame.env]
<1>1. Op.k = "for" /\ status' = status /\ core' = c
  BY DEF EnterFor, Ready
<1>2. frames' = Append(frames, g)
  <2> DEFINE h == LoopFrame(Op.blks[1], Frame.env, vals, Meaning(Op.ins), to, Stride(step), Live(c))
  <2>1. frames' = Append(frames, h)
    BY DEF EnterFor, LoopFrame
  <2>2. h = g
    BY LoopRegion
  <2> HIDE DEF g, h
  <2> QED
    BY <2>1, <2>2
<1>3. /\ IsSeq(Op.ins) /\ IsSeq(Op.args) /\ IsInjective(Op.args) /\ Len(Op.args) = Len(Op.ins)
      /\ "i" \notin Range(Op.args)
  BY <1>1 DEF Here, IsOp, RowsAre
<1>4. InitsAre(Op.ins, b, vals)
  BY <1>3, InitsKeep DEF Here
<1> HIDE DEF inits, b, vals
<1>5. /\ CoreOK(b) /\ Len(b.scopes) = N /\ N >= 1 /\ IsSeq(vals) /\ Len(vals) = Len(Op.ins)
      /\ \A i \in 1 .. Len(Op.ins) : vals[i] \in 1 .. Len(b.tiles)
  BY <1>4 DEF InitsAre, GrownIs, Here
<1>6. \A i \in 1 .. Len(Op.args) : Op.args[i] # "i"
  BY <1>3, RangeIs
<1>7. Fits(b, Op.args, vals, TRUE)
  BY <1>3, <1>5, <1>6 DEF Fits
<1>8. BoundIs(b, Op.args, vals, TRUE, c)
  BY <1>5, <1>7, BindKeeps
<1>9. /\ IsFrame(g) /\ g.k = "for" /\ g.blk = Op.blks[1] /\ g.pc = 0 /\ g.vals = vals
      /\ g.terms = Meaning(Op.ins) /\ g.env = Frame.env /\ g.outer = Frame.env
      /\ g.live = Live(c)
  BY DEF IsFrame, FrameFields
<1> HIDE DEF c, g
<1>10. IsAppend(frames, g, frames')
  BY <1>2, AppendIs DEF Here, FramesOK
<1> QED
  BY <1>1, <1>4, <1>8, <1>9, <1>10 DEF EnterForRan

BranchRan(branch) ==
    /\ Op.k = "if" /\ Op.blks[branch] # "none" /\ status' = status
    /\ PushedIs(core, core')
    /\ \E g : /\ IsAppend(frames, g, frames') /\ IsFrame(g)
              /\ g.k = "if" /\ g.blk = Op.blks[branch] /\ g.pc = 1 /\ g.vals = <<>>
              /\ g.env = Frame.env

LEMMA BranchIs ==
    ASSUME Here, NEW branch \in 1 .. 2, EnterIf(branch), Op.blks[branch] # "none"
    PROVE  BranchRan(branch)
<1> DEFINE g == Region("if", Op.blks[branch], 1, Frame.env)
           b == Pushed(core)
<1>1. Op.k = "if" /\ status' = status /\ core' = b /\ frames' = Append(frames, g)
  BY DEF EnterIf, Ready
<1>2. PushedIs(core, b)
  BY PushKeeps DEF Here
<1> HIDE DEF b
<1>3. IsFrame(g) /\ g.k = "if" /\ g.blk = Op.blks[branch] /\ g.pc = 1 /\ g.vals = <<>>
      /\ g.env = Frame.env
  BY DEF IsFrame, FrameFields, Region
<1> HIDE DEF g
<1>4. IsAppend(frames, g, frames')
  BY <1>1, AppendIs DEF Here, FramesOK
<1> QED
  BY <1>1, <1>2, <1>3, <1>4 DEF BranchRan

(***************************************************************************)
(* Every step keeps the type invariant.                                    *)
(***************************************************************************)
LEMMA TypeNext ==
    ASSUME TypeInv, UNCHANGED <<prog, usedOnce>>, CoreOK(core'), FramesOK(frames'),
           ScopesMatch(core', frames'), ValsOK(core', frames'), StatusOK'
    PROVE  TypeInv'
<1>1. FramesOK(frames)'
  BY DEF FramesOK, FrameOK, OwnerOf, IsSite, YieldsSoFar
<1>2. CoreOK(core)'
  BY DEF CoreOK, ScopeOK, BoundTiles
<1>3. ScopesMatch(core, frames)' /\ ValsOK(core, frames)'
  BY DEF ScopesMatch, ValsOK
<1> QED
  BY <1>1, <1>2, <1>3 DEF TypeInv, Operands, UseCount

NotParked == status' \in {"running", "done", "KeyError", "AssertionError"}

LEMMA RaiseKeeps ==
    ASSUME TypeInv, UNCHANGED <<prog, usedOnce>>, NEW exception \in {"KeyError", "AssertionError"},
           Raise(exception)
    PROVE  TypeInv'
BY TypeNext DEF Raise, TypeInv, StatusOK

LEMMA ValsStay ==
    ASSUME TypeInv, NEW fs, NEW a, CoreOK(a), Len(core.tiles) <= Len(a.tiles),
           \A d \in 1 .. Len(fs) :
               \/ d \in 1 .. Len(frames) /\ fs[d].vals = frames[d].vals
               \/ \A j \in 1 .. Len(fs[d].vals) : fs[d].vals[j] \in 1 .. Len(a.tiles)
    PROVE  ValsOK(a, fs)
<1>1. Len(core.tiles) \in Nat /\ Len(a.tiles) \in Nat
  BY SeqFacts DEF TypeInv, CoreOK
<1>2. ASSUME NEW d \in 1 .. Len(fs), NEW j \in 1 .. Len(fs[d].vals)
      PROVE  fs[d].vals[j] \in 1 .. Len(a.tiles)
  <2>1. CASE d \in 1 .. Len(frames) /\ fs[d].vals = frames[d].vals
    BY <1>1, <2>1 DEF TypeInv, ValsOK
  <2> QED
    BY <1>2, <2>1
<1> QED
  BY <1>2 DEF ValsOK

(* Only the last frame changes. *)
LEMMA LastChanges ==
    ASSUME TypeInv, N \in Nat, N >= 1, NEW fields, SetIs(frames, N, fields, frames'),
           "k" \notin fields, "blk" \notin fields,
           IsSeq(frames'[N].vals), frames'[N].pc \in 0 .. Len(prog[Frame.blk]) + 1,
           frames'[N].pc = 0 => Frame.k = "for",
           IF N = 1 THEN Len(frames'[N].vals) = 0
           ELSE Len(frames'[N].vals) = YieldsSoFar(frames'[N], OwnerOf(frames, N))
    PROVE  FramesOK(frames') /\ EndsIn(frames, N - 1, frames'[N], frames')
<1>1. FramesOK(frames) /\ prog \in Kernels /\ N = Len(frames) /\ Frame = frames[N]
  BY DEF TypeInv, N, Frame
<1>2. /\ IsSeq(frames') /\ Len(frames') = N
      /\ \A d \in 1 .. Len(frames) : d # N => frames'[d] = frames[d]
      /\ IsFrame(frames'[N]) /\ frames'[N].k = Frame.k /\ frames'[N].blk = Frame.blk
  BY <1>1 DEF SetIs, IsReplaced, SameBut, FrameFields
<1>3. EndsIn(frames, N - 1, frames'[N], frames')
  BY <1>1, <1>2 DEF EndsIn
<1>4. N - 1 \in 0 .. Len(frames) - 1 /\ N - 1 + 1 = N
  BY <1>1
<1>5. IF N - 1 = 0 THEN Len(frames'[N].vals) = 0
      ELSE Len(frames'[N].vals) = YieldsSoFar(frames'[N], OwnerOf(frames, N - 1 + 1))
  BY <1>4
<1>6. FramesOK(frames')
  BY <1>1, <1>2, <1>3, <1>4, <1>5, FramesChange
<1> QED
  BY <1>3, <1>6

LEMMA ParkKeeps ==
    ASSUME TypeInv, Here, UNCHANGED <<prog, usedOnce>>, Op.k = "receive", ParkRan
    PROVE  TypeInv'
<1>1. PICK b : /\ FetchedIs(core, Op.ins, b)
               /\ MadeIs(b, core', Term(Op.res[1], Contents(Op.ins)))
  BY DEF ParkRan
<1>2. /\ CoreOK(core') /\ Len(core'.scopes) = Len(core.scopes) /\ Len(core'.tiles) = Len(core.tiles) + 1
      /\ Len(core.tiles) \in Nat
  BY <1>1, SeqFacts DEF FetchedIs, MadeIs, GrownIs, Here, CoreOK
<1>3. frames' = frames /\ status' = "parked"
  BY DEF ParkRan
<1>4. ScopesMatch(core', frames')
  BY <1>2, <1>3 DEF TypeInv, ScopesMatch
<1>5. ValsOK(core', frames')
  BY <1>2, <1>3, ValsStay
<1>6. StatusOK'
  <2>1. Frame.pc \in DOMAIN prog[Frame.blk]
    BY BlockIs DEF Here, IsSite
  <2> QED
    BY <1>2, <1>3, <2>1 DEF StatusOK, Frame, Op
<1> QED
  BY <1>2, <1>3, <1>4, <1>5, <1>6, TypeNext DEF TypeInv

LEMMA ReturnKeeps ==
    ASSUME TypeInv, Here, UNCHANGED <<prog, usedOnce>>, NotParked, frames' = frames,
           FetchedIs(core, Op.ins, core')
    PROVE  TypeInv'
<1>1. /\ CoreOK(core') /\ Len(core'.scopes) = Len(core.scopes) /\ core'.tiles = core.tiles
      /\ Len(core.tiles) \in Nat
  BY SeqFacts DEF FetchedIs, Here, CoreOK
<1>2. ScopesMatch(core', frames') /\ ValsOK(core', frames')
  BY <1>1 DEF TypeInv, ScopesMatch, ValsOK
<1>3. StatusOK'
  BY DEF NotParked, StatusOK
<1> QED
  BY <1>1, <1>2, <1>3, TypeNext DEF TypeInv

LEMMA YieldKeeps ==
    ASSUME TypeInv, Here, UNCHANGED <<prog, usedOnce>>, YieldRan, status = "running"
    PROVE  TypeInv'
<1> DEFINE g == frames'[N]
           o == OwnerOf(frames, N)
<1>1. /\ CoreOK(core') /\ Len(core'.scopes) = N /\ core'.tiles = core.tiles /\ Len(core.tiles) \in Nat
  BY SeqFacts DEF YieldRan, FetchedIs, Here, CoreOK
<1>2. /\ SetIs(frames, N, {"pc", "vals", "terms"}, frames') /\ g.pc = Frame.pc + 1
      /\ IsSeq(g.vals) /\ Len(g.vals) = Len(Op.ins)
      /\ \A j \in 1 .. Len(g.vals) : g.vals[j] \in 1 .. Len(core.tiles)
      /\ status' = status /\ Op.k = "yield"
  BY DEF YieldRan, Yields
<1>3. N \in Nat /\ N >= 1 /\ N = Len(frames) /\ Frame = frames[N] /\ FrameOK(frames, N)
  BY DEF Here, N, Frame
<1>4. Frame.pc \in 1 .. Len(prog[Frame.blk]) /\ Len(prog[Frame.blk]) \in Nat
  BY BlockIs DEF Here, IsSite
<1>5. N # 1
  <2>1. \A i \in DOMAIN prog["main"] : prog["main"][i].k # "yield"
    BY KernelsAssumption DEF Here, WellFormed
  <2>2. Frame.pc \in DOMAIN prog[Frame.blk]
    BY <1>4, BlockIs DEF Here, IsSite
  <2>3. Frame.blk # "main"
    BY <1>2, <2>1, <2>2 DEF Op
  <2> QED
    BY <1>3, <2>3 DEF FrameOK
<1>6. /\ IsSite(frames[N - 1].blk, frames[N - 1].pc) /\ Frame.blk \in Regions(o)
      /\ Frame.k = o.k /\ Frame.k \in {"for", "if"}
  BY <1>3, <1>5 DEF FrameOK
<1>7. Terminated(o, prog[Frame.blk]) /\ IsOp(o)
  BY <1>6, OpFacts DEF OwnerOf
<1>8. Frame.pc = Len(prog[Frame.blk]) /\ Len(Op.ins) = Len(o.res)
  <2>1. Frame.pc \in DOMAIN prog[Frame.blk]
    BY <1>4, BlockIs DEF Here, IsSite
  <2> QED
    BY <1>2, <1>7, <2>1 DEF Terminated, Op
<1>9. g.k = Frame.k /\ g.blk = Frame.blk
  BY <1>2, <1>3 DEF SetIs, SameBut, FrameFields
<1>10. Len(g.vals) = YieldsSoFar(g, o)
  <2>1. CASE Frame.k = "for"
    <3>1. Len(o.res) = Len(o.args)
      BY <1>6, <1>7, <2>1 DEF IsOp
    <3> QED
      BY <2>1, <3>1, <1>2, <1>8, <1>9 DEF YieldsSoFar
  <2>2. CASE Frame.k = "if"
    <3>1. g.pc > Len(prog[g.blk])
      BY <1>2, <1>4, <1>8, <1>9
    <3> QED
      BY <2>2, <3>1, <1>2, <1>8, <1>9 DEF YieldsSoFar
  <2> QED
    BY <1>6, <2>1, <2>2
<1>11. g.pc \in 1 .. Len(prog[Frame.blk]) + 1
  BY <1>2, <1>4
<1>12. FramesOK(frames') /\ EndsIn(frames, N - 1, g, frames')
  <2>1. g.pc # 0 /\ g.pc \in 0 .. Len(prog[Frame.blk]) + 1
    BY <1>4, <1>11
  <2> HIDE DEF g, o
  <2>2. IF N = 1 THEN Len(g.vals) = 0 ELSE Len(g.vals) = YieldsSoFar(g, o)
    BY <1>5, <1>10
  <2>3. "k" \notin {"pc", "vals", "terms"} /\ "blk" \notin {"pc", "vals", "terms"}
    OBVIOUS
  <2> QED
    BY <1>2, <1>3, <2>1, <2>2, <2>3, LastChanges DEF g, o
<1>13. Len(frames') = N /\ \A d \in 1 .. N - 1 : frames'[d] = frames[d]
  BY <1>3, <1>12 DEF EndsIn
<1>14. ScopesMatch(core', frames')
  BY <1>1, <1>11, <1>13 DEF ScopesMatch
<1>15. ValsOK(core', frames')
  <2>1. ASSUME NEW d \in 1 .. Len(frames')
        PROVE  \/ d \in 1 .. Len(frames) /\ frames'[d].vals = frames[d].vals
               \/ \A j \in 1 .. Len(frames'[d].vals) : frames'[d].vals[j] \in 1 .. Len(core'.tiles)
    BY <1>1, <1>2, <1>3, <1>13
  <2> QED
    BY <1>1, <2>1, ValsStay
<1>16. StatusOK'
  BY <1>2 DEF StatusOK
<1> QED
  BY <1>1, <1>12, <1>14, <1>15, <1>16, TypeNext

LEMMA IterateKeeps ==
    ASSUME TypeInv, Within, UNCHANGED <<prog, usedOnce>>, IterateRan, status = "running"
    PROVE  TypeInv'
<1> DEFINE g == frames'[N]
<1>1. PICK b : PushedIs(core, b) /\ BoundIs(b, <<"i">>, <<Scalar>>, TRUE, core')
  BY DEF IterateRan
<1>2. /\ SetIs(frames, N, {"pc", "env"}, frames') /\ g.pc = 1
      /\ Frame.k = "for" /\ Frame.pc = 0 /\ status' = status
  BY DEF IterateRan
<1>3. /\ N \in Nat /\ N >= 2 /\ N = Len(frames) /\ Frame = frames[N] /\ IsSeq(Frame.vals)
      /\ Owner = OwnerOf(frames, N) /\ Len(Frame.vals) = YieldsSoFar(Frame, Owner)
      /\ Len(prog[Frame.blk]) \in Nat
  BY BlockIs DEF Within, N, FrameOK
<1>4. CoreOK(core') /\ Len(core'.scopes) = N /\ core'.tiles = core.tiles /\ Len(core.tiles) \in Nat
  BY <1>1, <1>2, SeqFacts DEF PushedIs, BoundIs, IsAppend, Within, CoreOK
<1>5. g.k = Frame.k /\ g.vals = Frame.vals
  BY <1>2, <1>3 DEF SetIs, SameBut, FrameFields
<1>6. Len(g.vals) = YieldsSoFar(g, OwnerOf(frames, N))
  BY <1>2, <1>3, <1>5 DEF YieldsSoFar
<1>7. FramesOK(frames') /\ EndsIn(frames, N - 1, g, frames')
  <2>1. g.pc # 0 /\ g.pc \in 0 .. Len(prog[Frame.blk]) + 1 /\ N >= 1 /\ N # 1
    BY <1>2, <1>3
  <2>2. "k" \notin {"pc", "env"} /\ "blk" \notin {"pc", "env"}
    OBVIOUS
  <2> QED
    BY <1>2, <1>3, <1>5, <1>6, <2>1, <2>2, LastChanges
<1>8. Len(frames') = N /\ \A d \in 1 .. N - 1 : frames'[d] = frames[d]
  BY <1>3, <1>7 DEF EndsIn
<1>9. ScopesMatch(core', frames')
  BY <1>2, <1>4, <1>8 DEF ScopesMatch
<1>10. ValsOK(core', frames')
  <2>1. \A d \in 1 .. Len(frames') : d \in 1 .. Len(frames) /\ frames'[d].vals = frames[d].vals
    BY <1>3, <1>5, <1>8
  <2> QED
    BY <1>4, <2>1, ValsStay
<1>11. StatusOK'
  BY <1>2 DEF StatusOK
<1> QED
  BY <1>4, <1>7, <1>9, <1>10, <1>11, TypeNext

LEMMA EndIterationKeeps ==
    ASSUME TypeInv, Within, UNCHANGED <<prog, usedOnce>>, EndIterationRan, status = "running"
    PROVE  TypeInv'
<1> DEFINE g == frames'[N]
<1>1. PICK b : PoppedIs(core, b) /\ BoundIs(b, Owner.args, Frame.vals, TRUE, core')
  BY DEF EndIterationRan
<1>2. /\ SetIs(frames, N, {"pc", "at"}, frames') /\ g.pc = 0
      /\ Frame.k = "for" /\ Frame.pc = Len(prog[Frame.blk]) + 1 /\ status' = status
  BY DEF EndIterationRan
<1>3. /\ N \in Nat /\ N >= 2 /\ N = Len(frames) /\ Frame = frames[N] /\ IsSeq(Frame.vals)
      /\ Owner = OwnerOf(frames, N) /\ Len(Frame.vals) = YieldsSoFar(Frame, Owner)
      /\ Len(prog[Frame.blk]) \in Nat
  BY BlockIs DEF Within, N, FrameOK
<1>4. /\ CoreOK(core') /\ Len(core'.scopes) = N - 1 /\ core'.tiles = core.tiles
      /\ Len(core.tiles) \in Nat
  <2>1. Len(core.scopes) = N
    BY <1>2, <1>3 DEF Within
  <2> QED
    BY <1>1, <2>1, SeqFacts DEF PoppedIs, BoundIs, Within, CoreOK
<1>5. g.k = Frame.k /\ g.vals = Frame.vals
  BY <1>2, <1>3 DEF SetIs, SameBut, FrameFields
<1>6. Len(g.vals) = YieldsSoFar(g, OwnerOf(frames, N))
  BY <1>2, <1>3, <1>5 DEF YieldsSoFar
<1>7. FramesOK(frames') /\ EndsIn(frames, N - 1, g, frames')
  <2>1. g.pc \in 0 .. Len(prog[Frame.blk]) + 1 /\ N >= 1 /\ N # 1
    BY <1>2, <1>3
  <2>2. "k" \notin {"pc", "at"} /\ "blk" \notin {"pc", "at"}
    OBVIOUS
  <2> QED
    BY <1>2, <1>3, <1>5, <1>6, <2>1, <2>2, LastChanges
<1>8. Len(frames') = N /\ \A d \in 1 .. N - 1 : frames'[d] = frames[d]
  BY <1>3, <1>7 DEF EndsIn
<1>9. ScopesMatch(core', frames')
  BY <1>2, <1>4, <1>8 DEF ScopesMatch
<1>10. ValsOK(core', frames')
  <2>1. \A d \in 1 .. Len(frames') : d \in 1 .. Len(frames) /\ frames'[d].vals = frames[d].vals
    BY <1>3, <1>5, <1>8
  <2> QED
    BY <1>4, <2>1, ValsStay
<1>11. StatusOK'
  BY <1>2 DEF StatusOK
<1> QED
  BY <1>4, <1>7, <1>9, <1>10, <1>11, TypeNext

LEMMA LeaveKeeps ==
    ASSUME TypeInv, Within, UNCHANGED <<prog, usedOnce>>, LeaveRan, status = "running"
    PROVE  TypeInv'
<1> DEFINE g == frames'[N - 1]
<1>1. PICK b : /\ IF Frame.k = "for" THEN b = core /\ Frame.pc = 0
                  ELSE PoppedIs(core, b) /\ Frame.pc = Len(prog[Frame.blk]) + 1 /\ Frame.k = "if"
               /\ BoundIs(b, Owner.res, Frame.vals, TRUE, core')
  BY DEF LeaveRan
<1>2. /\ EndsIn(frames, N - 2, g, frames') /\ SameBut(Parent, g, {"pc", "env"})
      /\ g.pc = Parent.pc + 1 /\ status' = status
  BY DEF LeaveRan
<1>3. /\ N \in Nat /\ N >= 2 /\ N = Len(frames) /\ Parent = frames[N - 1] /\ FramesOK(frames)
      /\ Len(prog[Frame.blk]) \in Nat /\ prog \in Kernels
  BY BlockIs DEF Within, N, FrameOK
<1>4. /\ CoreOK(core') /\ Len(core'.scopes) = N - 1 /\ core'.tiles = core.tiles
      /\ Len(core.tiles) \in Nat
  <2>1. Len(core.scopes) = IF Frame.pc = 0 THEN N - 1 ELSE N
    BY DEF Within
  <2>2. b.tiles = core.tiles /\ Len(b.scopes) = N - 1
    BY <1>1, <1>3, <2>1 DEF PoppedIs
  <2> QED
    BY <1>1, <2>2, SeqFacts DEF BoundIs, Within, CoreOK
<1>5. Parent.pc \in 1 .. Len(prog[Parent.blk]) /\ prog[Parent.blk][Parent.pc].k # "yield"
  <2>1. IsSite(Parent.blk, Parent.pc) /\ Frame.k = Owner.k /\ FrameOK(frames, N) /\ Frame = frames[N]
    BY DEF Within
  <2>2. Frame.k \in {"for", "if"}
    BY <1>3, <2>1 DEF FrameOK
  <2> QED
    BY <2>1, <2>2 DEF IsSite, Owner
<1>6. FramesOK(frames')
  <2>1. N - 2 \in 0 .. Len(frames) - 1 /\ N - 2 + 1 = N - 1
    BY <1>3
  <2>2. SameBut(frames[N - 2 + 1], g, {"pc", "env"}) /\ g.pc = frames[N - 2 + 1].pc + 1
    BY <1>2, <1>3, <2>1
  <2>3. /\ frames[N - 2 + 1].pc \in 1 .. Len(prog[frames[N - 2 + 1].blk])
        /\ prog[frames[N - 2 + 1].blk][frames[N - 2 + 1].pc].k # "yield"
    BY <1>3, <1>5, <2>1
  <2> HIDE DEF g
  <2> QED
    BY <1>2, <1>3, <2>1, <2>2, <2>3, FramesAdvance
<1>7. /\ Len(frames') = N - 1 /\ \A d \in 1 .. N - 2 : frames'[d] = frames[d]
      /\ g.vals = Parent.vals /\ g.pc # 0
  BY <1>2, <1>3, <1>5 DEF EndsIn, SameBut, FrameFields
<1>8. ScopesMatch(core', frames')
  BY <1>4, <1>7 DEF ScopesMatch
<1>9. ValsOK(core', frames')
  <2>1. \A d \in 1 .. Len(frames') : d \in 1 .. Len(frames) /\ frames'[d].vals = frames[d].vals
    BY <1>3, <1>7
  <2> QED
    BY <1>4, <2>1, ValsStay
<1>10. StatusOK'
  BY <1>2 DEF StatusOK
<1> QED
  BY <1>4, <1>6, <1>8, <1>9, <1>10, TypeNext

LEMMA MatchBy ==
    ASSUME NEW c, NEW fs, NEW n \in Nat, Len(fs) = n,
           \/ fs[n].pc = 0 /\ Len(c.scopes) = n - 1
           \/ fs[n].pc # 0 /\ Len(c.scopes) = n
    PROVE  ScopesMatch(c, fs)
<1>1. CASE fs[n].pc = 0 /\ Len(c.scopes) = n - 1
  BY <1>1 DEF ScopesMatch
<1>2. CASE fs[n].pc # 0 /\ Len(c.scopes) = n
  <2>1. Len(fs) - (IF fs[Len(fs)].pc = 0 THEN 1 ELSE 0) = n
    BY <1>2
  <2> QED
    BY <1>2, <2>1 DEF ScopesMatch
<1> QED
  BY <1>1, <1>2

LEMMA EnterKeeps ==
    ASSUME TypeInv, Here, UNCHANGED <<prog, usedOnce>>, status = "running", status' = status,
           CoreOK(core'), Len(core.tiles) <= Len(core'.tiles), NEW g, IsAppend(frames, g, frames'),
           IsFrame(g), IsSeq(g.vals), g.blk \in Regions(Op), g.k = Op.k, g.k \in {"for", "if"},
           g.pc = IF g.k = "for" THEN 0 ELSE 1, Len(g.vals) = YieldsSoFar(g, Op),
           Len(core'.scopes) = IF g.k = "for" THEN N ELSE N + 1,
           \A j \in 1 .. Len(g.vals) : g.vals[j] \in 1 .. Len(core'.tiles)
    PROVE  TypeInv'
<1>1. N \in Nat /\ N >= 1 /\ N = Len(frames) /\ Frame = frames[N] /\ FramesOK(frames) /\ prog \in Kernels
  BY DEF Here, N, Frame
<1>2. Frame.pc \in 1 .. Len(prog[Frame.blk])
  BY DEF Here, IsSite
<1>3. FramesOK(frames')
  BY <1>1, <1>2, FramesEnter DEF Op
<1>4. Len(frames') = N + 1 /\ frames'[N + 1] = g /\ \A d \in 1 .. N : frames'[d] = frames[d]
  BY <1>1 DEF IsAppend
<1>5. ScopesMatch(core', frames')
  <2>1. frames'[N + 1].pc = g.pc /\ Len(frames') = N + 1
    BY <1>4
  <2>2. CASE g.k = "for"
    <3>1. g.pc = 0 /\ Len(core'.scopes) = N + 1 - 1
      BY <1>1, <2>2
    <3> QED
      BY <1>1, <2>1, <3>1, MatchBy
  <2>3. CASE g.k # "for"
    <3>1. g.pc = 1 /\ Len(core'.scopes) = N + 1
      BY <2>3
    <3> QED
      BY <1>1, <2>1, <3>1, MatchBy
  <2> QED
    BY <2>2, <2>3
<1>6. ValsOK(core', frames')
  <2>1. ASSUME NEW d \in 1 .. Len(frames')
        PROVE  \/ d \in 1 .. Len(frames) /\ frames'[d].vals = frames[d].vals
               \/ \A j \in 1 .. Len(frames'[d].vals) : frames'[d].vals[j] \in 1 .. Len(core'.tiles)
    BY <1>1, <1>4
  <2> QED
    BY <2>1, ValsStay
<1>7. StatusOK'
  BY DEF StatusOK
<1> QED
  BY <1>3, <1>5, <1>6, <1>7, TypeNext

LEMMA RegionIs ==
    ASSUME Here, NEW i \in 1 .. Len(Op.blks), Op.blks[i] # "none"
    PROVE  /\ Op.blks[i] \in Regions(Op) /\ Op.blks[i] \in DOMAIN prog
           /\ Terminated(Op, prog[Op.blks[i]])
           /\ IsSeq(prog[Op.blks[i]]) /\ Len(prog[Op.blks[i]]) \in Nat
<1>1. IsSeq(Op.blks) /\ IsSite(Frame.blk, Frame.pc) /\ prog \in Kernels
  BY DEF Here, RowsAre
<1>2. Op.blks[i] \in Regions(Op)
  BY <1>1, RangeIs DEF Regions
<1>3. Op.blks[i] \in DOMAIN prog /\ Terminated(Op, prog[Op.blks[i]])
  BY <1>1, <1>2, OpFacts DEF Op
<1> QED
  BY <1>1, <1>2, <1>3, BlockIs

LEMMA EnterForKeeps ==
    ASSUME TypeInv, Here, UNCHANGED <<prog, usedOnce>>, EnterForRan, status = "running"
    PROVE  TypeInv'
<1>1. PICK b, vals, g :
          /\ InitsAre(Op.ins, b, vals) /\ BoundIs(b, Op.args, vals, TRUE, core')
          /\ IsAppend(frames, g, frames') /\ IsFrame(g)
          /\ g.k = "for" /\ g.blk = Op.blks[1] /\ g.pc = 0 /\ g.vals = vals
  BY DEF EnterForRan
<1>2. Op.k = "for" /\ status' = status
  BY DEF EnterForRan
<1>3. Op.blks[1] # "none" /\ 1 \in 1 .. Len(Op.blks) /\ Len(Op.args) = Len(Op.ins)
  BY <1>2 DEF Here, IsOp
<1>4. g.blk \in Regions(Op)
  BY <1>1, <1>3, RegionIs
<1>5. /\ IsSeq(vals) /\ Len(vals) = Len(Op.ins) /\ Len(core.tiles) <= Len(b.tiles)
      /\ \A j \in 1 .. Len(vals) : vals[j] \in 1 .. Len(b.tiles)
      /\ Len(b.scopes) = N
  BY <1>1 DEF InitsAre, GrownIs, Extends, Here
<1>6. CoreOK(core') /\ core'.tiles = b.tiles /\ Len(core'.scopes) = N
  BY <1>1, <1>5 DEF BoundIs
<1>7. Len(g.vals) = YieldsSoFar(g, Op)
  BY <1>1, <1>3, <1>5 DEF YieldsSoFar
<1> QED
  BY <1>1, <1>2, <1>4, <1>5, <1>6, <1>7, EnterKeeps

LEMMA BranchKeeps ==
    ASSUME TypeInv, Here, UNCHANGED <<prog, usedOnce>>, NEW branch \in 1 .. 2, BranchRan(branch),
           status = "running"
    PROVE  TypeInv'
<1>1. PICK g : /\ IsAppend(frames, g, frames') /\ IsFrame(g)
               /\ g.k = "if" /\ g.blk = Op.blks[branch] /\ g.pc = 1 /\ g.vals = <<>>
  BY DEF BranchRan
<1>2. Op.k = "if" /\ Op.blks[branch] # "none" /\ status' = status /\ PushedIs(core, core')
  BY DEF BranchRan
<1>3. branch \in 1 .. Len(Op.blks)
  BY <1>2 DEF Here, IsOp
<1>4. /\ g.blk \in Regions(Op) /\ Terminated(Op, prog[g.blk])
      /\ IsSeq(prog[g.blk]) /\ Len(prog[g.blk]) \in Nat
  BY <1>1, <1>2, <1>3, RegionIs
<1>5. /\ CoreOK(core') /\ core'.tiles = core.tiles /\ Len(core'.scopes) = N + 1
      /\ Len(core.tiles) \in Nat
  BY <1>2, SeqFacts DEF PushedIs, IsAppend, Here, CoreOK
<1>6. IsSeq(g.vals) /\ Len(g.vals) = 0
  BY <1>1, EmptyIsSeq
<1>7. ASSUME g.pc > Len(prog[g.blk]) PROVE Len(Op.res) = 0
  <2>1. Len(prog[g.blk]) = 0
    BY <1>1, <1>4, <1>7
  <2>2. prog[g.blk] = <<>>
    BY <1>4, <2>1 DEF IsSeq
  <2>3. Op.res = <<>>
    BY <1>4, <2>2 DEF Terminated
  <2> QED
    BY <2>3, EmptyIsSeq
<1>8. Len(g.vals) = YieldsSoFar(g, Op)
  BY <1>1, <1>6, <1>7 DEF YieldsSoFar
<1> QED
  BY <1>1, <1>2, <1>4, <1>5, <1>6, <1>8, EnterKeeps

(***************************************************************************)
(* The steps of the machine, and the first theorem.                        *)
(***************************************************************************)
(* The names an op fetches and those it binds.                             *)
Reads == IF Op.k = "reduce" THEN Op.ins \o Op.outs
         ELSE IF Op.k \in {"receive", "constant", "if"} THEN <<>> ELSE Op.ins
Writes == IF Op.k = "reduce" THEN Range(Op.res) \cup Range(Op.outs) ELSE Range(Op.res)

LEMMA ConstantGoesOn == ASSUME Here, Op.k = "constant", ConstantRan PROVE Ran(Reads, Writes)
<1>1. PICK c : MadeIs(core, c, Term(Op.res[1], <<>>)) /\ Done(c, <<Newest(c)>>)
  BY DEF ConstantRan
<1>2. FetchedIs(core, <<>>, core) /\ GrownIs(core, c)
  BY <1>1, NothingFetched DEF Here, MadeIs
<1> QED
  BY <1>1, <1>2, ChainRan DEF Reads, Writes

LEMMA ComputeGoesOn == ASSUME Here, Op.k = "compute", ComputeRan PROVE Ran(Reads, Writes)
<1>1. PICK b, c : /\ FetchedIs(core, Op.ins, b)
                  /\ MadeIs(b, c, Term(Op.res[1], Contents(Op.ins)))
                  /\ Done(c, <<Newest(c)>>)
  BY DEF ComputeRan
<1>2. GrownIs(b, c)
  BY <1>1 DEF MadeIs
<1> QED
  BY <1>1, <1>2, ChainRan DEF Reads, Writes

LEMMA ReshapeGoesOn == ASSUME Here, Op.k = "reshape", ReshapeRan PROVE Ran(Reads, Writes)
<1>1. PICK b, c : /\ FetchedIs(core, Op.ins, b)
                  /\ ViewedIs(b, c, Lookup(core, Op.ins[1]))
                  /\ Done(c, <<Newest(c)>>)
  BY DEF ReshapeRan
<1>2. GrownIs(b, c)
  BY <1>1 DEF ViewedIs
<1> QED
  BY <1>1, <1>2, ChainRan DEF Reads, Writes

LEMMA GrownTwice ==
    ASSUME NEW c, CoreOK(c), NEW b, NEW a, GrownIs(c, b), GrownIs(b, a)
    PROVE  GrownIs(c, a)
<1>1. /\ Len(c.tiles) \in Nat /\ Len(b.tiles) \in Nat /\ Len(a.tiles) \in Nat
      /\ Len(c.bufs) \in Nat /\ Len(b.bufs) \in Nat /\ Len(a.bufs) \in Nat
      /\ Len(c.scopes) \in Nat
      /\ a.scopes = c.scopes /\ a.uncharged = c.uncharged /\ CoreOK(a)
  BY SeqFacts DEF GrownIs, CoreOK
<1>2. Extends(c, a)
  BY <1>1 DEF GrownIs, Extends
<1>3. Tame(c, a) /\ Kept(c, a, Len(c.scopes))
  BY <1>1 DEF Tame, Kept
<1> QED
  BY <1>1, <1>2, <1>3 DEF GrownIs

LEMMA MatmulGoesOn ==
    ASSUME Here, Op.k = "matmul", MatmulRan, ~Raise("AssertionError")
    PROVE  Ran(Reads, Writes)
<1>1. PICK b, c, d, t :
          /\ FetchedIs(core, Op.ins, b)
          /\ IF Lookup(core, Op.ins[2]) \in b.uncharged
             THEN \E term : MadeIs(b, c, term) /\ t = Newest(c)
             ELSE c = b /\ t = Lookup(core, Op.ins[2])
          /\ WrittenIs(c, d, c.tiles[t], Term("matmul", Contents(Op.ins)))
          /\ Done(d, <<t>>)
  BY DEF MatmulRan
<1>2. GrownIs(c, d) /\ CoreOK(b)
  BY <1>1 DEF WrittenIs, FetchedIs
<1>3. GrownIs(b, c) \/ b = c
  BY <1>1 DEF MadeIs
<1>4. GrownIs(b, d)
  BY <1>2, <1>3, GrownTwice
<1> QED
  BY <1>1, <1>4, ChainRan DEF Reads, Writes

LEMMA ResumeGoesOn == ASSUME Here, ResumeRan PROVE Ran(Reads, Writes)
<1>1. Done(core, <<Newest(core)>>) /\ Op.k = "receive"
  BY DEF ResumeRan
<1>2. FetchedIs(core, <<>>, core) /\ GrownIs(core, core)
  <2>1. Len(core.scopes) \in Nat /\ Len(core.tiles) \in Nat /\ Len(core.bufs) \in Nat
    BY SeqFacts DEF Here, CoreOK
  <2> QED
    BY <2>1, NothingFetched DEF Here, GrownIs, Extends, Tame, Kept
<1> QED
  BY <1>1, <1>2, ChainRan DEF Reads, Writes

LEMMA SkipGoesOn == ASSUME Here, SkipRan PROVE Ran(Reads, Writes)
<1>1. Done(core, <<>>) /\ Op.k = "if"
  BY DEF SkipRan
<1>2. FetchedIs(core, <<>>, core) /\ GrownIs(core, core)
  <2>1. Len(core.scopes) \in Nat /\ Len(core.tiles) \in Nat /\ Len(core.bufs) \in Nat
    BY SeqFacts DEF Here, CoreOK
  <2> QED
    BY <2>1, NothingFetched DEF Here, GrownIs, Extends, Tame, Kept
<1> QED
  BY <1>1, <1>2, ChainRan DEF Reads, Writes

LEMMA ReduceGoesOn == ASSUME Here, Op.k = "reduce", ReduceRan PROVE Ran(Reads, Writes)
<1> DEFINE names == Op.ins \o Op.outs
<1>1. PICK b, c, d :
        /\ FetchedIs(core, names, b)
        /\ MadeIs(b, c, Term("reduce", Contents(names)))
        /\ BoundIs(c, Op.outs, <<Newest(c)>>, TRUE, d)
        /\ Done(d, <<Newest(c)>>)
  BY DEF ReduceRan
<1> HIDE DEF names
<1>2. /\ CoreOK(core) /\ Len(core.scopes) = N /\ N >= 1 /\ N \in Nat
      /\ CoreOK(b) /\ Len(b.scopes) = N /\ CoreOK(c) /\ c.scopes = b.scopes
      /\ CoreOK(d) /\ Len(d.scopes) = N /\ GrownIs(b, c)
  BY <1>1 DEF Here, FetchedIs, MadeIs, GrownIs, BoundIs
<1>3. BoundIs(d, Op.res, <<Newest(c)>>, Op.k # "constant", core')
  BY <1>1 DEF Done
<1>4. Steps(core, b) /\ Steps(b, c) /\ Steps(c, d) /\ Steps(d, core')
  BY <1>1, <1>2, <1>3, StepsAre
<1>5. Steps(core, c)
  BY <1>2, <1>4, StepsCompose
<1>6. Steps(core, d)
  BY <1>2, <1>4, <1>5, StepsCompose
<1>7. Steps(core, core')
  BY <1>2, <1>4, <1>6, StepsCompose
<1>8. /\ DOMAIN b.scopes[N] = DOMAIN core.scopes[N] \ Consumed(core, names)
      /\ DOMAIN d.scopes[N] = DOMAIN b.scopes[N] \cup Range(Op.outs)
      /\ DOMAIN core'.scopes[N] = DOMAIN d.scopes[N] \cup Range(Op.res)
  BY <1>1, <1>2, <1>3 DEF FetchedIs, BoundIs
<1>9. DOMAIN core'.scopes[N] =
          (DOMAIN core.scopes[N] \ Consumed(core, names)) \cup (Range(Op.res) \cup Range(Op.outs))
  BY <1>8
<1> QED
  BY <1>1, <1>7, <1>9 DEF Ran, Done, Reads, Writes, names

(***************************************************************************)
(* What each op does to the meaning of names: those it binds get its term. *)
(***************************************************************************)
OpTerm ==
    IF Op.k = "constant" THEN Term(Op.res[1], <<>>)
    ELSE IF Op.k = "reshape" THEN Frame.env[Op.ins[1]]
    ELSE IF Op.k = "matmul" THEN Term("matmul", Meaning(Op.ins))
    ELSE IF Op.k = "reduce" THEN Term("reduce", Meaning(Op.ins \o Op.outs))
    ELSE Term(Op.res[1], Meaning(Op.ins))

Meant(env) ==
    /\ DOMAIN env = DOMAIN Frame.env \cup Writes
    /\ \A n \in Writes : env[n] = OpTerm
    /\ \A n \in DOMAIN Frame.env \ Writes : env[n] = Frame.env[n]

LEMMA AssignOne ==
    ASSUME NEW names, IsSeq(names), NEW terms, NEW t, \A j \in 1 .. Len(names) : terms[j] = t
    PROVE  /\ DOMAIN Assign(names, terms) = Range(names)
           /\ \A n \in Range(names) : Assign(names, terms)[n] = t
<1>1. DOMAIN names = 1 .. Len(names)
  BY SeqFacts
<1>2. ASSUME NEW n \in Range(names) PROVE Assign(names, terms)[n] = t
  <2>1. \E j \in DOMAIN names : names[j] = n
    BY <1>1, RangeIs
  <2> DEFINE j == CHOOSE j \in DOMAIN names : names[j] = n
  <2>2. j \in DOMAIN names
    BY <2>1
  <2>3. Assign(names, terms)[n] = terms[j]
    BY DEF Assign
  <2> QED
    BY <1>1, <2>2, <2>3
<1> QED
  BY <1>2 DEF Assign

LEMMA MeantBy ==
    ASSUME NEW names, IsSeq(names), Range(names) = Writes, NEW terms,
           \A j \in 1 .. Len(names) : terms[j] = OpTerm
    PROVE  Meant(WithMeaning(names, terms))
<1> DEFINE given == Assign(names, terms)
<1>1. DOMAIN given = Writes /\ \A n \in Writes : given[n] = OpTerm
  BY AssignOne
<1>2. WithMeaning(names, terms) = Over(given, Frame.env)
  BY DEF WithMeaning
<1> HIDE DEF given
<1>3. PICK f, g : f = given /\ g = Frame.env
  OBVIOUS
<1>4. /\ DOMAIN Over(f, g) = DOMAIN f \cup DOMAIN g
      /\ \A x \in DOMAIN f : Over(f, g)[x] = f[x]
      /\ \A x \in DOMAIN g \ DOMAIN f : Over(f, g)[x] = g[x]
  BY DEF Over
<1>5. WithMeaning(names, terms) = Over(f, g)
  BY <1>2, <1>3
<1> DEFINE new == Over(f, g)
<1> HIDE DEF new
<1>6. Meant(new)
  BY <1>1, <1>3, <1>4 DEF Meant, new
<1> QED
  BY <1>5, <1>6 DEF new

LEMMA FinishEnv ==
    ASSUME Here, NEW c, NEW vals, NEW env, Finish(c, frames, vals, env)
    PROVE  frames'[N].env = env
<1>1. N \in 1 .. Len(frames) /\ IsSeq(frames) /\ IsFrame(frames[N])
  BY DEF Here, N, FramesOK, FrameOK
<1>2. frames' = SetPcEnv(frames, N, frames[N].pc + 1, env)
  BY <1>1 DEF Finish, SetPcEnv, N
<1> QED
  BY <1>1, <1>2, PcAndEnv

LEMMA OneTerm ==
    ASSUME Here, Op.k \in OneResult, Op.k # "reduce", NEW c, NEW vals, NEW terms, terms[1] = OpTerm,
           Finish(c, frames, vals, WithMeaning(Op.res, terms))
    PROVE  Meant(frames'[N].env)
<1>1. IsSeq(Op.res) /\ Len(Op.res) = 1 /\ Range(Op.res) = Writes
  BY DEF Here, RowsAre, IsOp, Writes
<1>2. Meant(WithMeaning(Op.res, terms))
  BY <1>1, MeantBy
<1> QED
  BY <1>2, FinishEnv

LEMMA ConstantMeans ==
    ASSUME Here, Constant
    PROVE  Meant(frames'[N].env)
<1> DEFINE literal == Term(Op.res[1], <<>>)
           c == Made(core, literal)
<1>1. Op.k = "constant" /\ Finish(c, frames, <<Newest(c)>>, WithMeaning(Op.res, <<literal>>))
  BY DEF Constant, Ready
<1>2. <<literal>>[1] = OpTerm
  BY <1>1 DEF OpTerm
<1> HIDE DEF c, literal
<1> QED
  BY <1>1, <1>2, OneTerm DEF OneResult

LEMMA ComputeMeans ==
    ASSUME Here, Compute, ~FetchFails(core, Op.ins)
    PROVE  Meant(frames'[N].env)
<1> DEFINE c == Made(Fetched(core, Op.ins), Term(Op.res[1], Contents(Op.ins)))
           term == Term(Op.res[1], Meaning(Op.ins))
<1>1. Op.k = "compute" /\ Finish(c, frames, <<Newest(c)>>, WithMeaning(Op.res, <<term>>))
  BY DEF Compute, Ready
<1>2. <<term>>[1] = OpTerm
  BY <1>1 DEF OpTerm
<1> HIDE DEF c, term
<1> QED
  BY <1>1, <1>2, OneTerm DEF OneResult

LEMMA ReshapeMeans ==
    ASSUME Here, Reshape, ~FetchFails(core, Op.ins)
    PROVE  Meant(frames'[N].env)
<1> DEFINE c == Viewed(Fetched(core, Op.ins), Lookup(core, Op.ins[1]))
           terms == Meaning(Op.ins)
<1>1. Op.k = "reshape" /\ Finish(c, frames, <<Newest(c)>>, WithMeaning(Op.res, terms))
  BY DEF Reshape, Ready
<1>2. 1 \in DOMAIN Op.ins
  BY <1>1, SeqFacts DEF Here, IsOp, RowsAre
<1>3. terms[1] = OpTerm
  BY <1>1, <1>2 DEF OpTerm, Meaning
<1> HIDE DEF c, terms
<1> QED
  BY <1>1, <1>3, OneTerm DEF OneResult

LEMMA MatmulMeans ==
    ASSUME Here, Matmul, ~FetchFails(core, Op.ins), ~Raise("AssertionError")
    PROVE  Meant(frames'[N].env)
<1> DEFINE into == Accumulator(Fetched(core, Op.ins), Lookup(core, Op.ins[2]))
           sum == Term("matmul", Contents(Op.ins))
           c == [into.core EXCEPT !.bufs[into.core.tiles[into.tile]] = sum]
           term == Term("matmul", Meaning(Op.ins))
<1>1. Op.k = "matmul" /\ Finish(c, frames, <<into.tile>>, WithMeaning(Op.res, <<term>>))
  BY DEF Matmul, Ready
<1>2. <<term>>[1] = OpTerm
  BY <1>1 DEF OpTerm
<1> HIDE DEF c, term, into
<1> QED
  BY <1>1, <1>2, OneTerm DEF OneResult

LEMMA ReduceMeans ==
    ASSUME Here, Reduce, ~FetchFails(core, Op.ins \o Op.outs)
    PROVE  Meant(frames'[N].env)
<1> DEFINE names == Op.ins \o Op.outs
           c == Made(Fetched(core, names), Term("reduce", Contents(names)))
           d == Bound(c, Op.outs, <<Newest(c)>>, TRUE)
           t == Term("reduce", Meaning(names))
           both == Op.res \o Op.outs
<1>1. Op.k = "reduce" /\ Finish(d, frames, <<Newest(c)>>, WithMeaning(both, <<t, t>>))
  BY DEF Reduce, Ready
<1>2. /\ IsSeq(Op.res) /\ Len(Op.res) = 1 /\ IsSeq(Op.outs) /\ Len(Op.outs) = 1
  BY <1>1 DEF Here, RowsAre, IsOp, OneResult
<1>3. IsSeq(both) /\ Len(both) = 2
  <2>1. IsConcat(Op.res, Op.outs, both)
    BY <1>2, ConcatIs
  <2> HIDE DEF both
  <2> QED
    BY <1>2, <2>1 DEF IsConcat
<1>4. Range(both) = Writes
  <2>1. \A x : x \in Range(both) <=> x \in Range(Op.res) \/ x \in Range(Op.outs)
    BY <1>2, RangeOfConcat
  <2> HIDE DEF both
  <2> QED
    BY <1>1, <2>1 DEF Writes
<1>5. \A j \in 1 .. Len(both) : <<t, t>>[j] = OpTerm
  <2>1. t = OpTerm
    BY <1>1 DEF OpTerm
  <2>2. <<t, t>>[1] = t /\ <<t, t>>[2] = t
    OBVIOUS
  <2> HIDE DEF both, t
  <2> QED
    BY <1>3, <2>1, <2>2
<1> HIDE DEF d, c, both, t
<1>6. Meant(WithMeaning(both, <<t, t>>))
  BY <1>3, <1>4, <1>5, MeantBy
<1> QED
  BY <1>1, <1>6, FinishEnv

LEMMA ResumeMeans ==
    ASSUME Here, Op.k = "receive", Resume
    PROVE  Meant(frames'[N].env)
<1> DEFINE term == Term(Op.res[1], Meaning(Op.ins))
<1>1. Finish(core, frames, <<Newest(core)>>, WithMeaning(Op.res, <<term>>))
  BY DEF Resume
<1>2. <<term>>[1] = OpTerm
  BY DEF OpTerm
<1> HIDE DEF term
<1> QED
  BY <1>1, <1>2, OneTerm DEF OneResult

LEMMA SkipMeans ==
    ASSUME Here, SkipRan, NEW branch \in 1 .. 2, EnterIf(branch), Op.blks[branch] = "none"
    PROVE  Meant(frames'[N].env)
<1>1. frames'[N].env = Frame.env
  BY FinishEnv DEF EnterIf
<1>2. Op.k = "if" /\ Range(Op.res) = {}
  BY DEF SkipRan, Range
<1> QED
  BY <1>1, <1>2 DEF Meant, Writes

(***************************************************************************)
(* The kinds of steps.                                                     *)
(***************************************************************************)
Fetches == IF Op.k = "reduce" THEN Op.ins \o Op.outs ELSE Op.ins
FetchError == Here /\ Op.k \notin {"for", "if"} /\ FetchFails(core, Fetches) /\ Raise("KeyError")
InitError == Here /\ Op.k = "for" /\ (\E n \in Range(Op.ins) : ~Visible(core, n)) /\ Raise("KeyError")
OutsError == Here /\ Op.k = "matmul" /\ MatmulRan /\ Raise("AssertionError")
Computes ==
    \/ Op.k = "constant" /\ ConstantRan
    \/ Op.k = "compute" /\ ComputeRan
    \/ Op.k = "reshape" /\ ReshapeRan
    \/ Op.k = "matmul" /\ MatmulRan /\ ~Raise("AssertionError")
    \/ Op.k = "reduce" /\ ReduceRan
    \/ SkipRan
OpStep ==
    /\ Here /\ Meant(frames'[N].env)
    /\ \/ status = "running" /\ Computes
       \/ status = "parked" /\ ResumeRan
ParkStep == Here /\ Op.k = "receive" /\ ParkRan
YieldStep == Here /\ YieldRan
ReturnStep ==
    /\ Here /\ Op.k = "return"
    /\ FetchedIs(core, Op.ins, core') /\ frames' = frames /\ status' = "done"
LoopStep == Here /\ EnterForRan
BranchStep == Here /\ \E branch \in 1 .. 2 : BranchRan(branch)
IterateStep == Within /\ IterateRan
EndStep == Within /\ EndIterationRan
LeaveStep == Within /\ LeaveRan

Step ==
    \/ OpStep
    \/ /\ status = "running"
       /\ \/ FetchError \/ InitError \/ OutsError \/ ParkStep \/ YieldStep \/ ReturnStep
          \/ LoopStep \/ BranchStep \/ IterateStep \/ EndStep \/ LeaveStep

LEMMA ReadyIs ==
    ASSUME TypeInv, NEW k, Ready(k)
    PROVE  Here /\ Op.k = k /\ status = "running"
BY HereIs DEF Ready

LEMMA OpCases ==
    ASSUME TypeInv, Constant \/ Compute \/ Reshape \/ Matmul \/ Reduce \/ Park \/ Yield \/ Return
    PROVE  Step
<1>1. CASE Constant
  <2>1. Here /\ Op.k = "constant" /\ status = "running"
    BY <1>1, ReadyIs DEF Constant
  <2> QED
    BY <1>1, <2>1, ConstantIs, ConstantMeans DEF Step, OpStep, Computes
<1>2. CASE Compute
  <2>1. Here /\ Op.k = "compute" /\ status = "running"
    BY <1>2, ReadyIs DEF Compute
  <2>2. FetchFails(core, Op.ins) => Raise("KeyError")
    BY <1>2 DEF Compute
  <2> QED
    BY <1>2, <2>1, <2>2, ComputeIs, ComputeMeans DEF Step, OpStep, Computes, FetchError, Fetches
<1>3. CASE Reshape
  <2>1. Here /\ Op.k = "reshape" /\ status = "running"
    BY <1>3, ReadyIs DEF Reshape
  <2>2. FetchFails(core, Op.ins) => Raise("KeyError")
    BY <1>3 DEF Reshape
  <2> QED
    BY <1>3, <2>1, <2>2, ReshapeIs, ReshapeMeans DEF Step, OpStep, Computes, FetchError, Fetches
<1>4. CASE Matmul
  <2>1. Here /\ Op.k = "matmul" /\ status = "running"
    BY <1>4, ReadyIs DEF Matmul
  <2>2. FetchFails(core, Op.ins) => Raise("KeyError")
    BY <1>4 DEF Matmul
  <2>3. ASSUME ~FetchFails(core, Op.ins)
        PROVE  MatmulRan /\ (Raise("AssertionError") \/ Meant(frames'[N].env))
    BY <1>4, <2>1, <2>3, MatmulIs, MatmulMeans
  <2> QED
    BY <2>1, <2>2, <2>3 DEF Step, OpStep, Computes, FetchError, Fetches, OutsError
<1>5. CASE Reduce
  <2>1. Here /\ Op.k = "reduce" /\ status = "running"
    BY <1>5, ReadyIs DEF Reduce
  <2>2. FetchFails(core, Op.ins \o Op.outs) => Raise("KeyError")
    BY <1>5 DEF Reduce
  <2> QED
    BY <1>5, <2>1, <2>2, ReduceIs, ReduceMeans DEF Step, OpStep, Computes, FetchError, Fetches
<1>6. CASE Park
  <2>1. Here /\ Op.k = "receive" /\ status = "running"
    BY <1>6, ReadyIs DEF Park
  <2>2. FetchFails(core, Op.ins) => Raise("KeyError")
    BY <1>6 DEF Park
  <2> QED
    BY <1>6, <2>1, <2>2, ParkIs DEF Step, ParkStep, FetchError, Fetches
<1>7. CASE Yield
  <2>1. Here /\ Op.k = "yield" /\ status = "running"
    BY <1>7, ReadyIs DEF Yield
  <2>2. FetchFails(core, Op.ins) => Raise("KeyError")
    BY <1>7 DEF Yield
  <2> QED
    BY <1>7, <2>1, <2>2, YieldIs DEF Step, YieldStep, FetchError, Fetches
<1>8. CASE Return
  <2>1. Here /\ Op.k = "return" /\ status = "running"
    BY <1>8, ReadyIs DEF Return
  <2>2. FetchFails(core, Op.ins) => Raise("KeyError")
    BY <1>8 DEF Return
  <2>3. ~FetchFails(core, Op.ins) => frames' = frames /\ status' = "done"
    BY <1>8 DEF Return
  <2> QED
    BY <1>8, <2>1, <2>2, <2>3, YieldReturnIs DEF Step, ReturnStep, FetchError, Fetches
<1> QED
  BY <1>1, <1>2, <1>3, <1>4, <1>5, <1>6, <1>7, <1>8

LEMMA RegionCases ==
    ASSUME TypeInv,
           \/ \E to \in 0 .. MaxTrip, step \in LoopSteps : EnterFor(to, step)
           \/ \E branch \in 1 .. 2 : EnterIf(branch)
           \/ Iterate \/ EndIteration \/ ExitFor \/ ExitIf
    PROVE  Step
<1>1. ASSUME NEW to, NEW step, EnterFor(to, step) PROVE Step
  <2>1. Here /\ Op.k = "for" /\ status = "running"
    BY <1>1, ReadyIs DEF EnterFor
  <2>2. (\E n \in Range(Op.ins) : ~Visible(core, n)) => Raise("KeyError")
    BY <1>1 DEF EnterFor
  <2>3. ASSUME ~\E n \in Range(Op.ins) : ~Visible(core, n) PROVE EnterForRan
    BY <1>1, <2>1, <2>3, EnterForIs
  <2> QED
    BY <2>1, <2>2, <2>3 DEF Step, LoopStep, InitError
<1>2. ASSUME NEW branch \in 1 .. 2, EnterIf(branch) PROVE Step
  <2>1. Here /\ Op.k = "if" /\ status = "running"
    BY <1>2, ReadyIs DEF EnterIf
  <2>2. CASE Op.blks[branch] = "none"
    <3>1. SkipRan /\ Meant(frames'[N].env)
      BY <1>2, <2>1, <2>2, SkipIs, SkipMeans
    <3> QED
      BY <2>1, <3>1 DEF Step, OpStep, Computes
  <2>3. CASE Op.blks[branch] # "none"
    <3>1. BranchRan(branch)
      BY <1>2, <2>1, <2>3, BranchIs
    <3> QED
      BY <2>1, <3>1 DEF Step, BranchStep
  <2> QED
    BY <2>2, <2>3
<1>3. CASE Iterate
  <2>1. Within /\ status = "running"
    BY <1>3, WithinIs DEF Iterate, AtHead
  <2> QED
    BY <1>3, <2>1, IterateIs DEF Step, IterateStep
<1>4. CASE EndIteration
  <2>1. Within /\ status = "running"
    BY <1>4, WithinIs DEF EndIteration, AtEnd
  <2> QED
    BY <1>4, <2>1, EndIterationIs DEF Step, EndStep
<1>5. CASE ExitFor \/ ExitIf
  <2>1. Within /\ status = "running"
    BY <1>5, WithinIs DEF ExitFor, ExitIf, AtHead, AtEnd
  <2> QED
    BY <1>5, <2>1, ExitIs DEF Step, LeaveStep
<1> QED
  BY <1>1, <1>2, <1>3, <1>4, <1>5

LEMMA NextCases ==
    ASSUME TypeInv, Next
    PROVE  Step /\ UNCHANGED <<prog, usedOnce>>
<1>1. UNCHANGED <<prog, usedOnce>>
  BY Zenon DEF Next, Constant, Compute, Reshape, Matmul, Reduce, Park, Resume, EnterFor, Iterate,
         EndIteration, ExitFor, EnterIf, ExitIf, Yield, Return, Leave
<1>2. ASSUME Resume PROVE Step
  <2>1. Here /\ status = "parked"
    BY <1>2, HereIs DEF Resume, TypeInv, StatusOK
  <2> QED
    BY <1>2, <2>1, ResumeIs, ResumeMeans DEF Step, OpStep, TypeInv, StatusOK
<1> QED
  BY <1>1, <1>2, OpCases, RegionCases DEF Next

LEMMA OpStepRan ==
    ASSUME OpStep
    PROVE  Ran(Reads, Writes) /\ Op.k \notin {"yield", "for"} /\ status \in {"running", "parked"}
<1>1. Here
  BY DEF OpStep
<1>2. CASE status = "parked" /\ ResumeRan
  <2>1. Op.k = "receive"
    BY <1>2 DEF ResumeRan
  <2> QED
    BY <1>1, <1>2, <2>1, ResumeGoesOn
<1>3. CASE status = "running" /\ Computes
  <2>1. CASE Op.k = "constant" /\ ConstantRan
    BY <1>1, <1>3, <2>1, ConstantGoesOn
  <2>2. CASE Op.k = "compute" /\ ComputeRan
    BY <1>1, <1>3, <2>2, ComputeGoesOn
  <2>3. CASE Op.k = "reshape" /\ ReshapeRan
    BY <1>1, <1>3, <2>3, ReshapeGoesOn
  <2>4. CASE Op.k = "matmul" /\ MatmulRan /\ ~Raise("AssertionError")
    BY <1>1, <1>3, <2>4, MatmulGoesOn
  <2>5. CASE Op.k = "reduce" /\ ReduceRan
    BY <1>1, <1>3, <2>5, ReduceGoesOn
  <2>6. CASE SkipRan
    <3>1. Op.k = "if"
      BY <2>6 DEF SkipRan
    <3> QED
      BY <1>1, <1>3, <2>6, <3>1, SkipGoesOn
  <2> QED
    BY <1>3, <2>1, <2>2, <2>3, <2>4, <2>5, <2>6 DEF Computes
<1> QED
  BY <1>2, <1>3 DEF OpStep

LEMMA StepKeepsType ==
    ASSUME TypeInv, Step, UNCHANGED <<prog, usedOnce>>
    PROVE  TypeInv'
<1>1. CASE OpStep
  <2>1. Here /\ Ran(Reads, Writes) /\ Op.k # "yield"
    BY <1>1, OpStepRan DEF OpStep
  <2> QED
    BY <2>1, RanKeeps
<1>2. CASE FetchError \/ InitError \/ OutsError
  BY <1>2, RaiseKeeps DEF FetchError, InitError, OutsError
<1>3. CASE ParkStep
  BY <1>3, ParkKeeps DEF ParkStep
<1>4. CASE YieldStep /\ status = "running"
  BY <1>4, YieldKeeps DEF YieldStep
<1>5. CASE ReturnStep
  BY <1>5, ReturnKeeps DEF ReturnStep, NotParked
<1>6. CASE LoopStep /\ status = "running"
  BY <1>6, EnterForKeeps DEF LoopStep
<1>7. CASE BranchStep /\ status = "running"
  BY <1>7, BranchKeeps DEF BranchStep
<1>8. CASE IterateStep /\ status = "running"
  BY <1>8, IterateKeeps DEF IterateStep
<1>9. CASE EndStep /\ status = "running"
  BY <1>9, EndIterationKeeps DEF EndStep
<1>10. CASE LeaveStep /\ status = "running"
  BY <1>10, LeaveKeeps DEF LeaveStep
<1> QED
  BY <1>1, <1>2, <1>3, <1>4, <1>5, <1>6, <1>7, <1>8, <1>9, <1>10 DEF Step

LEMMA InitType == ASSUME Init PROVE TypeInv
<1>1. /\ prog \in Kernels /\ usedOnce = {n \in Operands(prog) : UseCount(prog, n) = 1}
      /\ core = [scopes |-> <<EmptyScope>>, uncharged |-> {}, tiles |-> <<>>, bufs |-> <<>>]
      /\ status = "running"
  BY DEF Init
<1>2. /\ IsSeq(<<EmptyScope>>) /\ Len(<<EmptyScope>>) = 1 /\ <<EmptyScope>>[1] = EmptyScope
      /\ IsSeq(<<>>) /\ Len(<<>>) = 0
  BY OneValue, EmptyIsSeq
<1>3. ScopeOK(core, EmptyScope)
  BY DEF ScopeOK, EmptyScope
<1>13. /\ core.scopes = <<EmptyScope>> /\ core.uncharged = {}
       /\ core.tiles = <<>> /\ core.bufs = <<>>
       /\ core = [scopes |-> core.scopes, uncharged |-> core.uncharged,
                  tiles |-> core.tiles, bufs |-> core.bufs]
  BY <1>1
<1>14. /\ IsSeq(core.scopes) /\ Len(core.scopes) = 1 /\ core.scopes[1] = EmptyScope
       /\ IsSeq(core.tiles) /\ Len(core.tiles) = 0 /\ IsSeq(core.bufs)
  BY <1>2, <1>13
<1>4. CoreOK(core)
  <2>1. \A d \in 1 .. Len(core.scopes) : ScopeOK(core, core.scopes[d])
    BY <1>3, <1>14
  <2>2. \A t \in 1 .. Len(core.tiles) : core.tiles[t] \in 1 .. Len(core.bufs)
    BY <1>14
  <2> QED
    BY <1>13, <1>14, <2>1, <2>2 DEF CoreOK
<1> DEFINE f == Region("func", "main", 1, EmptyEnv)
<1>5. frames = <<f>>
  BY DEF Init
<1>6. IsFrame(f) /\ f.k = "func" /\ f.blk = "main" /\ f.pc = 1 /\ f.vals = <<>>
  BY DEF Region, IsFrame, FrameFields
<1> HIDE DEF f
<1>7. IsSeq(frames) /\ Len(frames) = 1 /\ frames[1] = f
  BY <1>5, OneValue
<1>8. "main" \in DOMAIN prog /\ Len(prog["main"]) \in Nat
  BY <1>1, KernelsAssumption, BlockIs DEF WellFormed
<1>9. FrameOK(frames, 1)
  BY <1>2, <1>6, <1>7, <1>8 DEF FrameOK
<1>10. FramesOK(frames)
  BY <1>7, <1>9 DEF FramesOK
<1>11. ScopesMatch(core, frames)
  <2>1. frames[1].pc # 0
    BY <1>6, <1>7
  <2> QED
    BY <1>7, <1>14, <2>1, MatchBy
<1>12. ValsOK(core, frames)
  BY <1>2, <1>6, <1>7 DEF ValsOK
<1> QED
  BY <1>1, <1>4, <1>10, <1>11, <1>12 DEF TypeInv, StatusOK

LEMMA TypeInvHolds == Spec => []TypeInv
<1>1. TypeInv /\ [Next]_vars => TypeInv'
  <2> SUFFICES ASSUME TypeInv, [Next]_vars PROVE TypeInv'
    OBVIOUS
  <2>1. CASE Next
    BY <2>1, NextCases, StepKeepsType
  <2>2. CASE UNCHANGED vars
    BY <2>2 DEF vars, TypeInv, Operands, UseCount, CoreOK, ScopeOK, BoundTiles, FramesOK, FrameOK,
                OwnerOf, IsSite, YieldsSoFar, ScopesMatch, ValsOK, StatusOK, Frame, Op
  <2> QED
    BY <2>1, <2>2
<1> QED
  BY <1>1, InitType, PTL DEF Spec

(* The type invariant says what TypeOK does. *)
LEMMA TypeInvImplies == TypeInv => TypeOK
<1> SUFFICES ASSUME TypeInv PROVE TypeOK
  OBVIOUS
<1>1. /\ CoreOK(core) /\ FramesOK(frames) /\ N \in Nat /\ N >= 1 /\ N = Len(frames)
      /\ DOMAIN frames = 1 .. N
  BY SeqFacts DEF TypeInv, FramesOK, N
<1>2. /\ IsSeq(core.tiles) /\ DOMAIN core.tiles = 1 .. Len(core.tiles)
      /\ DOMAIN core.bufs = 1 .. Len(core.bufs)
  BY <1>1, SeqFacts DEF CoreOK
<1>3. core.uncharged \subseteq BoundTiles(core.scopes)
  BY <1>1 DEF CoreOK
<1>4. BoundTiles(core.scopes) \subseteq DOMAIN core.tiles
  BY <1>1, <1>2, TilesAreHeld
<1>5. Range(core.tiles) \subseteq DOMAIN core.bufs
  BY <1>1, <1>2, RangeIs DEF CoreOK
<1> DEFINE S == {d \in DOMAIN frames : frames[d].pc # 0}
<1>6. \A d \in 1 .. N : frames[d].pc = 0 => d = N
  BY <1>1 DEF FramesOK, FrameOK
<1>7. Len(core.scopes) = Cardinality(S)
  <2>1. CASE frames[N].pc = 0
    <3>1. S = 1 .. N - 1
      BY <1>1, <1>6, <2>1
    <3>2. Cardinality(1 .. N - 1) = N - 1
      BY <1>1, FS_Interval
    <3> QED
      BY <1>1, <2>1, <3>1, <3>2 DEF TypeInv, ScopesMatch
  <2>2. CASE frames[N].pc # 0
    <3>1. S = 1 .. N
      BY <1>1, <1>6, <2>2
    <3>2. Cardinality(1 .. N) = N
      <4>1. 1 \in Int /\ N \in Int /\ ~(1 > N) /\ N - 1 + 1 = N
        BY <1>1
      <4>2. Cardinality(1 .. N) = N - 1 + 1
        BY <4>1, FS_Interval
      <4> QED
        BY <4>1, <4>2
    <3>3. Len(core.scopes) = N
      BY <1>1, <2>2 DEF TypeInv, ScopesMatch
    <3> QED
      BY <3>1, <3>2, <3>3
  <2> QED
    BY <2>1, <2>2
<1> QED
  BY <1>3, <1>4, <1>5, <1>7 DEF TypeOK, TypeInv, StatusOK

(***************************************************************************)
(* THEOREM: at every state the scopes and the regions being executed       *)
(* correspond, the tiles the names stand for exist, and so do the buffers  *)
(* under them, for every set of well-formed kernels.                       *)
(***************************************************************************)
THEOREM TypeCorrect == Spec => []TypeOK
BY TypeInvHolds, TypeInvImplies, PTL

(***************************************************************************)
(* Loops.  The tiles held outside the names a loop rebinds, and one for    *)
(* each of those names, are no more than were charged when it started.     *)
(***************************************************************************)
HeldOutside(c, d, names) ==
    {t \in 1 .. Len(c.tiles) : \E e \in 1 .. d : \E n \in DOMAIN c.scopes[e] :
        c.scopes[e][n] = t /\ (e < d \/ n \notin names)}
LoopOK(c, fs, d) ==
    fs[d].k = "for" =>
        /\ fs[d].live \in Nat
        /\ Cardinality(HeldOutside(c, d - 1, Range(OwnerOf(fs, d).args)) \ c.uncharged)
              + Len(OwnerOf(fs, d).args) <= fs[d].live
LoopInv == \A d \in 2 .. Len(frames) : LoopOK(core, frames, d)

LEMMA HeldOutsideFinite ==
    ASSUME NEW c, CoreOK(c), NEW d, NEW names, NEW U
    PROVE  /\ IsFiniteSet(HeldOutside(c, d, names) \ U)
           /\ Cardinality(HeldOutside(c, d, names) \ U) \in Nat
<1>1. Len(c.tiles) \in Nat
  BY SeqFacts DEF CoreOK
<1>2. IsFiniteSet(1 .. Len(c.tiles))
  BY <1>1, FS_Interval
<1>3. HeldOutside(c, d, names) \ U \in SUBSET (1 .. Len(c.tiles))
  BY DEF HeldOutside
<1> QED
  BY <1>2, <1>3, FS_Subset, FS_CardinalityType

(* What stays of the first d scopes stays outside. *)
LEMMA OutsideStays ==
    ASSUME NEW c, CoreOK(c), NEW a, CoreOK(a), NEW d \in Nat, Kept(c, a, d), Extends(c, a), NEW names
    PROVE  HeldOutside(a, d, names) \ a.uncharged = HeldOutside(c, d, names) \ c.uncharged
<1>1. Len(c.tiles) \in Nat /\ Len(a.tiles) \in Nat /\ Len(c.scopes) \in Nat
  BY SeqFacts DEF CoreOK
<1>2. /\ \A e \in 1 .. d : a.scopes[e] = c.scopes[e] /\ e \in 1 .. Len(c.scopes)
      /\ Len(c.tiles) <= Len(a.tiles)
      /\ \A t \in 1 .. Len(c.tiles) : HeldIn(c, d, t) => (t \in a.uncharged <=> t \in c.uncharged)
  BY <1>1 DEF Kept, Extends
<1>3. ASSUME NEW t, t \in HeldOutside(c, d, names)
      PROVE  t \in HeldOutside(a, d, names) /\ HeldIn(c, d, t) /\ t \in 1 .. Len(c.tiles)
  BY <1>1, <1>2, <1>3 DEF HeldOutside, HeldIn
<1>4. ASSUME NEW t, t \in HeldOutside(a, d, names)
      PROVE  t \in HeldOutside(c, d, names)
  <2>1. PICK e \in 1 .. d : \E n \in DOMAIN a.scopes[e] : a.scopes[e][n] = t /\ (e < d \/ n \notin names)
    BY <1>4 DEF HeldOutside
  <2>2. t \in 1 .. Len(a.tiles)
    BY <1>4 DEF HeldOutside
  <2>3. PICK n \in DOMAIN c.scopes[e] : c.scopes[e][n] = t /\ (e < d \/ n \notin names)
    BY <1>2, <2>1
  <2>4. ScopeOK(c, c.scopes[e])
    BY <1>2 DEF CoreOK
  <2>5. t \in 1 .. Len(c.tiles)
    BY <1>1, <2>2, <2>3, <2>4 DEF ScopeOK, Scalar
  <2> QED
    BY <2>3, <2>5 DEF HeldOutside
<1> QED
  BY <1>2, <1>3, <1>4

LEMMA LoopStays ==
    ASSUME CoreOK(core), CoreOK(core'), Extends(core, core'), LoopInv, UNCHANGED prog,
           NEW d \in 2 .. Len(frames), Kept(core, core', d - 1),
           frames'[d].k = frames[d].k, frames'[d].live = frames[d].live,
           frames'[d - 1].blk = frames[d - 1].blk, frames'[d - 1].pc = frames[d - 1].pc
    PROVE  LoopOK(core', frames', d)
<1>1. LoopOK(core, frames, d)
  BY DEF LoopInv
<1>2. OwnerOf(frames', d) = OwnerOf(frames, d)
  BY DEF OwnerOf
<1>3. d - 1 \in Nat
  OBVIOUS
<1>4. HeldOutside(core', d - 1, Range(OwnerOf(frames, d).args)) \ core'.uncharged
        = HeldOutside(core, d - 1, Range(OwnerOf(frames, d).args)) \ core.uncharged
  BY <1>3, OutsideStays
<1> QED
  BY <1>1, <1>2, <1>4 DEF LoopOK

(* Below a point m of the stack nothing happens. *)
LEMMA LoopsStayBelow ==
    ASSUME CoreOK(core), CoreOK(core'), Extends(core, core'), LoopInv, UNCHANGED prog,
           NEW m \in Nat, m <= Len(frames), Kept(core, core', m - 1), m >= 1,
           \A d \in 1 .. m - 1 : frames'[d] = frames[d],
           m \in 1 .. Len(frames) =>
               frames'[m].k = frames[m].k /\ frames'[m].live = frames[m].live
    PROVE  \A d \in 2 .. m : LoopOK(core', frames', d)
<1> TAKE d \in 2 .. m
<1>1. d \in Nat /\ d - 1 \in 1 .. m - 1 /\ d - 1 \in Nat /\ Len(core.tiles) \in Nat
  BY SeqFacts DEF CoreOK
<1>2. d \in 2 .. Len(frames) /\ m \in 1 .. Len(frames)
  BY SeqFacts
<1>3. Kept(core, core', d - 1)
  <2>1. \A t : HeldIn(core, d - 1, t) => HeldIn(core, m - 1, t)
    BY <1>1 DEF HeldIn
  <2>2. Len(core.scopes) \in Nat /\ Len(core'.scopes) \in Nat
    BY SeqFacts DEF CoreOK
  <2> QED
    BY <1>1, <2>1, <2>2 DEF Kept
<1>4. frames'[d].k = frames[d].k /\ frames'[d].live = frames[d].live
  <2>1. CASE d = m
    BY <1>2, <2>1
  <2>2. CASE d # m
    <3>1. d \in 1 .. m - 1
      BY <1>1, <2>2
    <3> QED
      BY <3>1
  <2> QED
    BY <2>1, <2>2
<1>5. frames'[d - 1] = frames[d - 1]
  BY <1>1
<1> QED
  BY <1>2, <1>3, <1>4, <1>5, LoopStays

LEMMA IntervalSize ==
    ASSUME NEW k \in Nat, NEW m \in Nat
    PROVE  IsFiniteSet(k + 1 .. k + m) /\ Cardinality(k + 1 .. k + m) = m
<1>1. k + 1 \in Int /\ k + m \in Int /\ (k + 1 > k + m => m = 0) /\ k + m - (k + 1) + 1 = m
  OBVIOUS
<1>2. /\ IsFiniteSet(k + 1 .. k + m)
      /\ Cardinality(k + 1 .. k + m) = IF k + 1 > k + m THEN 0 ELSE k + m - (k + 1) + 1
  BY <1>1, FS_Interval
<1> QED
  BY <1>1, <1>2

LEMMA LoopStarts ==
    ASSUME TypeInv, Here, NEW b, NEW vals, NEW g, InitsAre(Op.ins, b, vals), Op.k = "for",
           BoundIs(b, Op.args, vals, TRUE, core'), IsAppend(frames, g, frames'),
           g.live = Live(core'), UNCHANGED prog, NEW d, d = N + 1
    PROVE  LoopOK(core', frames', d)
<1> DEFINE T == Len(core.tiles)
           m == Len(Op.args)
           A == Range(Op.args)
           fresh == T + 1 .. T + m
           held == HeldOutside(core', N, A) \ core'.uncharged
           charged == BoundTiles(core'.scopes) \ core'.uncharged
<1>1. /\ N \in Nat /\ N >= 1 /\ CoreOK(core) /\ Len(core.scopes) = N
      /\ T \in Nat /\ m \in Nat /\ IsSeq(Op.args) /\ m = Len(Op.ins) /\ N = Len(frames)
  BY SeqFacts DEF Here, CoreOK, RowsAre, IsOp, N
<1>2. /\ b.scopes = core.scopes /\ b.uncharged = core.uncharged /\ Len(b.tiles) = T + m
      /\ CoreOK(core') /\ Len(core'.scopes) = N /\ core'.tiles = b.tiles
      /\ \A i \in 1 .. m : vals[i] = T + i
      /\ IsSeq(vals) /\ Len(vals) = m
  BY <1>1 DEF InitsAre, GrownIs, BoundIs
<1>3. /\ core'.uncharged \subseteq core.uncharged
      /\ \A i \in 1 .. m : core'.scopes[N][Op.args[i]] = vals[i]
      /\ DOMAIN core'.scopes[N] = DOMAIN core.scopes[N] \cup A
      /\ \A n \in DOMAIN core.scopes[N] \ A : core'.scopes[N][n] = core.scopes[N][n]
      /\ \A e \in 1 .. N - 1 : core'.scopes[e] = core.scopes[e]
  <2>1. core'.uncharged \subseteq core.uncharged
    BY <1>2 DEF BoundIs
  <2> QED
    BY <1>1, <1>2, <2>1 DEF BoundIs, Kept
<1> HIDE DEF T, m
<1>4. ASSUME NEW t \in held PROVE t \in charged /\ t \notin fresh
  <2>1. PICK e \in 1 .. N : \E n \in DOMAIN core'.scopes[e] :
            core'.scopes[e][n] = t /\ (e < N \/ n \notin A)
    BY DEF HeldOutside
  <2>2. PICK n \in DOMAIN core'.scopes[e] : core'.scopes[e][n] = t /\ (e < N \/ n \notin A)
    BY <2>1
  <2>3. n \in DOMAIN core.scopes[e] /\ core.scopes[e][n] = t
    <3>1. CASE e = N
      BY <1>3, <2>2, <3>1
    <3>2. CASE e # N
      <4>1. e \in 1 .. N - 1
        BY <1>1, <3>2
      <4> QED
        BY <1>3, <2>2, <4>1
    <3> QED
      BY <3>1, <3>2
  <2>4. ScopeOK(core, core.scopes[e]) /\ t \in 1 .. Len(core'.tiles)
    BY <1>1 DEF CoreOK, HeldOutside
  <2>5. t \in 1 .. T
    <3>1. t # 0
      BY <2>4
    <3>2. t = 0 \/ t \in 1 .. Len(core.tiles)
      BY <2>3, <2>4 DEF ScopeOK, Scalar
    <3> QED
      BY <3>1, <3>2 DEF T
  <2>7. t \notin fresh
    BY <1>1, <2>5
  <2>6. t \in BoundTiles(core'.scopes)
    <3>1. t # Scalar /\ IsSeq(core'.scopes)
      BY <1>1, <1>2, <2>5 DEF Scalar, CoreOK
    <3> QED
      BY <1>2, <2>2, <3>1, BoundTilesAre
  <2> QED
    BY <2>6, <2>7
<1>5. ASSUME NEW t \in fresh PROVE t \in charged
  <2>1. t - T \in 1 .. m /\ t = T + (t - T) /\ t # Scalar /\ t \notin 1 .. T
    BY <1>1 DEF Scalar
  <2>2. t \notin core'.uncharged
    BY <1>1, <1>3, <2>1, TilesAreHeld DEF T
  <2>3. Op.args[t - T] \in A /\ core'.scopes[N][Op.args[t - T]] = t
    <3>1. PICK i \in 1 .. m : i = t - T /\ t = T + i
      BY <2>1
    <3>2. Op.args[i] \in A
      BY <1>1, RangeIs DEF m
    <3> QED
      BY <1>2, <1>3, <3>1, <3>2
  <2>4. Op.args[t - T] \in DOMAIN core'.scopes[N] /\ N \in 1 .. N
    BY <1>1, <1>3, <2>3
  <2>5. t \in BoundTiles(core'.scopes)
    <3>1. IsSeq(core'.scopes)
      BY <1>2 DEF CoreOK
    <3> QED
      BY <1>2, <2>1, <2>3, <2>4, <3>1, BoundTilesAre
  <2> QED
    BY <2>2, <2>5
<1>6. IsFiniteSet(charged) /\ Cardinality(charged) \in Nat
  <2>1. Len(core'.tiles) \in Nat
    BY <1>2, SeqFacts DEF CoreOK
  <2>2. IsFiniteSet(1 .. Len(core'.tiles))
    BY <2>1, FS_Interval
  <2>3. charged \in SUBSET (1 .. Len(core'.tiles))
    BY <1>2, TilesAreHeld
  <2> QED
    BY <2>2, <2>3, FS_Subset, FS_CardinalityType
<1>7. IsFiniteSet(held) /\ Cardinality(held) \in Nat
  BY <1>2, HeldOutsideFinite
<1>8. IsFiniteSet(fresh) /\ Cardinality(fresh) = m
  BY <1>1, IntervalSize
<1> HIDE DEF charged, held, fresh
<1>9. held \cap fresh = {} /\ held \cup fresh \in SUBSET charged
  BY <1>4, <1>5
<1>10. Cardinality(held \cup fresh) = Cardinality(held) + m
  <2>1. Cardinality(held \cap fresh) = 0
    BY <1>9, FS_EmptySet
  <2>2. Cardinality(held \cup fresh) = Cardinality(held) + Cardinality(fresh) - Cardinality(held \cap fresh)
    BY <1>7, <1>8, FS_Union
  <2> QED
    BY <1>1, <1>7, <1>8, <2>1, <2>2
<1>11. Cardinality(held) + m <= Cardinality(charged)
  BY <1>6, <1>9, <1>10, FS_Subset
<1>12. d - 1 = N /\ frames'[d] = g /\ frames'[d - 1] = frames[N]
  BY <1>1 DEF IsAppend
<1>13. OwnerOf(frames', d) = Op
  BY <1>12 DEF OwnerOf, Op, Frame, N
<1>14. g.live = Cardinality(charged)
  BY DEF Live, charged
<1>15. held = HeldOutside(core', N, A) \ core'.uncharged /\ m = Len(Op.args) /\ A = Range(Op.args)
  BY DEF held, m
<1> HIDE DEF A
<1>16. /\ frames'[d].live = Cardinality(charged)
       /\ HeldOutside(core', d - 1, Range(OwnerOf(frames', d).args)) \ core'.uncharged = held
       /\ Len(OwnerOf(frames', d).args) = m
  BY <1>12, <1>13, <1>14, <1>15
<1> QED
  BY <1>6, <1>7, <1>11, <1>16 DEF LoopOK

(* Rebinding the names of a loop leaves what is held outside them. *)
LEMMA OutsideRebound ==
    ASSUME NEW c, CoreOK(c), NEW d \in Nat, d >= 1, Len(c.scopes) = d, NEW names, IsSeq(names),
           NEW vals, NEW a, BoundIs(c, names, vals, TRUE, a)
    PROVE  HeldOutside(a, d, Range(names)) \ a.uncharged
               \subseteq HeldOutside(c, d, Range(names)) \ c.uncharged
<1>1. /\ CoreOK(a) /\ a.tiles = c.tiles /\ Len(a.scopes) = d /\ Kept(c, a, d - 1)
      /\ DOMAIN a.scopes[d] = DOMAIN c.scopes[d] \cup Range(names)
      /\ \A n \in DOMAIN c.scopes[d] \ Range(names) :
            a.scopes[d][n] = c.scopes[d][n] /\ (c.scopes[d][n] \in c.uncharged => c.scopes[d][n] \in a.uncharged)
  BY DEF BoundIs
<1> SUFFICES ASSUME NEW t \in HeldOutside(a, d, Range(names)), t \notin a.uncharged
             PROVE  t \in HeldOutside(c, d, Range(names)) /\ t \notin c.uncharged
  OBVIOUS
<1>2. PICK e \in 1 .. d : \E n \in DOMAIN a.scopes[e] :
          a.scopes[e][n] = t /\ (e < d \/ n \notin Range(names))
  BY DEF HeldOutside
<1>3. PICK n \in DOMAIN a.scopes[e] : a.scopes[e][n] = t /\ (e < d \/ n \notin Range(names))
  BY <1>2
<1>4. t \in 1 .. Len(c.tiles)
  BY <1>1 DEF HeldOutside
<1>5. CASE e = d
  <2>1. n \in DOMAIN c.scopes[d] \ Range(names)
    BY <1>1, <1>3, <1>5
  <2>2. a.scopes[d][n] = c.scopes[d][n] /\ (c.scopes[d][n] \in c.uncharged => c.scopes[d][n] \in a.uncharged)
    BY <1>1, <2>1
  <2> QED
    BY <1>3, <1>4, <1>5, <2>1, <2>2 DEF HeldOutside
<1>6. CASE e # d
  <2>1. e \in 1 .. d - 1 /\ e < d
    BY <1>6
  <2>2. a.scopes[e] = c.scopes[e]
    BY <1>1, <2>1 DEF Kept
  <2>3. HeldIn(c, d - 1, t)
    BY <1>3, <2>1, <2>2 DEF HeldIn
  <2>4. t \notin c.uncharged
    BY <1>1, <1>4, <2>3 DEF Kept
  <2> QED
    BY <1>3, <1>4, <2>1, <2>2, <2>4 DEF HeldOutside
<1> QED
  BY <1>5, <1>6

LEMMA KeptTwice ==
    ASSUME NEW c, NEW b, NEW a, CoreOK(c), CoreOK(b), CoreOK(a), NEW m \in Nat,
           Kept(c, b, m), Kept(b, a, m), Extends(c, b), Extends(b, a)
    PROVE  Kept(c, a, m) /\ Extends(c, a)
<1>1. /\ Len(c.tiles) \in Nat /\ Len(b.tiles) \in Nat /\ Len(a.tiles) \in Nat
      /\ Len(c.bufs) \in Nat /\ Len(b.bufs) \in Nat /\ Len(a.bufs) \in Nat
  BY SeqFacts DEF CoreOK
<1>2. Extends(c, a)
  BY <1>1 DEF Extends
<1>3. \A e \in 1 .. m : a.scopes[e] = c.scopes[e] /\ b.scopes[e] = c.scopes[e]
  BY DEF Kept
<1>4. ASSUME NEW t \in 1 .. Len(c.tiles), HeldIn(c, m, t)
      PROVE  t \in a.uncharged <=> t \in c.uncharged
  <2>1. HeldIn(b, m, t)
    BY <1>3, <1>4 DEF HeldIn
  <2>2. t \in 1 .. Len(b.tiles)
    BY <1>1 DEF Extends
  <2> QED
    BY <1>4, <2>1, <2>2 DEF Kept
<1>5. m <= Len(c.scopes) /\ m <= Len(a.scopes)
  BY DEF Kept
<1> QED
  BY <1>2, <1>3, <1>4, <1>5 DEF Kept

LEMMA KeptLess ==
    ASSUME NEW c, NEW a, CoreOK(c), CoreOK(a), NEW m \in Nat, Kept(c, a, m),
           NEW k \in Nat, k <= m
    PROVE  Kept(c, a, k)
<1>1. Len(c.scopes) \in Nat /\ Len(a.scopes) \in Nat
  BY SeqFacts DEF CoreOK
<1>2. \A t : HeldIn(c, k, t) => HeldIn(c, m, t)
  BY DEF HeldIn
<1>3. \A e \in 1 .. k : e \in 1 .. m
  OBVIOUS
<1> QED
  BY <1>1, <1>2, <1>3 DEF Kept

(* Only the innermost region moves on. *)
TopMoves ==
    /\ Len(frames') = N /\ \A d \in 1 .. N - 1 : frames'[d] = frames[d]
    /\ frames'[N].k = Frame.k /\ frames'[N].blk = Frame.blk
    /\ frames'[N].live = Frame.live

LEMMA TopMovesBy ==
    ASSUME N \in Nat, N >= 1,
           \/ Advanced
           \/ frames' = frames
           \/ SetIs(frames, N, {"pc", "env"}, frames')
           \/ SetIs(frames, N, {"pc", "at"}, frames')
           \/ SetIs(frames, N, {"pc", "vals", "terms"}, frames')
    PROVE  TopMoves
<1>1. N = Len(frames) /\ Frame = frames[N] /\ N \in 1 .. N
  BY DEF N, Frame
<1>2. ASSUME Advanced PROVE TopMoves
  BY <1>1, <1>2 DEF Advanced, EndsIn, SameBut, FrameFields, TopMoves
<1>3. ASSUME NEW fields, fields \in {{"pc", "env"}, {"pc", "at"}, {"pc", "vals", "terms"}},
             SetIs(frames, N, fields, frames')
      PROVE  TopMoves
  <2>1. /\ Len(frames') = N /\ \A d \in 1 .. N : d # N => frames'[d] = frames[d]
        /\ \A x \in FrameFields \ fields : frames'[N][x] = Frame[x]
    BY <1>1, <1>3 DEF SetIs, IsReplaced, SameBut
  <2>2. {"k", "blk", "live"} \subseteq FrameFields \ fields
    BY <1>3 DEF FrameFields
  <2> QED
    BY <1>1, <2>1, <2>2 DEF TopMoves
<1>4. ASSUME frames' = frames PROVE TopMoves
  BY <1>1, <1>4 DEF TopMoves
<1> QED
  BY <1>2, <1>3, <1>4

(***************************************************************************)
(* Each step of the machine keeps what is held outside a loop.             *)
(***************************************************************************)
LEMMA LoopsNext ==
    ASSUME UNCHANGED prog, \A d \in 2 .. Len(frames') : LoopOK(core', frames', d)
    PROVE  LoopInv'
BY DEF LoopInv, LoopOK, OwnerOf

LEMMA TopKeepsLoops ==
    ASSUME TypeInv, LoopInv, UNCHANGED prog, N \in Nat, N >= 1, CoreOK(core'),
           Extends(core, core'), Kept(core, core', N - 1), TopMoves
    PROVE  LoopInv'
<1>1. N = Len(frames) /\ Frame = frames[N] /\ CoreOK(core)
  BY DEF N, Frame, TypeInv
<1>2. \A d \in 2 .. N : LoopOK(core', frames', d)
  BY <1>1, LoopsStayBelow DEF TopMoves
<1>3. Len(frames') = N
  BY DEF TopMoves
<1> QED
  BY <1>2, <1>3, LoopsNext

LEMMA RanKeepsLoops ==
    ASSUME TypeInv, LoopInv, UNCHANGED prog, Here, Steps(core, core'), TopMoves
    PROVE  LoopInv'
BY TopKeepsLoops DEF Here, Steps

LEMMA IterateKeepsLoops ==
    ASSUME TypeInv, LoopInv, UNCHANGED prog, IterateStep
    PROVE  LoopInv'
<1>1. Within /\ IterateRan
  BY DEF IterateStep
<1>2. PICK b : PushedIs(core, b) /\ BoundIs(b, <<"i">>, <<Scalar>>, TRUE, core')
  BY <1>1 DEF IterateRan
<1>3. /\ N \in Nat /\ N >= 1 /\ CoreOK(core) /\ Len(core.scopes) = N - 1
      /\ CoreOK(b) /\ Extends(core, b) /\ Kept(core, b, N - 1) /\ Len(b.scopes) = N
  BY <1>1, <1>2 DEF Within, IterateRan, PushedIs, IsAppend
<1>4. Steps(b, core')
  BY <1>2, <1>3, StepsAre
<1>5. Kept(core, core', N - 1) /\ Extends(core, core') /\ CoreOK(core')
  <2>1. N - 1 \in Nat
    BY <1>1 DEF Within
  <2> QED
    BY <1>3, <1>4, <2>1, KeptTwice DEF Steps
<1>6. TopMoves
  BY <1>1, <1>3, TopMovesBy DEF IterateRan
<1> QED
  BY <1>3, <1>5, <1>6, TopKeepsLoops

LEMMA LoopKeepsLoops ==
    ASSUME TypeInv, LoopInv, UNCHANGED prog, LoopStep
    PROVE  LoopInv'
<1>1. Here /\ EnterForRan
  BY DEF LoopStep
<1>2. PICK b, vals, g :
          /\ InitsAre(Op.ins, b, vals) /\ BoundIs(b, Op.args, vals, TRUE, core')
          /\ IsAppend(frames, g, frames') /\ g.live = Live(core')
  BY <1>1 DEF EnterForRan
<1>3. N \in Nat /\ N >= 1 /\ CoreOK(core) /\ Len(core.scopes) = N /\ Op.k = "for" /\ N = Len(frames)
  BY <1>1 DEF Here, EnterForRan, N
<1>4. Steps(core, core')
  <2>1. Steps(core, b) /\ Len(b.scopes) = N /\ CoreOK(b)
    BY <1>2, <1>3, StepsAre DEF InitsAre, GrownIs
  <2>2. Steps(b, core')
    BY <1>2, <1>3, <2>1, StepsAre
  <2> QED
    BY <1>3, <2>1, <2>2, StepsCompose
<1>5. Len(frames') = N + 1 /\ \A d \in 1 .. N : frames'[d] = frames[d]
  BY <1>2, <1>3 DEF IsAppend
<1>6. \A d \in 2 .. N : LoopOK(core', frames', d)
  <2>1. \A d \in 1 .. N - 1 : frames'[d] = frames[d]
    BY <1>3, <1>5
  <2>2. N \in 1 .. Len(frames) => frames'[N].k = frames[N].k /\ frames'[N].live = frames[N].live
    BY <1>5
  <2>3. CoreOK(core') /\ Extends(core, core') /\ Kept(core, core', N - 1)
    BY <1>3, <1>4 DEF Steps
  <2> QED
    BY <1>3, <2>1, <2>2, <2>3, LoopsStayBelow
<1>7. \A d \in 2 .. Len(frames') : LoopOK(core', frames', d)
  <2> TAKE d \in 2 .. Len(frames')
  <2>1. CASE d = N + 1
    BY <1>1, <1>2, <1>3, <2>1, LoopStarts
  <2>2. CASE d # N + 1
    BY <1>3, <1>5, <1>6, <2>2
  <2> QED
    BY <2>1, <2>2
<1> QED
  BY <1>7, LoopsNext

LEMMA BranchKeepsLoops ==
    ASSUME TypeInv, LoopInv, UNCHANGED prog, BranchStep
    PROVE  LoopInv'
<1>1. PICK branch \in 1 .. 2 : Here /\ BranchRan(branch)
  BY DEF BranchStep
<1>2. PICK g : IsAppend(frames, g, frames') /\ g.k = "if"
  BY <1>1 DEF BranchRan
<1>3. N \in Nat /\ N >= 1 /\ CoreOK(core) /\ Len(core.scopes) = N /\ N = Len(frames)
  BY <1>1 DEF Here, N
<1>4. CoreOK(core') /\ Extends(core, core') /\ Kept(core, core', N - 1)
  <2>1. CoreOK(core') /\ Extends(core, core') /\ Kept(core, core', N)
    BY <1>1, <1>3 DEF BranchRan, PushedIs
  <2>2. N - 1 \in Nat /\ N - 1 <= N
    BY <1>3
  <2> QED
    BY <1>3, <2>1, <2>2, KeptLess
<1>5. Len(frames') = N + 1 /\ frames'[N + 1] = g /\ \A d \in 1 .. N : frames'[d] = frames[d]
  BY <1>2, <1>3 DEF IsAppend
<1>6. \A d \in 2 .. N : LoopOK(core', frames', d)
  <2>1. \A d \in 1 .. N - 1 : frames'[d] = frames[d]
    BY <1>3, <1>5
  <2>2. N \in 1 .. Len(frames) => frames'[N].k = frames[N].k /\ frames'[N].live = frames[N].live
    BY <1>5
  <2> QED
    BY <1>3, <1>4, <2>1, <2>2, LoopsStayBelow
<1>7. \A d \in 2 .. Len(frames') : LoopOK(core', frames', d)
  <2> TAKE d \in 2 .. Len(frames')
  <2>1. CASE d = N + 1
    <3>1. frames'[d].k # "for"
      BY <1>2, <1>5, <2>1
    <3> QED
      BY <3>1 DEF LoopOK
  <2>2. CASE d # N + 1
    BY <1>3, <1>5, <1>6, <2>2
  <2> QED
    BY <2>1, <2>2
<1> QED
  BY <1>7, LoopsNext

LEMMA EndKeepsLoops ==
    ASSUME TypeInv, LoopInv, UNCHANGED prog, EndStep
    PROVE  LoopInv'
<1>1. Within /\ EndIterationRan
  BY DEF EndStep
<1>2. PICK b : PoppedIs(core, b) /\ BoundIs(b, Owner.args, Frame.vals, TRUE, core')
  BY <1>1 DEF EndIterationRan
<1>3. /\ N \in Nat /\ N >= 2 /\ N = Len(frames) /\ CoreOK(core) /\ Frame = frames[N]
      /\ Frame.k = "for" /\ IsSeq(Owner.args) /\ Len(core.scopes) = N /\ Owner = OwnerOf(frames, N)
      /\ N - 1 \in Nat /\ N - 1 >= 1 /\ N - 2 \in Nat /\ N - 2 <= N - 1 /\ N - 1 - 1 = N - 2
  <2>1. Len(prog[Frame.blk]) \in Nat
    BY <1>1, BlockIs DEF Within, FrameOK
  <2> QED
    BY <1>1, <2>1 DEF Within, EndIterationRan, N, RowsAre
<1>4. /\ CoreOK(b) /\ Extends(core, b) /\ Kept(core, b, N - 1) /\ Len(b.scopes) = N - 1
  BY <1>2, <1>3 DEF PoppedIs
<1>5. Steps(b, core')
  BY <1>2, <1>3, <1>4, StepsAre
<1>6. CoreOK(core') /\ Extends(b, core') /\ Kept(b, core', N - 2)
  BY <1>3, <1>4, <1>5 DEF Steps
<1>7. Kept(core, core', N - 2) /\ Extends(core, core')
  <2>1. Kept(core, b, N - 2)
    BY <1>3, <1>4, KeptLess
  <2> QED
    BY <1>3, <1>4, <1>6, <2>1, KeptTwice
<1>8. TopMoves
  BY <1>1, <1>3, TopMovesBy DEF EndIterationRan
<1>9. \A d \in 2 .. N - 1 : LoopOK(core', frames', d)
  <2>1. N - 1 <= Len(frames) /\ (N - 1 \in 1 .. Len(frames) => frames'[N - 1] = frames[N - 1])
    BY <1>3, <1>8 DEF TopMoves
  <2>2. \A d \in 1 .. N - 1 - 1 : frames'[d] = frames[d]
    BY <1>3, <1>8 DEF TopMoves
  <2> QED
    BY <1>3, <1>4, <1>6, <1>7, <2>1, <2>2, LoopsStayBelow
<1> DEFINE A == Range(Owner.args)
           before == HeldOutside(core, N - 1, A) \ core.uncharged
           after == HeldOutside(core', N - 1, A) \ core'.uncharged
<1>10. after \subseteq before
  <2>1. HeldOutside(b, N - 1, A) \ b.uncharged = before
    BY <1>3, <1>4, OutsideStays
  <2>2. after \subseteq HeldOutside(b, N - 1, A) \ b.uncharged
    <3>1. PICK d \in Nat : d = N - 1
      BY <1>3
    <3>2. PICK names : names = Owner.args
      OBVIOUS
    <3>3. IsSeq(names) /\ d >= 1 /\ Len(b.scopes) = d /\ BoundIs(b, names, Frame.vals, TRUE, core')
      BY <1>2, <1>3, <1>4, <3>1, <3>2
    <3>4. HeldOutside(core', d, Range(names)) \ core'.uncharged
             \subseteq HeldOutside(b, d, Range(names)) \ b.uncharged
      BY <1>4, <3>3, OutsideRebound
    <3> QED
      BY <3>1, <3>2, <3>4
  <2> QED
    BY <2>1, <2>2
<1>11. Cardinality(after) <= Cardinality(before) /\ Cardinality(after) \in Nat /\ Cardinality(before) \in Nat
  <2>1. IsFiniteSet(before) /\ Cardinality(before) \in Nat /\ Cardinality(after) \in Nat
    BY <1>3, <1>6, HeldOutsideFinite
  <2> QED
    BY <1>10, <2>1, FS_Subset
<1>12. ASSUME NEW d, d = N PROVE LoopOK(core', frames', d)
  <2>1. LoopOK(core, frames, d)
    BY <1>3, <1>12 DEF LoopInv
  <2>2. OwnerOf(frames', d) = Owner /\ OwnerOf(frames, d) = Owner
    <3>1. frames'[d - 1] = frames[d - 1]
      BY <1>3, <1>8, <1>12 DEF TopMoves
    <3> QED
      BY <1>3, <1>12, <3>1 DEF OwnerOf
  <2>3. frames'[d].live = frames[d].live /\ frames[d].k = "for"
    BY <1>3, <1>8, <1>12 DEF TopMoves
  <2>4. /\ HeldOutside(core', d - 1, Range(OwnerOf(frames', d).args)) \ core'.uncharged = after
        /\ HeldOutside(core, d - 1, Range(OwnerOf(frames, d).args)) \ core.uncharged = before
    BY <1>12, <2>2
  <2>5. frames[d].live \in Nat /\ Cardinality(before) + Len(Owner.args) <= frames[d].live
    BY <2>1, <2>2, <2>3, <2>4 DEF LoopOK
  <2>6. Cardinality(after) + Len(Owner.args) <= frames[d].live
    <3>1. Len(Owner.args) \in Nat
      BY <1>3, SeqFacts
    <3> HIDE DEF after, before
    <3> QED
      BY <1>11, <2>5, <3>1
  <2> QED
    BY <2>2, <2>3, <2>4, <2>5, <2>6 DEF LoopOK
<1>13. \A d \in 2 .. Len(frames') : LoopOK(core', frames', d)
  <2>1. Len(frames') = N
    BY <1>8 DEF TopMoves
  <2> TAKE d \in 2 .. Len(frames')
  <2>2. CASE d = N
    BY <1>12, <2>2
  <2>3. CASE d # N
    <3>1. d \in 2 .. N - 1
      BY <1>3, <2>1, <2>3
    <3> QED
      BY <1>9, <3>1
  <2> QED
    BY <2>2, <2>3
<1> QED
  BY <1>13, LoopsNext

LEMMA LeaveKeepsLoops ==
    ASSUME TypeInv, LoopInv, UNCHANGED prog, LeaveStep
    PROVE  LoopInv'
<1>1. Within /\ LeaveRan
  BY DEF LeaveStep
<1>2. PICK b : /\ IF Frame.k = "for" THEN b = core /\ Frame.pc = 0
                  ELSE PoppedIs(core, b) /\ Frame.pc = Len(prog[Frame.blk]) + 1 /\ Frame.k = "if"
               /\ BoundIs(b, Owner.res, Frame.vals, TRUE, core')
  BY <1>1 DEF LeaveRan
<1>3. /\ N \in Nat /\ N >= 2 /\ N = Len(frames) /\ CoreOK(core) /\ Parent = frames[N - 1]
      /\ N - 1 \in Nat /\ N - 1 >= 1 /\ N - 2 \in Nat /\ N - 2 <= N - 1 /\ N - 1 - 1 = N - 2
  BY <1>1 DEF Within, N
<1>4. CoreOK(b) /\ Extends(core, b) /\ Kept(core, b, N - 2) /\ Len(b.scopes) = N - 1
  <2>1. CASE Frame.k = "for"
    <3>1. Len(core.scopes) = N - 1 /\ b = core
      BY <1>1, <1>2, <2>1 DEF Within
    <3>2. Len(core.tiles) \in Nat /\ Len(core.bufs) \in Nat
      BY <1>3, SeqFacts DEF CoreOK
    <3> QED
      BY <1>3, <3>1, <3>2 DEF Extends, Kept
  <2>2. CASE Frame.k # "for"
    <3>1. Len(prog[Frame.blk]) \in Nat
      BY <1>1, BlockIs DEF Within, FrameOK
    <3>2. Len(core.scopes) = N /\ PoppedIs(core, b)
      BY <1>1, <1>2, <2>2, <3>1 DEF Within
    <3>3. CoreOK(b) /\ Extends(core, b) /\ Kept(core, b, N - 1) /\ Len(b.scopes) = N - 1
      BY <3>2 DEF PoppedIs
    <3> QED
      BY <1>3, <3>3, KeptLess
  <2> QED
    BY <2>1, <2>2
<1>5. Steps(b, core')
  BY <1>2, <1>3, <1>4, StepsAre
<1>6. CoreOK(core') /\ Kept(core, core', N - 2) /\ Extends(core, core')
  BY <1>3, <1>4, <1>5, KeptTwice DEF Steps
<1>7. /\ Len(frames') = N - 1 /\ \A d \in 1 .. N - 2 : frames'[d] = frames[d]
      /\ frames'[N - 1].k = frames[N - 1].k /\ frames'[N - 1].live = frames[N - 1].live
  BY <1>1, <1>3 DEF LeaveRan, EndsIn, SameBut, FrameFields
<1>8. \A d \in 2 .. N - 1 : LoopOK(core', frames', d)
  <2>1. N - 1 <= Len(frames)
    BY <1>3
  <2> QED
    BY <1>3, <1>4, <1>6, <1>7, <2>1, LoopsStayBelow
<1> QED
  BY <1>7, <1>8, LoopsNext

LEMMA StepKeepsLoops ==
    ASSUME TypeInv, LoopInv, Step, UNCHANGED prog
    PROVE  LoopInv'
<1>1. CASE OpStep
  <2>1. Here /\ Ran(Reads, Writes)
    BY <1>1, OpStepRan DEF OpStep
  <2>2. TopMoves
    BY <2>1, TopMovesBy DEF Ran, Here
  <2> QED
    BY <2>1, <2>2, RanKeepsLoops DEF Ran
<1>2. CASE FetchError \/ InitError \/ OutsError
  <2>1. UNCHANGED <<core, frames>>
    BY <1>2 DEF FetchError, InitError, OutsError, Raise
  <2> QED
    BY <2>1 DEF LoopInv, LoopOK, OwnerOf
<1>3. CASE ParkStep
  <2>1. Here /\ frames' = frames /\ Len(core.scopes) >= 1 /\ CoreOK(core)
    BY <1>3 DEF ParkStep, ParkRan, Here
  <2>2. PICK b : FetchedIs(core, Op.ins, b) /\ MadeIs(b, core', Term(Op.res[1], Contents(Op.ins)))
    BY <1>3 DEF ParkStep, ParkRan
  <2>3. Steps(core, b) /\ CoreOK(b) /\ Len(b.scopes) >= 1
    BY <2>1, <2>2, StepsAre DEF FetchedIs
  <2>4. Steps(b, core')
    BY <2>2, <2>3, StepsAre DEF MadeIs
  <2>5. Steps(core, core')
    BY <2>1, <2>3, <2>4, StepsCompose
  <2>6. TopMoves
    BY <2>1, TopMovesBy DEF Here
  <2> QED
    BY <2>1, <2>5, <2>6, RanKeepsLoops
<1>4. CASE YieldStep \/ ReturnStep
  <2>1. Here /\ FetchedIs(core, Op.ins, core') /\ Len(core.scopes) >= 1 /\ CoreOK(core)
    BY <1>4 DEF YieldStep, YieldRan, ReturnStep, Here
  <2>2. Steps(core, core')
    BY <2>1, StepsAre
  <2>3. TopMoves
    BY <1>4, <2>1, TopMovesBy DEF YieldStep, YieldRan, ReturnStep, Here
  <2> QED
    BY <2>1, <2>2, <2>3, RanKeepsLoops
<1> QED
  BY <1>1, <1>2, <1>3, <1>4, IterateKeepsLoops, LoopKeepsLoops, BranchKeepsLoops,
     EndKeepsLoops, LeaveKeepsLoops DEF Step

LEMMA ImageIsSmall ==
    ASSUME NEW m \in Nat, NEW f, f = [i \in 1 .. m |-> f[i]]
    PROVE  IsFiniteSet(Range(f)) /\ Cardinality(Range(f)) \in Nat /\ Cardinality(Range(f)) <= m
<1>1. DOMAIN f = 1 .. m
  OBVIOUS
<1>2. f \in Surjection(1 .. m, Range(f))
  BY <1>1 DEF Surjection, Range
<1>3. IsFiniteSet(1 .. m) /\ Cardinality(1 .. m) = m
  <2>1. Cardinality(0 + 1 .. 0 + m) = m /\ IsFiniteSet(0 + 1 .. 0 + m)
    BY IntervalSize
  <2>2. 0 + 1 = 1 /\ 0 + m = m
    OBVIOUS
  <2> QED
    BY <2>1, <2>2
<1>4. IsFiniteSet(Range(f)) /\ Cardinality(Range(f)) <= m
  BY <1>2, <1>3, FS_Surjection
<1> QED
  BY <1>4, FS_CardinalityType

LEMMA UnionIsSmall ==
    ASSUME NEW S, IsFiniteSet(S), NEW T, IsFiniteSet(T), NEW X, X \subseteq S \cup T,
           NEW m \in Nat, Cardinality(T) <= m, NEW live \in Nat, Cardinality(S) + m <= live
    PROVE  Cardinality(X) <= live
<1>1. /\ IsFiniteSet(S \cup T)
      /\ Cardinality(S \cup T) = Cardinality(S) + Cardinality(T) - Cardinality(S \cap T)
  BY FS_Union
<1>2. IsFiniteSet(S \cap T)
  BY FS_Subset
<1>3. /\ Cardinality(S) \in Nat /\ Cardinality(T) \in Nat /\ Cardinality(S \cap T) \in Nat
      /\ Cardinality(S \cup T) \in Nat
  BY <1>1, <1>2, FS_CardinalityType
<1>4. Cardinality(X) <= Cardinality(S \cup T) /\ IsFiniteSet(X)
  BY <1>1, FS_Subset
<1>5. Cardinality(X) \in Nat
  BY <1>4, FS_CardinalityType
<1> QED
  BY <1>1, <1>3, <1>4, <1>5

LEMMA HeadIsSmall ==
    ASSUME TypeInv, LoopInv, AtHead
    PROVE  Live(core) <= Frame.live
<1>1. Within
  BY WithinIs DEF AtHead
<1>2. /\ N \in Nat /\ N >= 2 /\ CoreOK(core) /\ Frame = frames[N] /\ Owner = OwnerOf(frames, N)
      /\ Len(core.scopes) = N - 1 /\ IsSeq(Owner.args) /\ N = Len(frames) /\ Frame.k = "for"
  BY <1>1 DEF Within, AtHead, RowsAre, N
<1>3. Len(Owner.args) \in Nat
  BY <1>2, SeqFacts
<1> DEFINE A == Range(Owner.args)
           m == Len(Owner.args)
           S == HeldOutside(core, N - 1, A) \ core.uncharged
           f == [i \in 1 .. m |-> core.scopes[N - 1][Owner.args[i]]]
           X == BoundTiles(core.scopes) \ core.uncharged
<1>4. IsFiniteSet(S) /\ Cardinality(S) \in Nat
  BY <1>2, HeldOutsideFinite
<1>5. IsFiniteSet(Range(f)) /\ Cardinality(Range(f)) <= m
  <2>1. f = [i \in 1 .. m |-> f[i]]
    OBVIOUS
  <2> HIDE DEF f
  <2> QED
    BY <1>3, <2>1, ImageIsSmall
<1>6. Frame.live \in Nat /\ Cardinality(S) + m <= Frame.live
  <2>1. PICK d : d = N
    OBVIOUS
  <2>2. LoopOK(core, frames, d)
    BY <1>2, <2>1 DEF LoopInv
  <2>3. OwnerOf(frames, d) = Owner /\ frames[d] = Frame
    BY <1>2, <2>1
  <2>4. HeldOutside(core, d - 1, Range(OwnerOf(frames, d).args)) \ core.uncharged = S
    BY <2>1, <2>3
  <2> HIDE DEF S
  <2> QED
    BY <1>2, <2>2, <2>3, <2>4 DEF LoopOK
<1>7. X \subseteq S \cup Range(f)
  <2> SUFFICES ASSUME NEW t \in BoundTiles(core.scopes), t \notin core.uncharged, t \notin Range(f)
               PROVE  t \in HeldOutside(core, N - 1, A)
    OBVIOUS
  <2>1. t \in 1 .. Len(core.tiles) /\ HeldIn(core, N - 1, t)
    BY <1>2, TilesAreHeld
  <2>2. PICK e \in 1 .. N - 1 : \E n \in DOMAIN core.scopes[e] : core.scopes[e][n] = t
    BY <2>1 DEF HeldIn
  <2>3. PICK n \in DOMAIN core.scopes[e] : core.scopes[e][n] = t
    BY <2>2
  <2>4. e = N - 1 => n \notin A
    <3> SUFFICES ASSUME e = N - 1, n \in A PROVE FALSE
      OBVIOUS
    <3>1. PICK i \in 1 .. m : Owner.args[i] = n
      BY <1>2, RangeIs
    <3>2. f[i] = t /\ i \in DOMAIN f
      BY <2>3, <3>1
    <3> QED
      BY <3>2 DEF Range
  <2>5. e < N - 1 \/ n \notin A
    BY <1>2, <2>4
  <2> QED
    BY <2>1, <2>3, <2>5 DEF HeldOutside
<1>8. Live(core) = Cardinality(X)
  BY DEF Live
<1> HIDE DEF X, S, f, m
<1> QED
  BY <1>3, <1>4, <1>5, <1>6, <1>7, <1>8, UnionIsSmall DEF m

LEMMA InitLoops == ASSUME Init PROVE LoopInv
<1>1. frames = <<Region("func", "main", 1, EmptyEnv)>>
  BY DEF Init
<1>2. Len(frames) = 1
  BY <1>1, OneValue
<1> QED
  BY <1>2 DEF LoopInv

LEMMA LoopInvHolds == Spec => [](TypeInv /\ LoopInv)
<1>1. TypeInv /\ LoopInv /\ [Next]_vars => LoopInv'
  <2> SUFFICES ASSUME TypeInv, LoopInv, [Next]_vars PROVE LoopInv'
    OBVIOUS
  <2>1. CASE Next
    <3>1. Step /\ UNCHANGED prog
      BY <2>1, NextCases
    <3> QED
      BY <3>1, StepKeepsLoops
  <2>2. CASE UNCHANGED vars
    BY <2>2 DEF vars, LoopInv, LoopOK, OwnerOf
  <2> QED
    BY <2>1, <2>2
<1>2. Spec => []TypeInv
  BY TypeInvHolds
<1> QED
  BY <1>1, <1>2, InitLoops, PTL DEF Spec

(***************************************************************************)
(* THEOREM: whenever a loop of any well-formed kernel is back at its head, *)
(* no more tiles are charged than when it started, however its body        *)
(* branches, nests, reshapes or accumulates, and whatever it consumes.     *)
(***************************************************************************)
THEOREM LoopsKeepTheirTiles == Spec => []LoopsDoNotLeak
<1>1. TypeInv /\ LoopInv => LoopsDoNotLeak
  BY HeadIsSmall DEF LoopsDoNotLeak
<1> QED
  BY <1>1, LoopInvHolds, PTL

(***************************************************************************)
(* Kernels: the names in scope, and where a name that is used once is used.*)
(***************************************************************************)
LEMMA ImageIsFinite ==
    ASSUME NEW S, IsFiniteSet(S), NEW f, f = [x \in S |-> f[x]], \A x \in S : IsFiniteSet(f[x])
    PROVE  IsFiniteSet(UNION Range(f))
<1>1. DOMAIN f = S
  OBVIOUS
<1>2. f \in Surjection(S, Range(f))
  BY <1>1 DEF Surjection, Range
<1>3. IsFiniteSet(Range(f))
  BY <1>2, FS_Surjection
<1>4. \A T \in Range(f) : IsFiniteSet(T)
  BY <1>1 DEF Range
<1> QED
  BY <1>3, <1>4, FS_UNION

(* The uses of a name: block, op and operand. *)
UsesIn(p, n, b, i) == {<<b, i, j>> : j \in {j \in DOMAIN p[b][i].ins : p[b][i].ins[j] = n}}
Uses(p, n) == UNION {UNION {UsesIn(p, n, b, i) : i \in DOMAIN p[b]} : b \in DOMAIN p}

LEMMA UsesAreFinite ==
    ASSUME prog \in Kernels, NEW n
    PROVE  IsFiniteSet(Uses(prog, n))
<1>1. IsFiniteSet(DOMAIN prog)
  BY KernelsAssumption DEF WellFormed
<1>2. ASSUME NEW b \in DOMAIN prog, NEW i \in DOMAIN prog[b]
      PROVE  IsFiniteSet(UsesIn(prog, n, b, i))
  <2>1. IsSite(b, i)
    BY <1>2, BlockIs
  <2>2. RowsAre(prog[b][i])
    BY <2>1, OpFacts, RowFacts
  <2> DEFINE ins == prog[b][i].ins
             f == [j \in 1 .. Len(ins) |-> IF ins[j] = n THEN {<<b, i, j>>} ELSE {}]
  <2>3. Len(ins) \in Nat /\ DOMAIN ins = 1 .. Len(ins)
    BY <2>2, SeqFacts DEF RowsAre
  <2>4. IsFiniteSet(1 .. Len(ins))
    BY <2>3, FS_Interval
  <2>5. \A j \in 1 .. Len(ins) : IsFiniteSet(f[j])
    BY FS_EmptySet, FS_Singleton
  <2>6. f = [j \in 1 .. Len(ins) |-> f[j]]
    OBVIOUS
  <2>7. IsFiniteSet(UNION Range(f))
    <3> HIDE DEF f
    <3> QED
      BY <2>4, <2>5, <2>6, ImageIsFinite
  <2>8. UsesIn(prog, n, b, i) \subseteq UNION Range(f)
    <3> SUFFICES ASSUME NEW j \in DOMAIN ins, ins[j] = n
                 PROVE  <<b, i, j>> \in UNION Range(f)
      BY DEF UsesIn
    <3>1. f[j] = {<<b, i, j>>} /\ j \in DOMAIN f
      BY <2>3
    <3> HIDE DEF f
    <3> QED
      BY <3>1 DEF Range
  <2> QED
    BY <2>7, <2>8, FS_Subset
<1>3. ASSUME NEW b \in DOMAIN prog
      PROVE  IsFiniteSet(UNION {UsesIn(prog, n, b, i) : i \in DOMAIN prog[b]})
  <2> DEFINE f == [i \in DOMAIN prog[b] |-> UsesIn(prog, n, b, i)]
  <2>1. Len(prog[b]) \in Nat /\ DOMAIN prog[b] = 1 .. Len(prog[b])
    BY BlockIs
  <2>2. IsFiniteSet(DOMAIN prog[b])
    BY <2>1, FS_Interval
  <2>3. f = [i \in DOMAIN prog[b] |-> f[i]] /\ \A i \in DOMAIN prog[b] : IsFiniteSet(f[i])
    BY <1>2
  <2>4. Range(f) = {UsesIn(prog, n, b, i) : i \in DOMAIN prog[b]}
    BY DEF Range
  <2> HIDE DEF f
  <2>5. IsFiniteSet(UNION Range(f))
    BY <2>2, <2>3, ImageIsFinite
  <2> QED
    BY <2>4, <2>5
<1> DEFINE f == [b \in DOMAIN prog |-> UNION {UsesIn(prog, n, b, i) : i \in DOMAIN prog[b]}]
<1>4. f = [b \in DOMAIN prog |-> f[b]] /\ \A b \in DOMAIN prog : IsFiniteSet(f[b])
  BY <1>3
<1>5. UNION Range(f) = Uses(prog, n)
  BY DEF Range, Uses
<1> HIDE DEF f
<1>6. IsFiniteSet(UNION Range(f))
  BY <1>1, <1>4, ImageIsFinite
<1> QED
  BY <1>5, <1>6

LEMMA UsesAre ==
    ASSUME prog \in Kernels, NEW n, NEW b, NEW i, IsSite(b, i), NEW j \in 1 .. Len(prog[b][i].ins),
           prog[b][i].ins[j] = n
    PROVE  <<b, i, j>> \in Uses(prog, n)
<1>1. b \in DOMAIN prog /\ i \in DOMAIN prog[b]
  BY BlockIs DEF IsSite
<1>2. j \in DOMAIN prog[b][i].ins
  BY OpFacts, RowFacts, SeqFacts DEF RowsAre
<1>3. <<b, i, j>> \in UsesIn(prog, n, b, i)
  BY <1>2 DEF UsesIn
<1> QED
  BY <1>1, <1>3 DEF Uses

LEMMA UsedInOnePlace ==
    ASSUME prog \in Kernels, NEW n, UseCount(prog, n) = 1,
           NEW b, NEW i, IsSite(b, i), NEW j \in 1 .. Len(prog[b][i].ins), prog[b][i].ins[j] = n,
           NEW c, NEW k, IsSite(c, k), NEW l \in 1 .. Len(prog[c][k].ins), prog[c][k].ins[l] = n
    PROVE  c = b /\ k = i /\ l = j
<1>1. UseCount(prog, n) = Cardinality(Uses(prog, n))
  BY DEF UseCount, Uses, UsesIn
<1>2. PICK u : Uses(prog, n) = {u}
  BY <1>1, UsesAreFinite, FS_Singleton
<1>3. <<b, i, j>> \in Uses(prog, n) /\ <<c, k, l>> \in Uses(prog, n)
  BY UsesAre
<1>4. <<b, i, j>> = <<c, k, l>>
  BY <1>2, <1>3
<1> QED
  BY <1>4

LEMMA InScopeAfter ==
    ASSUME NEW b, NEW i \in Nat, IsSite(b, i)
    PROVE  InScope(prog, b, i + 1) \subseteq InScope(prog, b, i) \cup Range(prog[b][i].res)
<1>1. Before(prog, b, i + 1) \subseteq Before(prog, b, i) \cup Range(prog[b][i].res)
  <2> SUFFICES ASSUME NEW j \in 1 .. i + 1 - 1, NEW n \in Range(prog[b][j].res)
               PROVE  n \in Before(prog, b, i) \cup Range(prog[b][i].res)
    BY DEF Before
  <2>1. CASE j = i
    BY <2>1
  <2>2. CASE j # i
    <3>1. j \in 1 .. i - 1
      BY <2>2
    <3> QED
      BY <3>1 DEF Before
  <2> QED
    BY <2>1, <2>2
<1> QED
  BY <1>1 DEF InScope

(* A region lies within what its owner's block lies within. *)
LEMMA AroundRegion ==
    ASSUME NEW b, NEW i, IsSite(b, i), NEW d \in Regions(prog[b][i]),
           NEW s \in Around(prog, d), s # <<b, i>>
    PROVE  s \in Around(prog, b)
<1>1. PICK c \in DOMAIN prog : \E k \in DOMAIN prog[c] : s = <<c, k>>
  BY DEF Around
<1>7. PICK k \in DOMAIN prog[c] : s = <<c, k>>
  BY <1>1
<1>2. prog \in Kernels /\ b \in DOMAIN prog
  BY DEF IsSite
<1>3. IsSite(c, k) /\ s[1] = c /\ s[2] = k
  BY <1>2, <1>7, BlockIs
<1>4. d \in Inside(prog, c, k)
  BY <1>3 DEF Around
<1>5. ASSUME NEW S \in SUBSET DOMAIN prog, Regions(prog[c][k]) \subseteq S, Closed(prog, S), b \notin S
      PROVE  FALSE
  <2> DEFINE S2 == S \ {d}
  <2>1. d \notin Regions(prog[c][k])
    BY <1>3, <1>7, OpFacts
  <2>2. ASSUME NEW x \in S2, NEW j \in DOMAIN prog[x]
        PROVE  Regions(prog[x][j]) \subseteq S2
    <3>1. IsSite(x, j) /\ x # b
      BY <1>2, <1>5, <2>2, BlockIs
    <3>2. d \notin Regions(prog[x][j])
      BY <3>1, OpFacts
    <3>3. Regions(prog[x][j]) \subseteq S
      BY <1>5, <2>2 DEF Closed
    <3> QED
      BY <3>2, <3>3
  <2>3. Closed(prog, S2)
    BY <2>2 DEF Closed
  <2>4. S2 \in SUBSET DOMAIN prog /\ Regions(prog[c][k]) \subseteq S2
    BY <1>5, <2>1
  <2>5. d \in S2
    BY <1>4, <2>3, <2>4 DEF Inside
  <2> QED
    BY <2>5
<1>6. b \in Inside(prog, c, k)
  BY <1>2, <1>5 DEF Inside
<1> QED
  BY <1>3, <1>6, <1>7 DEF Around

LEMMA InScopeInside ==
    ASSUME NEW b, NEW i, IsSite(b, i), NEW d \in Regions(prog[b][i])
    PROVE  InScope(prog, d, 1) \subseteq InScope(prog, b, i) \cup Binds(prog[b][i])
<1> SUFFICES ASSUME NEW n \in InScope(prog, d, 1)
             PROVE  n \in InScope(prog, b, i) \cup Binds(prog[b][i])
  OBVIOUS
<1>1. n \notin Before(prog, d, 1)
  BY DEF Before
<1>2. PICK s \in Around(prog, d) : n \in Before(prog, s[1], s[2]) \cup Binds(prog[s[1]][s[2]])
  BY <1>1 DEF InScope
<1>3. CASE s = <<b, i>>
  BY <1>2, <1>3 DEF InScope
<1>4. CASE s # <<b, i>>
  BY <1>2, <1>4, AroundRegion DEF InScope
<1> QED
  BY <1>3, <1>4

(***************************************************************************)
(* Operands.  Each name in scope is bound, or was used where it may be     *)
(* used, in the blocks from main to the innermost region.                  *)
(***************************************************************************)
Used(p, b, m, n) == \E i \in 1 .. m : n \in Range(p[b][i].ins)

(* The ops of a region that have fetched their operands. *)
Past(fs, st, d) == IF st = "parked" /\ d = Len(fs) THEN fs[d].pc ELSE fs[d].pc - 1

UsedUp(p, u, fs, st, d, n) == n \in u /\ \E e \in 1 .. d : Used(p, fs[e].blk, Past(fs, st, e), n)
BoundUpTo(c, d, n) == \E e \in 1 .. d : n \in DOMAIN c.scopes[e]
CoverOK(p, u, c, fs, st, d) ==
    fs[d].pc > 0 =>
        \A n \in InScope(p, fs[d].blk, fs[d].pc) :
            BoundUpTo(c, d, n) \/ UsedUp(p, u, fs, st, d, n)

(* The names of a loop are bound where the loop is. *)
ArgsOK(p, c, fs, d) ==
    fs[d].k = "for" => Range(p[fs[d - 1].blk][fs[d - 1].pc].args) \subseteq DOMAIN c.scopes[d - 1]

(* A scope holds names of its block only. *)
OutsIn(p, b) == UNION {Range(p[b][i].outs) : i \in DOMAIN p[b]}
Local(p, b) == DefinedIn(p, b) \cup OutsIn(p, b) \cup {"i"}
LocalOK(p, c, fs, d) == DOMAIN c.scopes[d] \subseteq Local(p, fs[d].blk)

Goes == status \in {"running", "parked"}
OperandsInv ==
    /\ OperandsAreThere
    /\ Goes => /\ \A d \in 1 .. Len(frames) : CoverOK(prog, usedOnce, core, frames, status, d)
               /\ \A d \in 2 .. Len(frames) : ArgsOK(prog, core, frames, d)
    /\ \A d \in 1 .. Len(core.scopes) : LocalOK(prog, core, frames, d)

(* What con names is consumed at frame d; frame h is d, or a region of it. *)
Carries(p, u, c, a, fs, gs, st, ss, con, d, h) ==
    /\ d \in Nat /\ h \in Nat /\ 1 <= d /\ d <= h
    /\ \A e \in 1 .. d :
          /\ gs[e].blk = fs[e].blk
          /\ Past(fs, st, e) \in Int /\ Past(gs, ss, e) \in Int
          /\ Past(fs, st, e) <= Past(gs, ss, e)
          /\ DOMAIN c.scopes[e] \ con \subseteq DOMAIN a.scopes[e]
    /\ \A n \in con : n \in u /\ Used(p, gs[d].blk, Past(gs, ss, d), n)
    /\ fs[d].pc > 0
    /\ \A n \in InScope(p, gs[h].blk, gs[h].pc) :
          n \in InScope(p, fs[d].blk, fs[d].pc) \/ BoundUpTo(a, h, n)

LEMMA CoverMoves ==
    ASSUME NEW p, NEW u, NEW c, NEW a, NEW fs, NEW gs, NEW st, NEW ss, NEW con,
           NEW d, NEW h, Carries(p, u, c, a, fs, gs, st, ss, con, d, h), CoverOK(p, u, c, fs, st, d)
    PROVE  CoverOK(p, u, a, gs, ss, h)
<1>0. /\ d \in Nat /\ h \in Nat /\ 1 <= d /\ d <= h
      /\ \A e \in 1 .. d :
            /\ gs[e].blk = fs[e].blk
            /\ Past(fs, st, e) \in Int /\ Past(gs, ss, e) \in Int
            /\ Past(fs, st, e) <= Past(gs, ss, e)
            /\ DOMAIN c.scopes[e] \ con \subseteq DOMAIN a.scopes[e]
      /\ \A n \in con : n \in u /\ Used(p, gs[d].blk, Past(gs, ss, d), n)
      /\ fs[d].pc > 0
      /\ \A n \in InScope(p, gs[h].blk, gs[h].pc) :
            n \in InScope(p, fs[d].blk, fs[d].pc) \/ BoundUpTo(a, h, n)
  BY DEF Carries
<1> SUFFICES ASSUME NEW n \in InScope(p, gs[h].blk, gs[h].pc), ~BoundUpTo(a, h, n)
             PROVE  UsedUp(p, u, gs, ss, h, n)
  BY DEF CoverOK
<1>1. /\ d \in 1 .. d /\ \A e \in 1 .. d : e \in 1 .. h
  BY <1>0
<1>2. BoundUpTo(c, d, n) \/ UsedUp(p, u, fs, st, d, n)
  BY <1>0 DEF CoverOK
<1>3. CASE n \in con
  BY <1>0, <1>1, <1>3 DEF UsedUp
<1>4. CASE n \notin con
  <2>1. ~BoundUpTo(c, d, n)
    BY <1>0, <1>1, <1>4 DEF BoundUpTo
  <2>2. PICK e \in 1 .. d : Used(p, fs[e].blk, Past(fs, st, e), n)
    BY <1>2, <2>1 DEF UsedUp
  <2>3. Used(p, gs[e].blk, Past(gs, ss, e), n)
    <3>1. PICK i \in 1 .. Past(fs, st, e) : n \in Range(p[fs[e].blk][i].ins)
      BY <2>2 DEF Used
    <3>2. /\ Past(fs, st, e) \in Int /\ Past(gs, ss, e) \in Int
          /\ Past(fs, st, e) <= Past(gs, ss, e) /\ gs[e].blk = fs[e].blk
      BY <1>0
    <3>3. i \in 1 .. Past(gs, ss, e)
      BY <3>1, <3>2
    <3> QED
      BY <3>1, <3>2, <3>3 DEF Used
  <2>4. n \in u
    BY <1>2, <2>1 DEF UsedUp
  <2> QED
    BY <1>1, <2>3, <2>4 DEF UsedUp
<1> QED
  BY <1>3, <1>4

(* Frames and scopes that stay are covered as before. *)
LEMMA CoverStays ==
    ASSUME NEW p, NEW u, NEW c, NEW a, NEW fs, NEW gs, NEW st, NEW ss, NEW d \in Nat, d >= 1,
           \A e \in 1 .. d : /\ gs[e].blk = fs[e].blk /\ gs[e].pc = fs[e].pc /\ fs[e].pc \in Nat
                             /\ Past(fs, st, e) = fs[e].pc - 1 /\ Past(gs, ss, e) = fs[e].pc - 1
                             /\ DOMAIN c.scopes[e] \subseteq DOMAIN a.scopes[e],
           CoverOK(p, u, c, fs, st, d)
    PROVE  CoverOK(p, u, a, gs, ss, d)
<1>1. d \in 1 .. d
  OBVIOUS
<1>2. CASE fs[d].pc > 0
  <2>0. PICK con : con = {}
    OBVIOUS
  <2>1. \A e \in 1 .. d : /\ gs[e].blk = fs[e].blk
                          /\ Past(fs, st, e) \in Int /\ Past(gs, ss, e) \in Int
                          /\ Past(fs, st, e) <= Past(gs, ss, e)
                          /\ DOMAIN c.scopes[e] \ con \subseteq DOMAIN a.scopes[e]
    BY <2>0
  <2>2. \A n \in InScope(p, gs[d].blk, gs[d].pc) : n \in InScope(p, fs[d].blk, fs[d].pc)
    BY <1>1
  <2>3. \A n \in con : n \in u /\ Used(p, gs[d].blk, Past(gs, ss, d), n)
    BY <2>0
  <2>4. d <= d /\ \A n \in InScope(p, gs[d].blk, gs[d].pc) :
            n \in InScope(p, fs[d].blk, fs[d].pc) \/ BoundUpTo(a, d, n)
    BY <2>2
  <2>5. Carries(p, u, c, a, fs, gs, st, ss, con, d, d)
    BY <1>2, <2>1, <2>3, <2>4 DEF Carries
  <2> QED
    BY <2>5, CoverMoves
<1>3. CASE ~(fs[d].pc > 0)
  BY <1>1, <1>3 DEF CoverOK
<1> QED
  BY <1>2, <1>3

(***************************************************************************)
(* What an op consumes is used once, by it.                                *)
(***************************************************************************)
LEMMA OutsUsed ==
    ASSUME prog \in Kernels, ConsumesSafely(prog), NEW b, NEW i, IsSite(b, i),
           NEW n \in Range(prog[b][i].outs)
    PROVE  UseCount(prog, n) # 1
<1>1. b \in DOMAIN prog /\ i \in DOMAIN prog[b]
  BY BlockIs DEF IsSite
<1>2. /\ IsSeq(prog[b][i].outs)
      /\ Len(prog[b][i].outs) = IF prog[b][i].k = "reduce" THEN 1 ELSE 0
  <2>1. IsOp(prog[b][i])
    BY OpFacts
  <2>2. RowsAre(prog[b][i])
    BY <2>1, RowFacts
  <2> QED
    BY <2>1, <2>2 DEF RowsAre, IsOp
<1>3. PICK j \in 1 .. Len(prog[b][i].outs) : prog[b][i].outs[j] = n
  BY <1>2, RangeIs
<1>4. prog[b][i].k = "reduce" /\ j = 1
  BY <1>2, <1>3
<1> QED
  BY <1>1, <1>3, <1>4 DEF ConsumesSafely

LEMMA SecondPart ==
    ASSUME NEW m \in Nat, NEW k \in Nat, NEW i \in 1 .. m + k, i \notin 1 .. m
    PROVE  i - m \in 1 .. k /\ m + (i - m) = i
OBVIOUS

LEMMA FetchesAre ==
    ASSUME Here
    PROVE  /\ IsSeq(Fetches) /\ Len(Op.ins) <= Len(Fetches) /\ Len(Fetches) \in Nat
           /\ \A i \in 1 .. Len(Op.ins) : Fetches[i] = Op.ins[i]
           /\ \A i \in 1 .. Len(Fetches) : i \in 1 .. Len(Op.ins) \/ Fetches[i] \in Range(Op.outs)
<1>1. RowsAre(Op) /\ IsSeq(Op.ins) /\ IsSeq(Op.outs) /\ Len(Op.ins) \in Nat /\ Len(Op.outs) \in Nat
  BY DEF Here, RowsAre
<1>2. CASE Op.k # "reduce"
  BY <1>1, <1>2 DEF Fetches
<1>3. CASE Op.k = "reduce"
  <2>1. Fetches = Op.ins \o Op.outs
    BY <1>3 DEF Fetches
  <2>2. IsConcat(Op.ins, Op.outs, Fetches)
    BY <1>1, <2>1, ConcatIs
  <2>3. /\ IsSeq(Fetches) /\ Len(Fetches) = Len(Op.ins) + Len(Op.outs)
        /\ \A i \in 1 .. Len(Op.ins) : Fetches[i] = Op.ins[i]
        /\ \A i \in 1 .. Len(Op.outs) : Fetches[Len(Op.ins) + i] = Op.outs[i]
    BY <2>2 DEF IsConcat
  <2>4. ASSUME NEW i \in 1 .. Len(Fetches), i \notin 1 .. Len(Op.ins)
        PROVE  Fetches[i] \in Range(Op.outs)
    <3>1. i - Len(Op.ins) \in 1 .. Len(Op.outs) /\ Len(Op.ins) + (i - Len(Op.ins)) = i
      <4>1. i \in 1 .. Len(Op.ins) + Len(Op.outs)
        BY <2>3
      <4> QED
        BY <1>1, <2>4, <4>1, SecondPart
    <3>2. Fetches[i] = Op.outs[i - Len(Op.ins)]
      BY <2>3, <3>1
    <3> QED
      BY <1>1, <3>1, <3>2, RangeIs
  <2>5. Len(Op.ins) <= Len(Fetches) /\ Len(Fetches) \in Nat
    <3>1. Len(Fetches) = Len(Op.ins) + Len(Op.outs)
      BY <2>3
    <3>2. Len(Op.ins) \in Nat /\ Len(Op.outs) \in Nat
      BY <1>1
    <3>3. \A m, k \in Nat : m <= m + k /\ m + k \in Nat
      OBVIOUS
    <3> QED
      BY <3>1, <3>2, <3>3, Zenon
  <2> QED
    BY <2>3, <2>4, <2>5
<1> QED
  BY <1>2, <1>3

LEMMA ReadsUsed ==
    ASSUME TypeInv, Here, ConsumesSafely(prog), NEW names,
           Range(names) \subseteq Range(Fetches), NEW n \in Consumed(core, names)
    PROVE  n \in usedOnce /\ n \in Range(Op.ins) /\ n \notin Range(Op.outs) /\ UseCount(prog, n) = 1
<1>1. n \in usedOnce /\ n \in Range(Fetches)
  BY DEF Consumed
<1>2. UseCount(prog, n) = 1
  BY <1>1 DEF TypeInv
<1>3. n \notin Range(Op.outs)
  BY <1>2, OutsUsed DEF Here, Op
<1>4. PICK i \in 1 .. Len(Fetches) : Fetches[i] = n
  BY <1>1, FetchesAre, RangeIs
<1>5. i \in 1 .. Len(Op.ins) /\ Op.ins[i] = n
  BY <1>3, <1>4, FetchesAre
<1>6. n \in Range(Op.ins)
  BY <1>5, RangeIs DEF Here, RowsAre
<1> QED
  BY <1>1, <1>2, <1>3, <1>6

(* No op before this one consumed what it fetches. *)
LEMMA OperandNotUsed ==
    ASSUME TypeInv, Here, status = "running",
           NEW n \in Range(Op.ins) \cup Range(Op.outs), n \in usedOnce => n \in Range(Op.ins)
    PROVE  n \in InScope(prog, Frame.blk, Frame.pc) /\ ~UsedUp(prog, usedOnce, frames, status, N, n)
<1>1. /\ N \in Nat /\ N >= 1 /\ N = Len(frames) /\ Frame = frames[N] /\ IsSite(Frame.blk, Frame.pc)
      /\ RowsAre(Op) /\ prog \in Kernels /\ FramesOK(frames) /\ Op = prog[Frame.blk][Frame.pc]
  BY DEF Here, N, Frame, Op
<1>2. n \in InScope(prog, Frame.blk, Frame.pc)
  <2>1. n \in Range(Op.ins \o Op.outs)
    BY <1>1, RangeOfConcat, Zenon DEF RowsAre
  <2> QED
    BY <1>1, <2>1, OpFacts
<1>3. SUFFICES ASSUME UsedUp(prog, usedOnce, frames, status, N, n) PROVE FALSE
  BY <1>2
<1>11. n \in usedOnce /\ n \in Range(Op.ins)
  BY <1>3 DEF UsedUp
<1>12. UseCount(prog, n) = 1
  BY <1>11 DEF TypeInv
<1>13. PICK e \in 1 .. N : Used(prog, frames[e].blk, Past(frames, status, e), n)
  BY <1>3 DEF UsedUp
<1>14. /\ e \in 1 .. Len(frames) /\ frames[e].blk \in DOMAIN prog
      /\ frames[e].pc \in 0 .. Len(prog[frames[e].blk]) + 1 /\ Past(frames, status, e) = frames[e].pc - 1
      /\ Len(prog[frames[e].blk]) \in Nat
  BY <1>1, <1>13, BlockIs DEF FramesOK, FrameOK, Past
<1>15. PICK i \in 1 .. Past(frames, status, e) : n \in Range(prog[frames[e].blk][i].ins)
  BY <1>13 DEF Used
<1>16. i \in 1 .. Len(prog[frames[e].blk]) /\ i < frames[e].pc
  BY <1>14, <1>15
<1>17. IsSite(frames[e].blk, i)
  BY <1>1, <1>14, <1>16 DEF IsSite
<1>18. PICK j \in 1 .. Len(prog[frames[e].blk][i].ins) : prog[frames[e].blk][i].ins[j] = n
  BY <1>15, <1>17, OpFacts, RowFacts, RangeIs DEF RowsAre
<1>19. PICK l \in 1 .. Len(Op.ins) : Op.ins[l] = n
  BY <1>1, <1>11, RangeIs, Zenon DEF RowsAre
<1>20. Frame.blk = frames[e].blk /\ Frame.pc = i
  BY <1>1, <1>12, <1>17, <1>18, <1>19, UsedInOnePlace
<1>21. e = N
  BY <1>1, <1>14, <1>20 DEF FramesOK
<1> QED
  BY <1>1, <1>16, <1>20, <1>21

(* A name in scope is bound unless an op before this one consumed it.  *)
LEMMA OperandIsBound ==
    ASSUME TypeInv, Here, OperandsInv, status = "running",
           NEW n \in Range(Op.ins) \cup Range(Op.outs), n \in usedOnce => n \in Range(Op.ins)
    PROVE  \E e \in 1 .. N : n \in DOMAIN core.scopes[e]
<1>1. N \in 1 .. Len(frames) /\ Frame = frames[N] /\ Frame.pc > 0
  BY BlockIs DEF Here, N, Frame, IsSite
<1>2. CoverOK(prog, usedOnce, core, frames, status, N)
  BY <1>1 DEF OperandsInv, Goes
<1> QED
  BY <1>1, <1>2, OperandNotUsed DEF CoverOK, BoundUpTo

LEMMA PrefixIs ==
    ASSUME NEW s, IsSeq(s), NEW i \in 1 .. Len(s), NEW x \in Range(SubSeq(s, 1, i - 1))
    PROVE  \E j \in 1 .. i - 1 : s[j] = x
<1> DEFINE r == SubSeq(s, 1, i - 1)
<1>1. Len(s) \in Nat /\ \A j \in 1 .. Len(s) : s[j] \in Range(s)
  BY SeqFacts, RangeIs
<1>2. i - 1 \in Int /\ 1 \in Int /\ \A j \in 1 .. i - 1 : s[j] \in Range(s)
  BY <1>1
<1>3. /\ r \in Seq(Range(s))
      /\ Len(r) = IF 1 <= i - 1 THEN i - 1 - 1 + 1 ELSE 0
      /\ \A j \in 1 .. i - 1 - 1 + 1 : r[j] = s[1 + j - 1]
  <2> HIDE DEF r
  <2> QED
    BY <1>2, SubSeqProperties DEF r
<1>4. IsSeq(r)
  BY <1>3, MemberIsSeq
<1> HIDE DEF r
<1>5. PICK j \in 1 .. Len(r) : r[j] = x
  BY <1>4, RangeIs DEF r
<1>6. j \in 1 .. i - 1
  <2>1. CASE 1 <= i - 1
    <3>1. Len(r) = i - 1 - 1 + 1
      BY <1>3, <2>1
    <3> QED
      BY <1>1, <1>5, <3>1
  <2>2. CASE ~(1 <= i - 1)
    <3>1. Len(r) = 0
      BY <1>3, <2>2
    <3> QED
      BY <1>5, <3>1
  <2> QED
    BY <2>1, <2>2
<1>7. j \in 1 .. i - 1 - 1 + 1 /\ 1 + j - 1 = j
  BY <1>1, <1>6
<1> QED
  BY <1>3, <1>5, <1>6, <1>7

LEMMA FetchesSucceed ==
    ASSUME TypeInv, Here, ConsumesSafely(prog), OperandsInv, status = "running"
    PROVE  ~FetchFails(core, Fetches)
<1> SUFFICES ASSUME NEW i \in DOMAIN Fetches,
                    ~Visible(Fetched(core, SubSeq(Fetches, 1, i - 1)), Fetches[i])
             PROVE  FALSE
  BY DEF FetchFails
<1> DEFINE n == Fetches[i]
           names == SubSeq(Fetches, 1, i - 1)
           b == Fetched(core, names)
<1>1. /\ N \in Nat /\ N >= 1 /\ CoreOK(core) /\ Len(core.scopes) = N /\ RowsAre(Op)
      /\ IsSeq(Fetches) /\ i \in 1 .. Len(Fetches) /\ prog \in Kernels /\ IsSite(Frame.blk, Frame.pc)
  BY FetchesAre, SeqFacts DEF Here
<1>2. \A x \in Range(names) : \E j \in 1 .. i - 1 : Fetches[j] = x
  BY <1>1, PrefixIs
<1>3. Range(names) \subseteq Range(Fetches)
  <2> SUFFICES ASSUME NEW x \in Range(names) PROVE x \in Range(Fetches)
    OBVIOUS
  <2>1. PICK j \in 1 .. i - 1 : Fetches[j] = x
    BY <1>2
  <2>2. j \in 1 .. Len(Fetches)
    BY <1>1, <2>1, FetchesAre
  <2> QED
    BY <1>1, <2>1, <2>2, RangeIs
<1>4. FetchedIs(core, names, b)
  BY <1>1, FetchKeeps
<1> HIDE DEF b, names
<1>5. i \in 1 .. Len(Op.ins) \/ n \in Range(Op.outs)
  BY <1>1, FetchesAre
<1>6. n \in usedOnce => i \in 1 .. Len(Op.ins) /\ Op.ins[i] = n /\ UseCount(prog, n) = 1
  <2> SUFFICES ASSUME n \in usedOnce
               PROVE  i \in 1 .. Len(Op.ins) /\ Op.ins[i] = n /\ UseCount(prog, n) = 1
    OBVIOUS
  <2>1. UseCount(prog, n) = 1
    BY DEF TypeInv
  <2>2. n \notin Range(Op.outs)
    BY <1>1, <2>1, OutsUsed DEF Op
  <2> QED
    BY <1>5, <2>1, <2>2, FetchesAre
<1>7. n \in Range(Op.ins) \cup Range(Op.outs) /\ (n \in usedOnce => n \in Range(Op.ins))
  <2>1. i \in 1 .. Len(Op.ins) => n \in Range(Op.ins)
    BY <1>1, FetchesAre, RangeIs DEF RowsAre
  <2> QED
    BY <1>5, <1>6, <2>1
<1>8. PICK e \in 1 .. N : n \in DOMAIN core.scopes[e]
  BY <1>7, OperandIsBound
<1>9. n \in DOMAIN b.scopes[e]
  <2>1. CASE e # N
    <3>1. e \in 1 .. N - 1
      BY <1>1, <2>1
    <3> QED
      BY <1>1, <1>4, <1>8, <3>1 DEF FetchedIs, Kept
  <2>2. CASE e = N
    <3>1. n \notin Consumed(core, names)
      <4> SUFFICES ASSUME n \in Consumed(core, names) PROVE FALSE
        OBVIOUS
      <4>1. n \in usedOnce /\ n \in Range(names)
        BY DEF Consumed
      <4>2. PICK j \in 1 .. i - 1 : Fetches[j] = n
        BY <1>2, <4>1
      <4>3. i \in 1 .. Len(Op.ins) /\ Op.ins[i] = n /\ UseCount(prog, n) = 1 /\ Len(Op.ins) \in Nat
        BY <1>1, <1>6, <4>1 DEF RowsAre
      <4>4. j \in 1 .. Len(Op.ins) /\ j # i
        BY <4>2, <4>3
      <4>5. Op.ins[j] = n
        BY <4>2, <4>4, FetchesAre
      <4> QED
        BY <1>1, <4>3, <4>4, <4>5, UsedInOnePlace DEF Op
    <3> QED
      BY <1>1, <1>4, <1>8, <2>2, <3>1 DEF FetchedIs
  <2> QED
    BY <2>1, <2>2
<1>10. Visible(b, n)
  BY <1>1, <1>4, <1>8, <1>9, VisibleIs DEF FetchedIs
<1> QED
  BY <1>10 DEF b, names

LEMMA InitsSucceed ==
    ASSUME TypeInv, Here, OperandsInv, status = "running", NEW n \in Range(Op.ins)
    PROVE  Visible(core, n)
<1>1. \E e \in 1 .. N : n \in DOMAIN core.scopes[e]
  BY OperandIsBound
<1> QED
  BY <1>1, VisibleIs DEF Here

(* A name used once is bound in one scope at a time. *)
LEMMA OneScope ==
    ASSUME TypeInv, ConsumesSafely(prog), OperandsInv, NEW n, n # "i", UseCount(prog, n) = 1,
           NEW d \in 1 .. Len(core.scopes), NEW e \in 1 .. Len(core.scopes),
           n \in DOMAIN core.scopes[d], n \in DOMAIN core.scopes[e]
    PROVE  d = e
<1>1. /\ prog \in Kernels /\ FramesOK(frames) /\ CoreOK(core) /\ Len(core.scopes) <= Len(frames)
      /\ Len(core.scopes) \in Nat /\ Len(frames) \in Nat
  BY SeqFacts DEF TypeInv, FramesOK, CoreOK, ScopesMatch
<1>2. d \in 1 .. Len(frames) /\ e \in 1 .. Len(frames)
  BY <1>1
<1>3. ASSUME NEW x \in 1 .. Len(core.scopes), n \in DOMAIN core.scopes[x]
      PROVE  n \in DefinedIn(prog, frames[x].blk) /\ frames[x].blk \in DOMAIN prog
  <2>1. x \in 1 .. Len(frames)
    BY <1>1
  <2>2. frames[x].blk \in DOMAIN prog
    BY <1>1, <2>1 DEF FramesOK, FrameOK
  <2>3. n \in Local(prog, frames[x].blk)
    BY <1>3 DEF OperandsInv, LocalOK
  <2>4. n \notin OutsIn(prog, frames[x].blk)
    <3> SUFFICES ASSUME NEW j \in DOMAIN prog[frames[x].blk], n \in Range(prog[frames[x].blk][j].outs)
                 PROVE  FALSE
      BY DEF OutsIn
    <3>1. IsSite(frames[x].blk, j)
      BY <1>1, <2>2, BlockIs
    <3> QED
      BY <1>1, <3>1, OutsUsed
  <2> QED
    BY <2>2, <2>3, <2>4 DEF Local
<1>4. frames[d].blk = frames[e].blk
  BY <1>3 DEF ConsumesSafely
<1> QED
  BY <1>1, <1>2, <1>4 DEF FramesOK

(* What an op fetches and does not consume is found where it was. *)
LEMMA LookupStays ==
    ASSUME TypeInv, Here, NEW names, NEW b, FetchedIs(core, names, b), NEW n,
           n \notin Consumed(core, names), Visible(core, n)
    PROVE  Visible(b, n) /\ Lookup(b, n) = Lookup(core, n)
<1>1. /\ N \in Nat /\ N >= 1 /\ CoreOK(core) /\ CoreOK(b) /\ Len(core.scopes) = N /\ Len(b.scopes) = N
  BY DEF Here, FetchedIs
<1>2. \A e \in 1 .. N : n \in DOMAIN b.scopes[e] <=> n \in DOMAIN core.scopes[e]
  <2> TAKE e \in 1 .. N
  <2>1. CASE e # N
    <3>1. e \in 1 .. N - 1
      BY <1>1, <2>1
    <3> QED
      BY <1>1, <3>1 DEF FetchedIs, Kept
  <2>2. CASE e = N
    BY <1>1, <2>2 DEF FetchedIs
  <2> QED
    BY <2>1, <2>2
<1>3. PICK w : w = Where(core, n)
  OBVIOUS
<1>4. /\ w \in 1 .. N /\ n \in DOMAIN core.scopes[w] /\ Lookup(core, n) = core.scopes[w][n]
      /\ \A d \in 1 .. N : n \in DOMAIN core.scopes[d] => d <= w
  BY <1>1, <1>3, LookupIs
<1>5. Visible(b, n)
  BY <1>1, <1>2, <1>4, VisibleIs
<1>6. PICK x : x = Where(b, n)
  OBVIOUS
<1>7. /\ x \in 1 .. N /\ n \in DOMAIN b.scopes[x] /\ Lookup(b, n) = b.scopes[x][n]
      /\ \A d \in 1 .. N : n \in DOMAIN b.scopes[d] => d <= x
  BY <1>1, <1>5, <1>6, LookupIs
<1>8. x = w
  <2>1. x <= w /\ w <= x
    BY <1>2, <1>4, <1>7
  <2> QED
    BY <1>1, <1>4, <1>7, <2>1
<1>9. b.scopes[x][n] = core.scopes[x][n]
  BY <1>1, <1>7 DEF FetchedIs
<1> QED
  BY <1>4, <1>5, <1>7, <1>8, <1>9

LEMMA OutsStay ==
    ASSUME TypeInv, Here, ConsumesSafely(prog), OperandsInv, OutsError
    PROVE  FALSE
<1> DEFINE n == Op.ins[2]
           v == Lookup(core, n)
<1>1. PICK b, c, d, t :
        /\ FetchedIs(core, Op.ins, b) /\ Visible(core, n) /\ n # "i"
        /\ IF v \in b.uncharged
           THEN \E term : MadeIs(b, c, term) /\ t = Newest(c)
           ELSE c = b /\ t = v
        /\ WrittenIs(c, d, c.tiles[t], Term("matmul", Contents(Op.ins)))
        /\ IF OutsReplaced(d, n, t) THEN Raise("AssertionError") ELSE Done(d, <<t>>)
  BY DEF OutsError, MatmulRan
<1>2. status' = "AssertionError"
  BY DEF OutsError, Raise
<1>3. OutsReplaced(d, n, t)
  BY <1>1, <1>2 DEF Done
<1>4. /\ N \in Nat /\ N >= 1 /\ CoreOK(core) /\ CoreOK(b) /\ CoreOK(d) /\ Len(core.scopes) = N
      /\ Len(b.scopes) = N /\ d.scopes = b.scopes /\ d.uncharged = b.uncharged
  BY <1>1 DEF Here, FetchedIs, MadeIs, WrittenIs, GrownIs
<1>5. Visible(d, n) /\ Lookup(d, n) \notin b.uncharged /\ Lookup(d, n) # t
  BY <1>3, <1>4 DEF OutsReplaced
<1>6. CASE n \notin Consumed(core, Op.ins)
  <2>1. Lookup(b, n) = v
    BY <1>1, <1>6, LookupStays
  <2>2. Lookup(d, n) = v
    BY <1>4, <2>1 DEF Lookup, Where, Depths
  <2> QED
    BY <1>1, <1>5, <2>2
<1>7. CASE n \in Consumed(core, Op.ins)
  <2>1. UseCount(prog, n) = 1
    BY <1>7 DEF Consumed, TypeInv
  <2>2. N \in 1 .. N /\ n \in DOMAIN core.scopes[N]
    BY <1>4, <1>7 DEF Consumed, Last
  <2>3. PICK e \in 1 .. N : n \in DOMAIN b.scopes[e]
    BY <1>4, <1>5, VisibleIs
  <2>4. e # N
    BY <1>1, <1>4, <1>7, <2>3 DEF FetchedIs
  <2>5. n \in DOMAIN core.scopes[e]
    <3>1. e \in 1 .. N - 1
      BY <1>4, <2>4
    <3> QED
      BY <1>1, <1>4, <2>3, <3>1 DEF FetchedIs, Kept
  <2>6. e = N
    BY <1>1, <1>4, <2>1, <2>2, <2>5, OneScope
  <2> QED
    BY <2>4, <2>6
<1> QED
  BY <1>6, <1>7

(***************************************************************************)
(* Each step keeps the names in scope covered.                             *)
(***************************************************************************)
LEMMA OperandsNext ==
    ASSUME UNCHANGED <<prog, usedOnce>>, status' \notin {"KeyError", "AssertionError"},
           Goes' => /\ \A d \in 1 .. Len(frames') : CoverOK(prog, usedOnce, core', frames', status', d)
                    /\ \A d \in 2 .. Len(frames') : ArgsOK(prog, core', frames', d),
           \A d \in 1 .. Len(core'.scopes) : LocalOK(prog, core', frames', d)
    PROVE  OperandsInv'
BY DEF OperandsInv, OperandsAreThere, Goes

LEMMA CoversBelow ==
    ASSUME TypeInv, OperandsInv, Goes, NEW m \in Nat, m <= Len(frames), m <= Len(frames'),
           \A e \in 1 .. m : /\ frames'[e].blk = frames[e].blk /\ frames'[e].pc = frames[e].pc
                             /\ DOMAIN core.scopes[e] \subseteq DOMAIN core'.scopes[e],
           m = Len(frames) => status # "parked", m = Len(frames') => status' # "parked"
    PROVE  \A d \in 1 .. m : CoverOK(prog, usedOnce, core', frames', status', d)
<1> TAKE d \in 1 .. m
<1>1. Len(frames) \in Nat /\ d \in 1 .. Len(frames) /\ d \in Nat /\ d >= 1
  BY SeqFacts DEF TypeInv, FramesOK
<1>2. CoverOK(prog, usedOnce, core, frames, status, d)
  BY <1>1 DEF OperandsInv
<1>3. \A e \in 1 .. d : /\ frames'[e].blk = frames[e].blk /\ frames'[e].pc = frames[e].pc
                        /\ frames[e].pc \in Nat
                        /\ Past(frames, status, e) = frames[e].pc - 1
                        /\ Past(frames', status', e) = frames[e].pc - 1
                        /\ DOMAIN core.scopes[e] \subseteq DOMAIN core'.scopes[e]
  <2> TAKE e \in 1 .. d
  <2>1. e \in 1 .. m /\ e \in 1 .. Len(frames)
    BY <1>1
  <2>2. FrameOK(frames, e) /\ Len(prog[frames[e].blk]) \in Nat
    BY <2>1, BlockIs DEF TypeInv, FramesOK, FrameOK
  <2>3. frames[e].pc \in Nat
    BY <2>2 DEF FrameOK
  <2>4. status = "parked" => e # Len(frames)
    BY <1>1, <2>1
  <2>5. status' = "parked" => e # Len(frames')
    BY <1>1, <2>1
  <2> QED
    BY <2>1, <2>3, <2>4, <2>5 DEF Past
<1> QED
  BY <1>1, <1>2, <1>3, CoverStays

LEMMA ArgsBelow ==
    ASSUME OperandsInv, Goes, NEW m \in Nat, m <= Len(frames), Len(frames) \in Nat,
           \A e \in 1 .. m - 1 :
               /\ frames'[e].blk = frames[e].blk /\ frames'[e].pc = frames[e].pc
               /\ DOMAIN core.scopes[e] \subseteq DOMAIN core'.scopes[e],
           \A e \in 1 .. m : frames'[e].k = frames[e].k
    PROVE  \A d \in 2 .. m : ArgsOK(prog, core', frames', d)
<1> TAKE d \in 2 .. m
<1>1. d \in 2 .. Len(frames) /\ d - 1 \in 1 .. m - 1 /\ d \in 1 .. m
  OBVIOUS
<1>2. ArgsOK(prog, core, frames, d)
  BY <1>1 DEF OperandsInv
<1>3. PICK e : e = d - 1
  OBVIOUS
<1>4. /\ frames'[e].blk = frames[e].blk /\ frames'[e].pc = frames[e].pc /\ frames'[d].k = frames[d].k
      /\ DOMAIN core.scopes[e] \subseteq DOMAIN core'.scopes[e]
  BY <1>1, <1>3
<1> QED
  BY <1>2, <1>3, <1>4 DEF ArgsOK

LEMMA LocalGrows ==
    ASSUME OperandsInv, NEW d \in 1 .. Len(core.scopes), frames'[d].blk = frames[d].blk,
           DOMAIN core'.scopes[d] \subseteq DOMAIN core.scopes[d] \cup Local(prog, frames[d].blk)
    PROVE  LocalOK(prog, core', frames', d)
BY DEF OperandsInv, LocalOK

LEMMA LocalsAre ==
    ASSUME NEW b, NEW i, IsSite(b, i)
    PROVE  Range(prog[b][i].res) \cup Range(prog[b][i].args) \cup Range(prog[b][i].outs) \subseteq Local(prog, b)
<1>1. i \in DOMAIN prog[b]
  BY BlockIs DEF IsSite
<1> QED
  BY <1>1 DEF Local, DefinedIn, OutsIn

LEMMA TopKeepsLocals ==
    ASSUME TypeInv, OperandsInv, Here, Steps(core, core'), TopMoves,
           DOMAIN core'.scopes[N] \subseteq DOMAIN core.scopes[N] \cup Local(prog, Frame.blk)
    PROVE  \A d \in 1 .. Len(core'.scopes) : LocalOK(prog, core', frames', d)
<1>1. /\ N \in Nat /\ N >= 1 /\ Len(core.scopes) = N /\ Len(core'.scopes) = N /\ Frame = frames[N]
      /\ \A d \in 1 .. N - 1 : core'.scopes[d] = core.scopes[d] /\ frames'[d] = frames[d]
      /\ frames'[N].blk = Frame.blk
  BY DEF Here, Steps, Kept, TopMoves, Frame, N
<1> TAKE d \in 1 .. Len(core'.scopes)
<1>2. CASE d = N
  BY <1>1, <1>2, LocalGrows
<1>3. CASE d # N
  <2>1. d \in 1 .. N - 1 /\ d \in 1 .. Len(core.scopes)
    BY <1>1, <1>3
  <2>2. core'.scopes[d] = core.scopes[d] /\ frames'[d] = frames[d]
    BY <1>1, <2>1
  <2> QED
    BY <2>1, <2>2, LocalGrows
<1> QED
  BY <1>2, <1>3

(* An op has fetched, and goes on or waits. *)
GoesOn(new) ==
    \/ /\ status' = "running" /\ frames'[N].pc = Frame.pc + 1 /\ Range(Op.res) \subseteq new
    \/ /\ status' = "parked" /\ status = "running" /\ frames'[N].pc = Frame.pc

LEMMA OpCarries ==
    ASSUME TypeInv, Here, Goes, ConsumesSafely(prog), TopMoves, Steps(core, core'),
           NEW names, Range(names) \subseteq Range(Fetches), NEW new, GoesOn(new),
           DOMAIN core'.scopes[N] = (DOMAIN core.scopes[N] \ Consumed(core, names)) \cup new
    PROVE  Carries(prog, usedOnce, core, core', frames, frames', status, status',
                   Consumed(core, names), N, N)
<1>1. /\ N \in Nat /\ N >= 1 /\ Len(core.scopes) = N /\ Frame = frames[N] /\ N = Len(frames)
      /\ Len(frames') = N /\ N \in 1 .. N
      /\ \A d \in 1 .. N - 1 : core'.scopes[d] = core.scopes[d] /\ frames'[d] = frames[d]
      /\ frames'[N].blk = Frame.blk /\ IsSite(Frame.blk, Frame.pc) /\ prog \in Kernels
      /\ Op = prog[Frame.blk][Frame.pc] /\ FramesOK(frames)
  BY DEF Here, Steps, Kept, TopMoves, Frame, N, Op
<1>2. Frame.pc \in 1 .. Len(prog[Frame.blk]) /\ Len(prog[Frame.blk]) \in Nat /\ Frame.pc \in Nat /\ Frame.pc > 0
  <2>1. Frame.pc \in 1 .. Len(prog[Frame.blk]) /\ Len(prog[Frame.blk]) \in Nat
    BY <1>1, BlockIs DEF IsSite
  <2> QED
    BY <2>1
<1>3. Past(frames', status', N) = Frame.pc /\ Past(frames, status, N) \in {Frame.pc, Frame.pc - 1}
  <2>1. Past(frames, status, N) \in {Frame.pc, Frame.pc - 1}
    BY <1>1 DEF Past
  <2>2. CASE status' = "running" /\ frames'[N].pc = Frame.pc + 1
    BY <1>1, <1>2, <2>1, <2>2 DEF Past
  <2>3. CASE status' = "parked" /\ frames'[N].pc = Frame.pc
    BY <1>1, <2>1, <2>3 DEF Past
  <2> QED
    BY <2>2, <2>3 DEF GoesOn
<1>4. ASSUME NEW e \in 1 .. N
      PROVE  /\ frames'[e].blk = frames[e].blk
             /\ Past(frames, status, e) \in Int /\ Past(frames', status', e) \in Int
             /\ Past(frames, status, e) <= Past(frames', status', e)
             /\ DOMAIN core.scopes[e] \ Consumed(core, names) \subseteq DOMAIN core'.scopes[e]
  <2>1. CASE e = N
    BY <1>1, <1>2, <1>3, <2>1
  <2>2. CASE e # N
    <3>1. e \in 1 .. N - 1
      BY <1>1, <2>2
    <3>2. core'.scopes[e] = core.scopes[e] /\ frames'[e] = frames[e]
      BY <1>1, <3>1
    <3>3. FrameOK(frames, e) /\ Len(prog[frames[e].blk]) \in Nat
      BY <1>1, BlockIs DEF FramesOK, FrameOK
    <3>4. frames[e].pc \in Nat
      BY <3>3 DEF FrameOK
    <3>5. Past(frames, status, e) = frames[e].pc - 1 /\ Past(frames', status', e) = frames[e].pc - 1
      BY <1>1, <2>2, <3>2 DEF Past
    <3> QED
      BY <3>2, <3>4, <3>5
  <2> QED
    BY <2>1, <2>2
<1>5. ASSUME NEW n \in Consumed(core, names)
      PROVE  n \in usedOnce /\ Used(prog, frames'[N].blk, Past(frames', status', N), n)
  <2>1. n \in usedOnce /\ n \in Range(Op.ins)
    BY ReadsUsed
  <2>2. Frame.pc \in 1 .. Past(frames', status', N)
    BY <1>2, <1>3
  <2> QED
    BY <1>1, <2>1, <2>2 DEF Used
<1>6. ASSUME NEW n \in InScope(prog, frames'[N].blk, frames'[N].pc)
      PROVE  n \in InScope(prog, Frame.blk, Frame.pc) \/ BoundUpTo(core', N, n)
  <2>1. CASE frames'[N].pc = Frame.pc
    BY <1>1, <1>6, <2>1
  <2>2. CASE frames'[N].pc = Frame.pc + 1 /\ Range(Op.res) \subseteq new
    <3>1. n \in InScope(prog, Frame.blk, Frame.pc) \cup Range(Op.res)
      BY <1>1, <1>2, <1>6, <2>2, InScopeAfter
    <3>2. n \in Range(Op.res) => n \in DOMAIN core'.scopes[N]
      BY <2>2
    <3> QED
      BY <1>1, <3>1, <3>2 DEF BoundUpTo
  <2> QED
    BY <2>1, <2>2 DEF GoesOn
<1> QED
  BY <1>1, <1>2, <1>4, <1>5, <1>6 DEF Carries

LEMMA OpKeepsOperands ==
    ASSUME TypeInv, OperandsInv, Here, Goes, ConsumesSafely(prog), UNCHANGED <<prog, usedOnce>>,
           TopMoves, Steps(core, core'),
           NEW names, Range(names) \subseteq Range(Fetches), NEW new, GoesOn(new),
           new \subseteq Local(prog, Frame.blk),
           DOMAIN core'.scopes[N] = (DOMAIN core.scopes[N] \ Consumed(core, names)) \cup new
    PROVE  OperandsInv'
<1>1. /\ N \in Nat /\ N >= 1 /\ N = Len(frames) /\ Len(frames') = N
      /\ \A d \in 1 .. N - 1 : core'.scopes[d] = core.scopes[d] /\ frames'[d] = frames[d]
      /\ frames'[N].k = frames[N].k
  BY DEF Here, Steps, Kept, TopMoves, Frame, N
<1>2. CoverOK(prog, usedOnce, core', frames', status', N)
  <2>1. Carries(prog, usedOnce, core, core', frames, frames', status, status',
                Consumed(core, names), N, N)
    BY OpCarries
  <2>2. CoverOK(prog, usedOnce, core, frames, status, N)
    BY <1>1 DEF OperandsInv
  <2> QED
    BY <2>1, <2>2, CoverMoves
<1>3. \A d \in 1 .. N - 1 : CoverOK(prog, usedOnce, core', frames', status', d)
  <2>1. N - 1 \in Nat /\ N - 1 <= Len(frames) /\ N - 1 <= Len(frames') /\ N - 1 # Len(frames) /\ N - 1 # Len(frames')
    BY <1>1
  <2> QED
    BY <1>1, <2>1, CoversBelow
<1>4. \A d \in 1 .. Len(frames') : CoverOK(prog, usedOnce, core', frames', status', d)
  <2> TAKE d \in 1 .. Len(frames')
  <2>1. d = N \/ d \in 1 .. N - 1
    BY <1>1
  <2> QED
    BY <1>2, <1>3, <2>1
<1>5. \A d \in 2 .. Len(frames') : ArgsOK(prog, core', frames', d)
  <2>1. \A e \in 1 .. N : frames'[e].k = frames[e].k
    <3> TAKE e \in 1 .. N
    <3>1. e = N \/ e \in 1 .. N - 1
      BY <1>1
    <3> QED
      BY <1>1, <3>1
  <2>2. \A e \in 1 .. N - 1 :
            /\ frames'[e].blk = frames[e].blk /\ frames'[e].pc = frames[e].pc
            /\ DOMAIN core.scopes[e] \subseteq DOMAIN core'.scopes[e]
    BY <1>1
  <2>3. N <= Len(frames) /\ Len(frames) \in Nat
    BY <1>1
  <2>4. \A d \in 2 .. N : ArgsOK(prog, core', frames', d)
    BY <1>1, <2>1, <2>2, <2>3, ArgsBelow
  <2> QED
    BY <1>1, <2>4
<1>6. \A d \in 1 .. Len(core'.scopes) : LocalOK(prog, core', frames', d)
  <2>1. DOMAIN core'.scopes[N] \subseteq DOMAIN core.scopes[N] \cup Local(prog, Frame.blk)
    OBVIOUS
  <2> QED
    BY <2>1, TopKeepsLocals
<1>7. status' \notin {"KeyError", "AssertionError"}
  BY DEF GoesOn
<1> QED
  BY <1>4, <1>5, <1>6, <1>7, OperandsNext

(* A region is entered, or an iteration begins: frame h of parent d. *)
LEMMA RegionCarries ==
    ASSUME TypeInv, status = "running", status' = status,
           NEW d \in Nat, d >= 1, NEW h, h = d + 1, d <= Len(frames), Len(frames') = h,
           \A e \in 1 .. d : /\ frames'[e] = frames[e]
                             /\ DOMAIN core.scopes[e] \subseteq DOMAIN core'.scopes[e],
           IsSite(frames[d].blk, frames[d].pc), frames'[h].pc = 1,
           frames'[h].blk \in Regions(prog[frames[d].blk][frames[d].pc]),
           \A n \in Binds(prog[frames[d].blk][frames[d].pc]) : BoundUpTo(core', h, n)
    PROVE  Carries(prog, usedOnce, core, core', frames, frames', status, status', {}, d, h)
<1>1. /\ d \in Nat /\ h \in Nat /\ 1 <= d /\ d <= h /\ d \in 1 .. d /\ FramesOK(frames)
      /\ prog \in Kernels /\ Len(frames) \in Nat
  BY SeqFacts DEF TypeInv, FramesOK
<1>2. frames[d].pc > 0
  BY BlockIs DEF IsSite
<1>3. ASSUME NEW e \in 1 .. d
      PROVE  /\ frames'[e].blk = frames[e].blk
             /\ Past(frames, status, e) \in Int /\ Past(frames', status', e) \in Int
             /\ Past(frames, status, e) <= Past(frames', status', e)
             /\ DOMAIN core.scopes[e] \ {} \subseteq DOMAIN core'.scopes[e]
  <2>1. FrameOK(frames, e) /\ Len(prog[frames[e].blk]) \in Nat
    <3>1. e \in 1 .. Len(frames)
      BY <1>1
    <3> QED
      BY <1>1, <3>1, BlockIs DEF FramesOK, FrameOK
  <2>2. frames[e].pc \in Nat
    BY <2>1 DEF FrameOK
  <2>3. Past(frames, status, e) = frames[e].pc - 1 /\ Past(frames', status', e) = frames[e].pc - 1
    BY DEF Past
  <2> QED
    BY <2>2, <2>3
<1>4. ASSUME NEW n \in InScope(prog, frames'[h].blk, frames'[h].pc)
      PROVE  n \in InScope(prog, frames[d].blk, frames[d].pc) \/ BoundUpTo(core', h, n)
  <2>1. n \in InScope(prog, frames[d].blk, frames[d].pc) \cup Binds(prog[frames[d].blk][frames[d].pc])
    BY <1>4, InScopeInside
  <2> QED
    BY <2>1
<1> QED
  BY <1>1, <1>2, <1>3, <1>4 DEF Carries

LEMMA LoopKeepsOperands ==
    ASSUME TypeInv, OperandsInv, UNCHANGED <<prog, usedOnce>>, status = "running", LoopStep
    PROVE  OperandsInv'
<1>1. Here /\ EnterForRan
  BY DEF LoopStep
<1>2. PICK b, vals, g :
          /\ InitsAre(Op.ins, b, vals) /\ BoundIs(b, Op.args, vals, TRUE, core')
          /\ IsAppend(frames, g, frames') /\ g.pc = 0
  BY <1>1 DEF EnterForRan
<1>3. /\ N \in Nat /\ N >= 1 /\ CoreOK(core) /\ Len(core.scopes) = N /\ N = Len(frames)
      /\ status' = status /\ IsSite(Frame.blk, Frame.pc) /\ Frame = frames[N]
      /\ Op = prog[Frame.blk][Frame.pc]
  BY <1>1 DEF Here, EnterForRan, N, Frame, Op
<1>4. Len(frames') = N + 1 /\ frames'[N + 1] = g /\ \A d \in 1 .. N : frames'[d] = frames[d]
  BY <1>2, <1>3 DEF IsAppend
<1>5. b.scopes = core.scopes
  BY <1>2 DEF InitsAre, GrownIs
<1>6. /\ Len(core'.scopes) = N
      /\ DOMAIN core'.scopes[N] = DOMAIN core.scopes[N] \cup Range(Op.args)
      /\ \A d \in 1 .. N - 1 : core'.scopes[d] = core.scopes[d]
  BY <1>2, <1>3, <1>5, ZenonT(30) DEF BoundIs, Kept
<1>7. \A d \in 1 .. N : DOMAIN core.scopes[d] \subseteq DOMAIN core'.scopes[d]
  <2> TAKE d \in 1 .. N
  <2>1. d = N \/ d \in 1 .. N - 1
    BY <1>3
  <2> QED
    BY <1>6, <2>1
<1>8. Goes
  BY DEF Goes
<1>9. \A d \in 1 .. Len(frames') : CoverOK(prog, usedOnce, core', frames', status', d)
  <2>1. N <= Len(frames) /\ N <= Len(frames') /\ status # "parked" /\ status' # "parked"
    BY <1>3, <1>4
  <2>2. \A e \in 1 .. N : frames'[e].blk = frames[e].blk /\ frames'[e].pc = frames[e].pc
    BY <1>4
  <2>3. \A d \in 1 .. N : CoverOK(prog, usedOnce, core', frames', status', d)
    BY <1>3, <1>7, <1>8, <2>1, <2>2, CoversBelow
  <2> TAKE d \in 1 .. Len(frames')
  <2>4. CASE d = N + 1
    <3>1. ~(frames'[d].pc > 0)
      BY <1>2, <1>4, <2>4
    <3> QED
      BY <3>1 DEF CoverOK
  <2>5. CASE d # N + 1
    <3>1. d \in 1 .. N
      BY <1>3, <1>4, <2>5
    <3> QED
      BY <2>3, <3>1
  <2> QED
    BY <2>4, <2>5
<1>10. \A d \in 2 .. Len(frames') : ArgsOK(prog, core', frames', d)
  <2>1. N <= Len(frames) /\ Len(frames) \in Nat
    BY <1>3
  <2>2. \A e \in 1 .. N - 1 : /\ frames'[e].blk = frames[e].blk /\ frames'[e].pc = frames[e].pc
                              /\ DOMAIN core.scopes[e] \subseteq DOMAIN core'.scopes[e]
    BY <1>3, <1>4, <1>7
  <2>3. \A e \in 1 .. N : frames'[e].k = frames[e].k
    BY <1>4
  <2>4. \A d \in 2 .. N : ArgsOK(prog, core', frames', d)
    BY <1>3, <1>8, <2>1, <2>2, <2>3, ArgsBelow
  <2> TAKE d \in 2 .. Len(frames')
  <2>5. CASE d = N + 1
    <3>1. d - 1 = N
      BY <1>3, <2>5
    <3>2. frames'[d - 1] = Frame
      BY <1>3, <1>4, <3>1
    <3> QED
      BY <1>3, <1>6, <3>1, <3>2 DEF ArgsOK
  <2>6. CASE d # N + 1
    <3>1. d \in 2 .. N
      BY <1>3, <1>4, <2>6
    <3> QED
      BY <2>4, <3>1
  <2> QED
    BY <2>5, <2>6
<1>11. \A d \in 1 .. Len(core'.scopes) : LocalOK(prog, core', frames', d)
  <2> TAKE d \in 1 .. Len(core'.scopes)
  <2>1. d \in 1 .. Len(core.scopes) /\ frames'[d].blk = frames[d].blk
    BY <1>3, <1>4, <1>6
  <2>2. DOMAIN core'.scopes[d] \subseteq DOMAIN core.scopes[d] \cup Local(prog, frames[d].blk)
    <3>1. Range(Op.args) \subseteq Local(prog, Frame.blk)
      BY <1>3, LocalsAre
    <3>2. d = N \/ d \in 1 .. N - 1
      BY <1>3, <1>6
    <3> QED
      BY <1>3, <1>6, <3>1, <3>2
  <2> QED
    BY <2>1, <2>2, LocalGrows
<1>12. status' \notin {"KeyError", "AssertionError"}
  BY <1>3
<1> QED
  BY <1>9, <1>10, <1>11, <1>12, OperandsNext

LEMMA BranchKeepsOperands ==
    ASSUME TypeInv, OperandsInv, UNCHANGED <<prog, usedOnce>>, status = "running", BranchStep
    PROVE  OperandsInv'
<1>1. PICK branch \in 1 .. 2 : Here /\ BranchRan(branch)
  BY DEF BranchStep
<1>2. PICK g : /\ IsAppend(frames, g, frames') /\ g.k = "if" /\ g.pc = 1
               /\ g.blk = Op.blks[branch]
  BY <1>1 DEF BranchRan
<1>3. /\ N \in Nat /\ N >= 1 /\ CoreOK(core) /\ Len(core.scopes) = N /\ N = Len(frames)
      /\ status' = status /\ IsSite(Frame.blk, Frame.pc) /\ Frame = frames[N]
      /\ Op = prog[Frame.blk][Frame.pc] /\ Op.k = "if" /\ Op.blks[branch] # "none"
      /\ PushedIs(core, core') /\ IsOp(Op) /\ RowsAre(Op)
  BY <1>1 DEF Here, BranchRan, N, Frame, Op
<1>4. Len(frames') = N + 1 /\ frames'[N + 1] = g /\ \A d \in 1 .. N : frames'[d] = frames[d]
  BY <1>2, <1>3 DEF IsAppend
<1>5. /\ Len(core'.scopes) = N + 1 /\ core'.scopes[N + 1] = EmptyScope
      /\ \A d \in 1 .. N : core'.scopes[d] = core.scopes[d]
  BY <1>3 DEF PushedIs, IsAppend
<1>6. Goes
  BY DEF Goes
<1>7. g.blk \in Regions(Op) /\ Binds(Op) = {}
  <2>1. IsSeq(Op.blks) /\ Len(Op.blks) = 2 /\ IsSeq(Op.args) /\ Len(Op.args) = 0
    BY <1>3, Zenon DEF RowsAre, IsOp
  <2>2. g.blk \in Regions(Op)
    BY <1>2, <1>3, <2>1, RangeIs, ZenonT(30) DEF Regions
  <2>3. \A n : n \notin Range(Op.args)
    BY <2>1, RangeIs
  <2> QED
    BY <1>3, <2>2, <2>3 DEF Binds
<1>8. CoverOK(prog, usedOnce, core', frames', status', N + 1)
  <2>1. PICK h : h = N + 1
    OBVIOUS
  <2>2. Carries(prog, usedOnce, core, core', frames, frames', status, status', {}, N, h)
    BY <1>2, <1>3, <1>4, <1>5, <1>7, <2>1, RegionCarries
  <2>3. CoverOK(prog, usedOnce, core, frames, status, N)
    BY <1>3, <1>6 DEF OperandsInv
  <2> QED
    BY <2>1, <2>2, <2>3, CoverMoves
<1>9. \A d \in 1 .. Len(frames') : CoverOK(prog, usedOnce, core', frames', status', d)
  <2>1. N <= Len(frames) /\ N <= Len(frames') /\ status # "parked" /\ status' # "parked"
    BY <1>3, <1>4
  <2>2. \A e \in 1 .. N : /\ frames'[e].blk = frames[e].blk /\ frames'[e].pc = frames[e].pc
                          /\ DOMAIN core.scopes[e] \subseteq DOMAIN core'.scopes[e]
    BY <1>4, <1>5
  <2>3. \A d \in 1 .. N : CoverOK(prog, usedOnce, core', frames', status', d)
    BY <1>3, <1>6, <2>1, <2>2, CoversBelow
  <2> TAKE d \in 1 .. Len(frames')
  <2>4. d = N + 1 \/ d \in 1 .. N
    BY <1>3, <1>4
  <2> QED
    BY <1>8, <2>3, <2>4
<1>10. \A d \in 2 .. Len(frames') : ArgsOK(prog, core', frames', d)
  <2>1. N <= Len(frames) /\ Len(frames) \in Nat
    BY <1>3
  <2>2. \A e \in 1 .. N - 1 : /\ frames'[e].blk = frames[e].blk /\ frames'[e].pc = frames[e].pc
                              /\ DOMAIN core.scopes[e] \subseteq DOMAIN core'.scopes[e]
    BY <1>3, <1>4, <1>5
  <2>3. \A e \in 1 .. N : frames'[e].k = frames[e].k
    BY <1>4
  <2>4. \A d \in 2 .. N : ArgsOK(prog, core', frames', d)
    BY <1>3, <1>6, <2>1, <2>2, <2>3, ArgsBelow
  <2> TAKE d \in 2 .. Len(frames')
  <2>5. CASE d = N + 1
    BY <1>2, <1>4, <2>5 DEF ArgsOK
  <2>6. CASE d # N + 1
    <3>1. d \in 2 .. N
      BY <1>3, <1>4, <2>6
    <3> QED
      BY <2>4, <3>1
  <2> QED
    BY <2>5, <2>6
<1>11. \A d \in 1 .. Len(core'.scopes) : LocalOK(prog, core', frames', d)
  <2> TAKE d \in 1 .. Len(core'.scopes)
  <2>1. CASE d = N + 1
    BY <1>5, <2>1 DEF LocalOK, EmptyScope
  <2>2. CASE d # N + 1
    <3>1. d \in 1 .. N
      BY <1>3, <1>5, <2>2
    <3> QED
      BY <1>3, <1>4, <1>5, <3>1, LocalGrows
  <2> QED
    BY <2>1, <2>2
<1>12. status' \notin {"KeyError", "AssertionError"}
  BY <1>3
<1> QED
  BY <1>9, <1>10, <1>11, <1>12, OperandsNext

LEMMA IterateKeepsOperands ==
    ASSUME TypeInv, OperandsInv, UNCHANGED <<prog, usedOnce>>, status = "running", IterateStep
    PROVE  OperandsInv'
<1>1. Within /\ IterateRan
  BY DEF IterateStep
<1>2. PICK b : PushedIs(core, b) /\ BoundIs(b, <<"i">>, <<Scalar>>, TRUE, core')
  BY <1>1 DEF IterateRan
<1>3. /\ N \in Nat /\ N >= 2 /\ CoreOK(core) /\ Len(core.scopes) = N - 1 /\ N = Len(frames)
      /\ status' = status /\ N - 1 \in Nat /\ N - 1 >= 1 /\ N - 1 <= N /\ N = N - 1 + 1
      /\ N - 1 + 1 - 1 = N - 1 /\ Owner = OwnerOf(frames, N) /\ Frame = frames[N]
      /\ IsSite(frames[N - 1].blk, frames[N - 1].pc) /\ Frame.blk \in Regions(Owner)
      /\ Owner = prog[frames[N - 1].blk][frames[N - 1].pc] /\ Frame.k = "for"
  BY <1>1 DEF Within, IterateRan, N, OwnerOf
<1>4. /\ Len(frames') = N /\ frames'[N].blk = Frame.blk /\ frames'[N].pc = 1 /\ frames'[N].k = Frame.k
      /\ \A d \in 1 .. N - 1 : frames'[d] = frames[d]
  <2>1. TopMoves
    BY <1>1, <1>3, TopMovesBy DEF IterateRan
  <2> QED
    BY <1>1, <2>1 DEF TopMoves, IterateRan
<1>5. /\ Len(core'.scopes) = N /\ DOMAIN core'.scopes[N] = {"i"}
      /\ \A d \in 1 .. N - 1 : core'.scopes[d] = core.scopes[d]
  <2>1. /\ Len(b.scopes) = N /\ b.scopes[N] = EmptyScope
        /\ \A d \in 1 .. N - 1 : b.scopes[d] = core.scopes[d]
    BY <1>2, <1>3 DEF PushedIs, IsAppend
  <2>2. /\ Len(core'.scopes) = N /\ DOMAIN core'.scopes[N] = DOMAIN EmptyScope \cup Range(<<"i">>)
        /\ \A d \in 1 .. N - 1 : core'.scopes[d] = b.scopes[d]
    BY <1>2, <2>1 DEF BoundIs, Kept
  <2>3. Range(<<"i">>) = {"i"} /\ DOMAIN EmptyScope = {}
    BY OneValue DEF EmptyScope
  <2> QED
    BY <2>1, <2>2, <2>3
<1>6. Goes
  BY DEF Goes
<1>7. \A n \in Binds(Owner) : BoundUpTo(core', N, n)
  <2>1. ArgsOK(prog, core, frames, N)
    BY <1>3, <1>6 DEF OperandsInv
  <2>2. Range(Owner.args) \subseteq DOMAIN core.scopes[N - 1]
    BY <1>3, <2>1 DEF ArgsOK
  <2>3. N \in 1 .. N /\ N - 1 \in 1 .. N - 1 /\ N - 1 \in 1 .. N
    BY <1>3
  <2>4. core'.scopes[N - 1] = core.scopes[N - 1]
    BY <1>5, <2>3
  <2> QED
    BY <1>5, <2>2, <2>3, <2>4 DEF BoundUpTo, Binds
<1>8. CoverOK(prog, usedOnce, core', frames', status', N)
  <2>1. PICK d \in Nat : d = N - 1
    BY <1>3
  <2>2. /\ d >= 1 /\ N = d + 1 /\ d <= Len(frames) /\ Len(frames') = N
        /\ \A e \in 1 .. d : /\ frames'[e] = frames[e]
                             /\ DOMAIN core.scopes[e] \subseteq DOMAIN core'.scopes[e]
        /\ IsSite(frames[d].blk, frames[d].pc) /\ frames'[N].pc = 1
        /\ frames'[N].blk \in Regions(prog[frames[d].blk][frames[d].pc])
        /\ \A n \in Binds(prog[frames[d].blk][frames[d].pc]) : BoundUpTo(core', N, n)
    BY <1>3, <1>4, <1>5, <1>7, <2>1
  <2>3. Carries(prog, usedOnce, core, core', frames, frames', status, status', {}, d, N)
    BY <1>3, <2>2, RegionCarries
  <2>4. CoverOK(prog, usedOnce, core, frames, status, d)
    BY <1>3, <1>6, <2>2 DEF OperandsInv
  <2> QED
    BY <2>3, <2>4, CoverMoves
<1>9. \A d \in 1 .. Len(frames') : CoverOK(prog, usedOnce, core', frames', status', d)
  <2>1. N - 1 <= Len(frames) /\ N - 1 <= Len(frames') /\ status # "parked" /\ status' # "parked"
    BY <1>3, <1>4
  <2>2. \A e \in 1 .. N - 1 : /\ frames'[e].blk = frames[e].blk /\ frames'[e].pc = frames[e].pc
                              /\ DOMAIN core.scopes[e] \subseteq DOMAIN core'.scopes[e]
    BY <1>4, <1>5
  <2>3. \A d \in 1 .. N - 1 : CoverOK(prog, usedOnce, core', frames', status', d)
    BY <1>3, <1>6, <2>1, <2>2, CoversBelow
  <2> TAKE d \in 1 .. Len(frames')
  <2>4. d = N \/ d \in 1 .. N - 1
    BY <1>3, <1>4
  <2> QED
    BY <1>8, <2>3, <2>4
<1>10. \A d \in 2 .. Len(frames') : ArgsOK(prog, core', frames', d)
  <2>1. N <= Len(frames) /\ Len(frames) \in Nat
    BY <1>3
  <2>2. \A e \in 1 .. N - 1 : /\ frames'[e].blk = frames[e].blk /\ frames'[e].pc = frames[e].pc
                              /\ DOMAIN core.scopes[e] \subseteq DOMAIN core'.scopes[e]
    BY <1>3, <1>4, <1>5
  <2>3. \A e \in 1 .. N : frames'[e].k = frames[e].k
    <3> TAKE e \in 1 .. N
    <3>1. e = N \/ e \in 1 .. N - 1
      BY <1>3
    <3> QED
      BY <1>3, <1>4, <3>1
  <2>4. \A d \in 2 .. N : ArgsOK(prog, core', frames', d)
    BY <1>3, <1>6, <2>1, <2>2, <2>3, ArgsBelow
  <2> QED
    BY <1>4, <2>4
<1>11. \A d \in 1 .. Len(core'.scopes) : LocalOK(prog, core', frames', d)
  <2> TAKE d \in 1 .. Len(core'.scopes)
  <2>1. CASE d = N
    BY <1>5, <2>1 DEF LocalOK, Local
  <2>2. CASE d # N
    <3>1. d \in 1 .. N - 1
      BY <1>3, <1>5, <2>2
    <3> QED
      BY <1>3, <1>4, <1>5, <3>1, LocalGrows
  <2> QED
    BY <2>1, <2>2
<1>12. status' \notin {"KeyError", "AssertionError"}
  BY <1>3
<1> QED
  BY <1>9, <1>10, <1>11, <1>12, OperandsNext

LEMMA EndKeepsOperands ==
    ASSUME TypeInv, OperandsInv, UNCHANGED <<prog, usedOnce>>, status = "running", EndStep
    PROVE  OperandsInv'
<1>1. Within /\ EndIterationRan
  BY DEF EndStep
<1>2. PICK b : PoppedIs(core, b) /\ BoundIs(b, Owner.args, Frame.vals, TRUE, core')
  BY <1>1 DEF EndIterationRan
<1>3. /\ N \in Nat /\ N >= 2 /\ N = Len(frames) /\ status' = status /\ Frame.k = "for"
      /\ Len(core.scopes) = N /\ N - 1 \in Nat /\ N - 1 >= 1 /\ Parent = frames[N - 1]
      /\ Owner = prog[Parent.blk][Parent.pc] /\ IsSite(Parent.blk, Parent.pc)
  <2>1. Len(prog[Frame.blk]) \in Nat
    BY <1>1, BlockIs DEF Within, FrameOK
  <2> QED
    BY <1>1, <2>1 DEF Within, EndIterationRan, N, Owner
<1>4. /\ Len(frames') = N /\ frames'[N].pc = 0 /\ frames'[N].k = frames[N].k
      /\ \A d \in 1 .. N - 1 : frames'[d] = frames[d]
  <2>1. TopMoves
    BY <1>1, <1>3, TopMovesBy DEF EndIterationRan
  <2> QED
    BY <1>1, <1>3, <2>1 DEF TopMoves, EndIterationRan, Within
<1>5. /\ Len(core'.scopes) = N - 1
      /\ DOMAIN core'.scopes[N - 1] = DOMAIN core.scopes[N - 1] \cup Range(Owner.args)
      /\ \A d \in 1 .. N - 2 : core'.scopes[d] = core.scopes[d]
  <2>1. Len(b.scopes) = N - 1 /\ \A d \in 1 .. N - 1 : b.scopes[d] = core.scopes[d]
    BY <1>2, <1>3 DEF PoppedIs, Kept
  <2>2. N - 1 \in 1 .. N - 1 /\ N - 1 - 1 = N - 2 /\ \A d \in 1 .. N - 2 : d \in 1 .. N - 1
    BY <1>3
  <2>3. /\ Len(core'.scopes) = N - 1
        /\ DOMAIN core'.scopes[N - 1] = DOMAIN b.scopes[N - 1] \cup Range(Owner.args)
        /\ \A d \in 1 .. N - 2 : core'.scopes[d] = b.scopes[d]
    BY <1>2, <2>1, <2>2 DEF BoundIs, Kept
  <2> QED
    BY <2>1, <2>2, <2>3
<1>6. \A d \in 1 .. N - 1 : DOMAIN core.scopes[d] \subseteq DOMAIN core'.scopes[d]
  <2> TAKE d \in 1 .. N - 1
  <2>1. d = N - 1 \/ d \in 1 .. N - 2
    BY <1>3
  <2> QED
    BY <1>5, <2>1
<1>7. Goes
  BY DEF Goes
<1>8. \A d \in 1 .. Len(frames') : CoverOK(prog, usedOnce, core', frames', status', d)
  <2>1. N - 1 <= Len(frames) /\ N - 1 <= Len(frames') /\ status # "parked" /\ status' # "parked"
    BY <1>3, <1>4
  <2>2. \A e \in 1 .. N - 1 : /\ frames'[e].blk = frames[e].blk /\ frames'[e].pc = frames[e].pc
                              /\ DOMAIN core.scopes[e] \subseteq DOMAIN core'.scopes[e]
    BY <1>4, <1>6
  <2>3. \A d \in 1 .. N - 1 : CoverOK(prog, usedOnce, core', frames', status', d)
    BY <1>3, <1>7, <2>1, <2>2, CoversBelow
  <2> TAKE d \in 1 .. Len(frames')
  <2>4. CASE d = N
    <3>1. ~(frames'[d].pc > 0)
      BY <1>4, <2>4
    <3> QED
      BY <3>1 DEF CoverOK
  <2>5. CASE d # N
    <3>1. d \in 1 .. N - 1
      BY <1>3, <1>4, <2>5
    <3> QED
      BY <2>3, <3>1
  <2> QED
    BY <2>4, <2>5
<1>9. \A d \in 2 .. Len(frames') : ArgsOK(prog, core', frames', d)
  <2>1. N <= Len(frames) /\ Len(frames) \in Nat
    BY <1>3
  <2>2. \A e \in 1 .. N - 1 : /\ frames'[e].blk = frames[e].blk /\ frames'[e].pc = frames[e].pc
                              /\ DOMAIN core.scopes[e] \subseteq DOMAIN core'.scopes[e]
    BY <1>4, <1>6
  <2>3. \A e \in 1 .. N : frames'[e].k = frames[e].k
    <3> TAKE e \in 1 .. N
    <3>1. e = N \/ e \in 1 .. N - 1
      BY <1>3
    <3> QED
      BY <1>4, <3>1
  <2>4. \A d \in 2 .. N : ArgsOK(prog, core', frames', d)
    BY <1>3, <1>7, <2>1, <2>2, <2>3, ArgsBelow
  <2> QED
    BY <1>4, <2>4
<1>10. \A d \in 1 .. Len(core'.scopes) : LocalOK(prog, core', frames', d)
  <2> TAKE d \in 1 .. Len(core'.scopes)
  <2>1. d \in 1 .. Len(core.scopes) /\ frames'[d].blk = frames[d].blk
    BY <1>3, <1>4, <1>5
  <2>2. DOMAIN core'.scopes[d] \subseteq DOMAIN core.scopes[d] \cup Local(prog, frames[d].blk)
    <3>1. Range(Owner.args) \subseteq Local(prog, Parent.blk)
      BY <1>3, LocalsAre
    <3>2. d = N - 1 \/ d \in 1 .. N - 2
      BY <1>3, <1>5
    <3> QED
      BY <1>3, <1>5, <3>1, <3>2
  <2> QED
    BY <2>1, <2>2, LocalGrows
<1>11. status' \notin {"KeyError", "AssertionError"}
  BY <1>3
<1> QED
  BY <1>8, <1>9, <1>10, <1>11, OperandsNext

LEMMA LeaveKeepsOperands ==
    ASSUME TypeInv, OperandsInv, UNCHANGED <<prog, usedOnce>>, status = "running", LeaveStep
    PROVE  OperandsInv'
<1>1. Within /\ LeaveRan
  BY DEF LeaveStep
<1>2. PICK b : /\ IF Frame.k = "for" THEN b = core /\ Frame.pc = 0
                  ELSE PoppedIs(core, b) /\ Frame.pc = Len(prog[Frame.blk]) + 1 /\ Frame.k = "if"
               /\ BoundIs(b, Owner.res, Frame.vals, TRUE, core')
  BY <1>1 DEF LeaveRan
<1>3. /\ N \in Nat /\ N >= 2 /\ N = Len(frames) /\ status' = status /\ Goes
      /\ N - 1 \in Nat /\ N - 1 >= 1 /\ Parent = frames[N - 1] /\ FramesOK(frames)
      /\ Owner = prog[Parent.blk][Parent.pc] /\ IsSite(Parent.blk, Parent.pc)
      /\ Parent.pc \in Nat /\ Parent.pc > 0 /\ prog \in Kernels
  <2>1. IsSite(Parent.blk, Parent.pc)
    BY <1>1 DEF Within
  <2>2. Parent.pc \in Nat /\ Parent.pc > 0
    BY <2>1, BlockIs DEF IsSite
  <2> QED
    BY <1>1, <2>1, <2>2 DEF Within, LeaveRan, N, Owner, Goes
<1>4. /\ Len(frames') = N - 1 /\ \A d \in 1 .. N - 2 : frames'[d] = frames[d]
      /\ frames'[N - 1].k = Parent.k /\ frames'[N - 1].blk = Parent.blk
      /\ frames'[N - 1].pc = Parent.pc + 1
  BY <1>1, <1>3 DEF LeaveRan, EndsIn, SameBut, FrameFields
<1>5. Len(b.scopes) = N - 1 /\ \A d \in 1 .. N - 1 : b.scopes[d] = core.scopes[d]
  <2>1. CASE Frame.k = "for"
    BY <1>1, <1>2, <1>3, <2>1 DEF Within
  <2>2. CASE Frame.k # "for"
    <3>1. Len(prog[Frame.blk]) \in Nat
      BY <1>1, BlockIs DEF Within, FrameOK
    <3>2. Len(core.scopes) = N /\ PoppedIs(core, b)
      BY <1>1, <1>2, <2>2, <3>1 DEF Within
    <3> QED
      BY <1>3, <3>2 DEF PoppedIs, Kept
  <2> QED
    BY <2>1, <2>2
<1>6. /\ Len(core'.scopes) = N - 1
      /\ DOMAIN core'.scopes[N - 1] = DOMAIN core.scopes[N - 1] \cup Range(Owner.res)
      /\ \A d \in 1 .. N - 2 : core'.scopes[d] = core.scopes[d]
  <2>1. N - 1 \in 1 .. N - 1 /\ N - 1 - 1 = N - 2 /\ \A d \in 1 .. N - 2 : d \in 1 .. N - 1
    BY <1>3
  <2>2. /\ Len(core'.scopes) = N - 1
        /\ DOMAIN core'.scopes[N - 1] = DOMAIN b.scopes[N - 1] \cup Range(Owner.res)
        /\ \A d \in 1 .. N - 2 : core'.scopes[d] = b.scopes[d]
    BY <1>2, <1>5, <2>1 DEF BoundIs, Kept
  <2> QED
    BY <1>5, <2>1, <2>2
<1>7. \A d \in 1 .. N - 1 : DOMAIN core.scopes[d] \subseteq DOMAIN core'.scopes[d]
  <2> TAKE d \in 1 .. N - 1
  <2>1. d = N - 1 \/ d \in 1 .. N - 2
    BY <1>3
  <2> QED
    BY <1>6, <2>1
<1>8. CoverOK(prog, usedOnce, core', frames', status', N - 1)
  <2>1. PICK m \in Nat : m = N - 1
    BY <1>3
  <2>2. PICK con : con = {}
    OBVIOUS
  <2>3. /\ m >= 1 /\ m <= m /\ m < N /\ frames[m] = Parent /\ frames'[m].blk = Parent.blk
        /\ frames'[m].pc = Parent.pc + 1
        /\ DOMAIN core'.scopes[m] = DOMAIN core.scopes[m] \cup Range(Owner.res)
    BY <1>3, <1>4, <1>6, <2>1
  <2>4. ASSUME NEW e \in 1 .. m
        PROVE  /\ frames'[e].blk = frames[e].blk
               /\ Past(frames, status, e) \in Int /\ Past(frames', status', e) \in Int
               /\ Past(frames, status, e) <= Past(frames', status', e)
               /\ DOMAIN core.scopes[e] \ con \subseteq DOMAIN core'.scopes[e]
    <3>1. Past(frames, status, e) = frames[e].pc - 1 /\ Past(frames', status', e) = frames'[e].pc - 1
      BY <1>3 DEF Past
    <3>2. DOMAIN core.scopes[e] \subseteq DOMAIN core'.scopes[e]
      BY <1>7, <2>1
    <3>3. CASE e = m
      BY <1>3, <2>3, <3>1, <3>2, <3>3
    <3>4. CASE e # m
      <4>1. e \in 1 .. N - 2 /\ e \in 1 .. Len(frames)
        BY <1>3, <2>1, <3>4
      <4>2. frames'[e] = frames[e] /\ FrameOK(frames, e) /\ Len(prog[frames[e].blk]) \in Nat
        BY <1>3, <1>4, <4>1, BlockIs DEF FramesOK, FrameOK
      <4>3. frames[e].pc \in Nat
        BY <4>2 DEF FrameOK
      <4> QED
        BY <3>1, <3>2, <4>2, <4>3
    <3> QED
      BY <3>3, <3>4
  <2>5. ASSUME NEW n \in InScope(prog, frames'[m].blk, frames'[m].pc)
        PROVE  n \in InScope(prog, frames[m].blk, frames[m].pc) \/ BoundUpTo(core', m, n)
    <3>1. n \in InScope(prog, Parent.blk, Parent.pc) \cup Range(Owner.res)
      BY <1>3, <2>3, <2>5, InScopeAfter
    <3>2. m \in 1 .. m
      BY <2>3
    <3>3. n \in Range(Owner.res) => n \in DOMAIN core'.scopes[m]
      BY <2>3
    <3> QED
      BY <2>3, <3>1, <3>2, <3>3 DEF BoundUpTo
  <2>6. \A n \in con : n \in usedOnce /\ Used(prog, frames'[m].blk, Past(frames', status', m), n)
    BY <2>2
  <2>7. Carries(prog, usedOnce, core, core', frames, frames', status, status', con, m, m)
    BY <1>3, <2>3, <2>4, <2>5, <2>6 DEF Carries
  <2>8. CoverOK(prog, usedOnce, core, frames, status, m)
    BY <1>3, <2>3 DEF OperandsInv
  <2>9. CoverOK(prog, usedOnce, core', frames', status', m)
    BY <2>7, <2>8, CoverMoves
  <2> QED
    BY <2>1, <2>9
<1>9. \A d \in 1 .. Len(frames') : CoverOK(prog, usedOnce, core', frames', status', d)
  <2>1. /\ N - 2 \in Nat /\ N - 2 <= Len(frames) /\ N - 2 <= Len(frames')
        /\ status # "parked" /\ status' # "parked"
    BY <1>3, <1>4
  <2>2. \A e \in 1 .. N - 2 : /\ frames'[e].blk = frames[e].blk /\ frames'[e].pc = frames[e].pc
                              /\ DOMAIN core.scopes[e] \subseteq DOMAIN core'.scopes[e]
    BY <1>4, <1>6
  <2>3. \A d \in 1 .. N - 2 : CoverOK(prog, usedOnce, core', frames', status', d)
    BY <1>3, <2>1, <2>2, CoversBelow
  <2> TAKE d \in 1 .. Len(frames')
  <2>4. d = N - 1 \/ d \in 1 .. N - 2
    BY <1>3, <1>4
  <2> QED
    BY <1>8, <2>3, <2>4
<1>10. \A d \in 2 .. Len(frames') : ArgsOK(prog, core', frames', d)
  <2>1. N - 1 <= Len(frames) /\ Len(frames) \in Nat /\ N - 1 - 1 = N - 2
    BY <1>3
  <2>2. \A e \in 1 .. N - 1 - 1 : /\ frames'[e].blk = frames[e].blk /\ frames'[e].pc = frames[e].pc
                                  /\ DOMAIN core.scopes[e] \subseteq DOMAIN core'.scopes[e]
    BY <1>4, <1>6, <2>1
  <2>3. \A e \in 1 .. N - 1 : frames'[e].k = frames[e].k
    <3> TAKE e \in 1 .. N - 1
    <3>1. e = N - 1 \/ e \in 1 .. N - 2
      BY <1>3
    <3> QED
      BY <1>3, <1>4, <3>1
  <2>4. \A d \in 2 .. N - 1 : ArgsOK(prog, core', frames', d)
    BY <1>3, <2>1, <2>2, <2>3, ArgsBelow
  <2> QED
    BY <1>4, <2>4
<1>11. \A d \in 1 .. Len(core'.scopes) : LocalOK(prog, core', frames', d)
  <2> TAKE d \in 1 .. Len(core'.scopes)
  <2>1. d = N - 1 \/ d \in 1 .. N - 2
    BY <1>3, <1>6
  <2>2. d \in 1 .. Len(core.scopes) /\ frames'[d].blk = frames[d].blk
    <3>1. Len(core.scopes) = IF Frame.pc = 0 THEN N - 1 ELSE N
      BY <1>1 DEF Within
    <3> QED
      BY <1>3, <1>4, <1>6, <2>1, <3>1
  <2>3. DOMAIN core'.scopes[d] \subseteq DOMAIN core.scopes[d] \cup Local(prog, frames[d].blk)
    <3>1. Range(Owner.res) \subseteq Local(prog, Parent.blk)
      BY <1>3, LocalsAre
    <3> QED
      BY <1>3, <1>6, <2>1, <3>1
  <2> QED
    BY <2>2, <2>3, LocalGrows
<1>12. status' \notin {"KeyError", "AssertionError"}
  BY <1>3 DEF Goes
<1> QED
  BY <1>9, <1>10, <1>11, <1>12, OperandsNext

LEMMA ReadsAreFetched ==
    ASSUME Here
    PROVE  /\ Range(Reads) \subseteq Range(Fetches)
           /\ Range(Op.res) \subseteq Writes /\ Writes \subseteq Local(prog, Frame.blk)
<1>1. Range(<<>>) = {}
  BY DEF Range
<1>2. Range(Reads) \subseteq Range(Fetches)
  BY <1>1 DEF Reads, Fetches
<1>3. Range(Op.res) \cup Range(Op.outs) \subseteq Local(prog, Frame.blk)
  BY LocalsAre DEF Here, Op
<1> QED
  BY <1>2, <1>3 DEF Writes

LEMMA ParkKeepsOperands ==
    ASSUME TypeInv, OperandsInv, UNCHANGED <<prog, usedOnce>>, ConsumesSafely(prog),
           status = "running", ParkStep
    PROVE  OperandsInv'
<1>1. /\ Here /\ frames' = frames /\ Len(core.scopes) >= 1 /\ CoreOK(core) /\ status' = "parked"
      /\ Op.k = "receive" /\ N \in Nat /\ N >= 1 /\ Len(core.scopes) = N /\ Frame = frames[N]
  BY DEF ParkStep, ParkRan, Here, Frame, N
<1>2. PICK b : FetchedIs(core, Op.ins, b) /\ MadeIs(b, core', Term(Op.res[1], Contents(Op.ins)))
  BY DEF ParkStep, ParkRan
<1>3. Steps(core, b) /\ CoreOK(b) /\ Len(b.scopes) >= 1
  BY <1>1, <1>2, StepsAre DEF FetchedIs
<1>4. Steps(b, core')
  BY <1>2, <1>3, StepsAre DEF MadeIs
<1>5. Steps(core, core')
  BY <1>1, <1>3, <1>4, StepsCompose
<1>6. TopMoves
  BY <1>1, TopMovesBy
<1>7. DOMAIN core'.scopes[N] = (DOMAIN core.scopes[N] \ Consumed(core, Op.ins)) \cup {}
  BY <1>1, <1>2 DEF FetchedIs, MadeIs, GrownIs
<1>8. Range(Op.ins) \subseteq Range(Fetches) /\ Goes
  BY <1>1 DEF Fetches, Goes
<1>9. GoesOn({})
  BY <1>1 DEF GoesOn
<1> QED
  BY <1>1, <1>5, <1>6, <1>7, <1>8, <1>9, OpKeepsOperands

LEMMA YieldKeepsOperands ==
    ASSUME TypeInv, OperandsInv, UNCHANGED <<prog, usedOnce>>, ConsumesSafely(prog),
           status = "running", YieldStep
    PROVE  OperandsInv'
<1>1. /\ Here /\ YieldRan /\ Len(core.scopes) >= 1 /\ CoreOK(core) /\ Op.k = "yield"
      /\ N \in Nat /\ N >= 1 /\ Len(core.scopes) = N /\ IsOp(Op) /\ RowsAre(Op)
      /\ FetchedIs(core, Op.ins, core') /\ status' = "running" /\ frames'[N].pc = Frame.pc + 1
  BY DEF YieldStep, YieldRan, Here
<1>2. Steps(core, core')
  BY <1>1, StepsAre
<1>3. TopMoves
  BY <1>1, TopMovesBy DEF YieldRan
<1>4. DOMAIN core'.scopes[N] = (DOMAIN core.scopes[N] \ Consumed(core, Op.ins)) \cup {}
  BY <1>1 DEF FetchedIs
<1>5. Range(Op.ins) \subseteq Range(Fetches) /\ Goes
  BY <1>1 DEF Fetches, Goes
<1>6. Range(Op.res) = {}
  <2>1. Len(Op.res) = 0 /\ IsSeq(Op.res)
    BY <1>1 DEF IsOp, NoResult, RowsAre
  <2> QED
    BY <2>1, RangeIs
<1>7. GoesOn({})
  BY <1>1, <1>6 DEF GoesOn
<1> QED
  BY <1>1, <1>2, <1>3, <1>4, <1>5, <1>7, OpKeepsOperands

LEMMA ReturnKeepsOperands ==
    ASSUME TypeInv, OperandsInv, UNCHANGED <<prog, usedOnce>>, ReturnStep
    PROVE  OperandsInv'
<1>1. /\ Here /\ Len(core.scopes) >= 1 /\ CoreOK(core) /\ frames' = frames /\ status' = "done"
      /\ N \in Nat /\ N >= 1 /\ Len(core.scopes) = N /\ FetchedIs(core, Op.ins, core')
  BY DEF ReturnStep, Here
<1>2. Steps(core, core')
  BY <1>1, StepsAre
<1>3. TopMoves
  BY <1>1, TopMovesBy
<1>4. DOMAIN core'.scopes[N] \subseteq DOMAIN core.scopes[N] \cup Local(prog, Frame.blk)
  BY <1>1 DEF FetchedIs
<1>5. \A d \in 1 .. Len(core'.scopes) : LocalOK(prog, core', frames', d)
  BY <1>1, <1>2, <1>3, <1>4, TopKeepsLocals
<1>6. ~Goes'
  BY <1>1 DEF Goes
<1> QED
  BY <1>1, <1>5, <1>6, OperandsNext

LEMMA StepKeepsOperands ==
    ASSUME TypeInv, OperandsInv, Step, UNCHANGED <<prog, usedOnce>>, ConsumesSafely(prog)
    PROVE  OperandsInv'
<1>1. CASE OpStep
  <2>1. Here /\ Ran(Reads, Writes) /\ status \in {"running", "parked"}
    BY <1>1, OpStepRan DEF OpStep
  <2>2. TopMoves
    BY <2>1, TopMovesBy DEF Ran, Here
  <2>3. Goes /\ GoesOn(Writes)
    BY <2>1, ReadsAreFetched DEF Goes, GoesOn, Ran, Advanced
  <2>4. /\ Steps(core, core')
        /\ DOMAIN core'.scopes[N] = (DOMAIN core.scopes[N] \ Consumed(core, Reads)) \cup Writes
    BY <2>1 DEF Ran
  <2> QED
    BY <2>1, <2>2, <2>3, <2>4, ReadsAreFetched, OpKeepsOperands
<1>2. ~(FetchError /\ status = "running")
  BY FetchesSucceed DEF FetchError
<1>3. ~(InitError /\ status = "running")
  BY InitsSucceed DEF InitError
<1>4. ~OutsError
  <2> SUFFICES ASSUME OutsError PROVE FALSE
    OBVIOUS
  <2>1. Here
    BY DEF OutsError
  <2> QED
    BY <2>1, OutsStay
<1> QED
  BY <1>1, <1>2, <1>3, <1>4, ParkKeepsOperands, YieldKeepsOperands, ReturnKeepsOperands,
     LoopKeepsOperands, BranchKeepsOperands, IterateKeepsOperands, EndKeepsOperands,
     LeaveKeepsOperands DEF Step

(* Nothing is in scope where the kernel begins. *)
LEMMA NothingInScope ==
    ASSUME prog \in Kernels
    PROVE  InScope(prog, "main", 1) = {}
<1>1. WellFormed(prog)
  BY KernelsAssumption
<1>2. Before(prog, "main", 1) = {}
  BY DEF Before
<1>3. ASSUME NEW s \in Around(prog, "main") PROVE FALSE
  <2> DEFINE S == DOMAIN prog \ {"main"}
  <2>1. PICK d \in DOMAIN prog : \E j \in DOMAIN prog[d] : s = <<d, j>>
    BY <1>3 DEF Around
  <2>2. PICK j \in DOMAIN prog[d] : s = <<d, j>>
    BY <2>1
  <2>3. "main" \in Inside(prog, d, j)
    BY <1>3, <2>2 DEF Around
  <2>4. Regions(prog[d][j]) \subseteq S
    BY <1>1 DEF WellFormed
  <2>5. Closed(prog, S)
    BY <1>1 DEF WellFormed, Closed
  <2>6. "main" \in S
    BY <2>3, <2>4, <2>5 DEF Inside
  <2> QED
    BY <2>6
<1> QED
  BY <1>2, <1>3 DEF InScope

LEMMA InitOperands == ASSUME Init PROVE OperandsInv
<1>1. prog \in Kernels /\ status = "running" /\ core.scopes = <<EmptyScope>>
  BY DEF Init
<1> DEFINE f == Region("func", "main", 1, EmptyEnv)
<1>2. frames = <<f>>
  BY DEF Init
<1>3. f.blk = "main" /\ f.pc = 1
  BY DEF Region
<1> HIDE DEF f
<1>4. Len(frames) = 1 /\ frames[1] = f
  BY <1>2, OneValue
<1>5. Len(core.scopes) = 1 /\ core.scopes[1] = EmptyScope
  BY <1>1, OneValue
<1>6. CoverOK(prog, usedOnce, core, frames, status, 1)
  BY <1>1, <1>3, <1>4, NothingInScope DEF CoverOK
<1>7. LocalOK(prog, core, frames, 1)
  BY <1>5 DEF LocalOK, EmptyScope
<1>8. (\A d \in 1 .. 1 : d = 1) /\ (\A d \in 2 .. 1 : FALSE)
  OBVIOUS
<1> QED
  BY <1>1, <1>4, <1>5, <1>6, <1>7, <1>8 DEF OperandsInv, OperandsAreThere

LEMMA OperandsInvHolds ==
    ASSUME \A p \in Kernels : ConsumesSafely(p)
    PROVE  Spec => [](TypeInv /\ OperandsInv)
<1>1. TypeInv /\ OperandsInv /\ [Next]_vars => OperandsInv'
  <2> SUFFICES ASSUME TypeInv, OperandsInv, [Next]_vars PROVE OperandsInv'
    OBVIOUS
  <2>1. CASE Next
    <3>1. Step /\ UNCHANGED <<prog, usedOnce>>
      BY <2>1, NextCases
    <3>2. ConsumesSafely(prog)
      BY DEF TypeInv
    <3> QED
      BY <3>1, <3>2, StepKeepsOperands
  <2>2. CASE UNCHANGED vars
    BY <2>2 DEF vars, OperandsInv, OperandsAreThere, Goes
  <2> QED
    BY <2>1, <2>2
<1>2. Spec => []TypeInv
  BY TypeInvHolds
<1> QED
  BY <1>1, <1>2, InitOperands, PTL DEF Spec

(***************************************************************************)
(* THEOREM: in kernels whose reductions do not share an init with a single *)
(* other use, and that define a name used once in one block, no get_value  *)
(* ever raises and no in-place op trips the assertion of _execute_op:      *)
(* consuming a tile at its last use takes nothing away that any later op,  *)
(* iteration or branch fetches, whatever the bounds and branches taken.    *)
(***************************************************************************)
THEOREM OperandsAreFound ==
    ASSUME \A p \in Kernels : ConsumesSafely(p)
    PROVE  Spec => []OperandsAreThere
<1>1. OperandsInv => OperandsAreThere
  BY DEF OperandsInv
<1>2. Spec => [](TypeInv /\ OperandsInv)
  BY OperandsInvHolds
<1> QED
  BY <1>1, <1>2, PTL


(***************************************************************************)
(* Literals.  L has the names that may stand for a literal, V those that   *)
(* may stand for another tile over the buffer of one.                      *)
(***************************************************************************)
May(c, t, n, L, V) ==
    /\ t \in 1 .. Len(c.tiles)
    /\ t \in c.uncharged => n \in L
    /\ \A u \in c.uncharged : u # t /\ c.tiles[u] = c.tiles[t] => n \in V

Intact(c) == \A u \in c.uncharged : c.bufs[c.tiles[u]].of = <<>>

(* So stand the names of the scopes, and the pairs of R.                   *)
Holding(c, R, L, V) ==
    /\ Intact(c)
    /\ \A d \in 1 .. Len(c.scopes) : \A n \in DOMAIN c.scopes[d] :
          n # "i" => May(c, c.scopes[d][n], n, L, V)
    /\ \A r \in R : May(c, r[1], r[2], L, V)

(* A literal that is new has a buffer of its own. *)
Calm(c, a) ==
    /\ CoreOK(c) /\ CoreOK(a) /\ Extends(c, a)
    /\ \A u \in a.uncharged :
          u \in c.uncharged \/ (u \notin 1 .. Len(c.tiles) /\ a.tiles[u] \notin 1 .. Len(c.bufs))

LEMMA MayStays ==
    ASSUME NEW c, NEW a, Calm(c, a), NEW t, NEW n, NEW L, NEW V, May(c, t, n, L, V)
    PROVE  May(a, t, n, L, V)
<1>1. /\ Len(c.tiles) \in Nat /\ Len(a.tiles) \in Nat /\ t \in 1 .. Len(c.tiles)
      /\ CoreOK(c) /\ Extends(c, a)
  BY SeqFacts DEF Calm, CoreOK, May
<1>2. t \in 1 .. Len(a.tiles) /\ a.tiles[t] = c.tiles[t] /\ c.tiles[t] \in 1 .. Len(c.bufs)
  BY <1>1 DEF Extends, CoreOK
<1>3. t \in a.uncharged => n \in L
  BY <1>1 DEF Calm, May
<1>4. ASSUME NEW u \in a.uncharged, u # t, a.tiles[u] = a.tiles[t]
      PROVE  n \in V
  <2>1. u \in c.uncharged
    BY <1>2, <1>4 DEF Calm
  <2>2. u \in 1 .. Len(c.tiles)
    BY <1>1, <2>1, TilesAreHeld
  <2>3. c.tiles[u] = c.tiles[t]
    BY <1>1, <1>2, <1>4, <2>2 DEF Extends
  <2> QED
    BY <1>4, <2>1, <2>3 DEF May
<1> QED
  BY <1>2, <1>3, <1>4 DEF May

LEMMA HoldingStays ==
    ASSUME NEW c, NEW a, Calm(c, a), NEW R, NEW L, NEW V, Holding(c, R, L, V), Intact(a),
           \A d \in 1 .. Len(a.scopes) : \A n \in DOMAIN a.scopes[d] :
               n # "i" => \/ /\ d \in 1 .. Len(c.scopes) /\ n \in DOMAIN c.scopes[d]
                             /\ a.scopes[d][n] = c.scopes[d][n]
                          \/ May(a, a.scopes[d][n], n, L, V)
    PROVE  Holding(a, R, L, V)
<1>1. \A t, n : May(c, t, n, L, V) => May(a, t, n, L, V)
  BY MayStays
<1>2. ASSUME NEW d \in 1 .. Len(a.scopes), NEW n \in DOMAIN a.scopes[d], n # "i"
      PROVE  May(a, a.scopes[d][n], n, L, V)
  <2>1. CASE d \in 1 .. Len(c.scopes) /\ n \in DOMAIN c.scopes[d] /\ a.scopes[d][n] = c.scopes[d][n]
    <3>1. May(c, c.scopes[d][n], n, L, V)
      BY <1>2, <2>1 DEF Holding
    <3> QED
      BY <1>1, <2>1, <3>1
  <2> QED
    BY <1>2, <2>1
<1>3. \A r \in R : May(a, r[1], r[2], L, V)
  BY <1>1 DEF Holding
<1> QED
  BY <1>2, <1>3 DEF Holding

(* Buffers are added, or written where no literal is. *)
LEMMA IntactStays ==
    ASSUME NEW c, NEW a, CoreOK(c), CoreOK(a), Extends(c, a), a.uncharged \subseteq c.uncharged,
           \A u \in c.uncharged : a.bufs[c.tiles[u]] = c.bufs[c.tiles[u]], Intact(c)
    PROVE  Calm(c, a) /\ Intact(a)
<1>1. ASSUME NEW u \in a.uncharged PROVE a.bufs[a.tiles[u]].of = <<>>
  <2>1. u \in c.uncharged /\ u \in 1 .. Len(c.tiles)
    BY TilesAreHeld
  <2>2. a.tiles[u] = c.tiles[u]
    BY <2>1 DEF Extends
  <2> QED
    BY <2>1, <2>2 DEF Intact
<1> QED
  BY <1>1 DEF Calm, Intact

LEMMA LiteralsHaveBuffers ==
    ASSUME NEW c, CoreOK(c), NEW u \in c.uncharged
    PROVE  u \in 1 .. Len(c.tiles) /\ c.tiles[u] \in 1 .. Len(c.bufs)
<1>1. u \in 1 .. Len(c.tiles)
  BY TilesAreHeld
<1> QED
  BY <1>1 DEF CoreOK

LEMMA TameHolds ==
    ASSUME NEW c, NEW a, CoreOK(c), CoreOK(a), Extends(c, a), Tame(c, a),
           NEW R, NEW L, NEW V, Holding(c, R, L, V),
           \A u \in c.uncharged : a.bufs[c.tiles[u]] = c.bufs[c.tiles[u]]
    PROVE  Holding(a, R, L, V)
<1>1. a.uncharged \subseteq c.uncharged
  BY DEF Tame
<1>2. Intact(c)
  BY DEF Holding
<1>3. Calm(c, a) /\ Intact(a)
  BY <1>1, <1>2, IntactStays
<1>4. \A d \in 1 .. Len(a.scopes) : \A n \in DOMAIN a.scopes[d] :
          d \in 1 .. Len(c.scopes) /\ n \in DOMAIN c.scopes[d] /\ a.scopes[d][n] = c.scopes[d][n]
  BY DEF Tame
<1> QED
  BY <1>3, <1>4, HoldingStays

LEMMA FetchHolds ==
    ASSUME NEW c, CoreOK(c), NEW a, PoppedIs(c, a) \/ \E names : FetchedIs(c, names, a),
           NEW R, NEW L, NEW V, Holding(c, R, L, V)
    PROVE  Holding(a, R, L, V)
<1>1. CoreOK(a) /\ Extends(c, a) /\ Tame(c, a) /\ a.bufs = c.bufs
  BY DEF FetchedIs, PoppedIs
<1> QED
  BY <1>1, TameHolds

LEMMA GrownHolds ==
    ASSUME NEW c, CoreOK(c), NEW a, GrownIs(c, a), \A b \in 1 .. Len(c.bufs) : a.bufs[b] = c.bufs[b],
           NEW R, NEW L, NEW V, Holding(c, R, L, V)
    PROVE  Holding(a, R, L, V)
<1>1. CoreOK(a) /\ Extends(c, a) /\ Tame(c, a)
  BY DEF GrownIs
<1>2. \A u \in c.uncharged : a.bufs[c.tiles[u]] = c.bufs[c.tiles[u]]
  BY LiteralsHaveBuffers
<1> QED
  BY <1>1, <1>2, TameHolds

LEMMA WriteHolds ==
    ASSUME NEW c, CoreOK(c), NEW k, NEW term, NEW a, WrittenIs(c, a, k, term),
           \A u \in c.uncharged : c.tiles[u] # k,
           NEW R, NEW L, NEW V, Holding(c, R, L, V)
    PROVE  Holding(a, R, L, V)
<1>1. CoreOK(a) /\ Extends(c, a) /\ Tame(c, a)
  BY DEF WrittenIs, GrownIs
<1>2. \A u \in c.uncharged : a.bufs[c.tiles[u]] = c.bufs[c.tiles[u]]
  BY LiteralsHaveBuffers DEF WrittenIs
<1> QED
  BY <1>1, <1>2, TameHolds

LEMMA PushHolds ==
    ASSUME NEW c, CoreOK(c), NEW a, PushedIs(c, a), NEW R, NEW L, NEW V, Holding(c, R, L, V)
    PROVE  Holding(a, R, L, V)
<1>1. CoreOK(a) /\ Extends(c, a) /\ a.uncharged = c.uncharged /\ a.bufs = c.bufs /\ Intact(c)
  BY DEF PushedIs, Holding
<1>2. Calm(c, a) /\ Intact(a)
  BY <1>1, IntactStays
<1>3. ASSUME NEW d \in 1 .. Len(a.scopes), NEW n \in DOMAIN a.scopes[d]
      PROVE  d \in 1 .. Len(c.scopes) /\ n \in DOMAIN c.scopes[d] /\ a.scopes[d][n] = c.scopes[d][n]
  <2>1. Len(c.scopes) \in Nat /\ IsAppend(c.scopes, EmptyScope, a.scopes)
    BY SeqFacts DEF CoreOK, PushedIs
  <2>2. d \in 1 .. Len(c.scopes) \/ d = Len(c.scopes) + 1
    BY <2>1 DEF IsAppend
  <2>3. d # Len(c.scopes) + 1
    BY <1>3, <2>1 DEF IsAppend, EmptyScope
  <2> QED
    BY <1>3, <2>1, <2>2, <2>3 DEF IsAppend
<1> QED
  BY <1>2, <1>3, HoldingStays

(* Values are bound to names that may stand for them. *)
LEMMA BindHolds ==
    ASSUME NEW c, CoreOK(c), Len(c.scopes) >= 1, NEW names, IsSeq(names), NEW vals, NEW a,
           BoundIs(c, names, vals, TRUE, a), NEW R, NEW L, NEW V, Holding(c, R, L, V),
           \A i \in 1 .. Len(names) : names[i] # "i" => May(c, vals[i], names[i], L, V)
    PROVE  Holding(a, R, L, V)
<1> DEFINE m == Len(c.scopes)
<1>1. /\ m \in Nat /\ m >= 1 /\ CoreOK(a) /\ Len(a.scopes) = m /\ a.bufs = c.bufs /\ a.tiles = c.tiles
      /\ a.uncharged \subseteq c.uncharged /\ Intact(c) /\ Len(c.tiles) \in Nat /\ Len(c.bufs) \in Nat
      /\ \A d \in 1 .. m - 1 : a.scopes[d] = c.scopes[d]
      /\ DOMAIN a.scopes[m] = DOMAIN c.scopes[m] \cup Range(names)
      /\ \A i \in 1 .. Len(names) : a.scopes[m][names[i]] = vals[i]
      /\ \A n \in DOMAIN c.scopes[m] \ Range(names) : a.scopes[m][n] = c.scopes[m][n]
  BY SeqFacts DEF BoundIs, Kept, CoreOK, Holding
<1>2. Extends(c, a)
  BY <1>1 DEF Extends
<1>3. Calm(c, a) /\ Intact(a)
  BY <1>1, <1>2, IntactStays
<1>4. ASSUME NEW d \in 1 .. Len(a.scopes), NEW n \in DOMAIN a.scopes[d], n # "i"
      PROVE  \/ /\ d \in 1 .. Len(c.scopes) /\ n \in DOMAIN c.scopes[d]
                /\ a.scopes[d][n] = c.scopes[d][n]
             \/ May(a, a.scopes[d][n], n, L, V)
  <2>1. CASE d # m
    <3>1. d \in 1 .. m - 1
      BY <1>1, <2>1
    <3> QED
      BY <1>1, <1>4, <3>1
  <2>2. CASE d = m /\ n \notin Range(names)
    BY <1>1, <1>4, <2>2
  <2>3. CASE d = m /\ n \in Range(names)
    <3>1. PICK i \in 1 .. Len(names) : names[i] = n
      BY <2>3, RangeIs
    <3>2. May(c, vals[i], n, L, V) /\ a.scopes[d][n] = vals[i]
      BY <1>1, <1>4, <2>3, <3>1
    <3> QED
      BY <1>3, <3>2, MayStays
  <2> QED
    BY <2>1, <2>2, <2>3
<1> QED
  BY <1>3, <1>4, HoldingStays

(* A tile over a buffer of its own may be given to any name. *)
Fresh(c, t) ==
    /\ t \in 1 .. Len(c.tiles) /\ t \notin c.uncharged
    /\ \A u \in c.uncharged : c.tiles[u] # c.tiles[t]

LEMMA FreshMay ==
    ASSUME NEW c, NEW t, Fresh(c, t), NEW n, NEW L, NEW V
    PROVE  May(c, t, n, L, V)
BY DEF Fresh, May

LEMMA FreshIs ==
    ASSUME NEW c, CoreOK(c), NEW a, GrownIs(c, a), NEW t \in 1 .. Len(a.tiles), t \notin 1 .. Len(c.tiles),
           a.tiles[t] \notin 1 .. Len(c.bufs)
    PROVE  Fresh(a, t)
<1>1. a.uncharged = c.uncharged
  BY DEF GrownIs
<1>2. \A u \in c.uncharged :
          u \in 1 .. Len(c.tiles) /\ a.tiles[u] = c.tiles[u] /\ c.tiles[u] \in 1 .. Len(c.bufs)
  BY LiteralsHaveBuffers DEF GrownIs, Extends
<1> QED
  BY <1>1, <1>2 DEF Fresh

LEMMA MadeHolds ==
    ASSUME NEW c, CoreOK(c), NEW a, NEW term, MadeIs(c, a, term)
    PROVE  /\ Fresh(a, Newest(a)) /\ CoreOK(a)
           /\ \A R, L, V : Holding(c, R, L, V) => Holding(a, R, L, V)
<1>1. Len(c.tiles) \in Nat /\ Len(c.bufs) \in Nat
  BY SeqFacts DEF CoreOK
<1>2. /\ Newest(a) \in 1 .. Len(a.tiles) /\ Newest(a) \notin 1 .. Len(c.tiles)
      /\ a.tiles[Newest(a)] \notin 1 .. Len(c.bufs) /\ GrownIs(c, a)
      /\ \A b \in 1 .. Len(c.bufs) : a.bufs[b] = c.bufs[b]
  BY <1>1 DEF MadeIs
<1>3. Fresh(a, Newest(a))
  BY <1>2, FreshIs
<1>4. \A R, L, V : Holding(c, R, L, V) => Holding(a, R, L, V)
  BY <1>2, GrownHolds
<1> QED
  BY <1>2, <1>3, <1>4 DEF GrownIs

(* What is looked up may be given to the name it was found under. *)
LEMMA LookupHolds ==
    ASSUME NEW c, CoreOK(c), NEW R, NEW L, NEW V, Holding(c, R, L, V),
           NEW n, n # "i", Visible(c, n)
    PROVE  May(c, Lookup(c, n), n, L, V)
<1>1. PICK d : d = Where(c, n)
  OBVIOUS
<1>2. d \in 1 .. Len(c.scopes) /\ n \in DOMAIN c.scopes[d] /\ Lookup(c, n) = c.scopes[d][n]
  BY <1>1, LookupIs
<1> QED
  BY <1>2 DEF Holding


(* What KeepsLiterals says of the op at hand. *)
LEMMA LiteralsAtOp ==
    ASSUME Here, NEW L, NEW V, KeepsLiterals(prog, L, V)
    PROVE  /\ Op.k = "constant" => Op.res[1] \in L
           /\ Op.k = "reshape" /\ Op.ins[1] \in L \cup V => Op.res[1] \in V
           /\ Op.k = "matmul" => Op.ins[2] \notin V
<1>1. Frame.blk \in DOMAIN prog /\ Frame.pc \in DOMAIN prog[Frame.blk]
  BY BlockIs DEF Here, IsSite
<1> QED
  BY <1>1 DEF KeepsLiterals, Op

LEMMA DoneHolds ==
    ASSUME Here, NEW c, CoreOK(c), Len(c.scopes) = N, NEW vals, Done(c, vals), Op.k # "constant",
           NEW R, NEW L, NEW V, Holding(c, R, L, V),
           \A i \in 1 .. Len(Op.res) : May(c, vals[i], Op.res[i], L, V)
    PROVE  Holding(core', R, L, V)
<1>1. BoundIs(c, Op.res, vals, TRUE, core')
  BY DEF Done
<1>2. IsSeq(Op.res) /\ Len(c.scopes) >= 1
  BY DEF Here, RowsAre
<1> QED
  BY <1>1, <1>2, BindHolds

LEMMA DoneOneHolds ==
    ASSUME Here, NEW c, CoreOK(c), Len(c.scopes) = N, NEW t, Done(c, <<t>>),
           Op.k \in OneResult, Op.k # "constant",
           NEW R, NEW L, NEW V, Holding(c, R, L, V), May(c, t, Op.res[1], L, V)
    PROVE  Holding(core', R, L, V)
<1>1. PICK vals : vals = <<t>>
  OBVIOUS
<1>2. vals[1] = t /\ Len(Op.res) = 1
  BY <1>1, OneValue DEF Here, IsOp
<1>3. \A i \in 1 .. Len(Op.res) : May(c, vals[i], Op.res[i], L, V)
  <2> TAKE i \in 1 .. Len(Op.res)
  <2>1. i = 1
    BY <1>2
  <2> QED
    BY <1>2, <2>1
<1> QED
  BY <1>1, <1>3, DoneHolds

LEMMA ConstantHolds ==
    ASSUME Here, Op.k = "constant", ConstantRan, NEW L, NEW V, KeepsLiterals(prog, L, V),
           NEW R, Holding(core, R, L, V)
    PROVE  Holding(core', R, L, V)
<1>1. PICK c : MadeIs(core, c, Term(Op.res[1], <<>>)) /\ Done(c, <<Newest(c)>>)
  BY DEF ConstantRan
<1>2. PICK t, vals : t = Newest(c) /\ vals = <<Newest(c)>>
  OBVIOUS
<1>3. /\ N \in Nat /\ N >= 1 /\ CoreOK(core) /\ Len(core.scopes) = N
      /\ Len(core.tiles) \in Nat /\ Len(core.bufs) \in Nat
      /\ IsSeq(Op.res) /\ Len(Op.res) = 1 /\ Range(vals) = {t} /\ vals[1] = t
  <2>1. Len(Op.res) = 1
    BY DEF Here, IsOp, OneResult
  <2> QED
    BY <1>2, <2>1, OneValue, SeqFacts DEF Here, RowsAre, CoreOK
<1>4. /\ CoreOK(c) /\ c.scopes = core.scopes /\ c.uncharged = core.uncharged /\ Extends(core, c)
      /\ t = Len(core.tiles) + 1 /\ Len(c.tiles) = Len(core.tiles) + 1
      /\ Len(c.bufs) = Len(core.bufs) + 1 /\ c.tiles[t] = Len(core.bufs) + 1
      /\ c.bufs[Len(core.bufs) + 1] = Term(Op.res[1], <<>>)
      /\ \A b \in 1 .. Len(core.bufs) : c.bufs[b] = core.bufs[b]
  BY <1>1, <1>2 DEF MadeIs, GrownIs
<1>5. BoundIs(c, Op.res, vals, FALSE, core')
  BY <1>1, <1>2 DEF Done
<1>6. /\ CoreOK(core') /\ core'.tiles = c.tiles /\ core'.bufs = c.bufs /\ Len(core'.scopes) = N
      /\ core'.uncharged \subseteq core.uncharged \cup {t}
      /\ \A d \in 1 .. N - 1 : core'.scopes[d] = core.scopes[d]
      /\ DOMAIN core'.scopes[N] = DOMAIN core.scopes[N] \cup Range(Op.res)
      /\ core'.scopes[N][Op.res[1]] = t
      /\ \A n \in DOMAIN core.scopes[N] \ Range(Op.res) : core'.scopes[N][n] = core.scopes[N][n]
  BY <1>3, <1>4, <1>5 DEF BoundIs, Kept
<1>7. \A u \in core.uncharged :
          /\ u \in 1 .. Len(core.tiles) /\ core.tiles[u] \in 1 .. Len(core.bufs)
          /\ core'.tiles[u] = core.tiles[u]
  BY <1>3, <1>4, <1>6, LiteralsHaveBuffers DEF Extends
<1>8. Calm(core, core')
  <2>1. Extends(core, core')
    BY <1>4, <1>6 DEF Extends
  <2>2. t \notin 1 .. Len(core.tiles) /\ core'.tiles[t] \notin 1 .. Len(core.bufs)
    BY <1>3, <1>4, <1>6
  <2> QED
    BY <1>3, <1>6, <2>1, <2>2 DEF Calm
<1>9. Intact(core')
  <2> SUFFICES ASSUME NEW u \in core'.uncharged PROVE core'.bufs[core'.tiles[u]].of = <<>>
    BY DEF Intact
  <2>1. CASE u \in core.uncharged
    <3>1. core.bufs[core.tiles[u]].of = <<>>
      BY <2>1 DEF Holding, Intact
    <3> QED
      BY <1>4, <1>6, <1>7, <2>1, <3>1
  <2>2. CASE u = t
    BY <1>4, <1>6, <2>2 DEF Term
  <2> QED
    BY <1>6, <2>1, <2>2
<1>10. May(core', t, Op.res[1], L, V)
  <2>1. Op.res[1] \in L
    BY LiteralsAtOp
  <2>2. t \in 1 .. Len(core'.tiles)
    BY <1>3, <1>4, <1>6
  <2>3. \A u \in core'.uncharged : u # t => core'.tiles[u] # core'.tiles[t]
    BY <1>3, <1>4, <1>6, <1>7
  <2> QED
    BY <2>1, <2>2, <2>3 DEF May
<1>11. ASSUME NEW d \in 1 .. Len(core'.scopes), NEW n \in DOMAIN core'.scopes[d], n # "i"
       PROVE  \/ /\ d \in 1 .. Len(core.scopes) /\ n \in DOMAIN core.scopes[d]
                 /\ core'.scopes[d][n] = core.scopes[d][n]
              \/ May(core', core'.scopes[d][n], n, L, V)
  <2>1. CASE d # N
    <3>1. d \in 1 .. N - 1
      BY <1>3, <1>6, <2>1
    <3> QED
      BY <1>3, <1>6, <1>11, <3>1
  <2>2. CASE d = N /\ n \notin Range(Op.res)
    BY <1>3, <1>6, <1>11, <2>2
  <2>3. CASE d = N /\ n \in Range(Op.res)
    <3>1. PICK i \in 1 .. Len(Op.res) : Op.res[i] = n
      BY <1>3, <2>3, RangeIs
    <3>2. n = Op.res[1]
      BY <1>3, <3>1
    <3> QED
      BY <1>6, <1>10, <2>3, <3>2
  <2> QED
    BY <2>1, <2>2, <2>3
<1> QED
  BY <1>8, <1>9, <1>11, HoldingStays

LEMMA ComputeHolds ==
    ASSUME Here, Op.k = "compute", ComputeRan, NEW L, NEW V, NEW R, Holding(core, R, L, V)
    PROVE  Holding(core', R, L, V)
<1>1. PICK b, c : /\ FetchedIs(core, Op.ins, b)
                  /\ MadeIs(b, c, Term(Op.res[1], Contents(Op.ins)))
                  /\ Done(c, <<Newest(c)>>)
  BY DEF ComputeRan
<1>2. CoreOK(core) /\ CoreOK(b) /\ Len(c.scopes) = N /\ Op.k \in OneResult /\ Op.k # "constant"
  BY <1>1 DEF Here, FetchedIs, MadeIs, GrownIs, OneResult
<1>3. Holding(b, R, L, V)
  BY <1>1, <1>2, FetchHolds
<1>4. Fresh(c, Newest(c)) /\ CoreOK(c) /\ Holding(c, R, L, V)
  BY <1>1, <1>2, <1>3, MadeHolds
<1>5. May(c, Newest(c), Op.res[1], L, V)
  BY <1>4, FreshMay
<1> QED
  BY <1>1, <1>2, <1>4, <1>5, DoneOneHolds

LEMMA HoldingAdds ==
    ASSUME NEW c, NEW R, NEW L, NEW V, Holding(c, R, L, V), NEW t, NEW n, May(c, t, n, L, V)
    PROVE  Holding(c, R \cup {<<t, n>>}, L, V)
BY DEF Holding

LEMMA HoldingHas ==
    ASSUME NEW c, NEW R, NEW L, NEW V, NEW t, NEW n, Holding(c, R \cup {<<t, n>>}, L, V)
    PROVE  May(c, t, n, L, V) /\ Holding(c, R, L, V)
<1>1. PICK r : r = <<t, n>>
  OBVIOUS
<1>2. r \in R \cup {<<t, n>>} /\ r[1] = t /\ r[2] = n
  BY <1>1
<1>3. May(c, r[1], r[2], L, V)
  BY <1>2 DEF Holding
<1> QED
  BY <1>2, <1>3 DEF Holding

(* An operand, after the fetch. *)
LEMMA OperandHolds ==
    ASSUME Here, NEW names, NEW b, FetchedIs(core, names, b), NEW n, n # "i", Visible(core, n),
           NEW L, NEW V, NEW R, Holding(core, R, L, V)
    PROVE  May(b, Lookup(core, n), n, L, V) /\ Holding(b, R, L, V)
<1>1. CoreOK(core)
  BY DEF Here
<1>2. PICK t : t = Lookup(core, n)
  OBVIOUS
<1>3. May(core, t, n, L, V)
  BY <1>1, <1>2, LookupHolds
<1>4. PICK S : S = R \cup {<<t, n>>}
  OBVIOUS
<1>5. Holding(core, S, L, V)
  BY <1>3, <1>4, HoldingAdds
<1>6. Holding(b, S, L, V)
  BY <1>1, <1>5, FetchHolds
<1> QED
  BY <1>2, <1>4, <1>6, HoldingHas

LEMMA ReshapeHolds ==
    ASSUME Here, Op.k = "reshape", ReshapeRan, NEW L, NEW V, KeepsLiterals(prog, L, V),
           NEW R, Holding(core, R, L, V)
    PROVE  Holding(core', R, L, V)
<1>1. PICK b, c, v :
          /\ FetchedIs(core, Op.ins, b) /\ Visible(core, Op.ins[1]) /\ Op.ins[1] # "i"
          /\ v = Lookup(core, Op.ins[1]) /\ ViewedIs(b, c, v) /\ Done(c, <<Newest(c)>>)
  BY DEF ReshapeRan
<1>2. /\ CoreOK(core) /\ CoreOK(b) /\ Len(c.scopes) = N /\ Op.k \in OneResult /\ Op.k # "constant"
      /\ CoreOK(c) /\ GrownIs(b, c) /\ c.bufs = b.bufs /\ Len(b.tiles) \in Nat
  BY <1>1, SeqFacts DEF Here, FetchedIs, ViewedIs, GrownIs, OneResult, CoreOK
<1>3. May(b, v, Op.ins[1], L, V) /\ Holding(b, R, L, V)
  BY <1>1, OperandHolds
<1>4. Holding(c, R, L, V)
  BY <1>2, <1>3, GrownHolds
<1>5. May(c, Newest(c), Op.res[1], L, V)
  <2>1. /\ Newest(c) \in 1 .. Len(c.tiles) /\ Newest(c) = Len(b.tiles) + 1
        /\ c.tiles[Newest(c)] = b.tiles[v] /\ c.uncharged = b.uncharged
    BY <1>1 DEF ViewedIs, GrownIs
  <2>2. \A u \in b.uncharged : u \in 1 .. Len(b.tiles) /\ c.tiles[u] = b.tiles[u]
    BY <1>2, LiteralsHaveBuffers DEF GrownIs, Extends
  <2>3. Newest(c) \notin c.uncharged
    BY <1>2, <2>1, <2>2
  <2>4. ASSUME NEW u \in c.uncharged, c.tiles[u] = c.tiles[Newest(c)] PROVE Op.res[1] \in V
    <3>1. b.tiles[u] = b.tiles[v] /\ u \in b.uncharged
      BY <2>1, <2>2, <2>4
    <3>2. Op.ins[1] \in L \cup V
      BY <1>3, <3>1 DEF May
    <3> QED
      BY <3>2, LiteralsAtOp
  <2> QED
    BY <2>1, <2>3, <2>4 DEF May
<1> QED
  BY <1>1, <1>2, <1>4, <1>5, DoneOneHolds

LEMMA MatmulHolds ==
    ASSUME Here, Op.k = "matmul", MatmulRan, ~Raise("AssertionError"),
           NEW L, NEW V, KeepsLiterals(prog, L, V), NEW R, Holding(core, R, L, V)
    PROVE  Holding(core', R, L, V)
<1>1. PICK b, c, d, t, v :
        /\ FetchedIs(core, Op.ins, b) /\ Visible(core, Op.ins[2]) /\ Op.ins[2] # "i"
        /\ v = Lookup(core, Op.ins[2])
        /\ IF v \in b.uncharged
           THEN \E term : MadeIs(b, c, term) /\ t = Newest(c)
           ELSE c = b /\ t = v
        /\ t \in 1 .. Len(c.tiles)
        /\ WrittenIs(c, d, c.tiles[t], Term("matmul", Contents(Op.ins)))
        /\ Done(d, <<t>>)
  BY DEF MatmulRan
<1>2. CoreOK(core) /\ CoreOK(b) /\ Len(b.scopes) = N /\ Op.k \in OneResult /\ Op.k # "constant"
  BY <1>1 DEF Here, FetchedIs, OneResult
<1>3. May(b, v, Op.ins[2], L, V) /\ Holding(b, R, L, V)
  BY <1>1, OperandHolds
<1>4. Fresh(c, t) /\ Holding(c, R, L, V) /\ CoreOK(c) /\ Len(c.scopes) = N
  <2>1. CASE v \in b.uncharged
    <3>1. PICK term : MadeIs(b, c, term) /\ t = Newest(c)
      BY <1>1, <2>1
    <3>2. c.scopes = b.scopes
      BY <3>1 DEF MadeIs, GrownIs
    <3> QED
      BY <1>2, <1>3, <3>1, <3>2, MadeHolds
  <2>2. CASE v \notin b.uncharged
    <3>1. c = b /\ t = v /\ Op.ins[2] \notin V
      BY <1>1, <2>2, LiteralsAtOp
    <3>2. \A u \in b.uncharged : b.tiles[u] # b.tiles[v]
      BY <1>3, <2>2, <3>1 DEF May
    <3> QED
      BY <1>1, <1>2, <1>3, <2>2, <3>1, <3>2 DEF Fresh
  <2> QED
    BY <2>1, <2>2
<1>5. Holding(d, R, L, V)
  BY <1>1, <1>4, WriteHolds DEF Fresh
<1>6. Fresh(d, t) /\ CoreOK(d) /\ Len(d.scopes) = N
  BY <1>1, <1>4 DEF Fresh, WrittenIs, GrownIs
<1>7. May(d, t, Op.res[1], L, V)
  BY <1>6 DEF Fresh, May
<1> QED
  BY <1>1, <1>2, <1>5, <1>6, <1>7, DoneOneHolds

LEMMA ReduceHolds ==
    ASSUME Here, Op.k = "reduce", ReduceRan, NEW L, NEW V, NEW R, Holding(core, R, L, V)
    PROVE  Holding(core', R, L, V)
<1>1. PICK b, c, d, t :
        /\ FetchedIs(core, Op.ins \o Op.outs, b)
        /\ MadeIs(b, c, Term("reduce", Contents(Op.ins \o Op.outs)))
        /\ t = Newest(c)
        /\ BoundIs(c, Op.outs, <<t>>, TRUE, d)
        /\ Done(d, <<t>>)
  BY DEF ReduceRan
<1>2. /\ CoreOK(core) /\ CoreOK(b) /\ Len(c.scopes) = N /\ N >= 1 /\ IsSeq(Op.outs)
      /\ Op.k \in OneResult /\ Op.k # "constant" /\ Len(Op.outs) = 1
  BY <1>1 DEF Here, FetchedIs, MadeIs, GrownIs, OneResult, RowsAre, IsOp
<1>3. Holding(b, R, L, V)
  BY <1>1, <1>2, FetchHolds
<1>4. Fresh(c, t) /\ CoreOK(c) /\ Holding(c, R, L, V)
  BY <1>1, <1>2, <1>3, MadeHolds
<1>5. Holding(d, R, L, V)
  <2>1. PICK vals : vals = <<t>>
    OBVIOUS
  <2>2. \A i \in 1 .. Len(Op.outs) : vals[i] = t
    BY <1>2, <2>1, OneValue
  <2>3. \A i \in 1 .. Len(Op.outs) : Op.outs[i] # "i" => May(c, vals[i], Op.outs[i], L, V)
    BY <1>4, <2>2, FreshMay
  <2> QED
    BY <1>1, <1>2, <1>4, <2>1, <2>3, BindHolds
<1>6. Fresh(d, t) /\ CoreOK(d) /\ Len(d.scopes) = N
  BY <1>1, <1>2, <1>4 DEF Fresh, BoundIs
<1>7. May(d, t, Op.res[1], L, V)
  BY <1>6, FreshMay
<1> QED
  BY <1>1, <1>2, <1>5, <1>6, <1>7, DoneOneHolds

LEMMA ResumeHolds ==
    ASSUME Here, ResumeRan, Fresh(core, Newest(core)), NEW L, NEW V, NEW R, Holding(core, R, L, V)
    PROVE  Holding(core', R, L, V)
<1>1. Op.k \in OneResult /\ Op.k # "constant" /\ CoreOK(core) /\ Len(core.scopes) = N
  BY DEF ResumeRan, OneResult, Here
<1>2. May(core, Newest(core), Op.res[1], L, V)
  BY FreshMay
<1> QED
  BY <1>1, <1>2, DoneOneHolds DEF ResumeRan

LEMMA SkipHolds ==
    ASSUME Here, SkipRan, NEW L, NEW V, NEW R, Holding(core, R, L, V)
    PROVE  Holding(core', R, L, V)
<1>1. Op.k # "constant" /\ CoreOK(core) /\ Len(core.scopes) = N /\ Done(core, <<>>)
  BY DEF SkipRan, Here
<1>2. \A i \in 1 .. Len(Op.res) : FALSE
  BY EmptyIsSeq DEF SkipRan
<1>3. PICK vals : vals = <<>>
  OBVIOUS
<1>4. \A i \in 1 .. Len(Op.res) : May(core, vals[i], Op.res[i], L, V)
  BY <1>2
<1> QED
  BY <1>1, <1>3, <1>4, DoneHolds


(* The values that regions hold, with the names that will receive them.    *)
OwnerIn(p, fs, d) == p[fs[d - 1].blk][fs[d - 1].pc]
Pending(p, fs) ==
    UNION {UNION {{<<fs[d].vals[j], n>> : n \in Receivers(OwnerIn(p, fs, d), j)} :
                      j \in 1 .. Len(fs[d].vals)} : d \in 2 .. Len(fs)}

LitsInv(L, V) ==
    /\ KeepsLiterals(prog, L, V)
    /\ Holding(core, Pending(prog, frames), L, V)
    /\ status = "parked" => Fresh(core, Newest(core))

LiteralsInv == \E L, V : LitsInv(L, V)

LEMMA PendingMay ==
    ASSUME NEW c, NEW p, NEW fs, NEW L, NEW V, Holding(c, Pending(p, fs), L, V),
           NEW d \in 2 .. Len(fs), NEW j \in 1 .. Len(fs[d].vals),
           NEW n \in Receivers(OwnerIn(p, fs, d), j)
    PROVE  May(c, fs[d].vals[j], n, L, V)
<1>1. PICK r : r = <<fs[d].vals[j], n>>
  OBVIOUS
<1>2. r \in Pending(p, fs) /\ r[1] = fs[d].vals[j] /\ r[2] = n
  BY <1>1 DEF Pending
<1>3. May(c, r[1], r[2], L, V)
  BY <1>2 DEF Holding
<1> QED
  BY <1>2, <1>3

(* Each region waits as before, or what it holds may be given. *)
LEMMA PendingMoves ==
    ASSUME NEW c, NEW p, NEW fs, NEW gs, NEW L, NEW V, Holding(c, Pending(p, fs), L, V),
           \A d \in 2 .. Len(gs) :
               \/ /\ d \in 2 .. Len(fs) /\ gs[d].vals = fs[d].vals
                  /\ gs[d - 1].blk = fs[d - 1].blk /\ gs[d - 1].pc = fs[d - 1].pc
               \/ \A j \in 1 .. Len(gs[d].vals) : \A n \in Receivers(OwnerIn(p, gs, d), j) :
                      May(c, gs[d].vals[j], n, L, V)
    PROVE  Holding(c, Pending(p, gs), L, V)
<1>1. ASSUME NEW d \in 2 .. Len(gs), NEW j \in 1 .. Len(gs[d].vals),
             NEW n \in Receivers(OwnerIn(p, gs, d), j)
      PROVE  May(c, gs[d].vals[j], n, L, V)
  <2>1. CASE /\ d \in 2 .. Len(fs) /\ gs[d].vals = fs[d].vals
             /\ gs[d - 1].blk = fs[d - 1].blk /\ gs[d - 1].pc = fs[d - 1].pc
    <3>1. OwnerIn(p, gs, d) = OwnerIn(p, fs, d)
      BY <2>1 DEF OwnerIn
    <3>2. j \in 1 .. Len(fs[d].vals) /\ n \in Receivers(OwnerIn(p, fs, d), j)
      BY <2>1, <3>1
    <3>3. May(c, fs[d].vals[j], n, L, V)
      BY <2>1, <3>2, PendingMay
    <3> QED
      BY <2>1, <3>3
  <2> QED
    BY <2>1
<1>2. ASSUME NEW r \in Pending(p, gs) PROVE May(c, r[1], r[2], L, V)
  <2>1. PICK d \in 2 .. Len(gs) : \E j \in 1 .. Len(gs[d].vals) :
            \E n \in Receivers(OwnerIn(p, gs, d), j) : r = <<gs[d].vals[j], n>>
    BY <1>2 DEF Pending
  <2>4. PICK j \in 1 .. Len(gs[d].vals) :
            \E n \in Receivers(OwnerIn(p, gs, d), j) : r = <<gs[d].vals[j], n>>
    BY <2>1
  <2>2. PICK n \in Receivers(OwnerIn(p, gs, d), j) : r = <<gs[d].vals[j], n>>
    BY <2>4
  <2>3. r[1] = gs[d].vals[j] /\ r[2] = n
    BY <2>2
  <2> QED
    BY <1>1, <2>3
<1> QED
  BY <1>2 DEF Holding

LEMMA LitsNext ==
    ASSUME UNCHANGED prog, NEW L, NEW V, KeepsLiterals(prog, L, V),
           Holding(core', Pending(prog, frames'), L, V),
           status' = "parked" => Fresh(core', Newest(core'))
    PROVE  LitsInv(L, V)'
BY DEF LitsInv

(* The innermost region alone moved, and holds what it held. *)
LEMMA TopHolds ==
    ASSUME NEW c, NEW L, NEW V, Holding(c, Pending(prog, frames), L, V), N \in Nat, N >= 1,
           Len(frames') = N, \A d \in 1 .. N - 1 : frames'[d] = frames[d],
           frames'[N].vals = frames[N].vals
    PROVE  Holding(c, Pending(prog, frames'), L, V)
<1>1. N = Len(frames)
  BY DEF N
<1>2. ASSUME NEW d \in 2 .. Len(frames')
      PROVE  /\ d \in 2 .. Len(frames) /\ frames'[d].vals = frames[d].vals
             /\ frames'[d - 1].blk = frames[d - 1].blk /\ frames'[d - 1].pc = frames[d - 1].pc
  <2>1. d \in 2 .. N /\ d - 1 \in 1 .. N - 1 /\ (d # N => d \in 1 .. N - 1)
    BY <1>2
  <2>2. frames'[d - 1] = frames[d - 1]
    BY <2>1
  <2>3. frames'[d].vals = frames[d].vals
    BY <2>1
  <2> QED
    BY <1>1, <2>1, <2>2, <2>3
<1>3. PICK gs : gs = frames'
  OBVIOUS
<1>4. \A d \in 2 .. Len(gs) :
         \/ /\ d \in 2 .. Len(frames) /\ gs[d].vals = frames[d].vals
            /\ gs[d - 1].blk = frames[d - 1].blk /\ gs[d - 1].pc = frames[d - 1].pc
         \/ \A j \in 1 .. Len(gs[d].vals) : \A n \in Receivers(OwnerIn(prog, gs, d), j) :
                May(c, gs[d].vals[j], n, L, V)
  BY <1>2, <1>3
<1>5. Holding(c, Pending(prog, gs), L, V)
  BY <1>4, PendingMoves
<1> QED
  BY <1>3, <1>5

LEMMA OpStepLits ==
    ASSUME OpStep, NEW L, NEW V, LitsInv(L, V), UNCHANGED <<prog, usedOnce>>
    PROVE  LitsInv(L, V)'
<1> DEFINE R == Pending(prog, frames)
<1>1. Here /\ KeepsLiterals(prog, L, V) /\ Holding(core, R, L, V)
  BY DEF OpStep, LitsInv
<1>2. Holding(core', R, L, V)
  <2> HIDE DEF R
  <2>1. CASE status = "parked" /\ ResumeRan
    <3>1. Fresh(core, Newest(core))
      BY <2>1 DEF LitsInv
    <3> QED
      BY <1>1, <2>1, <3>1, ResumeHolds
  <2>2. CASE Op.k = "constant" /\ ConstantRan
    BY <1>1, <2>2, ConstantHolds
  <2>3. CASE Op.k = "compute" /\ ComputeRan
    BY <1>1, <2>3, ComputeHolds
  <2>4. CASE Op.k = "reshape" /\ ReshapeRan
    BY <1>1, <2>4, ReshapeHolds
  <2>5. CASE Op.k = "matmul" /\ MatmulRan /\ ~Raise("AssertionError")
    BY <1>1, <2>5, MatmulHolds
  <2>6. CASE Op.k = "reduce" /\ ReduceRan
    BY <1>1, <2>6, ReduceHolds
  <2>7. CASE SkipRan
    BY <1>1, <2>7, SkipHolds
  <2> QED
    BY <2>1, <2>2, <2>3, <2>4, <2>5, <2>6, <2>7 DEF OpStep, Computes
<1>3. /\ N \in Nat /\ N >= 1 /\ Frame = frames[N] /\ Advanced /\ status' = "running"
  BY OpStepRan DEF Here, Frame, N, OpStep, Ran
<1>4. /\ Len(frames') = N /\ (\A d \in 1 .. N - 1 : frames'[d] = frames[d])
      /\ frames'[N].vals = frames[N].vals
  <2>1. N - 1 + 1 = N
    BY <1>3
  <2> QED
    BY <1>3, <2>1 DEF Advanced, EndsIn, SameBut, FrameFields
<1>5. Holding(core', Pending(prog, frames'), L, V)
  BY <1>2, <1>3, <1>4, TopHolds
<1> QED
  BY <1>1, <1>3, <1>5, LitsNext

LEMMA FetchStepLits ==
    ASSUME Here, NEW names, FetchedIs(core, names, core'), frames' = frames, status' # "parked",
           NEW L, NEW V, LitsInv(L, V), UNCHANGED <<prog, usedOnce>>
    PROVE  LitsInv(L, V)'
<1>1. CoreOK(core) /\ KeepsLiterals(prog, L, V) /\ Holding(core, Pending(prog, frames), L, V)
  BY DEF Here, LitsInv
<1>2. PICK R : R = Pending(prog, frames)
  OBVIOUS
<1>3. Holding(core', R, L, V)
  BY <1>1, <1>2, FetchHolds
<1>4. Holding(core', Pending(prog, frames'), L, V)
  BY <1>2, <1>3
<1> QED
  BY <1>1, <1>4, LitsNext

LEMMA ParkStepLits ==
    ASSUME ParkStep, NEW L, NEW V, LitsInv(L, V), UNCHANGED <<prog, usedOnce>>
    PROVE  LitsInv(L, V)'
<1>1. /\ CoreOK(core) /\ KeepsLiterals(prog, L, V) /\ Holding(core, Pending(prog, frames), L, V)
      /\ frames' = frames
  BY DEF ParkStep, ParkRan, Here, LitsInv
<1>2. PICK R : R = Pending(prog, frames)
  OBVIOUS
<1>3. PICK b : FetchedIs(core, Op.ins, b) /\ MadeIs(b, core', Term(Op.res[1], Contents(Op.ins)))
  BY DEF ParkStep, ParkRan
<1>4. Holding(b, R, L, V) /\ CoreOK(b)
  BY <1>1, <1>2, <1>3, FetchHolds DEF FetchedIs
<1>5. Fresh(core', Newest(core')) /\ Holding(core', R, L, V)
  BY <1>3, <1>4, MadeHolds
<1>6. Holding(core', Pending(prog, frames'), L, V)
  BY <1>1, <1>2, <1>5
<1> QED
  BY <1>1, <1>5, <1>6, LitsNext


LEMMA MayFor ==
    ASSUME NEW c, NEW t, NEW n, NEW m, NEW L, NEW V, May(c, t, n, L, V),
           n \in L => m \in L, n \in V => m \in V
    PROVE  May(c, t, m, L, V)
BY DEF May

(* What a yield hands to the names that receive it. *)
LEMMA YieldHands ==
    ASSUME Here, N >= 2, Op.k = "yield", NEW L, NEW V, KeepsLiterals(prog, L, V),
           NEW j \in 1 .. Len(Op.ins), NEW n \in Receivers(OwnerIn(prog, frames, N), j)
    PROVE  (Op.ins[j] \in L => n \in L) /\ (Op.ins[j] \in V => n \in V)
<1>1. PICK b, i : b = frames[N - 1].blk /\ i = frames[N - 1].pc
  OBVIOUS
<1>2. /\ FrameOK(frames, N) /\ N \in Nat /\ N # 1 /\ Frame = frames[N] /\ IsSite(Frame.blk, Frame.pc)
      /\ Op = prog[Frame.blk][Frame.pc] /\ OwnerIn(prog, frames, N) = prog[b][i]
      /\ IsSeq(Op.ins)
  <2>1. FrameOK(frames, N) /\ N \in Nat /\ IsSite(Frame.blk, Frame.pc) /\ RowsAre(Op)
    BY DEF Here
  <2>2. N # 1
    BY <2>1
  <2>3. Frame = frames[N]
    BY DEF Frame, N
  <2>4. Op = prog[Frame.blk][Frame.pc]
    BY DEF Op
  <2>5. OwnerIn(prog, frames, N) = prog[b][i]
    BY <1>1 DEF OwnerIn
  <2>6. IsSeq(Op.ins)
    BY <2>1 DEF RowsAre
  <2> QED
    BY <2>1, <2>2, <2>3, <2>4, <2>5, <2>6
<1>3. IsSite(b, i) /\ Frame.blk \in Regions(prog[b][i])
  BY <1>1, <1>2 DEF FrameOK, OwnerOf
<1>4. b \in DOMAIN prog /\ i \in DOMAIN prog[b]
  BY <1>3, BlockIs DEF IsSite
<1>5. Frame.pc \in DOMAIN prog[Frame.blk] /\ j \in DOMAIN prog[Frame.blk][Frame.pc].ins
  BY <1>2, BlockIs, SeqFacts DEF IsSite
<1>6. \A S \in {L, V} : Op.ins[j] \in S => Receivers(prog[b][i], j) \subseteq S
  BY <1>2, <1>3, <1>4, <1>5 DEF KeepsLiterals
<1> QED
  BY <1>2, <1>6

LEMMA YieldStepLits ==
    ASSUME YieldStep, status = "running", NEW L, NEW V, LitsInv(L, V), UNCHANGED <<prog, usedOnce>>
    PROVE  LitsInv(L, V)'
<1>1. /\ Here /\ CoreOK(core) /\ KeepsLiterals(prog, L, V) /\ Holding(core, Pending(prog, frames), L, V)
      /\ Op.k = "yield" /\ FetchedIs(core, Op.ins, core') /\ status' # "parked" /\ Yields(frames'[N].vals)
      /\ N \in Nat /\ N >= 1 /\ N = Len(frames) /\ TopMoves
  <2>1. Here /\ YieldRan
    BY DEF YieldStep
  <2>2. TopMoves
    BY <2>1, TopMovesBy DEF YieldRan, Here
  <2> QED
    BY <2>1, <2>2 DEF YieldRan, Here, LitsInv, N
<1>2. PICK R : R = Pending(prog, frames)
  OBVIOUS
<1>3. Holding(core', R, L, V)
  BY <1>1, <1>2, FetchHolds
<1>4. \A d \in 1 .. N - 1 : frames'[d] = frames[d]
  BY <1>1 DEF TopMoves
<1>5. Len(frames') = N
  BY <1>1 DEF TopMoves
<1>6. ASSUME N >= 2, NEW j \in 1 .. Len(frames'[N].vals), NEW n \in Receivers(OwnerIn(prog, frames, N), j)
      PROVE  May(core', frames'[N].vals[j], n, L, V)
  <2>1. /\ j \in 1 .. Len(Op.ins) /\ Visible(core, Op.ins[j]) /\ Op.ins[j] # "i"
        /\ frames'[N].vals[j] = Lookup(core, Op.ins[j])
    BY <1>1, <1>6 DEF Yields
  <2>2. May(core', Lookup(core, Op.ins[j]), Op.ins[j], L, V)
    BY <1>1, <1>2, <2>1, OperandHolds
  <2>3. (Op.ins[j] \in L => n \in L) /\ (Op.ins[j] \in V => n \in V)
    BY <1>1, <1>6, <2>1, YieldHands
  <2> QED
    BY <2>1, <2>2, <2>3, MayFor
<1>7. PICK gs : gs = frames'
  OBVIOUS
<1>8. ASSUME NEW d \in 2 .. Len(gs)
      PROVE  \/ /\ d \in 2 .. Len(frames) /\ gs[d].vals = frames[d].vals
                /\ gs[d - 1].blk = frames[d - 1].blk /\ gs[d - 1].pc = frames[d - 1].pc
             \/ \A j \in 1 .. Len(gs[d].vals) : \A n \in Receivers(OwnerIn(prog, gs, d), j) :
                    May(core', gs[d].vals[j], n, L, V)
  <2>1. d \in 2 .. N /\ d - 1 \in 1 .. N - 1 /\ gs[d - 1] = frames[d - 1]
    BY <1>1, <1>4, <1>5, <1>7, <1>8
  <2>2. CASE d # N
    <3>1. d \in 1 .. N - 1
      BY <1>1, <2>1, <2>2
    <3> QED
      BY <1>1, <1>4, <1>7, <2>1, <3>1
  <2>3. CASE d = N
    <3>1. N >= 2 /\ OwnerIn(prog, gs, d) = OwnerIn(prog, frames, N)
      BY <1>1, <2>1, <2>3 DEF OwnerIn
    <3> QED
      BY <1>6, <1>7, <2>3, <3>1
  <2> QED
    BY <2>2, <2>3
<1>9. Holding(core', Pending(prog, gs), L, V)
  <2>1. Holding(core', Pending(prog, frames), L, V)
    BY <1>2, <1>3
  <2> QED
    BY <1>8, <2>1, PendingMoves
<1>10. Holding(core', Pending(prog, frames'), L, V)
  BY <1>7, <1>9
<1> QED
  BY <1>1, <1>10, LitsNext

(* A region is entered with values that may be given, or none. *)
LEMMA EnterHolds ==
    ASSUME NEW c, NEW L, NEW V, Holding(c, Pending(prog, frames), L, V), NEW g,
           IsAppend(frames, g, frames'), Len(frames) \in Nat,
           \A j \in 1 .. Len(g.vals) : Fresh(c, g.vals[j])
    PROVE  Holding(c, Pending(prog, frames'), L, V)
<1>1. PICK gs : gs = frames'
  OBVIOUS
<1>2. Len(gs) = Len(frames) + 1 /\ gs[Len(frames) + 1] = g /\ \A d \in 1 .. Len(frames) : gs[d] = frames[d]
  BY <1>1 DEF IsAppend
<1>3. ASSUME NEW d \in 2 .. Len(gs)
      PROVE  \/ /\ d \in 2 .. Len(frames) /\ gs[d].vals = frames[d].vals
                /\ gs[d - 1].blk = frames[d - 1].blk /\ gs[d - 1].pc = frames[d - 1].pc
             \/ \A j \in 1 .. Len(gs[d].vals) : \A n \in Receivers(OwnerIn(prog, gs, d), j) :
                    May(c, gs[d].vals[j], n, L, V)
  <2>1. CASE d = Len(frames) + 1
    <3>1. gs[d] = g
      BY <1>2, <2>1
    <3> QED
      BY <3>1, FreshMay
  <2>2. CASE d # Len(frames) + 1
    <3>1. d \in 1 .. Len(frames) /\ d - 1 \in 1 .. Len(frames) /\ d \in 2 .. Len(frames)
      BY <1>2, <1>3, <2>2
    <3>2. gs[d] = frames[d] /\ gs[d - 1] = frames[d - 1]
      BY <1>2, <3>1
    <3> QED
      BY <3>1, <3>2
  <2> QED
    BY <2>1, <2>2
<1>4. Holding(c, Pending(prog, gs), L, V)
  BY <1>3, PendingMoves
<1> QED
  BY <1>1, <1>4

LEMMA LoopStepLits ==
    ASSUME LoopStep, status = "running", NEW L, NEW V, LitsInv(L, V), UNCHANGED <<prog, usedOnce>>
    PROVE  LitsInv(L, V)'
<1>1. Here /\ EnterForRan
  BY DEF LoopStep
<1>2. PICK b, vals, g :
          /\ InitsAre(Op.ins, b, vals) /\ BoundIs(b, Op.args, vals, TRUE, core')
          /\ IsAppend(frames, g, frames') /\ g.vals = vals
  BY <1>1 DEF EnterForRan
<1>3. /\ CoreOK(core) /\ KeepsLiterals(prog, L, V) /\ Holding(core, Pending(prog, frames), L, V)
      /\ status' # "parked" /\ N \in Nat /\ N = Len(frames) /\ N >= 1 /\ Len(core.scopes) = N
      /\ Len(Op.ins) \in Nat
      /\ IsSeq(Op.args) /\ Len(Op.args) = Len(Op.ins) /\ Len(core.tiles) \in Nat /\ Len(core.bufs) \in Nat
  BY <1>1, SeqFacts DEF Here, EnterForRan, LitsInv, RowsAre, IsOp, N, CoreOK
<1>4. PICK R : R = Pending(prog, frames)
  OBVIOUS
<1>5. /\ GrownIs(core, b) /\ CoreOK(b) /\ Len(b.scopes) = N /\ Len(vals) = Len(Op.ins)
      /\ \A x \in 1 .. Len(core.bufs) : b.bufs[x] = core.bufs[x]
  BY <1>2, <1>3 DEF InitsAre, GrownIs
<1>6. Holding(b, R, L, V)
  BY <1>3, <1>4, <1>5, GrownHolds
<1>7. ASSUME NEW j \in 1 .. Len(vals) PROVE Fresh(b, vals[j])
  <2>1. /\ vals[j] = Len(core.tiles) + j /\ vals[j] \in 1 .. Len(b.tiles)
        /\ b.tiles[vals[j]] = Len(core.bufs) + j /\ j \in Nat /\ j >= 1
    <3>1. InitsAre(Op.ins, b, vals) /\ j \in 1 .. Len(Op.ins) /\ Len(Op.ins) \in Nat
      BY <1>2, <1>3, <1>5, <1>7 DEF RowsAre
    <3>2. /\ vals[j] = Len(core.tiles) + j /\ vals[j] \in 1 .. Len(b.tiles)
          /\ b.tiles[Len(core.tiles) + j] = Len(core.bufs) + j
      BY <3>1 DEF InitsAre
    <3> QED
      BY <3>1, <3>2
  <2>2. vals[j] \notin 1 .. Len(core.tiles) /\ b.tiles[vals[j]] \notin 1 .. Len(core.bufs)
    BY <1>3, <2>1
  <2> QED
    BY <1>3, <1>5, <2>1, <2>2, FreshIs
<1>8. \A i \in 1 .. Len(Op.args) : Op.args[i] # "i" => May(b, vals[i], Op.args[i], L, V)
  BY <1>3, <1>5, <1>7, FreshMay
<1>9. Holding(core', R, L, V)
  BY <1>2, <1>3, <1>5, <1>6, <1>8, BindHolds
<1>10. \A j \in 1 .. Len(g.vals) : Fresh(core', g.vals[j])
  <2>1. core'.tiles = b.tiles /\ core'.uncharged \subseteq b.uncharged
    BY <1>2 DEF BoundIs
  <2> QED
    BY <1>2, <1>7, <2>1 DEF Fresh
<1>11. Holding(core', Pending(prog, frames'), L, V)
  <2>1. Holding(core', Pending(prog, frames), L, V)
    BY <1>4, <1>9
  <2> QED
    BY <1>2, <1>3, <1>10, <2>1, EnterHolds
<1> QED
  BY <1>3, <1>11, LitsNext

LEMMA BranchStepLits ==
    ASSUME BranchStep, status = "running", NEW L, NEW V, LitsInv(L, V), UNCHANGED <<prog, usedOnce>>
    PROVE  LitsInv(L, V)'
<1>1. PICK branch \in 1 .. 2 : Here /\ BranchRan(branch)
  BY DEF BranchStep
<1>2. PICK g : IsAppend(frames, g, frames') /\ g.vals = <<>>
  BY <1>1 DEF BranchRan
<1>3. /\ CoreOK(core) /\ KeepsLiterals(prog, L, V) /\ Holding(core, Pending(prog, frames), L, V)
      /\ status' # "parked" /\ N \in Nat /\ N = Len(frames) /\ PushedIs(core, core')
  BY <1>1 DEF Here, BranchRan, LitsInv, N
<1>4. PICK R : R = Pending(prog, frames)
  OBVIOUS
<1>5. Holding(core', R, L, V)
  BY <1>3, <1>4, PushHolds
<1>6. \A j \in 1 .. Len(g.vals) : Fresh(core', g.vals[j])
  BY <1>2, EmptyIsSeq
<1>7. Holding(core', Pending(prog, frames'), L, V)
  <2>1. Holding(core', Pending(prog, frames), L, V)
    BY <1>4, <1>5
  <2> QED
    BY <1>2, <1>3, <1>6, <2>1, EnterHolds
<1> QED
  BY <1>3, <1>7, LitsNext

LEMMA SameVals ==
    ASSUME N \in Nat, N >= 1,
           SetIs(frames, N, {"pc", "env"}, frames') \/ SetIs(frames, N, {"pc", "at"}, frames')
    PROVE  /\ Len(frames') = N /\ \A d \in 1 .. N - 1 : frames'[d] = frames[d]
           /\ frames'[N].vals = frames[N].vals
<1>1. TopMoves
  BY TopMovesBy
<1>2. frames'[N].vals = frames[N].vals
  BY DEF SetIs, SameBut, FrameFields
<1> QED
  BY <1>1, <1>2 DEF TopMoves

LEMMA IterateStepLits ==
    ASSUME IterateStep, status = "running", NEW L, NEW V, LitsInv(L, V), UNCHANGED <<prog, usedOnce>>
    PROVE  LitsInv(L, V)'
<1>1. Within /\ IterateRan
  BY DEF IterateStep
<1>2. PICK b : PushedIs(core, b) /\ BoundIs(b, <<"i">>, <<Scalar>>, TRUE, core')
  BY <1>1 DEF IterateRan
<1>3. /\ CoreOK(core) /\ KeepsLiterals(prog, L, V) /\ Holding(core, Pending(prog, frames), L, V)
      /\ status' # "parked" /\ N \in Nat /\ N >= 2 /\ Len(core.scopes) \in Nat
  BY <1>1, SeqFacts DEF Within, IterateRan, LitsInv, CoreOK
<1>4. PICK R, names, vals : R = Pending(prog, frames) /\ names = <<"i">> /\ vals = <<Scalar>>
  OBVIOUS
<1>5. Holding(b, R, L, V) /\ CoreOK(b) /\ Len(b.scopes) >= 1
  BY <1>2, <1>3, <1>4, PushHolds DEF PushedIs, IsAppend
<1>6. IsSeq(names) /\ \A i \in 1 .. Len(names) : names[i] = "i"
  BY <1>4, OneValue
<1>7. Holding(core', R, L, V)
  <2>1. BoundIs(b, names, vals, TRUE, core')
    BY <1>2, <1>4
  <2> QED
    BY <1>5, <1>6, <2>1, BindHolds
<1>8. Holding(core', Pending(prog, frames'), L, V)
  <2>1. Holding(core', Pending(prog, frames), L, V)
    BY <1>4, <1>7
  <2>2. /\ N >= 1 /\ Len(frames') = N /\ \A d \in 1 .. N - 1 : frames'[d] = frames[d]
        /\ frames'[N].vals = frames[N].vals
    BY <1>1, <1>3, SameVals DEF IterateRan
  <2> QED
    BY <1>3, <2>1, <2>2, TopHolds
<1> QED
  BY <1>3, <1>8, LitsNext

(* What a region holds may be given to the names that receive it. *)
LEMMA HeldMay ==
    ASSUME Within, NEW c, NEW L, NEW V, Holding(c, Pending(prog, frames), L, V),
           NEW names, names = Owner.res \/ (names = Owner.args /\ Frame.k = "for"),
           NEW j \in 1 .. Len(names), Len(names) = Len(Frame.vals)
    PROVE  May(c, Frame.vals[j], names[j], L, V)
<1>1. /\ N \in 2 .. Len(frames) /\ Frame = frames[N] /\ Owner = OwnerIn(prog, frames, N)
      /\ Frame.k = Owner.k /\ j \in 1 .. Len(frames[N].vals)
  BY DEF Within, N, OwnerIn, OwnerOf
<1>2. names[j] \in Receivers(OwnerIn(prog, frames, N), j)
  BY <1>1 DEF Receivers
<1> QED
  BY <1>1, <1>2, PendingMay

LEMMA EndStepLits ==
    ASSUME EndStep, status = "running", NEW L, NEW V, LitsInv(L, V), UNCHANGED <<prog, usedOnce>>
    PROVE  LitsInv(L, V)'
<1>1. Within /\ EndIterationRan
  BY DEF EndStep
<1>2. PICK b : PoppedIs(core, b) /\ BoundIs(b, Owner.args, Frame.vals, TRUE, core')
  BY <1>1 DEF EndIterationRan
<1>3. /\ CoreOK(core) /\ KeepsLiterals(prog, L, V) /\ Holding(core, Pending(prog, frames), L, V)
      /\ status' # "parked" /\ N \in Nat /\ N >= 2 /\ Frame.k = "for" /\ IsSeq(Owner.args)
      /\ Len(core.scopes) = N /\ Len(Owner.args) = Len(Frame.vals)
  <2>1. Len(prog[Frame.blk]) \in Nat
    BY <1>1, BlockIs DEF Within, FrameOK
  <2>2. Frame.k = "for"
    BY <1>1 DEF EndIterationRan
  <2> QED
    BY <1>1, <2>1, <2>2, ValuesMatch DEF Within, EndIterationRan, LitsInv, RowsAre
<1>4. PICK R : R = Pending(prog, frames)
  OBVIOUS
<1>5. Holding(b, R, L, V) /\ CoreOK(b) /\ Len(b.scopes) >= 1
  BY <1>2, <1>3, <1>4, FetchHolds DEF PoppedIs
<1>6. \A i \in 1 .. Len(Owner.args) : Owner.args[i] # "i" => May(b, Frame.vals[i], Owner.args[i], L, V)
  BY <1>1, <1>3, <1>4, <1>5, HeldMay
<1>7. Holding(core', R, L, V)
  BY <1>2, <1>3, <1>5, <1>6, BindHolds
<1>8. Holding(core', Pending(prog, frames'), L, V)
  <2>1. Holding(core', Pending(prog, frames), L, V)
    BY <1>4, <1>7
  <2>2. /\ N >= 1 /\ Len(frames') = N /\ \A d \in 1 .. N - 1 : frames'[d] = frames[d]
        /\ frames'[N].vals = frames[N].vals
    BY <1>1, <1>3, SameVals DEF EndIterationRan
  <2> QED
    BY <1>3, <2>1, <2>2, TopHolds
<1> QED
  BY <1>3, <1>8, LitsNext

LEMMA LeaveStepLits ==
    ASSUME LeaveStep, status = "running", NEW L, NEW V, LitsInv(L, V), UNCHANGED <<prog, usedOnce>>
    PROVE  LitsInv(L, V)'
<1>1. Within /\ LeaveRan
  BY DEF LeaveStep
<1>2. PICK b : /\ IF Frame.k = "for" THEN b = core /\ Frame.pc = 0
                  ELSE PoppedIs(core, b) /\ Frame.pc = Len(prog[Frame.blk]) + 1 /\ Frame.k = "if"
               /\ BoundIs(b, Owner.res, Frame.vals, TRUE, core')
  BY <1>1 DEF LeaveRan
<1>3. /\ CoreOK(core) /\ KeepsLiterals(prog, L, V) /\ Holding(core, Pending(prog, frames), L, V)
      /\ status' # "parked" /\ N \in Nat /\ N >= 2 /\ N = Len(frames) /\ IsSeq(Owner.res)
      /\ Len(prog[Frame.blk]) \in Nat
  BY <1>1, BlockIs DEF Within, LeaveRan, LitsInv, RowsAre, FrameOK, N
<1>4. PICK R : R = Pending(prog, frames)
  OBVIOUS
<1>5. Holding(b, R, L, V) /\ CoreOK(b) /\ Len(b.scopes) = N - 1 /\ Len(Owner.res) = Len(Frame.vals)
  <2>1. CASE Frame.k = "for"
    BY <1>1, <1>2, <1>3, <1>4, <2>1, ValuesMatch DEF Within
  <2>2. CASE Frame.k # "for"
    <3>1. PoppedIs(core, b) /\ Frame.k = "if" /\ Frame.pc > Len(prog[Frame.blk]) /\ Frame.pc # 0
      BY <1>2, <1>3, <2>2
    <3>2. Holding(b, R, L, V)
      BY <1>3, <1>4, <3>1, FetchHolds
    <3>3. Len(core.scopes) = N
      BY <1>1, <3>1 DEF Within
    <3> QED
      BY <1>1, <3>1, <3>2, <3>3, ValuesMatch DEF PoppedIs
  <2> QED
    BY <2>1, <2>2
<1>6. \A i \in 1 .. Len(Owner.res) : Owner.res[i] # "i" => May(b, Frame.vals[i], Owner.res[i], L, V)
  BY <1>1, <1>4, <1>5, HeldMay
<1>7. Holding(core', R, L, V)
  <2>1. Len(b.scopes) >= 1
    BY <1>3, <1>5
  <2> QED
    BY <1>2, <1>3, <1>5, <1>6, <2>1, BindHolds
<1>8. /\ Len(frames') = N - 1 /\ \A d \in 1 .. N - 2 : frames'[d] = frames[d]
      /\ frames'[N - 1].vals = frames[N - 1].vals
  BY <1>1, <1>3 DEF LeaveRan, EndsIn, SameBut, FrameFields, Within
<1>9. PICK gs : gs = frames'
  OBVIOUS
<1>10. ASSUME NEW d \in 2 .. Len(gs)
       PROVE  /\ d \in 2 .. Len(frames) /\ gs[d].vals = frames[d].vals
              /\ gs[d - 1].blk = frames[d - 1].blk /\ gs[d - 1].pc = frames[d - 1].pc
  <2>1. d \in 2 .. N - 1 /\ d - 1 \in 1 .. N - 2 /\ (d # N - 1 => d \in 1 .. N - 2) /\ d \in 2 .. Len(frames)
    BY <1>3, <1>8, <1>9, <1>10
  <2>2. gs[d - 1] = frames[d - 1] /\ gs[d].vals = frames[d].vals
    BY <1>8, <1>9, <2>1
  <2> QED
    BY <2>1, <2>2
<1>11. Holding(core', Pending(prog, gs), L, V)
  <2>1. Holding(core', Pending(prog, frames), L, V)
    BY <1>4, <1>7
  <2> QED
    BY <1>10, <2>1, PendingMoves
<1>12. Holding(core', Pending(prog, frames'), L, V)
  BY <1>9, <1>11
<1> QED
  BY <1>3, <1>12, LitsNext

LEMMA StepKeepsLits ==
    ASSUME TypeInv, Step, UNCHANGED <<prog, usedOnce>>, NEW L, NEW V, LitsInv(L, V)
    PROVE  LitsInv(L, V)'
<1>1. CASE FetchError \/ InitError \/ OutsError
  <2>1. UNCHANGED <<core, frames>> /\ status' # "parked"
    BY <1>1 DEF FetchError, InitError, OutsError, Raise
  <2> QED
    BY <2>1 DEF LitsInv
<1>2. CASE ReturnStep
  BY <1>2, FetchStepLits DEF ReturnStep
<1> QED
  BY <1>1, <1>2, OpStepLits, ParkStepLits, YieldStepLits, LoopStepLits, BranchStepLits,
     IterateStepLits, EndStepLits, LeaveStepLits DEF Step

LEMMA InitLits ==
    ASSUME Init, NEW L, NEW V, KeepsLiterals(prog, L, V)
    PROVE  LitsInv(L, V)
<1>1. /\ core.scopes = <<EmptyScope>> /\ core.uncharged = {} /\ status = "running"
      /\ frames = <<Region("func", "main", 1, EmptyEnv)>>
  BY DEF Init
<1>2. Len(frames) = 1 /\ Len(core.scopes) = 1 /\ core.scopes[1] = EmptyScope
  BY <1>1, OneValue
<1>3. \A d \in 1 .. Len(core.scopes) : DOMAIN core.scopes[d] = {}
  BY <1>2 DEF EmptyScope
<1>4. \A r : r \notin Pending(prog, frames)
  BY <1>2 DEF Pending
<1> QED
  BY <1>1, <1>3, <1>4 DEF LitsInv, Holding, Intact

LEMMA LiteralsInvHolds ==
    ASSUME \A p \in Kernels : \E L, V : KeepsLiterals(p, L, V)
    PROVE  Spec => [](TypeInv /\ LiteralsInv)
<1>1. Init => LiteralsInv
  <2> SUFFICES ASSUME Init PROVE LiteralsInv
    OBVIOUS
  <2>1. PICK L, V : KeepsLiterals(prog, L, V)
    BY DEF Init
  <2>2. LitsInv(L, V)
    BY <2>1, InitLits
  <2> QED
    BY <2>2 DEF LiteralsInv
<1>2. TypeInv /\ LiteralsInv /\ [Next]_vars => LiteralsInv'
  <2> SUFFICES ASSUME TypeInv, LiteralsInv, [Next]_vars PROVE LiteralsInv'
    OBVIOUS
  <2>1. PICK L, V : LitsInv(L, V)
    BY DEF LiteralsInv
  <2>2. LitsInv(L, V)'
    <3>1. CASE Next
      <4>1. Step /\ UNCHANGED <<prog, usedOnce>>
        BY <3>1, NextCases
      <4> QED
        BY <2>1, <4>1, StepKeepsLits
    <3>2. CASE UNCHANGED vars
      BY <2>1, <3>2 DEF vars, LitsInv
    <3> QED
      BY <3>1, <3>2
  <2> QED
    BY <2>2 DEF LiteralsInv
<1>3. Spec => []TypeInv
  BY TypeInvHolds
<1> QED
  BY <1>1, <1>2, <1>3, PTL DEF Spec

(***************************************************************************)
(* THEOREM: in kernels that accumulate into no name which may stand for a  *)
(* reshape of a literal, a literal keeps what its constant says as long as *)
(* a name is bound to it, however it is passed through loops and branches, *)
(* bound again or reshaped: the copy that _accumulate_inplace makes is     *)
(* enough.                                                                 *)
(***************************************************************************)
THEOREM LiteralsAreKept ==
    ASSUME \A p \in Kernels : \E L, V : KeepsLiterals(p, L, V)
    PROVE  Spec => []LiteralsNeverChange
<1>1. TypeInv /\ LiteralsInv => LiteralsNeverChange
  <2> SUFFICES ASSUME TypeInv, LiteralsInv, NEW v \in core.uncharged
               PROVE  Holds(core, v).of = <<>>
    BY DEF LiteralsNeverChange
  <2>1. v \in 1 .. Len(core.tiles)
    BY LiteralsHaveBuffers DEF TypeInv
  <2>2. Holds(core, v) = core.bufs[core.tiles[v]]
    BY <2>1 DEF Holds, Scalar
  <2>3. Intact(core)
    BY DEF LiteralsInv, LitsInv, Holding
  <2> QED
    BY <2>2, <2>3 DEF Intact
<1>2. Spec => [](TypeInv /\ LiteralsInv)
  BY LiteralsInvHolds
<1> QED
  BY <1>1, <1>2, PTL
=============================================================================
