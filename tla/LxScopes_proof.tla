--------------------------- MODULE LxScopes_proof ---------------------------
(***************************************************************************)
(* Proofs about LxScopes, for every set of names and tiles, every size and *)
(* capacity, and both settings of each LXOptions flag.                     *)
(*                                                                         *)
(* The books are related to a view of the scopes: the function from a tile *)
(* to its bindings, the pairs of a depth and a name.  A release takes one  *)
(* binding out of the view and a bind puts one in.                         *)
(***************************************************************************)
EXTENDS LxScopes, CommonLemmas

BindingsOf(stack) ==
    [t \in Tiles |-> {b \in (DOMAIN stack) \X Names :
                         b[2] \in DOMAIN stack[b[1]] /\ stack[b[1]][b[2]] = t}]
Without(view, bs) == [t \in Tiles |-> view[t] \ bs]
With(view, t, b) == [view EXCEPT ![t] = @ \cup {b}]
Holders(view) == {t \in Tiles : view[t] # {}}

Views == {view \in [Tiles -> SUBSET (Nat \X Names)] :
             /\ IsFiniteSet(Holders(view))
             /\ \A t \in Tiles : IsFiniteSet(view[t])
             /\ \A t, u \in Tiles : t # u => view[t] \cap view[u] = {}}

(* What BooksMatchScopes says of the books and a view. *)
Matches(b, view) ==
    /\ b \in Books
    /\ b.uncharged \subseteq Holders(view)
    /\ Dedup => /\ \A t \in Tiles : b.refcount[t] = Cardinality(view[t])
                /\ b.used = BytesOf(Holders(view) \ b.uncharged)

----------------------------------------------------------------------------
LEMMA BytesFacts ==
    ASSUME NEW S \in SUBSET Tiles, IsFiniteSet(S)
    PROVE  /\ BytesOf({}) = 0
           /\ BytesOf(S) \in Nat
           /\ \A t \in S : BytesOf(S) = Size[t] + BytesOf(S \ {t})
           /\ \A t \in Tiles \ S : BytesOf(S \cup {t}) = BytesOf(S) + Size[t]
           /\ \A R \in SUBSET S : BytesOf(R) <= BytesOf(S)
<1>1. \A R : BytesOf(R) = SumOver(Size, R)
  BY DEF BytesOf, SumOver
<1>2. Size \in [Tiles -> Nat]
  BY SizeAssumption
<1> QED
  BY <1>1, <1>2, SumFacts, SumAdd, SumMonotone

LEMMA WithoutFacts ==
    ASSUME NEW view \in Views, NEW bs
    PROVE  Without(view, bs) \in Views
<1>1. Without(view, bs) \in [Tiles -> SUBSET (Nat \X Names)]
  BY DEF Views, Without
<1>2. Holders(Without(view, bs)) \subseteq Holders(view)
  BY DEF Holders, Without
<1>3. IsFiniteSet(Holders(Without(view, bs)))
  BY <1>2, FS_Subset DEF Views
<1>4. ASSUME NEW t \in Tiles PROVE IsFiniteSet(Without(view, bs)[t])
  <2>1. Without(view, bs)[t] \subseteq view[t] /\ IsFiniteSet(view[t])
    BY DEF Views, Without
  <2> QED
    BY <2>1, FS_Subset
<1>5. \A t, u \in Tiles : t # u => Without(view, bs)[t] \cap Without(view, bs)[u] = {}
  BY DEF Views, Without
<1> QED
  BY <1>1, <1>3, <1>4, <1>5 DEF Views

LEMMA WithFacts ==
    ASSUME NEW view \in Views, NEW t \in Tiles, NEW b \in Nat \X Names,
           \A u \in Tiles : b \notin view[u]
    PROVE  /\ With(view, t, b) \in Views
           /\ Holders(With(view, t, b)) = Holders(view) \cup {t}
           /\ \A u \in Tiles : With(view, t, b)[u] = IF u = t THEN view[u] \cup {b} ELSE view[u]
<1> DEFINE new == With(view, t, b)
<1>1. view \in [Tiles -> SUBSET (Nat \X Names)]
  BY DEF Views
<1>2. \A u \in Tiles : new[u] = IF u = t THEN view[u] \cup {b} ELSE view[u]
  BY <1>1 DEF With
<1>3. new \in [Tiles -> SUBSET (Nat \X Names)]
  BY <1>1 DEF With
<1>4. Holders(new) = Holders(view) \cup {t}
  <2> HIDE DEF new
  <2> QED
    BY <1>2 DEF Holders
<1>5. IsFiniteSet(Holders(new))
  BY <1>4, FS_AddElement DEF Views
<1>6. ASSUME NEW u \in Tiles PROVE IsFiniteSet(new[u])
  <2>1. IsFiniteSet(view[u]) /\ IsFiniteSet(view[u] \cup {b})
    BY FS_AddElement DEF Views
  <2> QED
    BY <1>2, <2>1
<1>7. \A u, v \in Tiles : u # v => new[u] \cap new[v] = {}
  <2>1. \A u, v \in Tiles : u # v => view[u] \cap view[v] = {}
    BY DEF Views
  <2> HIDE DEF new
  <2> QED
    <3> SUFFICES ASSUME NEW u \in Tiles, NEW v \in Tiles, u # v PROVE new[u] \cap new[v] = {}
      OBVIOUS
    <3>1. CASE u = t
      <4>1. new[u] = view[u] \cup {b} /\ new[v] = view[v] /\ b \notin view[v]
        BY <1>2, <3>1
      <4> QED
        BY <2>1, <4>1
    <3>2. CASE v = t
      BY <1>2, <2>1, <3>2
    <3>3. CASE u # t /\ v # t
      BY <1>2, <2>1, <3>3
    <3> QED
      BY <3>1, <3>2, <3>3
<1> QED
  BY <1>2, <1>3, <1>4, <1>5, <1>6, <1>7 DEF Views

(* _release_tile takes one binding of its tile out of the books. *)
LEMMA ReleaseMatches ==
    ASSUME NEW view \in Views, NEW b, Matches(b, view), NEW t \in Tiles, NEW p \in view[t]
    PROVE  /\ Matches(Release(b, t), Without(view, {p}))
           /\ Release(b, t).used <= b.used
           /\ Release(b, t).uncharged \subseteq b.uncharged
<1> DEFINE r == Release(b, t)
           rest == Without(view, {p})
<1>1. /\ b.refcount \in [Tiles -> Nat] /\ b.uncharged \in SUBSET Tiles /\ b.used \in Int
      /\ b.uncharged \subseteq Holders(view)
      /\ Dedup \in BOOLEAN /\ Size[t] \in Nat
  BY OptionsAssumption, SizeAssumption DEF Matches, Books
<1>2. /\ \A u \in Tiles : u # t => rest[u] = view[u]
      /\ rest[t] = view[t] \ {p}
  BY DEF Without, Views
<1> HIDE DEF rest
<1>3. /\ IsFiniteSet(view[t]) /\ IsFiniteSet(rest[t]) /\ IsFiniteSet(Holders(view))
      /\ Cardinality(view[t]) \in Nat
      /\ Cardinality(rest[t]) = Cardinality(view[t]) - 1
      /\ Cardinality(view[t]) = 1 <=> rest[t] = {}
  <2>1. IsFiniteSet(view[t]) /\ IsFiniteSet(Holders(view))
    BY DEF Views
  <2>2. IsFiniteSet(rest[t]) /\ Cardinality(rest[t]) = Cardinality(view[t]) - 1
    BY <1>2, <2>1, FS_RemoveElement
  <2>3. Cardinality(view[t]) \in Nat /\ (Cardinality(rest[t]) = 0 <=> rest[t] = {})
    BY <2>1, <2>2, FS_CardinalityType, FS_EmptySet
  <2> QED
    BY <2>1, <2>2, <2>3
<1>4. t \in Holders(view)
  BY DEF Holders
<1>5. CASE ~Dedup
  <2>1. /\ r.refcount = b.refcount /\ r.uncharged = b.uncharged \ {t}
        /\ r.used = IF t \in b.uncharged THEN b.used ELSE b.used - Size[t]
        /\ r \in [refcount : {r.refcount}, uncharged : {r.uncharged}, used : {r.used}]
    BY <1>5 DEF Release
  <2>2. r \in Books
    BY <1>1, <2>1 DEF Books
  <2>3. Holders(view) \ {t} \subseteq Holders(rest)
    BY <1>2 DEF Holders
  <2> QED
    <3>1. r.uncharged \subseteq Holders(rest) /\ r.uncharged \subseteq b.uncharged
      BY <1>1, <2>1, <2>3
    <3>2. r.used <= b.used
      BY <1>1, <2>1
    <3> QED
      BY <1>5, <2>2, <3>1, <3>2 DEF Matches, rest
<1>6. CASE Dedup
  <2> DEFINE last == b.refcount[t] = 1
  <2>1. /\ r.refcount = [b.refcount EXCEPT ![t] = @ - 1]
        /\ r.uncharged = IF last THEN b.uncharged \ {t} ELSE b.uncharged
        /\ r.used = IF last /\ t \notin b.uncharged THEN b.used - Size[t] ELSE b.used
        /\ r \in [refcount : {r.refcount}, uncharged : {r.uncharged}, used : {r.used}]
    BY <1>6 DEF Release
  <2>2. /\ \A u \in Tiles : b.refcount[u] = Cardinality(view[u])
        /\ b.used = BytesOf(Holders(view) \ b.uncharged)
    BY <1>6 DEF Matches
  <2>3. last <=> rest[t] = {}
    BY <1>3, <2>2
  <2>4. r.refcount \in [Tiles -> Nat] /\ \A u \in Tiles : r.refcount[u] = Cardinality(rest[u])
    <3>1. b.refcount[t] - 1 \in Nat
      <4>1. Cardinality(view[t]) # 0
        BY <1>3, FS_EmptySet
      <4> QED
        BY <1>3, <2>2, <4>1
    <3>2. r.refcount \in [Tiles -> Nat]
      BY <1>1, <2>1, <3>1
    <3>3. \A u \in Tiles : r.refcount[u] = IF u = t THEN b.refcount[t] - 1 ELSE b.refcount[u]
      BY <1>1, <2>1
    <3> QED
      BY <1>2, <1>3, <2>2, <3>2, <3>3
  <2> DEFINE paying == Holders(view) \ b.uncharged
  <2>5. r.uncharged \subseteq Holders(rest) /\ r.used = BytesOf(Holders(rest) \ r.uncharged)
    <3>1. CASE last
      <4>1. Holders(rest) = Holders(view) \ {t}
        BY <1>2, <2>3, <3>1 DEF Holders
      <4>2. CASE t \in b.uncharged
        <5>1. Holders(rest) \ r.uncharged = paying
          BY <2>1, <3>1, <4>1, <4>2
        <5> QED
          BY <1>1, <2>1, <2>2, <3>1, <4>1, <4>2, <5>1
      <4>3. CASE t \notin b.uncharged
        <5>1. Holders(rest) \ r.uncharged = paying \ {t} /\ t \in paying
          BY <1>4, <2>1, <3>1, <4>1, <4>3
        <5>2. paying \in SUBSET Tiles /\ IsFiniteSet(paying)
          BY <1>3, FS_Subset DEF Holders
        <5>3. paying \ {t} \in SUBSET Tiles /\ IsFiniteSet(paying \ {t})
          BY <5>2, FS_RemoveElement
        <5>4. BytesOf(paying) = Size[t] + BytesOf(paying \ {t}) /\ BytesOf(paying \ {t}) \in Nat
          BY <5>1, <5>2, <5>3, BytesFacts
        <5>5. r.used = b.used - Size[t] /\ b.used = BytesOf(paying)
          BY <2>1, <2>2, <3>1, <4>3
        <5>6. r.used = BytesOf(paying \ {t})
          BY <1>1, <5>4, <5>5
        <5> QED
          BY <1>1, <2>1, <3>1, <4>1, <5>1, <5>6
      <4> QED
        BY <4>2, <4>3
    <3>2. CASE ~last
      <4>1. Holders(rest) = Holders(view)
        BY <1>2, <1>4, <2>3, <3>2 DEF Holders
      <4> QED
        BY <1>1, <2>1, <2>2, <3>2, <4>1
    <3> QED
      BY <3>1, <3>2
  <2>6. r \in Books
    BY <1>1, <2>1, <2>4 DEF Books
  <2>7. r.used <= b.used /\ r.uncharged \subseteq b.uncharged
    BY <1>1, <2>1
  <2> QED
    BY <2>4, <2>5, <2>6, <2>7 DEF Matches, rest
<1> QED
  BY <1>1, <1>5, <1>6

(* set_value puts one binding of a tile into the books.                    *)
LEMMA BookMatches ==
    ASSUME NEW view \in Views, NEW b, Matches(b, view), NEW t \in Tiles,
           NEW p \in Nat \X Names, \A u \in Tiles : p \notin view[u],
           NEW charge \in BOOLEAN, charge \/ t \notin Holders(view)
    PROVE  Matches(Book(b, t, charge), With(view, t, p))
<1> DEFINE new == With(view, t, p)
           c == Book(b, t, charge)
<1>1. /\ b.refcount \in [Tiles -> Nat] /\ b.uncharged \in SUBSET Tiles /\ b.used \in Int
      /\ b = [refcount |-> b.refcount, uncharged |-> b.uncharged, used |-> b.used]
      /\ b.uncharged \subseteq Holders(view)
      /\ Dedup \in BOOLEAN /\ Size[t] \in Nat
  BY OptionsAssumption, SizeAssumption DEF Matches, Books
<1>2. /\ Holders(new) = Holders(view) \cup {t}
      /\ \A u \in Tiles : new[u] = IF u = t THEN view[u] \cup {p} ELSE view[u]
  BY WithFacts
<1>3. /\ IsFiniteSet(Holders(view)) /\ IsFiniteSet(view[t]) /\ Cardinality(view[t]) \in Nat
      /\ Cardinality(view[t]) = 0 <=> t \notin Holders(view)
      /\ Cardinality(new[t]) = Cardinality(view[t]) + 1
  <2>1. IsFiniteSet(Holders(view)) /\ IsFiniteSet(view[t])
    BY DEF Views
  <2>2. Cardinality(view[t]) \in Nat /\ (Cardinality(view[t]) = 0 <=> view[t] = {})
    BY <2>1, FS_CardinalityType, FS_EmptySet
  <2>3. Cardinality(view[t] \cup {p}) = Cardinality(view[t]) + 1
    BY <2>1, FS_AddElement
  <2>4. new[t] = view[t] \cup {p}
    BY <1>2
  <2> HIDE DEF new
  <2> QED
    BY <2>1, <2>2, <2>3, <2>4 DEF Holders
<1> HIDE DEF new
<1> DEFINE free == Free(b, t, charge)
           pays == ~free /\ Charged(b, t)
           counts == IF Dedup THEN [b.refcount EXCEPT ![t] = @ + 1] ELSE b.refcount
<1>4. c = [refcount |-> counts,
           uncharged |-> IF free THEN b.uncharged \cup {t} ELSE b.uncharged,
           used |-> IF pays THEN b.used + Size[t] ELSE b.used]
  BY <1>1 DEF Book, Counted
<1>5. counts \in [Tiles -> Nat]
  BY <1>1
<1>6. Dedup => \A u \in Tiles : counts[u] = Cardinality(new[u])
  <2> SUFFICES ASSUME Dedup, NEW u \in Tiles PROVE counts[u] = Cardinality(new[u])
    OBVIOUS
  <2>1. b.refcount[u] = Cardinality(view[u]) /\ b.refcount[t] = Cardinality(view[t])
    BY DEF Matches
  <2>2. counts[u] = IF u = t THEN b.refcount[t] + 1 ELSE b.refcount[u]
    BY <1>1
  <2> QED
    BY <1>2, <1>3, <2>1, <2>2
<1> HIDE DEF counts
<1>7. c \in Books /\ c.uncharged \subseteq Holders(new)
  BY <1>1, <1>2, <1>4, <1>5 DEF Books
<1>8. Dedup => c.used = BytesOf(Holders(new) \ c.uncharged)
  <2> SUFFICES ASSUME Dedup PROVE c.used = BytesOf(Holders(new) \ c.uncharged)
    OBVIOUS
  <2> DEFINE paying == Holders(view) \ b.uncharged
  <2>1. b.used = BytesOf(paying) /\ b.refcount[t] = Cardinality(view[t])
    BY DEF Matches
  <2>2. paying \in SUBSET Tiles /\ IsFiniteSet(paying)
    BY <1>3, FS_Subset DEF Holders
  <2>3. CASE free
    <3>1. t \in b.uncharged \/ t \notin Holders(view)
      BY <2>3 DEF Free
    <3>2. c.uncharged = b.uncharged \cup {t} /\ c.used = b.used
      BY <1>4, <2>3
    <3>3. Holders(new) \ c.uncharged = paying
      BY <1>2, <3>1, <3>2
    <3> QED
      BY <2>1, <3>2, <3>3
  <2>4. CASE pays
    <3>1. t \notin Holders(view)
      BY <1>3, <2>1, <2>4 DEF Charged
    <3>2. t \notin b.uncharged /\ t \notin paying
      BY <2>4, <3>1 DEF Free
    <3>3. c.uncharged = b.uncharged /\ c.used = b.used + Size[t]
      BY <1>4, <2>4
    <3>4. Holders(new) \ c.uncharged = paying \cup {t}
      BY <1>2, <3>2, <3>3
    <3>5. BytesOf(paying \cup {t}) = BytesOf(paying) + Size[t]
      BY <2>2, <3>2, BytesFacts
    <3> QED
      BY <2>1, <3>3, <3>4, <3>5
  <2>5. CASE ~free /\ ~Charged(b, t)
    <3>1. t \in Holders(view)
      BY <1>3, <2>1, <2>5 DEF Charged
    <3>2. c.uncharged = b.uncharged /\ c.used = b.used
      BY <1>4, <2>5
    <3>3. Holders(new) \ c.uncharged = paying
      BY <1>2, <3>1, <3>2
    <3> QED
      BY <2>1, <3>2, <3>3
  <2> QED
    BY <2>3, <2>4, <2>5
<1> QED
  BY <1>4, <1>6, <1>7, <1>8 DEF Matches, new

----------------------------------------------------------------------------
(***************************************************************************)
(* Stacks of scopes and their views.                                       *)
(***************************************************************************)
Stacks == {stack \in Seq(Scope) :
              stack # <<>> /\ \A d \in DOMAIN stack : IsFiniteSet(DOMAIN stack[d])}

LEMMA ScopeType ==
    ASSUME NEW s
    PROVE  s \in Scope <=> DOMAIN s \in SUBSET Names /\ s \in [DOMAIN s -> Value]
<1>1. ASSUME s \in Scope PROVE DOMAIN s \in SUBSET Names /\ s \in [DOMAIN s -> Value]
  BY <1>1 DEF Scope
<1>2. ASSUME DOMAIN s \in SUBSET Names, s \in [DOMAIN s -> Value] PROVE s \in Scope
  BY <1>2 DEF Scope
<1> QED
  BY <1>1, <1>2

LEMMA StackFacts ==
    ASSUME NEW stack \in Stacks
    PROVE  /\ Len(stack) \in Nat \ {0} /\ DOMAIN stack = 1 .. Len(stack)
           /\ \A d \in 1 .. Len(stack) : /\ stack[d] \in Scope /\ IsFiniteSet(DOMAIN stack[d])
                                        /\ DOMAIN stack[d] \in SUBSET Names
                                        /\ \A n \in DOMAIN stack[d] : stack[d][n] \in Value
<1>1. stack \in Seq(Scope) /\ stack # <<>>
  BY DEF Stacks
<1>2. Len(stack) \in Nat \ {0} /\ DOMAIN stack = 1 .. Len(stack)
      /\ \A d \in 1 .. Len(stack) : stack[d] \in Scope
  BY <1>1
<1>3. \A d \in 1 .. Len(stack) : DOMAIN stack[d] \in SUBSET Names /\ stack[d] \in [DOMAIN stack[d] -> Value]
  BY <1>2, ScopeType
<1>4. \A d \in 1 .. Len(stack) : IsFiniteSet(DOMAIN stack[d])
  BY <1>2 DEF Stacks
<1> QED
  BY <1>2, <1>3, <1>4

LEMMA BindingsFacts ==
    ASSUME NEW stack
    PROVE  \A t \in Tiles : \A d, n :
              <<d, n>> \in BindingsOf(stack)[t] <=>
                  /\ d \in DOMAIN stack /\ n \in Names
                  /\ n \in DOMAIN stack[d] /\ stack[d][n] = t
BY DEF BindingsOf

(* Two views with the same bindings are the same. *)
LEMMA SameView ==
    ASSUME NEW v \in [Tiles -> SUBSET (Nat \X Names)], NEW w \in [Tiles -> SUBSET (Nat \X Names)],
           \A t \in Tiles, d \in Nat, n \in Names : <<d, n>> \in v[t] <=> <<d, n>> \in w[t]
    PROVE  v = w
<1>1. ASSUME NEW t \in Tiles PROVE v[t] = w[t]
  <2>1. v[t] \in SUBSET (Nat \X Names) /\ w[t] \in SUBSET (Nat \X Names)
    OBVIOUS
  <2>2. ASSUME NEW b \in Nat \X Names PROVE b \in v[t] <=> b \in w[t]
    <3>1. PICK d \in Nat, n \in Names : b = <<d, n>>
      OBVIOUS
    <3> QED
      BY <3>1
  <2> QED
    BY <2>1, <2>2
<1> QED
  BY <1>1

LEMMA ViewType ==
    ASSUME NEW stack \in Stacks
    PROVE  BindingsOf(stack) \in [Tiles -> SUBSET (Nat \X Names)]
<1>1. DOMAIN stack \subseteq Nat
  BY StackFacts
<1> QED
  BY <1>1 DEF BindingsOf

(* What binding a name in the topmost scope does to the stack. *)
LEMMA ReboundFacts ==
    ASSUME scopes \in Stacks, NEW n \in Names, NEW v \in Value
    PROVE  /\ Rebound(n, v) \in Stacks /\ Len(Rebound(n, v)) = Len(scopes)
           /\ \A d \in 1 .. Len(scopes) - 1 : Rebound(n, v)[d] = scopes[d]
           /\ DOMAIN Rebound(n, v)[Len(scopes)] = DOMAIN Top \cup {n}
           /\ \A m \in DOMAIN Top \cup {n} :
                  Rebound(n, v)[Len(scopes)][m] = IF m = n THEN v ELSE Top[m]
<1> DEFINE len == Len(scopes)
           top == [m \in DOMAIN Top \cup {n} |-> IF m = n THEN v ELSE Top[m]]
           new == Rebound(n, v)
<1>1. /\ scopes \in Seq(Scope) /\ len \in Nat \ {0} /\ DOMAIN scopes = 1 .. len
      /\ \A d \in 1 .. len : scopes[d] \in Scope /\ IsFiniteSet(DOMAIN scopes[d])
  BY StackFacts DEF Stacks
<1>2. /\ Top \in Scope /\ DOMAIN Top \in SUBSET Names /\ IsFiniteSet(DOMAIN Top)
      /\ \A m \in DOMAIN Top : Top[m] \in Value
  <2>1. len \in 1 .. len
    BY <1>1
  <2> QED
    BY <2>1, StackFacts DEF Top
<1>3. top \in Scope
  <2>1. DOMAIN top \in SUBSET Names /\ top \in [DOMAIN top -> Value]
    BY <1>2
  <2> HIDE DEF top
  <2> QED
    BY <2>1, ScopeType
<1>4. IsFiniteSet(DOMAIN top)
  BY <1>2, FS_AddElement
<1>5. new = [scopes EXCEPT ![len] = top]
  BY DEF Rebound, Top
<1>6. DOMAIN top = DOMAIN Top \cup {n} /\ \A m \in DOMAIN Top \cup {n} : top[m] = IF m = n THEN v ELSE Top[m]
  OBVIOUS
<1> HIDE DEF top
<1>7. new \in Seq(Scope) /\ Len(new) = len /\ \A d \in 1 .. len : new[d] = IF d = len THEN top ELSE scopes[d]
  BY <1>1, <1>3, <1>5
<1> HIDE DEF new, len
<1>8. new \in Stacks
  <2>1. \A d \in 1 .. len : IsFiniteSet(DOMAIN new[d])
    BY <1>1, <1>4, <1>7
  <2>2. new # <<>> /\ DOMAIN new = 1 .. len
    <3>1. DOMAIN new = 1 .. Len(new)
      BY <1>7
    <3>2. 1 \in DOMAIN new
      BY <1>1, <1>7, <3>1
    <3> QED
      BY <1>7, <3>1, <3>2
  <2> QED
    BY <1>7, <2>1, <2>2 DEF Stacks
<1>9. new[len] = top /\ \A d \in 1 .. len - 1 : new[d] = scopes[d]
  <2>1. len \in 1 .. len /\ \A d \in 1 .. len - 1 : d \in 1 .. len /\ d # len
    BY <1>1
  <2> QED
    BY <1>7, <2>1
<1> QED
  BY <1>6, <1>7, <1>8, <1>9, Zenon DEF new, len

LEMMA ReboundView ==
    ASSUME scopes \in Stacks, NEW n \in Names, NEW v \in Value
    PROVE  LET rest == Without(BindingsOf(scopes), {<<Len(scopes), n>>}) IN
           /\ \A t \in Tiles : <<Len(scopes), n>> \notin rest[t]
           /\ BindingsOf(Rebound(n, v)) =
                 IF v \in Tiles THEN With(rest, v, <<Len(scopes), n>>) ELSE rest
<1> DEFINE len == Len(scopes)
           p == <<len, n>>
           view == BindingsOf(scopes)
           rest == Without(view, {p})
           stack == Rebound(n, v)
           new == BindingsOf(stack)
           want == IF v \in Tiles THEN With(rest, v, p) ELSE rest
<1>1. /\ len \in Nat \ {0} /\ DOMAIN scopes = 1 .. len
      /\ DOMAIN Top \in SUBSET Names
  BY StackFacts DEF Top
<1>2. /\ stack \in Stacks /\ Len(stack) = len
      /\ \A d \in 1 .. len - 1 : stack[d] = scopes[d]
      /\ DOMAIN stack[len] = DOMAIN Top \cup {n}
      /\ \A m \in DOMAIN Top \cup {n} : stack[len][m] = IF m = n THEN v ELSE Top[m]
  BY ReboundFacts
<1>3. DOMAIN stack = 1 .. len
  BY <1>2, StackFacts
<1> HIDE DEF stack
<1>b. \A t \in Tiles : \A d, m :
         <<d, m>> \in new[t] <=>
             d \in DOMAIN stack /\ m \in Names /\ m \in DOMAIN stack[d] /\ stack[d][m] = t
  BY DEF BindingsOf
<1>4. view \in [Tiles -> SUBSET (Nat \X Names)] /\ new \in [Tiles -> SUBSET (Nat \X Names)]
  BY <1>2, ViewType
<1>5. \A t \in Tiles : rest[t] = view[t] \ {p}
  BY DEF Without
<1>6. rest \in [Tiles -> SUBSET (Nat \X Names)]
  BY <1>4 DEF Without
<1> HIDE DEF view, new, rest, len
<1>7. \A t \in Tiles : p \notin rest[t]
  BY <1>5
<1>8. want \in [Tiles -> SUBSET (Nat \X Names)]
  BY <1>1, <1>6 DEF With
<1>9. ASSUME NEW t \in Tiles, NEW d \in Nat, NEW m \in Names
      PROVE  <<d, m>> \in want[t] <=> IF d = len /\ m = n THEN v = t ELSE <<d, m>> \in view[t]
  <2>1. <<d, m>> \in rest[t] <=> <<d, m>> \in view[t] /\ ~ (d = len /\ m = n)
    BY <1>5
  <2>2. CASE v \in Tiles
    <3>1. want[t] = IF t = v THEN rest[t] \cup {p} ELSE rest[t]
      BY <1>6, <2>2 DEF With
    <3> QED
      BY <2>1, <3>1
  <2>3. CASE v \notin Tiles
    BY <2>1, <2>3
  <2> QED
    BY <2>2, <2>3
<1> HIDE DEF want
<1>10. ASSUME NEW t \in Tiles, NEW d \in Nat, NEW m \in Names
       PROVE  <<d, m>> \in new[t] <=> <<d, m>> \in want[t]
  <2>1. <<d, m>> \in new[t] <=> d \in 1 .. len /\ m \in DOMAIN stack[d] /\ stack[d][m] = t
    BY <1>3, <1>b, Zenon
  <2>2. <<d, m>> \in view[t] <=> d \in 1 .. len /\ m \in DOMAIN scopes[d] /\ scopes[d][m] = t
    BY <1>1, BindingsFacts DEF view
  <2>3. CASE d = len
    <3>1. len \in 1 .. len /\ scopes[len] = Top
      BY <1>1 DEF Top, len
    <3> QED
      BY <1>2, <1>9, <2>1, <2>2, <2>3, <3>1
  <2>4. CASE d # len
    <3>1. ASSUME d \in 1 .. len PROVE stack[d] = scopes[d]
      <4>1. d \in 1 .. len - 1
        BY <1>1, <2>4, <3>1
      <4> QED
        BY <1>2, <4>1
    <3> QED
      BY <1>9, <2>1, <2>2, <2>4, <3>1
  <2> QED
    BY <2>3, <2>4
<1>11. new = want
  BY <1>4, <1>8, <1>10, SameView
<1> QED
  BY <1>7, <1>11 DEF want, new, rest, view, stack, len

(* Overwriting a name takes its binding out of the books, if it was one of *)
(* a tile.                                                                 *)
LEMMA OverwrittenMatches ==
    ASSUME scopes \in Stacks, BindingsOf(scopes) \in Views, Matches(books, BindingsOf(scopes)),
           NEW n \in Names
    PROVE  /\ Matches(Overwritten(n), Without(BindingsOf(scopes), {<<Len(scopes), n>>}))
           /\ Overwritten(n).used <= books.used
           /\ Overwritten(n).uncharged \subseteq books.uncharged
<1> DEFINE view == BindingsOf(scopes)
           p == <<Len(scopes), n>>
<1>1. Len(scopes) \in DOMAIN scopes
  BY StackFacts
<1>2. \A t \in Tiles : p \in view[t] <=> n \in DOMAIN Top /\ Top[n] = t
  BY <1>1, BindingsFacts DEF Top
<1>3. CASE n \in DOMAIN Top /\ Top[n] \in Tiles
  <2>1. Overwritten(n) = Release(books, Top[n]) /\ p \in view[Top[n]]
    BY <1>2, <1>3 DEF Overwritten
  <2> HIDE DEF view, p
  <2> QED
    BY <1>3, <2>1, ReleaseMatches DEF view, p
<1>4. CASE ~ (n \in DOMAIN Top /\ Top[n] \in Tiles)
  <2>1. Overwritten(n) = books
    BY <1>4 DEF Overwritten
  <2>2. \A t \in Tiles : view[t] \ {p} = view[t]
    BY <1>2, <1>4
  <2>3. Without(view, {p}) = view
    <3>1. view \in [Tiles -> SUBSET (Nat \X Names)]
      BY ViewType
    <3> HIDE DEF view, p
    <3> QED
      BY <2>2, <3>1 DEF Without
  <2>4. books.used <= books.used
    <3>1. books.used \in Int
      BY DEF Matches, Books
    <3> QED
      BY <3>1
  <2> QED
    BY <2>1, <2>3, <2>4
<1> QED
  BY <1>3, <1>4

(* pop_scope releases the tiles of a scope one after the other, in some    *)
(* order: it[s] are the books when those of the names s are released.      *)
AnyBooks == [refcount : [Tiles -> Int], uncharged : SUBSET Tiles, used : Int]
ReleaseOne(scope, n, b) == IF scope[n] \in Tiles THEN Release(b, scope[n]) ELSE b
IsRelease(it, scope) ==
    /\ it[{}] = books
    /\ it[DOMAIN scope] = ReleaseAll(scope)
    /\ \A s \in SUBSET DOMAIN scope : s # {} =>
          \E n \in s : it[s] = ReleaseOne(scope, n, it[s \ {n}])

LEMMA ReleaseType ==
    ASSUME NEW b \in AnyBooks, NEW t \in Tiles
    PROVE  Release(b, t) \in AnyBooks
<1>1. Size[t] \in Int /\ b.refcount \in [Tiles -> Int] /\ b.uncharged \in SUBSET Tiles /\ b.used \in Int
  BY SizeAssumption DEF AnyBooks
<1>2. [b.refcount EXCEPT ![t] = @ - 1] \in [Tiles -> Int]
  BY <1>1
<1> QED
  BY <1>1, <1>2 DEF Release, AnyBooks

LEMMA ReleaseAllSteps ==
    ASSUME books \in Books, NEW scope, IsFiniteSet(DOMAIN scope)
    PROVE  \E it : IsRelease(it, scope)
<1> DEFINE D == DOMAIN scope
           Eqn(it) == it = [s \in SUBSET D |->
               IF s = {} THEN books ELSE ReleaseOne(scope, Some(s), it[s \ {Some(s)}])]
           iter == CHOOSE it : Eqn(it)
           step == [p \in D \X AnyBooks |-> ReleaseOne(scope, p[1], p[2])]
<1>1. books \in AnyBooks
  BY DEF Books, AnyBooks
<1>2. step \in [D \X AnyBooks -> AnyBooks]
  <2>1. ASSUME NEW n \in D, NEW b \in AnyBooks PROVE ReleaseOne(scope, n, b) \in AnyBooks
    BY ReleaseType DEF ReleaseOne
  <2> QED
    BY <2>1
<1>3. \A p \in D \X AnyBooks : step[p] = ReleaseOne(scope, p[1], p[2])
  OBVIOUS
<1>4. ReleaseAll(scope) = iter[D]
  BY DEF ReleaseAll, FoldSet, MapThenFoldSet, ReleaseOne, Some
<1> HIDE DEF step
<1>5. \E it : Eqn(it)
  <2>1. PICK it \in [SUBSET D -> AnyBooks] : IsSetFold(it, SUBSET D, books, step)
    BY <1>1, <1>2, SetFoldExists
  <2>2. ASSUME NEW s \in SUBSET D, s # {}
        PROVE  step[<<Some(s), it[s \ {Some(s)}]>>] = ReleaseOne(scope, Some(s), it[s \ {Some(s)}])
    <3>1. Some(s) \in D /\ it[s \ {Some(s)}] \in AnyBooks
      BY <2>2 DEF Some
    <3>2. <<Some(s), it[s \ {Some(s)}]>> \in D \X AnyBooks
      BY <3>1
    <3> QED
      BY <1>3, <3>2
  <2>3. Eqn(it)
    BY <2>1, <2>2 DEF IsSetFold
  <2> QED
    BY <2>3
<1> HIDE DEF Eqn
<1>6. Eqn(iter)
  BY <1>5
<1> HIDE DEF iter
<1>7. \A s \in SUBSET D : s # {} => Some(s) \in s
  BY DEF Some
<1>8. iter[{}] = books
  BY <1>6 DEF Eqn
<1>9. ASSUME NEW s \in SUBSET D, s # {}
      PROVE  iter[s] = ReleaseOne(scope, Some(s), iter[s \ {Some(s)}])
  BY <1>6, <1>9 DEF Eqn
<1>10. IsRelease(iter, scope)
  BY <1>4, <1>7, <1>8, <1>9 DEF IsRelease
<1> QED
  BY <1>10

LEMMA ReleaseAllMatches ==
    ASSUME scopes \in Stacks, BindingsOf(scopes) \in Views, Matches(books, BindingsOf(scopes))
    PROVE  /\ Matches(ReleaseAll(Top),
                      Without(BindingsOf(scopes), {Len(scopes)} \X DOMAIN Top))
           /\ ReleaseAll(Top).used <= books.used
           /\ ReleaseAll(Top).uncharged \subseteq books.uncharged
<1> DEFINE view == BindingsOf(scopes)
           len == Len(scopes)
           left(s) == Without(view, {len} \X s)
<1>1. /\ books \in Books /\ IsFiniteSet(DOMAIN Top) /\ DOMAIN Top \in SUBSET Names
      /\ len \in DOMAIN scopes
  BY StackFacts DEF Matches, Top
<1>2. PICK it : IsRelease(it, Top)
  BY <1>1, ReleaseAllSteps
<1>3. \A n \in DOMAIN Top, t \in Tiles : <<len, n>> \in view[t] <=> Top[n] = t
  BY <1>1, BindingsFacts DEF Top
<1>4. view \in Views /\ view \in [Tiles -> SUBSET (Nat \X Names)] /\ Matches(books, view)
  BY DEF Views
<1> HIDE DEF view, len
<1> DEFINE Good(s) == /\ Matches(it[s], left(s))
                      /\ it[s].used <= books.used
                      /\ it[s].uncharged \subseteq books.uncharged
           T == {s \in SUBSET DOMAIN Top : ~Good(s)}
<1>5. ASSUME NEW s \in SUBSET DOMAIN Top, NEW n \in s
      PROVE  left(s) = Without(left(s \ {n}), {<<len, n>>})
  <2>1. \A t \in Tiles : view[t] \ ({len} \X s) = (view[t] \ ({len} \X (s \ {n}))) \ {<<len, n>>}
    <3>1. {len} \X s = ({len} \X (s \ {n})) \cup {<<len, n>>}
      OBVIOUS
    <3> QED
      BY <3>1
  <2> QED
    BY <2>1 DEF Without
<1>6. ASSUME NEW s \in SUBSET DOMAIN Top PROVE left(s) \in Views
  BY <1>4, WithoutFacts
<1>7. Good({})
  <2>1. left({}) = view
    <3>1. {len} \X {} = {}
      OBVIOUS
    <3> QED
      BY <1>4, <3>1 DEF Without
  <2>2. it[{}] = books
    BY <1>2 DEF IsRelease
  <2>3. books.used <= books.used
    <3>1. books.used \in Int
      BY <1>1 DEF Books
    <3> QED
      BY <3>1
  <2> HIDE DEF left
  <2> QED
    BY <1>4, <2>1, <2>2, <2>3
<1>8. ASSUME NEW s \in SUBSET DOMAIN Top, s # {}, \A n \in s : Good(s \ {n})
      PROVE  Good(s)
  <2>1. PICK n \in s : it[s] = ReleaseOne(Top, n, it[s \ {n}])
    BY <1>2, <1>8 DEF IsRelease
  <2> DEFINE b == it[s \ {n}]
             rest == left(s \ {n})
  <2>2. Matches(b, rest) /\ b.used <= books.used /\ b.uncharged \subseteq books.uncharged
    BY <1>8
  <2>3. left(s) = Without(rest, {<<len, n>>}) /\ rest \in Views
    BY <1>5, <1>6
  <2>4. \A t \in Tiles : <<len, n>> \in rest[t] <=> Top[n] = t
    BY <1>3 DEF Without
  <2>5. b.used \in Int /\ books.used \in Int
    BY <1>1, <2>2 DEF Matches, Books
  <2> HIDE DEF left, b, rest
  <2>6. CASE Top[n] \in Tiles
    <3>1. it[s] = Release(b, Top[n]) /\ <<len, n>> \in rest[Top[n]]
      BY <2>1, <2>4, <2>6 DEF ReleaseOne, b
    <3>2. /\ Matches(it[s], left(s))
          /\ it[s].used <= b.used
          /\ it[s].uncharged \subseteq b.uncharged
      BY <2>2, <2>3, <2>6, <3>1, ReleaseMatches
    <3>3. it[s].used \in Int
      BY <3>2 DEF Matches, Books
    <3> QED
      BY <2>2, <2>5, <3>2, <3>3
  <2>7. CASE Top[n] \notin Tiles
    <3>1. it[s] = b
      BY <2>1, <2>7 DEF ReleaseOne, b
    <3>2. \A t \in Tiles : rest[t] \ {<<len, n>>} = rest[t]
      BY <2>4, <2>7
    <3>3. Without(rest, {<<len, n>>}) = rest
      <4>1. rest \in [Tiles -> SUBSET (Nat \X Names)]
        BY <2>3 DEF Views
      <4> QED
        BY <3>2, <4>1 DEF Without
    <3> QED
      BY <2>2, <2>3, <3>1, <3>3
  <2> QED
    BY <2>6, <2>7
<1> HIDE DEF Good
<1>9. T = {}
  <2>1. ASSUME NEW s \in T PROVE \E n \in s : s \ {n} \in T
    <3>1. s \in SUBSET DOMAIN Top /\ ~Good(s)
      OBVIOUS
    <3>2. s # {}
      BY <1>7, <3>1
    <3>3. PICK n \in s : ~Good(s \ {n})
      BY <1>8, <3>1, <3>2
    <3> QED
      BY <3>1, <3>3
  <2>2. T \subseteq SUBSET DOMAIN Top
    OBVIOUS
  <2> HIDE DEF T
  <2> QED
    BY <1>1, <2>1, <2>2, NoSetDescent
<1>10. Good(DOMAIN Top)
  BY <1>9
<1>11. it[DOMAIN Top] = ReleaseAll(Top)
  BY <1>2 DEF IsRelease
<1> QED
  BY <1>10, <1>11 DEF Good, left, view, len

(* Where no release would raise, the counts stay natural numbers, whether  *)
(* or not the books match: an exception may be on its way.                 *)
LEMMA ReleaseAllType ==
    ASSUME books \in Books, NEW scope, IsFiniteSet(DOMAIN scope), ~ReleaseRaises(scope)
    PROVE  ReleaseAll(scope) \in Books
<1> DEFINE names(s, t) == {n \in s : scope[n] = t}
           count(s, t) == IF Dedup THEN books.refcount[t] - Cardinality(names(s, t))
                          ELSE books.refcount[t]
<1>1. PICK it : IsRelease(it, scope)
  BY ReleaseAllSteps
<1>2. ASSUME NEW s \in SUBSET DOMAIN scope, NEW t
      PROVE  IsFiniteSet(names(s, t)) /\ Cardinality(names(s, t)) \in Nat
  <2>1. names(s, t) \in SUBSET DOMAIN scope
    OBVIOUS
  <2>2. IsFiniteSet(names(s, t))
    BY <2>1, FS_Subset
  <2> QED
    BY <2>2, FS_CardinalityType
<1> DEFINE Good(s) == /\ it[s] \in AnyBooks
                      /\ \A t \in Tiles : it[s].refcount[t] = count(s, t)
           T == {s \in SUBSET DOMAIN scope : ~Good(s)}
<1>4. books.refcount \in [Tiles -> Nat] /\ books \in AnyBooks
  BY DEF Books, AnyBooks
<1>5. Good({})
  <2>1. it[{}] = books
    BY <1>1 DEF IsRelease
  <2>2. \A t : names({}, t) = {}
    OBVIOUS
  <2>3. \A t \in Tiles : count({}, t) = books.refcount[t]
    <3>1. \A t : Cardinality(names({}, t)) = 0
      BY <2>2, FS_EmptySet
    <3> HIDE DEF names
    <3> QED
      BY <1>4, <3>1
  <2> HIDE DEF count
  <2> QED
    BY <1>4, <2>1, <2>3
<1>6. ASSUME NEW s \in SUBSET DOMAIN scope, s # {}, \A n \in s : Good(s \ {n})
      PROVE  Good(s)
  <2>1. PICK n \in s : it[s] = ReleaseOne(scope, n, it[s \ {n}])
    BY <1>1, <1>6 DEF IsRelease
  <2> DEFINE b == it[s \ {n}]
  <2>2. b \in AnyBooks /\ \A t \in Tiles : b.refcount[t] = count(s \ {n}, t)
    BY <1>6
  <2>3. it[s] \in AnyBooks
    BY <2>1, <2>2, ReleaseType DEF ReleaseOne
  <2>4. b.refcount \in [Tiles -> Int]
    BY <2>2 DEF AnyBooks
  <2>5. \A t \in Tiles : it[s].refcount[t] =
            IF Dedup /\ scope[n] = t THEN b.refcount[t] - 1 ELSE b.refcount[t]
    <3> HIDE DEF count
    <3>1. CASE scope[n] \in Tiles
      <4>1. it[s].refcount = IF Dedup THEN [b.refcount EXCEPT ![scope[n]] = @ - 1] ELSE b.refcount
        BY <2>1, <3>1 DEF ReleaseOne, Release
      <4> HIDE DEF b
      <4> QED
        BY <2>4, <3>1, <4>1
    <3>2. CASE scope[n] \notin Tiles
      BY <2>1, <3>2 DEF ReleaseOne
    <3> QED
      BY <3>1, <3>2
  <2>6. ASSUME NEW t \in Tiles
        PROVE  count(s, t) = IF Dedup /\ scope[n] = t THEN count(s \ {n}, t) - 1 ELSE count(s \ {n}, t)
    <3>1. Cardinality(names(s, t)) \in Nat
      BY <1>2, Zenon
    <3>2. Cardinality(names(s \ {n}, t)) =
             IF scope[n] = t THEN Cardinality(names(s, t)) - 1 ELSE Cardinality(names(s, t))
      <4>1. names(s \ {n}, t) = names(s, t) \ {n} /\ (n \in names(s, t) <=> scope[n] = t)
        OBVIOUS
      <4>2. IsFiniteSet(names(s, t))
        BY <1>2
      <4> HIDE DEF names
      <4> QED
        BY <4>1, <4>2, FS_RemoveElement
    <3>3. books.refcount[t] \in Nat
      BY <1>4
    <3> HIDE DEF names
    <3> QED
      BY <3>1, <3>2, <3>3
  <2> HIDE DEF count, b
  <2> QED
    BY <2>2, <2>3, <2>5, <2>6
<1> HIDE DEF Good
<1>7. T = {}
  <2>1. ASSUME NEW s \in T PROVE \E n \in s : s \ {n} \in T
    <3>1. s \in SUBSET DOMAIN scope /\ ~Good(s)
      OBVIOUS
    <3>2. s # {}
      BY <1>5, <3>1
    <3>3. PICK n \in s : ~Good(s \ {n})
      BY <1>6, <3>1, <3>2
    <3> QED
      BY <3>1, <3>3
  <2>2. T \subseteq SUBSET DOMAIN scope
    OBVIOUS
  <2> HIDE DEF T
  <2> QED
    BY <2>1, <2>2, NoSetDescent
<1>8. it[DOMAIN scope] = ReleaseAll(scope) /\ Good(DOMAIN scope)
  BY <1>1, <1>7 DEF IsRelease
<1> DEFINE b == ReleaseAll(scope)
<1>9. b \in AnyBooks /\ \A t \in Tiles : b.refcount[t] = count(DOMAIN scope, t)
  BY <1>8 DEF Good
<1>10. ASSUME NEW t \in Tiles PROVE count(DOMAIN scope, t) \in Nat
  <2>1. Cardinality(names(DOMAIN scope, t)) \in Nat /\ books.refcount[t] \in Nat
    BY <1>2, <1>4
  <2>2. Dedup => ~ (books.refcount[t] < Cardinality(names(DOMAIN scope, t)))
    BY DEF ReleaseRaises
  <2> HIDE DEF names
  <2> QED
    BY <2>1, <2>2
<1> HIDE DEF count, b
<1>11. b.refcount \in [Tiles -> Nat]
  BY <1>9, <1>10 DEF AnyBooks
<1>12. b \in Books
  BY <1>9, <1>11 DEF AnyBooks, Books
<1> QED
  BY <1>12 DEF b

(* Books that match give every tile of a scope a count to release.         *)
LEMMA MatchingBooksRelease ==
    ASSUME scopes \in Stacks, BindingsOf(scopes) \in Views, Matches(books, BindingsOf(scopes))
    PROVE  ~ReleaseRaises(Top)
<1> SUFFICES ASSUME Dedup, NEW t \in Tiles,
                    books.refcount[t] < Cardinality({n \in DOMAIN Top : Top[n] = t})
             PROVE  FALSE
  BY DEF ReleaseRaises
<1> DEFINE names == {n \in DOMAIN Top : Top[n] = t}
           len == Len(scopes)
           held_by == BindingsOf(scopes)[t]
           f == [n \in names |-> <<len, n>>]
<1>1. len \in DOMAIN scopes /\ DOMAIN Top \in SUBSET Names
  BY StackFacts DEF Top
<1>2. \A n \in names : <<len, n>> \in held_by
  BY <1>1, BindingsFacts DEF Top
<1>3. IsFiniteSet(held_by) /\ books.refcount[t] = Cardinality(held_by)
  BY DEF Views, Matches
<1> HIDE DEF held_by, names
<1>4. f \in Injection(names, held_by)
  BY <1>2 DEF Injection, IsInjective
<1>5. Cardinality(names) <= Cardinality(held_by) /\ IsFiniteSet(names)
  <2> HIDE DEF f
  <2> QED
    BY <1>3, <1>4, FS_Injection
<1>6. Cardinality(names) \in Nat /\ Cardinality(held_by) \in Nat
  BY <1>3, <1>5, FS_CardinalityType
<1>7. books.refcount[t] < Cardinality(names)
  BY DEF names
<1> QED
  BY <1>3, <1>5, <1>6, <1>7

LEMMA EmptyFacts ==
    /\ <<EmptyScope>> \in Stacks /\ Len(<<EmptyScope>>) = 1
    /\ BindingsOf(<<EmptyScope>>) \in Views
    /\ Matches(EmptyBooks, BindingsOf(<<EmptyScope>>))
    /\ EmptyBooks \in Books
<1> DEFINE view == BindingsOf(<<EmptyScope>>)
<1>1. EmptyScope \in Scope /\ DOMAIN EmptyScope = {}
  <2>1. DOMAIN EmptyScope = {} /\ EmptyScope \in [{} -> Value]
    BY DEF EmptyScope
  <2> QED
    BY <2>1, ScopeType
<1>2. /\ <<EmptyScope>> \in Seq(Scope) /\ Len(<<EmptyScope>>) = 1 /\ <<EmptyScope>> # <<>>
      /\ DOMAIN <<EmptyScope>> = {1} /\ <<EmptyScope>>[1] = EmptyScope
  BY <1>1
<1>3. <<EmptyScope>> \in Stacks
  BY <1>1, <1>2, FS_EmptySet DEF Stacks
<1>4. \A t \in Tiles : view[t] = {}
  BY <1>1, <1>2 DEF BindingsOf
<1>5. view \in [Tiles -> SUBSET (Nat \X Names)]
  BY <1>3, ViewType
<1> HIDE DEF view
<1>6. Holders(view) = {}
  BY <1>4 DEF Holders
<1>7. view \in Views
  BY <1>4, <1>5, <1>6, FS_EmptySet DEF Views
<1>8. EmptyBooks \in Books
  BY DEF EmptyBooks, Books
<1>9. BytesOf({}) = 0 /\ Cardinality({}) = 0
  BY FS_EmptySet, BytesFacts
<1>10. /\ EmptyBooks.uncharged = {} /\ EmptyBooks.used = 0
       /\ \A t \in Tiles : EmptyBooks.refcount[t] = 0
  BY DEF EmptyBooks
<1>11. Matches(EmptyBooks, view)
  BY <1>4, <1>6, <1>8, <1>9, <1>10 DEF Matches
<1> QED
  BY <1>2, <1>3, <1>7, <1>8, <1>11 DEF view

LEMMA PushFacts ==
    ASSUME scopes \in Stacks
    PROVE  LET new == Append(scopes, EmptyScope) IN
           /\ new \in Stacks /\ Len(new) = Len(scopes) + 1
           /\ \A d \in 1 .. Len(scopes) : new[d] = scopes[d]
           /\ BindingsOf(new) = BindingsOf(scopes)
<1> DEFINE new == Append(scopes, EmptyScope)
           len == Len(scopes)
<1>1. EmptyScope \in Scope /\ DOMAIN EmptyScope = {}
  <2>1. DOMAIN EmptyScope = {} /\ EmptyScope \in [{} -> Value]
    BY DEF EmptyScope
  <2> QED
    BY <2>1, ScopeType
<1>2. /\ scopes \in Seq(Scope) /\ len \in Nat \ {0} /\ DOMAIN scopes = 1 .. len
      /\ \A d \in 1 .. len : IsFiniteSet(DOMAIN scopes[d])
  BY StackFacts DEF Stacks
<1>3. /\ new \in Seq(Scope) /\ Len(new) = len + 1 /\ new[len + 1] = EmptyScope
      /\ \A d \in 1 .. len : new[d] = scopes[d]
  BY <1>1, <1>2
<1>4. DOMAIN new = 1 .. len + 1
  BY <1>3
<1>5. new # <<>>
  BY <1>1, <1>2
<1> HIDE DEF new, len
<1>6. \A d \in 1 .. len + 1 : d \in 1 .. len \/ d = len + 1
  BY <1>2
<1>7. new \in Stacks
  <2>1. \A d \in DOMAIN new : IsFiniteSet(DOMAIN new[d])
    BY <1>1, <1>2, <1>3, <1>4, <1>6, FS_EmptySet
  <2> QED
    BY <1>3, <1>5, <2>1 DEF Stacks
<1>8. BindingsOf(new) = BindingsOf(scopes)
  <2> DEFINE v == BindingsOf(new)
             w == BindingsOf(scopes)
  <2>1. v \in [Tiles -> SUBSET (Nat \X Names)] /\ w \in [Tiles -> SUBSET (Nat \X Names)]
    BY <1>7, ViewType
  <2>2. \A t \in Tiles : \A d, n : <<d, n>> \in v[t] <=>
            d \in DOMAIN new /\ n \in Names /\ n \in DOMAIN new[d] /\ new[d][n] = t
    BY DEF BindingsOf
  <2>3. \A t \in Tiles : \A d, n : <<d, n>> \in w[t] <=>
            d \in DOMAIN scopes /\ n \in Names /\ n \in DOMAIN scopes[d] /\ scopes[d][n] = t
    BY DEF BindingsOf
  <2> HIDE DEF v, w
  <2>4. \A d \in 1 .. len : d \in 1 .. len + 1
    BY <1>2
  <2>5. ASSUME NEW t \in Tiles, NEW d \in Nat, NEW n \in Names
        PROVE  <<d, n>> \in v[t] <=> <<d, n>> \in w[t]
    <3>1. CASE d \in 1 .. len
      BY <1>2, <1>3, <1>4, <2>2, <2>3, <2>4, <3>1
    <3>2. CASE d \notin 1 .. len
      <4>1. <<d, n>> \notin w[t]
        BY <1>2, <2>3, <3>2
      <4>2. d \in DOMAIN new => DOMAIN new[d] = {}
        BY <1>1, <1>3, <1>4, <1>6, <3>2
      <4> QED
        BY <2>2, <4>1, <4>2
    <3> QED
      BY <3>1, <3>2
  <2>6. v = w
    BY <2>1, <2>5, SameView
  <2> QED
    BY <2>6 DEF v, w
<1> QED
  BY <1>3, <1>7, <1>8 DEF new, len

LEMMA PopFacts ==
    ASSUME scopes \in Stacks, Len(scopes) > 1
    PROVE  LET new == Front(scopes) IN
           /\ new \in Stacks /\ Len(new) = Len(scopes) - 1
           /\ \A d \in 1 .. Len(scopes) - 1 : new[d] = scopes[d]
           /\ BindingsOf(new) = Without(BindingsOf(scopes), {Len(scopes)} \X DOMAIN Top)
<1> DEFINE new == Front(scopes)
           len == Len(scopes)
<1>1. /\ scopes \in Seq(Scope) /\ len \in Nat \ {0} /\ DOMAIN scopes = 1 .. len
      /\ \A d \in 1 .. len : IsFiniteSet(DOMAIN scopes[d])
  BY StackFacts DEF Stacks
<1>2. /\ new \in Seq(Scope) /\ Len(new) = len - 1
      /\ \A d \in 1 .. len - 1 : new[d] = scopes[d]
  BY <1>1 DEF Front
<1>3. DOMAIN new = 1 .. Len(new)
  BY <1>2
<1>4. Top = scopes[len] /\ len > 1
  BY DEF Top
<1> HIDE DEF new, len
<1>5. DOMAIN new = 1 .. len - 1 /\ len - 1 \in Nat \ {0} /\ \A d \in 1 .. len - 1 : d \in 1 .. len
  BY <1>1, <1>2, <1>3, <1>4
<1>6. new \in Stacks
  <2>1. new # <<>>
    <3>1. Len(new) # 0
      BY <1>1, <1>2, <1>4
    <3> QED
      BY <3>1
  <2>2. \A d \in DOMAIN new : IsFiniteSet(DOMAIN new[d])
    BY <1>1, <1>2, <1>5
  <2> QED
    BY <1>2, <2>1, <2>2 DEF Stacks
<1>7. BindingsOf(new) = Without(BindingsOf(scopes), {len} \X DOMAIN Top)
  <2> DEFINE v == BindingsOf(new)
             w == BindingsOf(scopes)
             rest == Without(w, {len} \X DOMAIN Top)
  <2>1. v \in [Tiles -> SUBSET (Nat \X Names)] /\ w \in [Tiles -> SUBSET (Nat \X Names)]
    BY <1>6, ViewType
  <2>2. \A t \in Tiles : \A d, n : <<d, n>> \in v[t] <=>
            d \in DOMAIN new /\ n \in Names /\ n \in DOMAIN new[d] /\ new[d][n] = t
    BY DEF BindingsOf
  <2>3. \A t \in Tiles : \A d, n : <<d, n>> \in w[t] <=>
            d \in DOMAIN scopes /\ n \in Names /\ n \in DOMAIN scopes[d] /\ scopes[d][n] = t
    BY DEF BindingsOf
  <2> HIDE DEF v, w
  <2>4. rest \in [Tiles -> SUBSET (Nat \X Names)]
    BY <2>1 DEF Without
  <2>5. \A t \in Tiles : \A d, n : <<d, n>> \in rest[t] <=>
            <<d, n>> \in w[t] /\ ~ (d = len /\ n \in DOMAIN Top)
    BY DEF Without
  <2> HIDE DEF rest
  <2>6. ASSUME NEW t \in Tiles, NEW d \in Nat, NEW n \in Names
        PROVE  <<d, n>> \in v[t] <=> <<d, n>> \in rest[t]
    <3>1. d \in 1 .. len - 1 <=> d \in 1 .. len /\ d # len
      BY <1>1
    <3> QED
      BY <1>1, <1>2, <1>4, <1>5, <2>2, <2>3, <2>5, <3>1
  <2>7. v = rest
    BY <2>1, <2>4, <2>6, SameView
  <2> QED
    BY <2>7 DEF v, w, rest
<1> QED
  BY <1>2, <1>6, <1>7 DEF new, len

(* Consuming a name on its last use takes it out of the topmost scope.     *)
LEMMA ConsumeFacts ==
    ASSUME scopes \in Stacks, NEW n \in DOMAIN Top
    PROVE  LET new == [scopes EXCEPT ![Len(scopes)] = [m \in DOMAIN @ \ {n} |-> @[m]]] IN
           /\ new \in Stacks /\ Len(new) = Len(scopes)
           /\ \A d \in 1 .. Len(scopes) - 1 : new[d] = scopes[d]
           /\ BindingsOf(new) = Without(BindingsOf(scopes), {<<Len(scopes), n>>})
<1> DEFINE len == Len(scopes)
           top == [m \in DOMAIN Top \ {n} |-> Top[m]]
           new == [scopes EXCEPT ![len] = [m \in DOMAIN @ \ {n} |-> @[m]]]
<1>1. /\ scopes \in Seq(Scope) /\ len \in Nat \ {0} /\ DOMAIN scopes = 1 .. len
      /\ \A d \in 1 .. len : scopes[d] \in Scope /\ IsFiniteSet(DOMAIN scopes[d])
      /\ Top = scopes[len]
  BY StackFacts DEF Stacks, Top
<1>2. /\ Top \in Scope /\ DOMAIN Top \in SUBSET Names /\ IsFiniteSet(DOMAIN Top)
      /\ \A m \in DOMAIN Top : Top[m] \in Value
  <2>1. len \in 1 .. len
    BY <1>1
  <2> QED
    BY <2>1, StackFacts DEF Top
<1>3. top \in Scope
  <2>1. DOMAIN top \in SUBSET Names /\ top \in [DOMAIN top -> Value]
    BY <1>2
  <2> HIDE DEF top
  <2> QED
    BY <2>1, ScopeType
<1>4. IsFiniteSet(DOMAIN top)
  BY <1>2, FS_RemoveElement
<1>5. new = [scopes EXCEPT ![len] = top]
  BY DEF Top
<1>6. DOMAIN top = DOMAIN Top \ {n} /\ \A m \in DOMAIN Top \ {n} : top[m] = Top[m]
  OBVIOUS
<1> HIDE DEF top
<1>7. new \in Seq(Scope) /\ Len(new) = len /\ \A d \in 1 .. len : new[d] = IF d = len THEN top ELSE scopes[d]
  BY <1>1, <1>3, <1>5
<1> HIDE DEF new, len
<1>8. DOMAIN new = 1 .. len /\ len \in 1 .. len
  <2>1. DOMAIN new = 1 .. Len(new)
    BY <1>7
  <2> QED
    BY <1>1, <1>7, <2>1
<1>9. new \in Stacks
  <2>1. \A d \in 1 .. len : IsFiniteSet(DOMAIN new[d])
    BY <1>1, <1>4, <1>7
  <2>2. new # <<>>
    BY <1>8
  <2> QED
    BY <1>7, <1>8, <2>1, <2>2 DEF Stacks
<1>10. BindingsOf(new) = Without(BindingsOf(scopes), {<<len, n>>})
  <2> DEFINE v == BindingsOf(new)
             w == BindingsOf(scopes)
             rest == Without(w, {<<len, n>>})
  <2>1. v \in [Tiles -> SUBSET (Nat \X Names)] /\ w \in [Tiles -> SUBSET (Nat \X Names)]
    BY <1>9, ViewType
  <2>2. \A t \in Tiles : \A d, m : <<d, m>> \in v[t] <=>
            d \in DOMAIN new /\ m \in Names /\ m \in DOMAIN new[d] /\ new[d][m] = t
    BY DEF BindingsOf
  <2>3. \A t \in Tiles : \A d, m : <<d, m>> \in w[t] <=>
            d \in DOMAIN scopes /\ m \in Names /\ m \in DOMAIN scopes[d] /\ scopes[d][m] = t
    BY DEF BindingsOf
  <2> HIDE DEF v, w
  <2>4. rest \in [Tiles -> SUBSET (Nat \X Names)]
    BY <2>1 DEF Without
  <2>5. \A t \in Tiles : \A d, m : <<d, m>> \in rest[t] <=> <<d, m>> \in w[t] /\ ~ (d = len /\ m = n)
    BY DEF Without
  <2> HIDE DEF rest
  <2>6. ASSUME NEW t \in Tiles, NEW d \in Nat, NEW m \in Names
        PROVE  <<d, m>> \in v[t] <=> <<d, m>> \in rest[t]
    <3>1. CASE d = len
      BY <1>1, <1>6, <1>7, <1>8, <2>2, <2>3, <2>5, <3>1
    <3>2. CASE d # len
      BY <1>1, <1>7, <1>8, <2>2, <2>3, <2>5, <3>2
    <3> QED
      BY <3>1, <3>2
  <2>7. v = rest
    BY <2>1, <2>4, <2>6, SameView
  <2> QED
    BY <2>7 DEF v, w, rest
<1>11. \A d \in 1 .. len - 1 : new[d] = scopes[d]
  BY <1>1, <1>7
<1> QED
  BY <1>7, <1>9, <1>10, <1>11 DEF new, len

----------------------------------------------------------------------------
(***************************************************************************)
(* The inductive invariant.  While no exception is on its way the books    *)
(* match the scopes, no charge exceeds the capacity, and the watermarks    *)
(* rise with the scopes.                                                   *)
(***************************************************************************)
BooksAreSound ==
    /\ BindingsOf(scopes) \in Views
    /\ Matches(books, BindingsOf(scopes))
    /\ books.uncharged \subseteq literal
    /\ books.used <= Capacity

MarksRise ==
    /\ \A i \in 1 .. Len(marks) : marks[i] <= nextPtr
    /\ \A i, j \in 1 .. Len(marks) : i <= j => marks[i] <= marks[j]
    /\ \A r \in staged : r.depth <= Len(scopes)

LxInv ==
    /\ TypeOK
    /\ scopes \in Stacks
    /\ error # "KeyError" => Len(marks) = Len(scopes) - 1
    /\ error = "none" => BooksAreSound /\ MarksRise /\ StagedRangesNest

(* A tile is bound exactly when the view has a binding of it. *)
LEMMA BoundFacts ==
    ASSUME scopes \in Stacks
    PROVE  /\ \A t \in Tiles : Bound(t) <=> t \in Holders(BindingsOf(scopes))
           /\ BoundTiles = Holders(BindingsOf(scopes))
<1>1. \A d \in DOMAIN scopes : DOMAIN scopes[d] \in SUBSET Names
  BY StackFacts
<1>2. ASSUME NEW t \in Tiles PROVE Bound(t) <=> t \in Holders(BindingsOf(scopes))
  <2>1. ASSUME Bound(t) PROVE t \in Holders(BindingsOf(scopes))
    <3>1. PICK d \in DOMAIN scopes : \E n \in DOMAIN scopes[d] : scopes[d][n] = t
      BY <2>1 DEF Bound
    <3>2. PICK n \in DOMAIN scopes[d] : scopes[d][n] = t
      BY <3>1
    <3>3. <<d, n>> \in BindingsOf(scopes)[t]
      BY <1>1, <3>1, <3>2, BindingsFacts
    <3> QED
      BY <3>3 DEF Holders
  <2>2. ASSUME t \in Holders(BindingsOf(scopes)) PROVE Bound(t)
    <3>1. PICK b : b \in BindingsOf(scopes)[t]
      BY <2>2 DEF Holders
    <3> QED
      BY <3>1 DEF Bound, BindingsOf
  <2> QED
    BY <2>1, <2>2
<1>3. BoundTiles = Holders(BindingsOf(scopes))
  BY <1>2 DEF BoundTiles, Holders
<1> QED
  BY <1>2, <1>3

(* set_value charges no more than fits, and makes no working tile free.    *)
LEMMA BookBounds ==
    ASSUME NEW b \in Books, NEW t \in Tiles, NEW charge \in BOOLEAN
    PROVE  /\ Book(b, t, charge) \in Books
           /\ Book(b, t, charge).uncharged =
                 IF Free(b, t, charge) THEN b.uncharged \cup {t} ELSE b.uncharged
           /\ b.used <= Capacity /\ (Free(b, t, charge) \/ ~Charged(b, t) \/ ~Overflows(b, t))
                 => Book(b, t, charge).used <= Capacity
<1> DEFINE c == Book(b, t, charge)
           free == Free(b, t, charge)
           pays == ~free /\ Charged(b, t)
           counts == IF Dedup THEN [b.refcount EXCEPT ![t] = @ + 1] ELSE b.refcount
<1>1. /\ b.refcount \in [Tiles -> Nat] /\ b.uncharged \in SUBSET Tiles /\ b.used \in Int
      /\ b = [refcount |-> b.refcount, uncharged |-> b.uncharged, used |-> b.used]
      /\ Size[t] \in Nat /\ Capacity \in Nat
  BY SizeAssumption, CapacityAssumption DEF Books
<1>2. counts \in [Tiles -> Nat]
  BY <1>1
<1>3. c = [refcount |-> counts,
           uncharged |-> IF free THEN b.uncharged \cup {t} ELSE b.uncharged,
           used |-> IF pays THEN b.used + Size[t] ELSE b.used]
  BY <1>1 DEF Book, Counted
<1>4. c \in Books
  <2> HIDE DEF counts, c, free, pays
  <2> QED
    BY <1>1, <1>2, <1>3 DEF Books
<1>5. pays /\ ~Overflows(b, t) => b.used + Size[t] <= Capacity
  BY <1>1 DEF Overflows
<1> HIDE DEF counts, c, free
<1> QED
  BY <1>1, <1>3, <1>4, <1>5 DEF c, free

(* The whole of set_value with a tile. *)
LEMMA SetValueFacts ==
    ASSUME scopes \in Stacks, BooksAreSound, NEW n \in Names, NEW t \in Tiles, SetValue(n, t)
    PROVE  /\ scopes' \in Stacks /\ Len(scopes') = Len(scopes)
           /\ \A d \in 1 .. Len(scopes) - 1 : scopes'[d] = scopes[d]
           /\ books' \in Books
           /\ error' \in {"none", "MemoryError"}
           /\ error' = "none" => /\ BindingsOf(scopes') \in Views
                                 /\ Matches(books', BindingsOf(scopes'))
                                 /\ books'.uncharged \subseteq books.uncharged
                                 /\ books'.used <= Capacity
<1> DEFINE b == Overwritten(n)
           p == <<Len(scopes), n>>
           rest == Without(BindingsOf(scopes), {p})
           raises == ~Free(b, t, TRUE) /\ Charged(b, t) /\ Overflows(b, t)
<1>1. /\ scopes' = Rebound(n, t)
      /\ books' = IF raises THEN b ELSE Book(b, t, TRUE)
      /\ error' = IF raises THEN "MemoryError" ELSE "none"
  BY Zenon DEF SetValue
<1>2. /\ Matches(b, rest) /\ b.used <= books.used /\ b.uncharged \subseteq books.uncharged
  BY OverwrittenMatches DEF BooksAreSound
<1>3. b \in Books /\ b.used \in Int /\ books.used \in Int /\ Capacity \in Nat
  BY <1>2, CapacityAssumption DEF BooksAreSound, Matches, Books
<1>4. b.used <= Capacity
  BY <1>2, <1>3 DEF BooksAreSound
<1>5. t \in Value
  BY DEF Value
<1>6. /\ scopes' \in Stacks /\ Len(scopes') = Len(scopes)
      /\ \A d \in 1 .. Len(scopes) - 1 : scopes'[d] = scopes[d]
  BY <1>1, <1>5, ReboundFacts
<1>7. (\A u \in Tiles : p \notin rest[u]) /\ BindingsOf(scopes') = With(rest, t, p)
  BY <1>1, <1>5, ReboundView
<1>8. rest \in Views
  BY WithoutFacts DEF BooksAreSound
<1>9. p \in Nat \X Names
  BY StackFacts
<1> HIDE DEF b, p, rest
<1>10. CASE raises
  BY <1>1, <1>3, <1>6, <1>10
<1>11. CASE ~raises
  <2>1. books' = Book(b, t, TRUE) /\ error' = "none"
    BY <1>1, <1>11
  <2>2. With(rest, t, p) \in Views /\ Matches(Book(b, t, TRUE), With(rest, t, p))
    BY <1>2, <1>7, <1>8, <1>9, BookMatches, WithFacts
  <2>3. Free(b, t, TRUE) <=> t \in b.uncharged
    BY DEF Free
  <2>4. /\ Book(b, t, TRUE) \in Books
        /\ Book(b, t, TRUE).uncharged = b.uncharged
        /\ Book(b, t, TRUE).used <= Capacity
    <3>1. Free(b, t, TRUE) \/ ~Charged(b, t) \/ ~Overflows(b, t)
      BY <1>11
    <3>2. b.uncharged \in SUBSET Tiles
      BY <1>3 DEF Books
    <3>3. /\ Book(b, t, TRUE) \in Books
          /\ Book(b, t, TRUE).uncharged =
                IF Free(b, t, TRUE) THEN b.uncharged \cup {t} ELSE b.uncharged
          /\ Book(b, t, TRUE).used <= Capacity
      BY <1>3, <1>4, <3>1, BookBounds
    <3> QED
      BY <2>3, <3>3
  <2> QED
    BY <1>2, <1>6, <1>7, <2>1, <2>2, <2>4
<1> QED
  BY <1>10, <1>11

(* Steps that open and close no scope and stage nothing. *)
LEMMA InPlaceStep ==
    ASSUME LxInv, error = "none", scopes' \in Stacks, Len(scopes') = Len(scopes),
           books' \in Books, held' \subseteq Tiles, literal' \subseteq Tiles,
           error' \in {"none", "MemoryError"},
           UNCHANGED <<nextPtr, marks, combining, staged>>,
           error' = "none" => BooksAreSound'
    PROVE  LxInv'
<1>1. scopes' \in Seq(Scope)
  BY DEF Stacks
<1>2. TypeOK'
  BY <1>1 DEF LxInv, TypeOK
<1>3. MarksRise' /\ StagedRangesNest'
  BY DEF LxInv, MarksRise, StagedRangesNest
<1> QED
  BY <1>2, <1>3 DEF LxInv

LEMMA BindScalarStep ==
    ASSUME LxInv, NEW n \in Names, BindScalar(n)
    PROVE  LxInv'
<1> DEFINE rest == Without(BindingsOf(scopes), {<<Len(scopes), n>>})
<1>1. /\ error = "none" /\ scopes' = Rebound(n, Scalar) /\ books' = Overwritten(n)
      /\ UNCHANGED <<nextPtr, marks, combining, held, literal, staged, error>>
  BY DEF BindScalar
<1>2. scopes \in Stacks /\ BooksAreSound /\ held \subseteq Tiles /\ literal \subseteq Tiles
  BY <1>1 DEF LxInv, TypeOK
<1>3. Scalar \in Value /\ Scalar \notin Tiles
  BY ScalarAssumption DEF Value
<1>4. scopes' \in Stacks /\ Len(scopes') = Len(scopes) /\ BindingsOf(scopes') = rest
  BY <1>1, <1>2, <1>3, ReboundFacts, ReboundView
<1>5. /\ Matches(books', rest) /\ books'.used <= books.used
      /\ books'.uncharged \subseteq books.uncharged
  BY <1>1, <1>2, OverwrittenMatches DEF BooksAreSound
<1>6. books' \in Books /\ books'.used <= Capacity
  <2>1. books' \in Books /\ books \in Books
    BY <1>2, <1>5 DEF BooksAreSound, Matches
  <2>2. books'.used \in Int /\ books.used \in Int /\ Capacity \in Int
    BY <2>1, CapacityAssumption DEF Books
  <2> QED
    BY <1>2, <1>5, <2>1, <2>2 DEF BooksAreSound
<1>7. rest \in Views
  BY <1>2, WithoutFacts DEF BooksAreSound
<1>8. BooksAreSound'
  <2> HIDE DEF rest
  <2> QED
    BY <1>1, <1>2, <1>4, <1>5, <1>6, <1>7 DEF BooksAreSound
<1> QED
  BY <1>1, <1>2, <1>4, <1>6, <1>8, InPlaceStep

LEMMA BindStep ==
    ASSUME LxInv, NEW n \in Names, NEW t \in Tiles, Bind(n, t)
    PROVE  LxInv'
<1>1. /\ error = "none" /\ SetValue(n, t)
      /\ UNCHANGED <<nextPtr, marks, combining, held, literal, staged>>
  BY DEF Bind
<1>2. scopes \in Stacks /\ BooksAreSound /\ held \subseteq Tiles /\ literal \subseteq Tiles
  BY <1>1 DEF LxInv, TypeOK
<1>3. /\ scopes' \in Stacks /\ Len(scopes') = Len(scopes)
      /\ books' \in Books
      /\ error' \in {"none", "MemoryError"}
      /\ error' = "none" => /\ BindingsOf(scopes') \in Views
                            /\ Matches(books', BindingsOf(scopes'))
                            /\ books'.uncharged \subseteq books.uncharged
                            /\ books'.used <= Capacity
  BY <1>1, <1>2, SetValueFacts
<1>4. error' = "none" => BooksAreSound'
  BY <1>1, <1>2, <1>3 DEF BooksAreSound
<1> QED
  BY <1>1, <1>2, <1>3, <1>4, InPlaceStep

(* A tile nothing refers to is in no view, so its id is not among the free *)
(* ones.                                                                   *)
LEMMA FreshFacts ==
    ASSUME scopes \in Stacks, BooksAreSound, NEW t \in Tiles, Fresh(t)
    PROVE  t \notin Holders(BindingsOf(scopes)) /\ t \notin books.uncharged
<1>1. t \notin Holders(BindingsOf(scopes))
  BY BoundFacts DEF Fresh
<1> QED
  BY <1>1 DEF BooksAreSound, Matches

LEMMA BindLiteralStep ==
    ASSUME LxInv, NEW n \in Names, NEW t \in Tiles, BindLiteral(n, t)
    PROVE  LxInv'
<1> DEFINE p == <<Len(scopes), n>>
           view == BindingsOf(scopes)
           rest == Without(view, {p})
           b == Overwritten(n)
<1>1. /\ error = "none" /\ Fresh(t) /\ books' = Book(b, t, FALSE)
      /\ scopes' = Rebound(n, t) /\ literal' = literal \cup {t}
      /\ UNCHANGED <<nextPtr, marks, combining, held, staged, error>>
  BY DEF BindLiteral
<1>2. /\ scopes \in Stacks /\ BooksAreSound /\ held \subseteq Tiles /\ literal \subseteq Tiles
  BY <1>1 DEF LxInv, TypeOK
<1>3. view \in Views /\ rest \in Views /\ p \in Nat \X Names /\ t \in Value
  BY <1>2, WithoutFacts, StackFacts DEF BooksAreSound, Value
<1>4. /\ scopes' \in Stacks /\ Len(scopes') = Len(scopes)
      /\ \A u \in Tiles : p \notin rest[u]
      /\ BindingsOf(scopes') = With(rest, t, p)
  BY <1>1, <1>2, <1>3, ReboundFacts, ReboundView
<1>5. /\ Matches(b, rest) /\ b.used <= books.used
      /\ b.uncharged \subseteq books.uncharged
  BY <1>2, OverwrittenMatches DEF BooksAreSound
<1>6. b \in Books /\ books \in Books
  BY <1>2, <1>5 DEF BooksAreSound, Matches
<1>7. b.used <= Capacity
  <2>1. b.used \in Int /\ books.used \in Int /\ Capacity \in Int
    BY <1>6, CapacityAssumption DEF Books
  <2> QED
    BY <1>2, <1>5, <2>1 DEF BooksAreSound
<1>8. t \notin Holders(rest)
  <2>1. t \notin Holders(view)
    BY <1>1, <1>2, FreshFacts
  <2> HIDE DEF view
  <2> QED
    BY <2>1 DEF Holders, Without
<1>9. Free(b, t, FALSE)
  BY DEF Free
<1> HIDE DEF b, rest, view, p
<1>10. Matches(Book(b, t, FALSE), With(rest, t, p)) /\ With(rest, t, p) \in Views
  BY <1>3, <1>4, <1>5, <1>8, BookMatches, WithFacts
<1>11. /\ books' \in Books /\ books'.used <= Capacity
       /\ books'.uncharged = b.uncharged \cup {t}
  BY <1>1, <1>6, <1>7, <1>9, BookBounds
<1>12. BooksAreSound'
  BY <1>1, <1>2, <1>4, <1>5, <1>10, <1>11 DEF BooksAreSound
<1>13. held' \subseteq Tiles /\ literal' \subseteq Tiles
  BY <1>1, <1>2
<1> QED
  BY <1>1, <1>4, <1>11, <1>12, <1>13, InPlaceStep

(* Making a tile, or dropping one, leaves the books and scopes alone.      *)
LEMMA HeldStep ==
    ASSUME LxInv, NEW t \in Tiles, Compute(t) \/ Drop(t)
    PROVE  LxInv'
<1>1. /\ error = "none"
      /\ UNCHANGED <<scopes, books, nextPtr, marks, combining, staged, error>>
  BY DEF Compute, Drop
<1>2. /\ scopes \in Stacks /\ BooksAreSound /\ held \subseteq Tiles /\ literal \subseteq Tiles
      /\ books \in Books
  BY <1>1 DEF LxInv, TypeOK
<1>3. held' \subseteq Tiles /\ literal' \subseteq Tiles
  BY <1>2 DEF Compute, Drop
<1>4. books.uncharged \subseteq literal'
  <2>1. CASE Compute(t)
    BY <1>2, <2>1, FreshFacts DEF Compute, BooksAreSound
  <2>2. CASE Drop(t)
    BY <1>2, <2>2 DEF Drop, BooksAreSound
  <2> QED
    BY <2>1, <2>2
<1>5. BooksAreSound'
  BY <1>1, <1>2, <1>4 DEF BooksAreSound
<1> QED
  BY <1>1, <1>2, <1>3, <1>5, InPlaceStep

LEMMA FetchStep ==
    ASSUME LxInv, NEW n \in Names, Fetch(n)
    PROVE  LxInv'
<1> DEFINE d == Max(Found(n))
           v == scopes[d][n]
           p == <<Len(scopes), n>>
           view == BindingsOf(scopes)
           taken == [scopes EXCEPT ![d] = [m \in DOMAIN @ \ {n} |-> @[m]]]
<1>1. /\ error = "none" /\ Found(n) # {}
      /\ held' = held \cup ({v} \cap Tiles)
      /\ UNCHANGED <<nextPtr, marks, combining, literal, staged, error>>
  BY DEF Fetch
<1>2. IF LastUse(n, d) THEN scopes' = taken /\ books' = Release(books, v)
                       ELSE UNCHANGED <<scopes, books>>
  BY Zenon DEF Fetch
<1>3. /\ scopes \in Stacks /\ BooksAreSound /\ held \subseteq Tiles /\ literal \subseteq Tiles
      /\ books \in Books
  BY <1>1 DEF LxInv, TypeOK
<1>4. held' \subseteq Tiles
  BY <1>1, <1>3
<1>5. d \in DOMAIN scopes /\ n \in DOMAIN scopes[d]
  <2>1. Len(scopes) \in Nat /\ DOMAIN scopes = 1 .. Len(scopes)
    BY <1>3, StackFacts
  <2>2. Found(n) \subseteq 0 .. Len(scopes)
    BY <2>1 DEF Found
  <2>3. d \in Found(n)
    BY <1>1, <2>1, <2>2, MaxFacts
  <2> QED
    BY <2>3 DEF Found
<1> HIDE DEF d, taken
<1>6. CASE LastUse(n, d)
  <2>1. d = Len(scopes) /\ v \in Tiles
    BY <1>6 DEF LastUse
  <2>2. n \in DOMAIN Top /\ v = Top[n]
    BY <1>5, <2>1 DEF Top
  <2>3. /\ taken \in Stacks /\ Len(taken) = Len(scopes)
        /\ BindingsOf(taken) = Without(view, {p})
    BY <1>3, <2>1, <2>2, ConsumeFacts DEF taken
  <2>4. p \in view[v]
    BY <1>5, <2>1, BindingsFacts
  <2>5. scopes' = taken /\ books' = Release(books, v)
    BY <1>2, <1>6
  <2> HIDE DEF v, view
  <2>6. view \in Views /\ Matches(books, view) /\ Without(view, {p}) \in Views
    BY <1>3, WithoutFacts DEF BooksAreSound, view
  <2>7. /\ Matches(books', Without(view, {p}))
        /\ books'.used <= books.used /\ books'.uncharged \subseteq books.uncharged
    BY <2>1, <2>4, <2>5, <2>6, ReleaseMatches
  <2>8. books' \in Books
    BY <2>7 DEF Matches
  <2>9. books'.used <= Capacity
    <3>1. books'.used \in Int /\ books.used \in Int /\ Capacity \in Int
      BY <1>3, <2>8, CapacityAssumption DEF Books
    <3> QED
      BY <1>3, <2>7, <3>1 DEF BooksAreSound
  <2>10. BooksAreSound'
    BY <1>1, <1>3, <2>3, <2>5, <2>6, <2>7, <2>9 DEF BooksAreSound
  <2> QED
    BY <1>1, <1>3, <1>4, <2>3, <2>5, <2>8, <2>10, InPlaceStep
<1>7. CASE ~LastUse(n, d)
  <2>1. UNCHANGED <<scopes, books>>
    BY <1>2, <1>7
  <2>2. BooksAreSound'
    BY <1>1, <1>3, <2>1 DEF BooksAreSound
  <2> QED
    BY <1>1, <1>3, <1>4, <2>1, <2>2, InPlaceStep
<1> QED
  BY <1>6, <1>7

LEMMA MarksType ==
    ASSUME TypeOK
    PROVE  /\ Align(MaxPtr) \in Nat /\ nextPtr \in Nat
           /\ marks \in Seq(Nat) /\ Len(marks) \in Nat
           /\ \A i \in 1 .. Len(marks) : marks[i] \in 0 .. Align(MaxPtr) /\ marks[i] \in Nat
           /\ \A q \in staged : q.lo \in Nat /\ q.hi \in Nat /\ q.depth \in 1 .. MaxDepth
           /\ Len(scopes) \in Nat /\ Len(scopes) \in 1 .. MaxDepth /\ MaxDepth \in Nat
<1>1. Align(MaxPtr) \in Nat
  <2>1. Align(MaxPtr) = RoundedUp(MaxPtr, Stick)
    BY DEF Align, RoundedUp
  <2> QED
    BY <2>1, BoundsAssumption, StickAssumption, RoundedUpFacts
<1>2. marks \in Seq(0 .. Align(MaxPtr)) /\ nextPtr \in 0 .. Align(MaxPtr)
  BY DEF TypeOK
<1>3. 0 .. Align(MaxPtr) \subseteq Nat
  BY <1>1
<1>4. \A q \in staged : q \in [tile : Tiles, depth : 1 .. MaxDepth, lo : 0 .. MaxPtr, hi : 0 .. MaxPtr]
  BY DEF TypeOK
<1>5. Len(scopes) \in 1 .. MaxDepth /\ MaxDepth \in Nat
  BY BoundsAssumption DEF TypeOK
<1> HIDE DEF Align
<1> QED
  BY <1>1, <1>2, <1>3, <1>4, <1>5

(* ktdp.load stages its copy at the bump pointer, above everything the     *)
(* open scopes have staged.                                                *)
LEMMA LoadStep ==
    ASSUME LxInv, NEW n \in Names, NEW t \in Tiles, Load(n, t)
    PROVE  LxInv'
<1> DEFINE hi == nextPtr + Size[t]
           r == [tile |-> t, depth |-> Len(scopes), lo |-> nextPtr, hi |-> hi]
<1>1. /\ error = "none" /\ Fresh(t) /\ hi <= MaxPtr
      /\ staged' = staged \cup {r} /\ nextPtr' = Align(hi)
      /\ SetValue(n, t) /\ literal' = literal \ {t}
      /\ UNCHANGED <<marks, combining, held>>
  BY DEF Load
<1>2. /\ scopes \in Stacks /\ BooksAreSound /\ MarksRise /\ StagedRangesNest /\ TypeOK
      /\ Len(marks) = Len(scopes) - 1
  BY <1>1 DEF LxInv
<1>3. /\ scopes' \in Stacks /\ Len(scopes') = Len(scopes)
      /\ books' \in Books
      /\ error' \in {"none", "MemoryError"}
      /\ error' = "none" => /\ BindingsOf(scopes') \in Views
                            /\ Matches(books', BindingsOf(scopes'))
                            /\ books'.uncharged \subseteq books.uncharged
                            /\ books'.used <= Capacity
  BY <1>1, <1>2, SetValueFacts
<1>4. books.uncharged \subseteq literal'
  BY <1>1, <1>2, FreshFacts DEF BooksAreSound
<1>5. error' = "none" => BooksAreSound'
  BY <1>3, <1>4 DEF BooksAreSound
<1>6. /\ nextPtr \in Nat /\ hi \in Nat /\ MaxPtr \in Nat /\ nextPtr <= hi
      /\ Align(hi) \in 0 .. Align(MaxPtr) /\ hi <= Align(hi)
  <2>1. Align(MaxPtr) = RoundedUp(MaxPtr, Stick) /\ Align(hi) = RoundedUp(hi, Stick)
    BY DEF Align, RoundedUp
  <2>2. RoundedUp(MaxPtr, Stick) \in Nat
    BY BoundsAssumption, StickAssumption, RoundedUpFacts
  <2>3. nextPtr \in Nat /\ hi \in Nat /\ MaxPtr \in Nat /\ nextPtr <= hi
    BY <1>2, <2>1, <2>2, SizeAssumption, BoundsAssumption DEF TypeOK
  <2>4. RoundedUp(hi, Stick) \in Nat /\ hi <= RoundedUp(hi, Stick)
    BY <2>3, StickAssumption, RoundedUpFacts
  <2>5. RoundedUp(hi, Stick) <= RoundedUp(MaxPtr, Stick)
    BY <1>1, <2>3, StickAssumption, RoundedUpMonotone
  <2> QED
    BY <2>1, <2>2, <2>3, <2>4, <2>5
<1>7. Len(scopes) \in 1 .. MaxDepth /\ Len(scopes) \in Nat /\ MaxDepth \in Nat
  BY <1>2, BoundsAssumption DEF TypeOK
<1>8. TypeOK'
  <2>1. r \in [tile : Tiles, depth : 1 .. MaxDepth, lo : 0 .. MaxPtr, hi : 0 .. MaxPtr]
    BY <1>1, <1>6, <1>7
  <2>2. scopes' \in Seq(Scope)
    BY <1>3 DEF Stacks
  <2> HIDE DEF r, hi
  <2> QED
    BY <1>1, <1>2, <1>3, <1>6, <2>1, <2>2 DEF TypeOK
<1>9. /\ Len(marks) \in Nat /\ \A i \in 1 .. Len(marks) : marks[i] \in Nat
      /\ \A q \in staged : q.lo \in Nat /\ q.hi \in Nat /\ q.depth \in 1 .. MaxDepth
  BY <1>2, MarksType
<1>10. /\ \A i \in 1 .. Len(marks) : marks[i] <= nextPtr
       /\ \A q \in staged : q.depth <= Len(scopes)
  BY <1>2 DEF MarksRise
<1>11. \A q \in staged : q.hi <= nextPtr
  <2> SUFFICES ASSUME NEW q \in staged PROVE q.hi <= nextPtr
    OBVIOUS
  <2>1. q.hi <= IF q.depth = Len(scopes) THEN nextPtr ELSE marks[q.depth]
    BY <1>1, <1>2 DEF StagedRangesNest
  <2>2. CASE q.depth = Len(scopes)
    BY <2>1, <2>2
  <2>3. CASE q.depth # Len(scopes)
    <3>1. q.depth \in 1 .. Len(marks)
      BY <1>2, <1>7, <1>9, <1>10, <2>3
    <3>2. marks[q.depth] <= nextPtr /\ marks[q.depth] \in Nat
      BY <1>9, <1>10, <3>1
    <3> QED
      BY <1>6, <1>9, <2>1, <2>3, <3>2
  <2> QED
    BY <2>2, <2>3
<1> DEFINE next == Align(hi)
<1>12. next \in Nat /\ nextPtr <= next /\ hi <= next
  BY <1>6
<1>13. r.depth = Len(scopes) /\ r.lo = nextPtr /\ r.hi = hi
  OBVIOUS
<1> HIDE DEF r, hi, next
<1>14. MarksRise'
  <2>1. \A i \in 1 .. Len(marks) : marks[i] <= next
    BY <1>6, <1>9, <1>10, <1>12
  <2>2. \A q \in staged' : q.depth <= Len(scopes)
    BY <1>1, <1>7, <1>10, <1>13
  <2>3. nextPtr' = next /\ marks' = marks
    BY <1>1 DEF next
  <2> QED
    BY <1>2, <1>3, <2>1, <2>2, <2>3 DEF MarksRise
<1>15. StagedRangesNest'
  <2>1. \A q, u \in staged' : q = u \/ q.hi <= u.lo \/ u.hi <= q.lo
    <3>1. \A q, u \in staged : q = u \/ q.hi <= u.lo \/ u.hi <= q.lo
      BY <1>1, <1>2 DEF StagedRangesNest
    <3> QED
      BY <1>1, <1>11, <1>13, <3>1
  <2>2. ASSUME NEW q \in staged'
        PROVE  /\ q.depth > 1 => marks[q.depth - 1] <= q.lo
               /\ q.hi <= IF q.depth = Len(scopes) THEN next ELSE marks[q.depth]
    <3>1. CASE q \in staged
      <4>1. /\ q.depth > 1 => marks[q.depth - 1] <= q.lo
            /\ q.hi <= IF q.depth = Len(scopes) THEN nextPtr ELSE marks[q.depth]
        BY <1>1, <1>2, <3>1 DEF StagedRangesNest
      <4>2. q.hi <= nextPtr /\ q.hi \in Nat
        BY <1>9, <1>11, <3>1
      <4>3. q.hi <= next
        BY <1>6, <1>12, <4>2
      <4> QED
        BY <4>1, <4>3
    <3>2. CASE q = r
      <4>1. q.depth > 1 => q.depth - 1 \in 1 .. Len(marks)
        BY <1>2, <1>7, <1>13, <3>2
      <4> QED
        BY <1>10, <1>12, <1>13, <3>2, <4>1
    <3> QED
      BY <1>1, <3>1, <3>2
  <2>3. nextPtr' = next /\ marks' = marks
    BY <1>1 DEF next
  <2> QED
    BY <1>2, <1>3, <2>1, <2>2, <2>3 DEF StagedRangesNest
<1> QED
  BY <1>1, <1>2, <1>3, <1>5, <1>8, <1>14, <1>15 DEF LxInv

LEMMA PushStep ==
    ASSUME LxInv, NEW combiner \in BOOLEAN, PushScope(combiner)
    PROVE  LxInv'
<1> DEFINE len == Len(scopes)
<1>1. /\ error = "none" /\ len < MaxDepth
      /\ marks' = Append(marks, nextPtr) /\ scopes' = Append(scopes, EmptyScope)
      /\ combining' \in {combining, combining \cup {len + 1}}
      /\ UNCHANGED <<books, nextPtr, held, literal, staged, error>>
  BY DEF PushScope
<1>2. /\ TypeOK /\ scopes \in Stacks /\ Len(marks) = len - 1
      /\ BooksAreSound /\ MarksRise /\ StagedRangesNest
  BY <1>1 DEF LxInv
<1>3. /\ scopes' \in Stacks /\ Len(scopes') = len + 1
      /\ BindingsOf(scopes') = BindingsOf(scopes)
  BY <1>1, <1>2, PushFacts
<1>4. /\ nextPtr \in Nat /\ marks \in Seq(Nat) /\ Len(marks) \in Nat
      /\ \A i \in 1 .. Len(marks) : marks[i] \in Nat
      /\ len \in Nat /\ len \in 1 .. MaxDepth /\ MaxDepth \in Nat
  BY <1>2, MarksType
<1>5. /\ Len(marks') = len /\ marks'[len] = nextPtr
      /\ \A i \in 1 .. len - 1 : marks'[i] = marks[i]
      /\ marks' \in Seq(0 .. Align(MaxPtr))
  <2>1. marks \in Seq(0 .. Align(MaxPtr)) /\ nextPtr \in 0 .. Align(MaxPtr)
    BY <1>2 DEF TypeOK
  <2> HIDE DEF len
  <2> QED
    BY <1>1, <1>2, <1>4, <2>1
<1>6. TypeOK'
  <2>1. scopes' \in Seq(Scope)
    BY <1>3 DEF Stacks
  <2>2. combining' \subseteq 2 .. len + 1
    BY <1>1, <1>2, <1>4 DEF TypeOK
  <2> QED
    BY <1>1, <1>2, <1>3, <1>4, <1>5, <2>1, <2>2 DEF TypeOK
<1>7. BooksAreSound'
  BY <1>1, <1>2, <1>3 DEF BooksAreSound
<1> HIDE DEF len
<1>8. ASSUME NEW i \in 1 .. len PROVE i = len \/ (i \in 1 .. len - 1 /\ i \in 1 .. Len(marks))
  BY <1>2, <1>4
<1>9. MarksRise'
  <2>1. /\ \A i \in 1 .. Len(marks) : marks[i] <= nextPtr
        /\ \A i, j \in 1 .. Len(marks) : i <= j => marks[i] <= marks[j]
        /\ \A r \in staged : r.depth <= len
    BY <1>2 DEF MarksRise, len
  <2>2. \A i \in 1 .. len : marks'[i] <= nextPtr
    BY <1>4, <1>5, <1>8, <2>1
  <2>3. ASSUME NEW i \in 1 .. len, NEW j \in 1 .. len, i <= j PROVE marks'[i] <= marks'[j]
    <3>1. CASE j = len
      BY <1>5, <2>2, <3>1
    <3>2. CASE j # len
      <4>1. i \in 1 .. Len(marks) /\ j \in 1 .. Len(marks) /\ i \in 1 .. len - 1 /\ j \in 1 .. len - 1
        BY <1>2, <1>4, <2>3, <3>2
      <4> QED
        BY <1>5, <2>1, <2>3, <4>1
    <3> QED
      BY <3>1, <3>2
  <2>4. \A r \in staged : r.depth <= len + 1
    <3>1. \A r \in staged : r.depth \in Nat
      BY <1>2, <1>4, MarksType
    <3> QED
      BY <1>4, <2>1, <3>1
  <2> QED
    BY <1>1, <1>3, <1>5, <2>2, <2>3, <2>4 DEF MarksRise
<1>10. StagedRangesNest'
  <2>1. /\ \A r, s \in staged : r = s \/ r.hi <= s.lo \/ s.hi <= r.lo
        /\ \A r \in staged :
             /\ r.depth > 1 => marks[r.depth - 1] <= r.lo
             /\ r.hi <= IF r.depth = len THEN nextPtr ELSE marks[r.depth]
        /\ \A r \in staged : r.depth <= len
    BY <1>1, <1>2 DEF StagedRangesNest, MarksRise, len
  <2>2. ASSUME NEW r \in staged
        PROVE  /\ r.depth > 1 => marks'[r.depth - 1] <= r.lo
               /\ r.hi <= IF r.depth = len + 1 THEN nextPtr ELSE marks'[r.depth]
    <3>1. r.depth \in 1 .. len
      <4>1. r.depth \in 1 .. MaxDepth
        BY <1>2, MarksType
      <4> QED
        BY <1>4, <2>1, <4>1
    <3>2. r.depth # len + 1 /\ (r.depth > 1 => r.depth - 1 \in 1 .. len - 1)
      BY <1>4, <3>1
    <3>3. r.depth > 1 => marks'[r.depth - 1] <= r.lo
      BY <1>5, <2>1, <3>2
    <3>4. r.hi <= marks'[r.depth]
      <4>1. CASE r.depth = len
        BY <1>5, <2>1, <4>1
      <4>2. CASE r.depth # len
        <5>1. r.depth \in 1 .. len - 1
          BY <1>4, <3>1, <4>2
        <5> QED
          BY <1>5, <2>1, <4>2, <5>1
      <4> QED
        BY <4>1, <4>2
    <3> QED
      BY <3>2, <3>3, <3>4
  <2>3. Len(marks') = Len(scopes') - 1
    BY <1>3, <1>4, <1>5
  <2> QED
    BY <1>1, <1>3, <2>1, <2>2, <2>3 DEF StagedRangesNest
<1> QED
  BY <1>1, <1>3, <1>4, <1>5, <1>6, <1>7, <1>9, <1>10 DEF LxInv

LEMMA FrontFacts ==
    ASSUME NEW S, NEW s \in Seq(S), Len(s) # 0
    PROVE  /\ Front(s) \in Seq(S) /\ Len(Front(s)) = Len(s) - 1
           /\ \A i \in 1 .. Len(s) - 1 : Front(s)[i] = s[i]
<1>1. PICK m \in Nat : Len(s) = m + 1
  <2>1. Len(s) \in Nat /\ Len(s) - 1 \in Nat /\ Len(s) = (Len(s) - 1) + 1
    OBVIOUS
  <2> QED
    BY <2>1
<1>2. \A i \in 1 .. m : s[i] \in S
  BY <1>1
<1>3. Front(s) = [i \in 1 .. m |-> s[i]]
  BY <1>1 DEF Front
<1>4. [i \in 1 .. m |-> s[i]] \in Seq(S) /\ Len([i \in 1 .. m |-> s[i]]) = m
  BY <1>2
<1> QED
  BY <1>1, <1>3, <1>4

(* Leaving a scope puts its watermark back and forgets what was staged     *)
(* above it.                                                               *)
LEMMA PopScopeFacts ==
    ASSUME LxInv, error # "KeyError", PopScope
    PROVE  /\ scopes' \in Stacks /\ Len(scopes') = Len(scopes) - 1
           /\ BindingsOf(scopes') = Without(BindingsOf(scopes), {Len(scopes)} \X DOMAIN Top)
           /\ books' \in Books
           /\ nextPtr' \in 0 .. Align(MaxPtr)
           /\ marks' \in Seq(0 .. Align(MaxPtr)) /\ Len(marks') = Len(scopes) - 2
           /\ nextPtr' = marks[Len(scopes) - 1]
           /\ \A i \in 1 .. Len(scopes) - 2 : marks'[i] = marks[i]
           /\ staged' = {s \in staged : s.depth < Len(scopes)}
<1> DEFINE len == Len(scopes)
<1>1. /\ len > 1 /\ ~ReleaseRaises(Top)
      /\ scopes' = Front(scopes) /\ books' = ReleaseAll(Top)
      /\ nextPtr' = Last(marks) /\ marks' = Front(marks)
      /\ staged' = {s \in staged : s.depth < len}
  BY DEF PopScope
<1>2. TypeOK /\ scopes \in Stacks /\ Len(marks) = len - 1 /\ books \in Books
  BY DEF LxInv, TypeOK
<1>3. /\ scopes' \in Stacks /\ Len(scopes') = Len(scopes) - 1
      /\ BindingsOf(scopes') = Without(BindingsOf(scopes), {Len(scopes)} \X DOMAIN Top)
  BY <1>1, <1>2, PopFacts
<1>4. books' \in Books
  <2>1. IsFiniteSet(DOMAIN Top)
    <3>1. Len(scopes) \in 1 .. Len(scopes)
      BY <1>2, MarksType
    <3> QED
      BY <1>2, <3>1, StackFacts DEF Top
  <2> QED
    BY <1>1, <1>2, <2>1, ReleaseAllType
<1>5. len \in Nat /\ \A i \in 1 .. Len(marks) : marks[i] \in 0 .. Align(MaxPtr)
  BY <1>2, MarksType
<1>6. nextPtr' = marks[len - 1] /\ nextPtr' \in 0 .. Align(MaxPtr)
  <2>1. nextPtr' = marks[len - 1]
    BY <1>1, <1>2 DEF Last
  <2>2. len - 1 \in 1 .. Len(marks)
    BY <1>1, <1>2, <1>5
  <2> QED
    BY <1>5, <2>1, <2>2
<1>7. /\ marks' \in Seq(0 .. Align(MaxPtr)) /\ Len(marks') = len - 2
      /\ \A i \in 1 .. len - 2 : marks'[i] = marks[i]
  <2>1. marks \in Seq(0 .. Align(MaxPtr))
    BY <1>2 DEF TypeOK
  <2>2. Len(marks) \in Nat \ {0} /\ Len(marks) - 1 = len - 2
    BY <1>1, <1>2, <1>5
  <2>3. /\ Front(marks) \in Seq(0 .. Align(MaxPtr)) /\ Len(Front(marks)) = Len(marks) - 1
        /\ \A i \in 1 .. Len(marks) - 1 : Front(marks)[i] = marks[i]
    BY <2>1, <2>2, FrontFacts
  <2> QED
    BY <1>1, <2>2, <2>3
<1> QED
  BY <1>1, <1>3, <1>4, <1>6, <1>7

LEMMA PopStep ==
    ASSUME LxInv, Pop
    PROVE  LxInv'
<1> DEFINE len == Len(scopes)
           view == BindingsOf(scopes)
           rest == Without(view, {len} \X DOMAIN Top)
<1>1. /\ error = "none" /\ PopScope /\ combining' = combining \ {len}
      /\ UNCHANGED <<held, literal, error>>
  BY DEF Pop
<1>2. /\ TypeOK /\ scopes \in Stacks /\ Len(marks) = len - 1
      /\ BooksAreSound /\ MarksRise /\ StagedRangesNest
  BY <1>1 DEF LxInv
<1>3. /\ scopes' \in Stacks /\ Len(scopes') = len - 1
      /\ BindingsOf(scopes') = rest
      /\ books' \in Books
      /\ nextPtr' \in 0 .. Align(MaxPtr)
      /\ marks' \in Seq(0 .. Align(MaxPtr)) /\ Len(marks') = len - 2
      /\ nextPtr' = marks[len - 1]
      /\ \A i \in 1 .. len - 2 : marks'[i] = marks[i]
      /\ staged' = {s \in staged : s.depth < len}
  BY <1>1, PopScopeFacts
<1>4. books' = ReleaseAll(Top) /\ len > 1
  BY <1>1 DEF PopScope
<1>5. len \in Nat /\ len \in 1 .. MaxDepth /\ MaxDepth \in Nat
  BY <1>2, MarksType
<1>6. BooksAreSound'
  <2>1. Matches(books', rest) /\ books'.used <= books.used /\ books'.uncharged \subseteq books.uncharged
    BY <1>2, <1>4, ReleaseAllMatches DEF BooksAreSound
  <2>2. rest \in Views
    BY <1>2, WithoutFacts DEF BooksAreSound
  <2>3. books'.used <= Capacity
    <3>1. books'.used \in Int /\ books.used \in Int /\ Capacity \in Int
      BY <1>2, <1>3, CapacityAssumption DEF TypeOK, Books
    <3> QED
      BY <1>2, <2>1, <3>1 DEF BooksAreSound
  <2> HIDE DEF rest
  <2> QED
    BY <1>1, <1>2, <1>3, <2>1, <2>2, <2>3 DEF BooksAreSound
<1> HIDE DEF len, rest
<1>7. TypeOK'
  <2>1. scopes' \in Seq(Scope)
    BY <1>3 DEF Stacks
  <2>2. combining' \subseteq 2 .. len - 1
    <3>1. combining \subseteq 2 .. len
      BY <1>2 DEF TypeOK, len
    <3> QED
      BY <1>1, <1>5, <3>1
  <2>3. len - 1 \in 1 .. MaxDepth
    BY <1>4, <1>5
  <2> QED
    BY <1>1, <1>2, <1>3, <2>1, <2>2, <2>3 DEF TypeOK
<1>8. ASSUME NEW i \in 1 .. len - 2 PROVE i \in 1 .. Len(marks) /\ len - 1 \in 1 .. Len(marks) /\ i <= len - 1
  BY <1>2, <1>5
<1>9. MarksRise'
  <2>1. \A i, j \in 1 .. Len(marks) : i <= j => marks[i] <= marks[j]
    BY <1>2 DEF MarksRise
  <2>2. \A i \in 1 .. len - 2 : marks'[i] <= nextPtr'
    BY <1>3, <1>8, <2>1
  <2>3. \A i, j \in 1 .. len - 2 : i <= j => marks'[i] <= marks'[j]
    BY <1>3, <1>8, <2>1
  <2>4. \A r \in staged' : r.depth <= len - 1
    <3>1. \A r \in staged : r.depth \in Nat
      BY <1>2, <1>5, MarksType
    <3> QED
      BY <1>3, <1>5, <3>1
  <2> QED
    BY <1>3, <2>2, <2>3, <2>4 DEF MarksRise
<1>10. StagedRangesNest'
  <2>1. /\ \A r, s \in staged : r = s \/ r.hi <= s.lo \/ s.hi <= r.lo
        /\ \A r \in staged :
             /\ r.depth > 1 => marks[r.depth - 1] <= r.lo
             /\ r.hi <= IF r.depth = len THEN nextPtr ELSE marks[r.depth]
    BY <1>1, <1>2 DEF StagedRangesNest, len
  <2>2. ASSUME NEW r \in staged'
        PROVE  /\ r.depth > 1 => marks'[r.depth - 1] <= r.lo
               /\ r.hi <= IF r.depth = len - 1 THEN nextPtr' ELSE marks'[r.depth]
    <3>1. r \in staged /\ r.depth \in Nat /\ r.depth >= 1 /\ r.depth < len
      <4>1. r \in staged /\ r.depth < len
        BY <1>3
      <4>2. r.depth \in 1 .. MaxDepth
        BY <1>2, <4>1, MarksType
      <4> QED
        BY <1>5, <4>1, <4>2
    <3>2. r.hi <= marks[r.depth] /\ (r.depth > 1 => marks[r.depth - 1] <= r.lo)
      BY <1>5, <2>1, <3>1
    <3>3. r.depth > 1 => r.depth - 1 \in 1 .. len - 2
      BY <1>5, <3>1
    <3>4. r.depth # len - 1 => r.depth \in 1 .. len - 2
      BY <1>5, <3>1
    <3> QED
      BY <1>3, <3>2, <3>3, <3>4
  <2>3. \A r, s \in staged' : r = s \/ r.hi <= s.lo \/ s.hi <= r.lo
    BY <1>3, <2>1
  <2>4. Len(marks') = Len(scopes') - 1
    BY <1>3, <1>5
  <2> QED
    BY <1>3, <2>2, <2>3, <2>4 DEF StagedRangesNest
<1>11. Len(marks') = Len(scopes') - 1
  BY <1>3, <1>5
<1> QED
  BY <1>3, <1>6, <1>7, <1>9, <1>10, <1>11 DEF LxInv

(* A MemoryError leaves the books as they are, so only their type is kept. *)
LEMMA UnwindStep ==
    ASSUME LxInv, Unwind
    PROVE  LxInv'
<1> DEFINE len == Len(scopes)
           m == Max(combining)
<1>1. /\ error = "MemoryError" /\ combining # {}
      /\ combining' = combining \ {m}
      /\ UNCHANGED <<held, literal>>
  BY DEF Unwind
<1>2. IF ReleaseRaises(Top)
      THEN /\ error' = "KeyError" /\ scopes' = Front(scopes)
           /\ UNCHANGED <<books, nextPtr, marks, staged>>
      ELSE PopScope /\ error' = error
  BY Zenon DEF Unwind
<1>3. /\ TypeOK /\ scopes \in Stacks /\ Len(marks) = len - 1
  BY <1>1 DEF LxInv
<1>4. len \in Nat /\ len \in 1 .. MaxDepth /\ MaxDepth \in Nat
  BY <1>3, MarksType
<1>5. combining' \subseteq 2 .. len - 1 /\ len > 1
  <2>1. combining \subseteq 2 .. len /\ combining \subseteq 0 .. len
    BY <1>3, <1>4 DEF TypeOK
  <2>2. m \in combining /\ \A x \in combining : x <= m
    BY <1>1, <1>4, <2>1, MaxFacts
  <2> HIDE DEF m
  <2>3. ASSUME NEW x \in combining' PROVE x \in 2 .. len - 1
    <3>1. x \in combining /\ x # m
      BY <1>1, <2>3
    <3>2. x \in 2 .. len /\ m \in 2 .. len /\ x <= m
      BY <2>1, <2>2, <3>1
    <3> QED
      BY <1>4, <3>1, <3>2
  <2>4. m \in 2 .. len
    BY <2>1, <2>2
  <2> QED
    BY <1>4, <2>3, <2>4
<1> HIDE DEF len, m
<1>6. len - 1 \in 1 .. MaxDepth
  BY <1>4, <1>5
<1>7. CASE ReleaseRaises(Top)
  <2>1. /\ error' = "KeyError" /\ scopes' = Front(scopes)
        /\ UNCHANGED <<books, nextPtr, marks, staged>>
    BY <1>2, <1>7
  <2>2. scopes' \in Stacks /\ Len(scopes') = len - 1
    BY <1>3, <1>5, <2>1, PopFacts DEF len
  <2>3. scopes' \in Seq(Scope)
    BY <2>2 DEF Stacks
  <2>4. TypeOK'
    BY <1>1, <1>3, <1>5, <1>6, <2>1, <2>2, <2>3 DEF TypeOK
  <2> QED
    BY <2>1, <2>2, <2>4 DEF LxInv
<1>8. CASE ~ReleaseRaises(Top)
  <2>1. PopScope /\ error' = "MemoryError"
    BY <1>1, <1>2, <1>8
  <2>2. /\ scopes' \in Stacks /\ Len(scopes') = len - 1
        /\ books' \in Books
        /\ nextPtr' \in 0 .. Align(MaxPtr)
        /\ marks' \in Seq(0 .. Align(MaxPtr)) /\ Len(marks') = len - 2
        /\ staged' = {s \in staged : s.depth < len}
    BY <1>1, <2>1, PopScopeFacts DEF len
  <2>3. scopes' \in Seq(Scope)
    BY <2>2 DEF Stacks
  <2>4. TypeOK'
    BY <1>1, <1>3, <1>5, <1>6, <2>1, <2>2, <2>3 DEF TypeOK
  <2>5. Len(marks') = Len(scopes') - 1
    BY <1>4, <2>2
  <2> QED
    BY <2>1, <2>2, <2>4, <2>5 DEF LxInv
<1> QED
  BY <1>7, <1>8

LEMMA InitLx == Init => LxInv
<1> SUFFICES ASSUME Init PROVE LxInv
  OBVIOUS
<1>1. /\ scopes = <<EmptyScope>> /\ books = EmptyBooks /\ nextPtr = 0 /\ marks = <<>>
      /\ combining = {} /\ held = {} /\ literal = {} /\ staged = {} /\ error = "none"
  BY DEF Init
<1>2. /\ scopes \in Stacks /\ Len(scopes) = 1 /\ scopes \in Seq(Scope)
      /\ BindingsOf(scopes) \in Views
      /\ Matches(books, BindingsOf(scopes))
      /\ books \in Books
  BY <1>1, EmptyFacts DEF Stacks
<1>3. books.uncharged = {} /\ books.used = 0
  BY <1>1 DEF EmptyBooks
<1>4. Align(MaxPtr) \in Nat
  <2>1. Align(MaxPtr) = RoundedUp(MaxPtr, Stick)
    BY DEF Align, RoundedUp
  <2> QED
    BY <2>1, BoundsAssumption, StickAssumption, RoundedUpFacts
<1>5. marks \in Seq(0 .. Align(MaxPtr)) /\ Len(marks) = 0
  BY <1>1
<1>6. TypeOK
  <2> HIDE DEF Align
  <2> QED
    BY <1>1, <1>2, <1>4, <1>5, BoundsAssumption DEF TypeOK
<1>7. BooksAreSound
  BY <1>1, <1>2, <1>3, CapacityAssumption DEF BooksAreSound
<1>8. MarksRise /\ StagedRangesNest
  BY <1>1, <1>2, <1>5 DEF MarksRise, StagedRangesNest
<1> QED
  BY <1>1, <1>2, <1>5, <1>6, <1>7, <1>8 DEF LxInv

LEMMA ClearStep ==
    ASSUME LxInv, Clear
    PROVE  LxInv'
<1>1. /\ scopes' = <<EmptyScope>> /\ books' = EmptyBooks /\ nextPtr' = 0 /\ marks' = <<>>
      /\ combining' = {} /\ staged' = {} /\ error' = "none"
      /\ UNCHANGED <<held, literal>>
  BY DEF Clear
<1>2. /\ scopes' \in Stacks /\ Len(scopes') = 1 /\ scopes' \in Seq(Scope)
      /\ BindingsOf(scopes') \in Views
      /\ Matches(books', BindingsOf(scopes'))
      /\ books' \in Books
  BY <1>1, EmptyFacts DEF Stacks
<1>3. books'.uncharged = {} /\ books'.used = 0
  BY <1>1 DEF EmptyBooks
<1>4. TypeOK
  BY DEF LxInv
<1>5. Align(MaxPtr) \in Nat
  BY <1>4, MarksType
<1>6. marks' \in Seq(0 .. Align(MaxPtr)) /\ Len(marks') = 0
  BY <1>1
<1>7. TypeOK'
  <2> HIDE DEF Align
  <2> QED
    BY <1>1, <1>2, <1>4, <1>5, <1>6, BoundsAssumption DEF TypeOK
<1>8. BooksAreSound'
  BY <1>1, <1>2, <1>3, CapacityAssumption DEF BooksAreSound
<1>9. MarksRise' /\ StagedRangesNest'
  BY <1>1, <1>2, <1>6 DEF MarksRise, StagedRangesNest
<1> QED
  BY <1>1, <1>2, <1>6, <1>7, <1>8, <1>9 DEF LxInv

LEMMA StutterLx == LxInv /\ UNCHANGED vars => LxInv'
<1> SUFFICES ASSUME LxInv, UNCHANGED vars PROVE LxInv'
  OBVIOUS
<1>1. /\ scopes' = scopes /\ books' = books /\ nextPtr' = nextPtr /\ marks' = marks
      /\ combining' = combining /\ held' = held /\ literal' = literal
      /\ staged' = staged /\ error' = error
  BY DEF vars
<1>2. TypeOK'
  BY <1>1 DEF LxInv, TypeOK
<1>3. error = "none" => BooksAreSound' /\ MarksRise' /\ StagedRangesNest'
  BY <1>1 DEF LxInv, BooksAreSound, MarksRise, StagedRangesNest
<1> QED
  BY <1>1, <1>2, <1>3 DEF LxInv

LEMMA NextLx == LxInv /\ [Next]_vars => LxInv'
<1> SUFFICES ASSUME LxInv, [Next]_vars PROVE LxInv'
  OBVIOUS
<1>1. ASSUME NEW n \in Names, BindScalar(n) PROVE LxInv'
  BY <1>1, BindScalarStep
<1>2. ASSUME NEW n \in Names, Fetch(n) PROVE LxInv'
  BY <1>2, FetchStep
<1>3. ASSUME NEW n \in Names, NEW t \in Tiles, Bind(n, t) PROVE LxInv'
  BY <1>3, BindStep
<1>4. ASSUME NEW n \in Names, NEW t \in Tiles, BindLiteral(n, t) PROVE LxInv'
  BY <1>4, BindLiteralStep
<1>5. ASSUME NEW n \in Names, NEW t \in Tiles, Load(n, t) PROVE LxInv'
  BY <1>5, LoadStep
<1>6. ASSUME NEW t \in Tiles, Compute(t) \/ Drop(t) PROVE LxInv'
  BY <1>6, HeldStep
<1>7. ASSUME NEW combiner \in BOOLEAN, PushScope(combiner) PROVE LxInv'
  BY <1>7, PushStep
<1>8. CASE Pop
  BY <1>8, PopStep
<1>9. CASE Unwind
  BY <1>9, UnwindStep
<1>10. CASE Clear
  BY <1>10, ClearStep
<1>11. CASE UNCHANGED vars
  BY <1>11, StutterLx
<1> QED
  BY <1>1, <1>2, <1>3, <1>4, <1>5, <1>6, <1>7, <1>8, <1>9, <1>10, <1>11 DEF Next

(* The inductive invariant holds in every run of a core's context.         *)
THEOREM ScopesInvariant == Spec => []LxInv
<1> QED
  BY InitLx, NextLx, PTL DEF Spec

(* The context's stack, books, bump pointer and watermarks have the types  *)
(* the code expects, after an exception too.                               *)
THEOREM TypeCorrect == Spec => []TypeOK
<1>1. LxInv => TypeOK
  BY DEF LxInv
<1> QED
  BY <1>1, ScopesInvariant, PTL

(* However tiles are bound under several names, rebound, consumed on last  *)
(* use and popped, _tile_refcount, _uncharged_tiles and lx.used say what   *)
(* the scopes hold.                                                        *)
THEOREM BooksCorrect == Spec => []BooksMatchScopes
<1>1. ASSUME LxInv PROVE BooksMatchScopes
  <2> SUFFICES ASSUME Dedup, error = "none"
               PROVE  /\ \A t \in Tiles : books.refcount[t] = Cardinality(Bindings(t))
                      /\ books.uncharged \subseteq BoundTiles
                      /\ books.used = BytesOf(BoundTiles \ books.uncharged)
    BY DEF BooksMatchScopes
  <2>1. scopes \in Stacks /\ Matches(books, BindingsOf(scopes))
    BY <1>1 DEF LxInv, BooksAreSound
  <2>2. BoundTiles = Holders(BindingsOf(scopes))
    BY <2>1, BoundFacts
  <2>3. \A t \in Tiles : Bindings(t) = BindingsOf(scopes)[t]
    BY DEF Bindings, BindingsOf
  <2> QED
    BY <2>1, <2>2, <2>3 DEF Matches
<1> QED
  BY <1>1, ScopesInvariant, PTL

(* Only the id of a tile an arith.constant made is ever entered in         *)
(* _uncharged_tiles, and it leaves before the id is given to another tile. *)
THEOREM FreeTilesAreLiterals == Spec => []OnlyLiteralsAreFree
<1>1. LxInv => OnlyLiteralsAreFree
  BY DEF LxInv, BooksAreSound, OnlyLiteralsAreFree
<1> QED
  BY <1>1, ScopesInvariant, PTL

(* With alias_dedup on, set_value lets no more bytes of working tiles be   *)
(* bound at once than the scratchpad has.  (With it off an id is charged   *)
(* and released once per name, and a literal's once too often.)            *)
THEOREM LiveTilesFitWithDedup == Spec => [](Dedup => LiveTilesFit)
<1>1. ASSUME LxInv PROVE Dedup => LiveTilesFit
  <2> SUFFICES ASSUME Dedup, error = "none" PROVE BytesOf(BoundTiles \ literal) <= Capacity
    BY DEF LiveTilesFit
  <2> DEFINE holders == Holders(BindingsOf(scopes))
             paying == holders \ books.uncharged
  <2>1. /\ scopes \in Stacks /\ BindingsOf(scopes) \in Views /\ Matches(books, BindingsOf(scopes))
        /\ books.uncharged \subseteq literal /\ books.used <= Capacity
    BY <1>1 DEF LxInv, BooksAreSound
  <2>2. BoundTiles = holders
    BY <2>1, BoundFacts
  <2>3. paying \in SUBSET Tiles /\ IsFiniteSet(paying)
    <3>1. IsFiniteSet(holders) /\ paying \subseteq holders /\ holders \subseteq Tiles
      BY <2>1 DEF Views, Holders
    <3> QED
      BY <3>1, FS_Subset
  <2>4. books.used = BytesOf(paying) /\ books.used \in Int
    BY <2>1 DEF Matches, Books
  <2>5. BoundTiles \ literal \in SUBSET paying
    BY <2>1, <2>2
  <2> HIDE DEF paying, holders
  <2>6. BytesOf(BoundTiles \ literal) <= BytesOf(paying)
    BY <2>3, <2>5, BytesFacts
  <2>7. BytesOf(BoundTiles \ literal) \in Nat
    <3>1. IsFiniteSet(BoundTiles \ literal) /\ BoundTiles \ literal \in SUBSET Tiles
      BY <2>3, <2>5, FS_Subset
    <3> QED
      BY <3>1, BytesFacts
  <2> QED
    BY <2>1, <2>4, <2>6, <2>7, CapacityAssumption
<1> QED
  BY <1>1, ScopesInvariant, PTL

(* What the open scopes have staged in LX does not overlap and lies        *)
(* between their watermarks.                                               *)
THEOREM StagedDataIsSafe == Spec => []StagedRangesNest
<1>1. LxInv => StagedRangesNest
  BY DEF LxInv, StagedRangesNest
<1> QED
  BY <1>1, ScopesInvariant, PTL

(* While no exception is on its way pop_scope finds a count for every tile *)
(* it releases: the KeyError of an absent id cannot be the first error.    *)
THEOREM PopNeverRaises == Spec => [](error = "none" => ~ReleaseRaises(Top))
<1>1. ASSUME LxInv PROVE error = "none" => ~ReleaseRaises(Top)
  BY <1>1, MatchingBooksRelease DEF LxInv, BooksAreSound
<1> QED
  BY <1>1, ScopesInvariant, PTL

(* No step but clear_values changes a binding of a scope below the topmost *)
(* one, so a loop body finds the names around it again at every iteration. *)
THEOREM OuterScopesAreSafe == Spec => OuterScopesAreKept
<1> DEFINE Kept == Clear \/ \A d \in DOMAIN scopes \ {Len(scopes)} :
                               d \in DOMAIN scopes' /\ scopes'[d] = scopes[d]
<1>1. ASSUME LxInv, [Next]_vars PROVE [Kept]_vars
  <2>1. /\ scopes \in Stacks /\ DOMAIN scopes = 1 .. Len(scopes) /\ Len(scopes) \in Nat \ {0}
    BY <1>1, StackFacts DEF LxInv
  <2>2. ASSUME scopes' \in Stacks, Len(scopes') >= Len(scopes) - 1,
               \A d \in 1 .. Len(scopes) - 1 : scopes'[d] = scopes[d]
        PROVE  Kept
    <3>1. DOMAIN scopes' = 1 .. Len(scopes') /\ Len(scopes') \in Nat
      BY <2>2, StackFacts
    <3>2. ASSUME NEW d \in DOMAIN scopes \ {Len(scopes)}
          PROVE  d \in 1 .. Len(scopes) - 1 /\ d \in 1 .. Len(scopes')
      BY <2>1, <2>2, <3>1
    <3> QED
      BY <2>2, <3>1, <3>2
  <2>3. scopes' = scopes => Kept
    BY <2>1
  <2> HIDE DEF Kept
  <2>4. ASSUME NEW n \in Names, BindScalar(n) PROVE Kept
    <3>1. scopes' = Rebound(n, Scalar) /\ Scalar \in Value
      BY <2>4 DEF BindScalar, Value
    <3> QED
      BY <2>1, <2>2, <3>1, ReboundFacts
  <2>5. ASSUME NEW n \in Names, NEW t \in Tiles, Bind(n, t) \/ BindLiteral(n, t) \/ Load(n, t)
        PROVE  Kept
    <3>1. scopes' = Rebound(n, t) /\ t \in Value
      BY <2>5 DEF Bind, BindLiteral, Load, SetValue, Value
    <3> QED
      BY <2>1, <2>2, <3>1, ReboundFacts
  <2>6. ASSUME NEW n \in Names, Fetch(n) PROVE Kept
    <3> DEFINE d == Max(Found(n))
               taken == [scopes EXCEPT ![d] = [m \in DOMAIN @ \ {n} |-> @[m]]]
    <3>1. IF LastUse(n, d) THEN scopes' = taken ELSE scopes' = scopes
      BY <2>6, Zenon DEF Fetch
    <3>d. Found(n) # {} => d = Max(Found(n))
      OBVIOUS
    <3> HIDE DEF d, taken
    <3>2. CASE LastUse(n, d)
      <4>1. d = Len(scopes)
        BY <3>2 DEF LastUse
      <4>2. Found(n) # {} /\ Found(n) \subseteq 0 .. Len(scopes)
        BY <2>1, <2>6 DEF Fetch, Found
      <4>3. d \in Found(n)
        BY <2>1, <3>d, <4>2, MaxFacts
      <4>4. n \in DOMAIN Top
        BY <4>1, <4>3 DEF Found, Top
      <4> DEFINE last == [scopes EXCEPT ![Len(scopes)] = [m \in DOMAIN @ \ {n} |-> @[m]]]
      <4>5. scopes \in Stacks
        BY <2>1
      <4>6. /\ last \in Stacks /\ Len(last) = Len(scopes)
            /\ \A e \in 1 .. Len(scopes) - 1 : last[e] = scopes[e]
        BY <4>4, <4>5, ConsumeFacts, Zenon
      <4>7. taken = last
        BY <4>1 DEF taken
      <4> HIDE DEF last
      <4>8. scopes' = last
        BY <3>1, <3>2, <4>7
      <4>9. Len(scopes) >= Len(scopes) - 1
        BY <2>1
      <4> QED
        BY <2>2, <4>6, <4>8, <4>9
    <3>3. CASE ~LastUse(n, d)
      BY <2>3, <3>1, <3>3
    <3> QED
      BY <3>2, <3>3
  <2>7. ASSUME NEW t \in Tiles, Compute(t) \/ Drop(t) PROVE Kept
    BY <2>3, <2>7 DEF Compute, Drop
  <2>8. ASSUME NEW combiner \in BOOLEAN, PushScope(combiner) PROVE Kept
    <3>1. scopes' = Append(scopes, EmptyScope)
      BY <2>8 DEF PushScope
    <3>2. \A d \in 1 .. Len(scopes) - 1 : d \in 1 .. Len(scopes)
      BY <2>1
    <3> QED
      BY <2>1, <2>2, <3>1, <3>2, PushFacts
  <2>9. CASE Pop \/ Unwind
    <3>1. Len(scopes) > 1
      <4>1. CASE Pop
        BY <4>1 DEF Pop, PopScope
      <4>2. CASE Unwind
        <5>1. combining # {} /\ combining \subseteq 2 .. Len(scopes)
          BY <1>1, <4>2 DEF Unwind, LxInv, TypeOK
        <5>2. PICK m : m \in combining
          BY <5>1
        <5>3. m \in 2 .. Len(scopes)
          BY <5>1, <5>2
        <5> QED
          BY <2>1, <5>3
      <4> QED
        BY <2>9, <4>1, <4>2
    <3>2. scopes' = Front(scopes)
      BY <2>9 DEF Pop, Unwind, PopScope
    <3> QED
      BY <2>1, <2>2, <3>1, <3>2, PopFacts
  <2>10. CASE Clear
    BY <2>10 DEF Kept
  <2>11. CASE UNCHANGED vars
    BY <2>11
  <2> QED
    BY <1>1, <2>4, <2>5, <2>6, <2>7, <2>8, <2>9, <2>10, <2>11 DEF Next
<1> QED
  BY <1>1, ScopesInvariant, PTL DEF Spec, OuterScopesAreKept
=============================================================================
