----------------------------- MODULE AffineSets -----------------------------
(***************************************************************************)
(* affine.py: affine maps, integer sets and their box form.  An expression *)
(* that is linear is the record of its coefficients for the dimensions and *)
(* the symbols and its constant.  A constraint says of an expression, or   *)
(* of its remainder by mod when mod # 0, that it is zero (eq) or not       *)
(* negative.  A bound of a box that is not yet specialised is a set of     *)
(* expressions over the symbols: a lower bound stands for their maximum    *)
(* and an upper one, exclusive, for their minimum.                         *)
(***************************************************************************)
EXTENDS Integers, Sequences, FiniteSets, SequencesExt

None == [kind |-> "none"]

Dot(u, v) ==
    LET sum[i \in 0 .. Len(u)] == IF i = 0 THEN 0 ELSE sum[i - 1] + u[i] * v[i]
    IN  sum[Len(u)]

(* _eval_node *)
Value(e, point, symbols) == Dot(e.d, point) + Dot(e.s, symbols) + e.k

(* affine_set_contains *)
Holds(c, point, symbols) ==
    LET v == Value(c.e, point, symbols)
        r == IF c.mod = 0 THEN v ELSE (v % c.mod)
    IN  IF c.eq THEN r = 0 ELSE r >= 0

InSet(aset, point, symbols) == \A c \in aset : Holds(c, point, symbols)

(* The points of [lo, hi) in row-major order; at most two dimensions. *)
Grid(lo, hi) ==
    IF Len(lo) = 1 THEN [i \in 1 .. (hi[1] - lo[1]) |-> <<lo[1] + i - 1>>]
    ELSE LET cols == hi[2] - lo[2]
         IN  [i \in 1 .. ((hi[1] - lo[1]) * cols) |->
                 <<lo[1] + ((i - 1) \div cols), lo[2] + ((i - 1) % cols)>>]

Origin(shape) == [d \in DOMAIN shape |-> 0]

(* enumerate_affine_set *)
Enumerate(aset, shape) ==
    SelectSeq(Grid(Origin(shape), shape), LAMBDA p : InSet(aset, p, <<>>))

(***************************************************************************)
(* BoxSet.try_from_affine_set                                              *)
(***************************************************************************)
Negated(b) == [s |-> [j \in DOMAIN b.s |-> -b.s[j]], k |-> -b.k]
Next1(b) == [b EXCEPT !.k = @ + 1]
Rest(e) == [s |-> e.s, k |-> e.k]

(* One dimension with a unit coefficient. *)
AxisOf(e) ==
    LET nz == {i \in DOMAIN e.d : e.d[i] # 0}
    IN  IF Cardinality(nz) = 1 /\ \A i \in nz : e.d[i] \in {1, -1}
        THEN CHOOSE i \in nz : TRUE ELSE 0

Lowers(aset, i) ==
    {IF c.e.d[i] = 1 THEN Negated(Rest(c.e)) ELSE Rest(c.e) :
        c \in {c \in aset : AxisOf(c.e) = i /\ (c.eq \/ c.e.d[i] = 1)}}

(* A faulty lowering that forgets that an upper bound is exclusive. *)
Uppers_Inclusive(aset, i) ==
    {IF c.e.d[i] = 1 THEN Negated(Rest(c.e)) ELSE Rest(c.e) :
        c \in {c \in aset : AxisOf(c.e) = i /\ (c.eq \/ c.e.d[i] = -1)}}

Uppers(aset, i) ==
    {Next1(IF c.e.d[i] = 1 THEN Negated(Rest(c.e)) ELSE Rest(c.e)) :
        c \in {c \in aset : AxisOf(c.e) = i /\ (c.eq \/ c.e.d[i] = -1)}}

IsConcrete(box) ==
    \A i \in DOMAIN box.lo : \A b \in box.lo[i] \cup box.hi[i] : \A j \in DOMAIN b.s : b.s[j] = 0

(* eval_bound of each bound; the symbols of a concrete box do not matter. *)
Specialize(box, symbols) ==
    LET vals(bs) == {(IF symbols = <<>> THEN 0 ELSE Dot(b.s, symbols)) + b.k : b \in bs}
    IN  [kind |-> "box",
         lo |-> [i \in DOMAIN box.lo |-> Max(vals(box.lo[i]))],
         hi |-> [i \in DOMAIN box.hi |-> Min(vals(box.hi[i]))]]

IsEmpty(b) == \E i \in DOMAIN b.lo : b.hi[i] <= b.lo[i]

TryFromAffineSet(aset, n) ==
    LET box == [kind |-> "box",
                lo |-> [i \in 1 .. n |-> Lowers(aset, i)],
                hi |-> [i \in 1 .. n |-> Uppers(aset, i)]]
    IN  IF \/ \E c \in aset : c.mod # 0 \/ AxisOf(c.e) = 0
           \/ \E i \in 1 .. n : {} \in {box.lo[i], box.hi[i]}
        THEN None
        ELSE IF IsConcrete(box) /\ IsEmpty(Specialize(box, <<>>)) THEN None
        ELSE box

(* parse_affine_set, and the binding of the symbols construct_memory_view  *)
(* makes: a box with integer bounds, or the affine set.                    *)
ParseSet(aset, n, symbols) ==
    LET box == TryFromAffineSet(aset, n)
    IN  IF box.kind = "none" THEN [kind |-> "set", cs |-> aset]
        ELSE Specialize(box, symbols)

BoxContains(b, p) == \A i \in DOMAIN b.lo : b.lo[i] <= p[i] /\ p[i] < b.hi[i]
SetContains(set, p) ==
    IF set.kind = "box" THEN BoxContains(set, p) ELSE InSet(set.cs, p, <<>>)
Points(set, shape) ==
    IF set.kind = "box" THEN Grid(set.lo, set.hi) ELSE Enumerate(set.cs, shape)

Shifted(p, x) == [i \in DOMAIN p |-> p[i] + x[i]]
Relative(p, x) == [i \in DOMAIN p |-> p[i] - x[i]]

Translate(b, x) == [b EXCEPT !.lo = Shifted(@, x), !.hi = Shifted(@, x)]
Intersect(a, b) ==
    [a EXCEPT !.lo = [i \in DOMAIN @ |-> Max({@[i], b.lo[i]})],
              !.hi = [i \in DOMAIN @ |-> Min({@[i], b.hi[i]})]]

(***************************************************************************)
(* Affine maps: a sequence of expressions.                                 *)
(***************************************************************************)
EvalMap(map, p) == [j \in DOMAIN map |-> Value(map[j], p, <<>>)]

PureDim(e) == IF e.k = 0 /\ AxisOf(e) # 0 /\ e.d[AxisOf(e)] = 1 THEN AxisOf(e) ELSE 0
IsIdentity(map, n) == Len(map) = n /\ \A j \in DOMAIN map : PureDim(map[j]) = j
IsPermutation(map, n) ==
    Len(map) = n /\ {PureDim(map[j]) : j \in DOMAIN map} = 1 .. n
=============================================================================
