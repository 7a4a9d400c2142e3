-------------------------- MODULE SsaMeaning_proof --------------------------
(***************************************************************************)
(* SsaMachine executes kernels as MLIR means them: what an operand holds   *)
(* is the value of its name.  For every set of well-formed kernels that    *)
(* consume and accumulate safely.                                          *)
(***************************************************************************)
EXTENDS SsaMachine_proof

(***************************************************************************)
(* The meaning of operands.  What AccumulatesSafely says of an op, and     *)
(* which names are literals or other names for a tile.                     *)
(***************************************************************************)
LEMMA InScopeGrows ==
    ASSUME NEW b, NEW i \in Nat
    PROVE  InScope(prog, b, i) \subseteq InScope(prog, b, i + 1)
<1>1. Before(prog, b, i) \subseteq Before(prog, b, i + 1)
  <2> SUFFICES ASSUME NEW j \in 1 .. i - 1, NEW n \in Range(prog[b][j].res)
               PROVE  n \in Before(prog, b, i + 1)
    BY DEF Before
  <2>1. j \in 1 .. i + 1 - 1
    OBVIOUS
  <2> QED
    BY <2>1 DEF Before
<1> QED
  BY <1>1 DEF InScope

LEMMA ResultsInScope ==
    ASSUME NEW b, NEW i \in Nat, i >= 1
    PROVE  Range(prog[b][i].res) \subseteq Before(prog, b, i + 1)
<1>1. i \in 1 .. i + 1 - 1
  OBVIOUS
<1> QED
  BY <1>1 DEF Before

(* What is in scope of an op is in scope in its regions. *)
LEMMA InScopeWithin ==
    ASSUME NEW b, NEW i, IsSite(b, i), NEW d \in Regions(prog[b][i])
    PROVE  InScope(prog, b, i) \subseteq InScope(prog, d, 1)
<1>1. prog \in Kernels /\ b \in DOMAIN prog /\ i \in DOMAIN prog[b] /\ d \in DOMAIN prog
  BY OpFacts, BlockIs DEF IsSite
<1>2. \A S \in SUBSET DOMAIN prog : Closed(prog, S) /\ b \in S => d \in S
  BY <1>1 DEF Closed
<1>3. <<b, i>> \in Around(prog, d)
  <2>1. d \in Inside(prog, b, i)
    BY <1>1 DEF Inside
  <2>2. prog[b][i].blks # <<>>
    BY DEF Regions, Range
  <2> QED
    BY <1>1, <2>1, <2>2 DEF Around
<1>4. ASSUME NEW s \in Around(prog, b) PROVE s \in Around(prog, d)
  <2>1. b \in Inside(prog, s[1], s[2])
    BY DEF Around
  <2>2. d \in Inside(prog, s[1], s[2])
    BY <1>1, <1>2, <2>1 DEF Inside
  <2> QED
    BY <2>2 DEF Around
<1> SUFFICES ASSUME NEW n \in InScope(prog, b, i) PROVE n \in InScope(prog, d, 1)
  OBVIOUS
<1>5. CASE n \in Before(prog, b, i)
  <2> DEFINE s == <<b, i>>
  <2>1. s[1] = b /\ s[2] = i /\ s \in Around(prog, d)
    BY <1>3
  <2>2. n \in Before(prog, s[1], s[2]) \cup Binds(prog[s[1]][s[2]])
    BY <1>5, <2>1
  <2> HIDE DEF s
  <2> QED
    BY <2>1, <2>2 DEF InScope
<1>6. CASE n \notin Before(prog, b, i)
  <2>1. PICK s \in Around(prog, b) : n \in Before(prog, s[1], s[2]) \cup Binds(prog[s[1]][s[2]])
    BY <1>6 DEF InScope
  <2> QED
    BY <1>4, <2>1 DEF InScope
<1> QED
  BY <1>5, <1>6

LEMMA SafeOp ==
    ASSUME AccumulatesSafely(prog), NEW b, NEW i, IsSite(b, i), NEW op, op = prog[b][i]
    PROVE  /\ (Range(op.res) \cup Binds(op)) \cap InScope(prog, b, i) \subseteq {"i"}
           /\ op.k = "matmul" =>
                 \/ \E d \in DOMAIN prog : op.ins[2] \in Literals(prog, d)
                 \/ UseCount(prog, op.ins[2]) = 1 /\ op.ins[2] \in Own(prog, b) \ Aliases(prog)
           /\ op.k = "yield" =>
                 /\ IsInjective(op.ins)
                 /\ Range(op.ins) \subseteq Lasting(prog) \cup (Own(prog, b) \ Aliases(prog))
<1>1. b \in DOMAIN prog /\ i \in DOMAIN prog[b]
  BY BlockIs DEF IsSite
<1> QED
  BY <1>1 DEF AccumulatesSafely

LEMMA ConstantNames ==
    ASSUME NEW n, OnlyConstant(prog, n), NEW b, NEW i, IsSite(b, i)
    PROVE  /\ UseCount(prog, n) # 1
           /\ n \notin Range(prog[b][i].args) /\ n \notin Range(prog[b][i].outs)
           /\ n \in Range(prog[b][i].res) => prog[b][i].k = "constant"
<1>1. b \in DOMAIN prog /\ i \in DOMAIN prog[b] /\ IsOp(prog[b][i])
  BY BlockIs, OpFacts DEF IsSite
<1>2. n \notin Range(prog[b][i].args \o prog[b][i].outs)
  BY <1>1 DEF OnlyConstant
<1>3. n \notin Range(prog[b][i].args) /\ n \notin Range(prog[b][i].outs)
  BY <1>1, <1>2, RowFacts, RangeOfConcat DEF RowsAre
<1> QED
  BY <1>1, <1>3 DEF OnlyConstant

LEMMA AliasesAre ==
    ASSUME prog \in Kernels, NEW n
    PROVE  n \in Aliases(prog) <=>
               \E b, i : IsSite(b, i) /\ prog[b][i].k \in {"reshape", "reduce"} /\ n \in Range(prog[b][i].res)
<1>1. \A b \in DOMAIN prog : \A i : i \in DOMAIN prog[b] <=> IsSite(b, i)
  BY BlockIs
<1>2. \A b, i : IsSite(b, i) => b \in DOMAIN prog
  BY DEF IsSite
<1>3. n \in Aliases(prog) <=>
          \E b \in DOMAIN prog : \E i \in DOMAIN prog[b] :
              Shares(prog, b, i) /\ n \in Range(prog[b][i].res)
  <2> DEFINE A(b) == {i \in DOMAIN prog[b] : Shares(prog, b, i)}
             R(b) == UNION {Range(prog[b][i].res) : i \in A(b)}
  <2>1. Aliases(prog) = UNION {R(b) : b \in DOMAIN prog}
    BY DEF Aliases
  <2>2. \A b : n \in R(b) <=> \E i \in A(b) : n \in Range(prog[b][i].res)
    OBVIOUS
  <2>3. n \in Aliases(prog) <=> \E b \in DOMAIN prog : n \in R(b)
    <3> HIDE DEF R
    <3> QED
      BY <2>1
  <2> HIDE DEF R
  <2> QED
    BY <2>2, <2>3
<1> QED
  BY <1>1, <1>2, <1>3 DEF Shares

LEMMA LiteralNames ==
    ASSUME prog \in Kernels, NEW n, NEW b \in DOMAIN prog, n \in Literals(prog, b)
    PROVE  OnlyConstant(prog, n) /\ n \notin Aliases(prog) /\ n # "i"
<1>1. OnlyConstant(prog, n) /\ \E i \in DOMAIN prog[b] : n \in Range(prog[b][i].res)
  BY DEF Literals
<1>2. PICK i : IsSite(b, i) /\ n \in Range(prog[b][i].res)
  BY <1>1, BlockIs
<1>3. n # "i"
  <2>1. IsOp(prog[b][i])
    BY <1>2, OpFacts
  <2> QED
    BY <1>2, <2>1 DEF IsOp
<1>4. n \notin Aliases(prog)
  BY <1>1, AliasesAre, ConstantNames
<1> QED
  BY <1>1, <1>3, <1>4

LEMMA LastingNames ==
    ASSUME prog \in Kernels, NEW n \in Lasting(prog)
    PROVE  /\ OnlyConstant(prog, n) /\ n \notin Aliases(prog) /\ n # "i"
           /\ \A b \in DOMAIN prog : b # "main" => n \notin DefinedIn(prog, b)
<1>1. "main" \in DOMAIN prog
  BY KernelsAssumption DEF WellFormed
<1>2. n \in Literals(prog, "main") /\ \A b \in DOMAIN prog \ {"main"} : n \notin DefinedIn(prog, b)
  BY DEF Lasting
<1> QED
  BY <1>1, <1>2, LiteralNames

(* A name that a reshape or a reduction gives another name. *)
IsShared(n) ==
    \E b, i : /\ IsSite(b, i)
              /\ \/ prog[b][i].k = "reshape" /\ prog[b][i].ins[1] = n
                 \/ prog[b][i].k = "reduce" /\ prog[b][i].outs[1] = n

LEMMA AccumulatorIsNotShared ==
    ASSUME ConsumesSafely(prog), NEW b, NEW i, IsSite(b, i), prog[b][i].k = "matmul",
           UseCount(prog, prog[b][i].ins[2]) = 1
    PROVE  ~IsShared(prog[b][i].ins[2])
<1> DEFINE n == prog[b][i].ins[2]
<1>1. SUFFICES ASSUME NEW c, NEW k, IsSite(c, k),
                      \/ prog[c][k].k = "reshape" /\ prog[c][k].ins[1] = n
                      \/ prog[c][k].k = "reduce" /\ prog[c][k].outs[1] = n
               PROVE  FALSE
  BY DEF IsShared
<1>2. IsOp(prog[b][i]) /\ IsOp(prog[c][k]) /\ prog \in Kernels /\ 2 \in 1 .. Len(prog[b][i].ins)
  <2>1. IsOp(prog[b][i]) /\ IsOp(prog[c][k]) /\ prog \in Kernels
    BY <1>1, OpFacts DEF IsSite
  <2>2. Len(prog[b][i].ins) = 2
    BY <2>1 DEF IsOp
  <2> QED
    BY <2>1, <2>2
<1>3. CASE prog[c][k].k = "reshape" /\ prog[c][k].ins[1] = n
  <2>1. 1 \in 1 .. Len(prog[c][k].ins)
    BY <1>2, <1>3 DEF IsOp
  <2>2. c = b /\ k = i
    BY <1>1, <1>2, <1>3, <2>1, UsedInOnePlace
  <2> QED
    BY <1>3, <2>2
<1>4. CASE prog[c][k].k = "reduce" /\ prog[c][k].outs[1] = n
  <2>1. IsSeq(prog[c][k].outs) /\ 1 \in 1 .. Len(prog[c][k].outs)
    BY <1>2, <1>4 DEF IsOp
  <2>2. n \in Range(prog[c][k].outs)
    BY <1>4, <2>1, RangeIs
  <2> QED
    BY <1>1, <1>2, <2>2, OutsUsed
<1> QED
  BY <1>1, <1>3, <1>4

(***************************************************************************)
(* What an op does to the scopes and to the store.                         *)
(***************************************************************************)
OpChain(vals) ==
    \E b, c, d :
        /\ FetchedIs(core, Reads, b) /\ GrownIs(b, c)
        /\ IF Op.k = "reduce" THEN BoundIs(c, Op.outs, vals, TRUE, d) ELSE d = c
        /\ BoundIs(d, Op.res, vals, Op.k # "constant", core')

(* The buffers there were are as they were, but for buffer k. *)
Unwritten(k) == \A b \in 1 .. Len(core.bufs) : b # k => core'.bufs[b] = core.bufs[b]
NoBuffer == 0

NewValue(t, term) ==
    /\ t \in 1 .. Len(core'.tiles) /\ core'.tiles[t] = Len(core.bufs) + 1
    /\ core'.bufs[Len(core.bufs) + 1] = term /\ Unwritten(NoBuffer)

(* An accumulation into the operand itself, which is no literal any more. *)
InPlace(t) ==
    /\ Visible(core, Op.ins[2]) /\ Op.ins[2] # "i" /\ t = Lookup(core, Op.ins[2])
    /\ core'.tiles = core.tiles /\ Unwritten(core.tiles[t])
    /\ core'.bufs[core.tiles[t]] = Term("matmul", Contents(Op.ins))
    /\ \A e \in 1 .. N : \A n \in DOMAIN core.scopes[e] :
          n \notin Consumed(core, Op.ins) /\ core.scopes[e][n] = t => t \notin core.uncharged

OpValue(t) ==
    \/ Op.k = "constant" /\ NewValue(t, Term(Op.res[1], <<>>))
    \/ Op.k = "compute" /\ NewValue(t, Term(Op.res[1], Contents(Op.ins)))
    \/ Op.k = "reduce" /\ NewValue(t, Term("reduce", Contents(Op.ins \o Op.outs)))
    \/ Op.k = "matmul" /\ NewValue(t, Term("matmul", Contents(Op.ins)))
    \/ Op.k = "matmul" /\ InPlace(t)
    \/ /\ Op.k = "reshape" /\ Unwritten(NoBuffer) /\ t \in 1 .. Len(core'.tiles)
       /\ Visible(core, Op.ins[1]) /\ Op.ins[1] # "i"
       /\ core'.tiles[t] = core.tiles[Lookup(core, Op.ins[1])]
    \/ /\ Op.k = "receive" /\ status = "parked" /\ t = Newest(core)
       /\ core'.tiles = core.tiles /\ core'.bufs = core.bufs

LEMMA MadeValue ==
    ASSUME NEW b, b.tiles = core.tiles, b.bufs = core.bufs, CoreOK(core),
           NEW c, NEW term, MadeIs(b, c, term), core'.tiles = c.tiles, core'.bufs = c.bufs
    PROVE  NewValue(Newest(c), term)
<1>1. Len(core.tiles) \in Nat /\ Len(core.bufs) \in Nat
  BY SeqFacts DEF CoreOK
<1> QED
  BY <1>1 DEF MadeIs, NewValue, Unwritten

LEMMA ConstantChain ==
    ASSUME Here, Op.k = "constant", ConstantRan
    PROVE  \E t : OpChain(<<t>>) /\ OpValue(t)
<1>1. PICK c : MadeIs(core, c, Term(Op.res[1], <<>>)) /\ Done(c, <<Newest(c)>>)
  BY DEF ConstantRan
<1>2. FetchedIs(core, <<>>, core) /\ GrownIs(core, c) /\ CoreOK(core)
  BY <1>1, NothingFetched DEF Here, MadeIs
<1>3. BoundIs(c, Op.res, <<Newest(c)>>, Op.k # "constant", core')
  BY <1>1 DEF Done
<1>4. OpChain(<<Newest(c)>>)
  BY <1>2, <1>3 DEF OpChain, Reads
<1>5. core'.tiles = c.tiles /\ core'.bufs = c.bufs
  BY <1>3 DEF BoundIs
<1>6. NewValue(Newest(c), Term(Op.res[1], <<>>))
  BY <1>1, <1>2, <1>5, MadeValue
<1> QED
  BY <1>4, <1>6 DEF OpValue

LEMMA ComputeChain ==
    ASSUME Here, Op.k = "compute", ComputeRan
    PROVE  \E t : OpChain(<<t>>) /\ OpValue(t)
<1>1. PICK b, c : /\ FetchedIs(core, Op.ins, b)
                  /\ MadeIs(b, c, Term(Op.res[1], Contents(Op.ins)))
                  /\ Done(c, <<Newest(c)>>)
  BY DEF ComputeRan
<1>2. GrownIs(b, c) /\ CoreOK(core) /\ b.tiles = core.tiles /\ b.bufs = core.bufs
  BY <1>1 DEF Here, MadeIs, FetchedIs
<1>3. BoundIs(c, Op.res, <<Newest(c)>>, Op.k # "constant", core')
  BY <1>1 DEF Done
<1>4. OpChain(<<Newest(c)>>)
  BY <1>1, <1>2, <1>3 DEF OpChain, Reads
<1>5. core'.tiles = c.tiles /\ core'.bufs = c.bufs
  BY <1>3 DEF BoundIs
<1>6. NewValue(Newest(c), Term(Op.res[1], Contents(Op.ins)))
  BY <1>1, <1>2, <1>5, MadeValue
<1> QED
  BY <1>4, <1>6 DEF OpValue

LEMMA ReshapeChain ==
    ASSUME Here, Op.k = "reshape", ReshapeRan
    PROVE  \E t : OpChain(<<t>>) /\ OpValue(t)
<1>1. PICK b, c : /\ FetchedIs(core, Op.ins, b)
                  /\ Lookup(core, Op.ins[1]) \in 1 .. Len(core.tiles)
                  /\ Visible(core, Op.ins[1]) /\ Op.ins[1] # "i"
                  /\ ViewedIs(b, c, Lookup(core, Op.ins[1]))
                  /\ Done(c, <<Newest(c)>>)
  BY DEF ReshapeRan
<1>2. /\ GrownIs(b, c) /\ CoreOK(core) /\ b.tiles = core.tiles /\ b.bufs = core.bufs
      /\ Newest(c) \in 1 .. Len(c.tiles) /\ c.bufs = b.bufs
      /\ c.tiles[Newest(c)] = core.tiles[Lookup(core, Op.ins[1])]
  BY <1>1 DEF Here, ViewedIs, FetchedIs
<1>3. BoundIs(c, Op.res, <<Newest(c)>>, Op.k # "constant", core')
  BY <1>1 DEF Done
<1>4. OpChain(<<Newest(c)>>)
  BY <1>1, <1>2, <1>3 DEF OpChain, Reads
<1>5. core'.tiles = c.tiles /\ core'.bufs = c.bufs
  BY <1>3 DEF BoundIs
<1> QED
  BY <1>1, <1>2, <1>4, <1>5 DEF OpValue, Unwritten

LEMMA ReduceChain ==
    ASSUME Here, Op.k = "reduce", ReduceRan
    PROVE  \E t : OpChain(<<t>>) /\ OpValue(t)
<1> DEFINE names == Op.ins \o Op.outs
<1>1. PICK b, c, d :
        /\ FetchedIs(core, names, b)
        /\ MadeIs(b, c, Term("reduce", Contents(names)))
        /\ BoundIs(c, Op.outs, <<Newest(c)>>, TRUE, d)
        /\ Done(d, <<Newest(c)>>)
  BY DEF ReduceRan
<1>2. GrownIs(b, c) /\ CoreOK(core) /\ b.tiles = core.tiles /\ b.bufs = core.bufs /\ Reads = names
  BY <1>1 DEF Here, MadeIs, FetchedIs, Reads
<1>3. BoundIs(d, Op.res, <<Newest(c)>>, Op.k # "constant", core')
  BY <1>1 DEF Done
<1>4. OpChain(<<Newest(c)>>)
  BY <1>1, <1>2, <1>3 DEF OpChain
<1>5. core'.tiles = c.tiles /\ core'.bufs = c.bufs
  BY <1>1, <1>3 DEF BoundIs
<1>6. NewValue(Newest(c), Term("reduce", Contents(names)))
  BY <1>1, <1>2, <1>5, MadeValue
<1> QED
  BY <1>4, <1>6 DEF OpValue

LEMMA ResumeChain ==
    ASSUME Here, status = "parked", ResumeRan
    PROVE  \E t : OpChain(<<t>>) /\ OpValue(t)
<1>1. Done(core, <<Newest(core)>>) /\ Op.k = "receive"
  BY DEF ResumeRan
<1>2. FetchedIs(core, <<>>, core) /\ GrownIs(core, core)
  <2>1. Len(core.scopes) \in Nat /\ Len(core.tiles) \in Nat /\ Len(core.bufs) \in Nat
    BY SeqFacts DEF Here, CoreOK
  <2> QED
    BY <2>1, NothingFetched DEF Here, GrownIs, Extends, Tame, Kept
<1>3. BoundIs(core, Op.res, <<Newest(core)>>, Op.k # "constant", core')
  BY <1>1 DEF Done
<1>4. OpChain(<<Newest(core)>>)
  BY <1>1, <1>2, <1>3 DEF OpChain, Reads
<1>5. core'.tiles = core.tiles /\ core'.bufs = core.bufs
  BY <1>3 DEF BoundIs
<1> QED
  BY <1>1, <1>4, <1>5 DEF OpValue

LEMMA SkipChain ==
    ASSUME Here, SkipRan
    PROVE  OpChain(<<>>) /\ core'.tiles = core.tiles /\ core'.bufs = core.bufs
<1>1. Done(core, <<>>) /\ Op.k = "if"
  BY DEF SkipRan
<1>2. FetchedIs(core, <<>>, core) /\ GrownIs(core, core)
  <2>1. Len(core.scopes) \in Nat /\ Len(core.tiles) \in Nat /\ Len(core.bufs) \in Nat
    BY SeqFacts DEF Here, CoreOK
  <2> QED
    BY <2>1, NothingFetched DEF Here, GrownIs, Extends, Tame, Kept
<1>3. BoundIs(core, Op.res, <<>>, Op.k # "constant", core')
  BY <1>1 DEF Done
<1> QED
  BY <1>1, <1>2, <1>3 DEF OpChain, Reads, BoundIs

LEMMA MatmulChain ==
    ASSUME Here, Op.k = "matmul", MatmulRan, ~Raise("AssertionError")
    PROVE  \E t : OpChain(<<t>>) /\ OpValue(t)
<1>1. PICK b, c, d, t :
          /\ FetchedIs(core, Op.ins, b)
          /\ Visible(core, Op.ins[2]) /\ Op.ins[2] # "i"
          /\ IF Lookup(core, Op.ins[2]) \in b.uncharged
             THEN \E term : MadeIs(b, c, term) /\ t = Newest(c)
             ELSE c = b /\ t = Lookup(core, Op.ins[2])
          /\ t \in 1 .. Len(c.tiles) /\ c.tiles[t] \in 1 .. Len(c.bufs)
          /\ WrittenIs(c, d, c.tiles[t], Term("matmul", Contents(Op.ins)))
          /\ Done(d, <<t>>)
  BY DEF MatmulRan
<1>2. GrownIs(c, d) /\ CoreOK(b) /\ CoreOK(core) /\ b.tiles = core.tiles /\ b.bufs = core.bufs
  BY <1>1 DEF WrittenIs, FetchedIs, Here
<1>3. GrownIs(b, d)
  <2>1. GrownIs(b, c) \/ b = c
    BY <1>1 DEF MadeIs
  <2> QED
    BY <1>2, <2>1, GrownTwice
<1>4. BoundIs(d, Op.res, <<t>>, Op.k # "constant", core')
  BY <1>1 DEF Done
<1>5. OpChain(<<t>>)
  BY <1>1, <1>3, <1>4 DEF OpChain, Reads
<1>6. core'.tiles = d.tiles /\ core'.bufs = d.bufs
  BY <1>4 DEF BoundIs
<1>7. /\ d.tiles = c.tiles /\ Len(d.bufs) = Len(c.bufs)
      /\ \A k \in 1 .. Len(c.bufs) : k # c.tiles[t] => d.bufs[k] = c.bufs[k]
      /\ d.bufs[c.tiles[t]] = Term("matmul", Contents(Op.ins))
  BY <1>1 DEF WrittenIs
<1>8. Len(core.tiles) \in Nat /\ Len(core.bufs) \in Nat
  BY <1>2, SeqFacts DEF CoreOK
<1>9. CASE Lookup(core, Op.ins[2]) \in b.uncharged
  <2>1. PICK term : MadeIs(b, c, term) /\ t = Newest(c)
    BY <1>1, <1>9
  <2>2. /\ Len(c.bufs) = Len(core.bufs) + 1 /\ c.tiles[t] = Len(core.bufs) + 1
        /\ \A k \in 1 .. Len(core.bufs) : c.bufs[k] = core.bufs[k]
    BY <1>2, <2>1 DEF MadeIs
  <2>3. NewValue(t, Term("matmul", Contents(Op.ins)))
    BY <1>1, <1>6, <1>7, <1>8, <2>2 DEF NewValue, Unwritten
  <2> QED
    BY <1>5, <2>3 DEF OpValue
<1>10. CASE Lookup(core, Op.ins[2]) \notin b.uncharged
  <2>1. c = b /\ t = Lookup(core, Op.ins[2])
    BY <1>1, <1>10
  <2>2. ASSUME NEW e \in 1 .. N, NEW n \in DOMAIN core.scopes[e],
               n \notin Consumed(core, Op.ins), core.scopes[e][n] = t, t \in core.uncharged
        PROVE  FALSE
    <3>1. N \in Nat /\ Len(core.scopes) = N /\ Len(b.scopes) = N /\ IsSeq(b.scopes)
      BY <1>1, <1>2 DEF Here, FetchedIs, CoreOK
    <3>2. n \in DOMAIN b.scopes[e] /\ b.scopes[e][n] = t
      <4>1. CASE e = N
        BY <1>1, <2>2, <3>1, <4>1 DEF FetchedIs
      <4>2. CASE e # N
        <5>1. e \in 1 .. Len(core.scopes) - 1
          BY <3>1, <4>2
        <5>2. b.scopes[e] = core.scopes[e]
          BY <1>1, <5>1 DEF FetchedIs, Kept
        <5> QED
          BY <2>2, <5>2
      <4> QED
        BY <4>1, <4>2
    <3>3. t # Scalar
      BY <1>1, <1>2, <2>1 DEF Scalar
    <3>4. t \in BoundTiles(b.scopes)
      BY <3>1, <3>2, <3>3, BoundTilesAre
    <3> QED
      BY <1>1, <1>10, <2>1, <2>2, <3>4 DEF FetchedIs
  <2>3. InPlace(t)
    BY <1>1, <1>2, <1>6, <1>7, <2>1, <2>2 DEF InPlace, Unwritten
  <2> QED
    BY <1>5, <2>3 DEF OpValue
<1> QED
  BY <1>9, <1>10

(* An op binds one tile, or it is an scf.if without a branch. *)
LEMMA OpChains ==
    ASSUME OpStep
    PROVE  \/ \E t : OpChain(<<t>>) /\ OpValue(t)
           \/ SkipRan /\ OpChain(<<>>) /\ core'.tiles = core.tiles /\ core'.bufs = core.bufs
<1>1. Here
  BY DEF OpStep
<1>2. CASE status = "parked" /\ ResumeRan
  BY <1>1, <1>2, ResumeChain
<1>3. CASE status = "running" /\ Computes
  BY <1>1, <1>3, ConstantChain, ComputeChain, ReshapeChain, MatmulChain, ReduceChain, SkipChain
     DEF Computes
<1> QED
  BY <1>2, <1>3 DEF OpStep


(***************************************************************************)
(* Sightings.  An op of frame d sees name n, in scope e, when n is in      *)
(* scope, has not been used up, and that scope is the innermost with n.    *)
(***************************************************************************)
AtOp(fs, d) == d \in 1 .. Len(fs) /\ IsSite(fs[d].blk, fs[d].pc)
OpAt(fs, d) == prog[fs[d].blk][fs[d].pc]
ScopeAt(fs, d) == InScope(prog, fs[d].blk, fs[d].pc)
IsAt(c, d, n, e) ==
    /\ e \in 1 .. d /\ n \in DOMAIN c.scopes[e]
    /\ \A g \in 1 .. d : g > e => n \notin DOMAIN c.scopes[g]
Sees(c, fs, st, d, n, e) ==
    /\ AtOp(fs, d) /\ n \in ScopeAt(fs, d) /\ ~UsedUp(prog, usedOnce, fs, st, d, n)
    /\ IsAt(c, d, n, e)

(* A region on top of frame m, as it is entered. *)
RegionOn(m) ==
    /\ frames'[m].pc = frames[m].pc /\ frames'[m].env = frames[m].env
    /\ frames'[m + 1].pc \in {0, 1} /\ frames'[m + 1].blk \in Regions(OpAt(frames, m))
    /\ frames'[m + 1].k = OpAt(frames, m).k
    /\ frames'[m + 1].k = "for" => frames'[m + 1].outer = frames[m].env

(* The names that its ops do not find in the frames below. *)
Opened(m, d) ==
    IF d = m + 1 /\ OpAt(frames, m).k = "for" THEN {"i"} ELSE {}

(* A step at frame m consumes the names con and binds the names new.       *)
Moves(m, con, new) ==
    /\ m \in Nat /\ m >= 1 /\ AtOp(frames, m) /\ m <= Len(core.scopes)
    /\ Len(frames') \in {m, m + 1} /\ Extends(core, core')
    /\ \A e \in 1 .. m - 1 : frames'[e] = frames[e] /\ core'.scopes[e] = core.scopes[e]
    /\ frames'[m].k = frames[m].k /\ frames'[m].blk = frames[m].blk
    /\ frames'[m].outer = frames[m].outer
    /\ DOMAIN core'.scopes[m] = (DOMAIN core.scopes[m] \ con) \cup new
    /\ \A n \in DOMAIN core.scopes[m] \ (con \cup new) : core'.scopes[m][n] = core.scopes[m][n]
    /\ \A n \in con : n \in usedOnce /\ Used(prog, frames[m].blk, Past(frames', status', m), n)
    /\ Past(frames, status, m) \in Int /\ Past(frames', status', m) \in Int
    /\ Past(frames, status, m) <= Past(frames', status', m)
    /\ IF frames'[m].pc = frames[m].pc THEN new \subseteq Range(OpAt(frames, m).args)
       ELSE /\ frames'[m].pc = frames[m].pc + 1
            /\ new = Range(OpAt(frames, m).res) \cup Range(OpAt(frames, m).outs)
    /\ \A d \in m .. Len(frames') : frames'[d].pc > 0 =>
           \A n \in DOMAIN frames[m].env \ (new \cup Opened(m, d)) :
               n \in DOMAIN frames'[d].env /\ frames'[d].env[n] = frames[m].env[n]
    /\ Len(frames') = m + 1 =>
           /\ RegionOn(m)
           /\ frames'[m + 1].pc = 1 => /\ Range(OpAt(frames, m).args) \subseteq new
                                       /\ DOMAIN core'.scopes[m + 1] = Opened(m, m + 1)

(* A sighting that frame k <= d had before the step. *)
Carried(d, n, e) ==
    \E k \in 1 .. d :
        /\ Sees(core, frames, status, k, n, e)
        /\ ScopeAt(frames, k) \subseteq ScopeAt(frames', d)
        /\ core'.scopes[e][n] = core.scopes[e][n]
        /\ n \in DOMAIN frames[k].env =>
               n \in DOMAIN frames'[d].env /\ frames'[d].env[n] = frames[k].env[n]

LEMMA OpIsOp ==
    ASSUME NEW fs, NEW d, AtOp(fs, d)
    PROVE  /\ IsOp(OpAt(fs, d)) /\ RowsAre(OpAt(fs, d))
           /\ "i" \notin Range(OpAt(fs, d).res) /\ "i" \notin Range(OpAt(fs, d).args)
           /\ "i" \notin Range(OpAt(fs, d).outs)
           /\ fs[d].pc \in Nat /\ fs[d].pc >= 1 /\ prog \in Kernels
           /\ fs[d].pc \in 1 .. Len(prog[fs[d].blk]) /\ Len(prog[fs[d].blk]) \in Nat
<1> DEFINE op == OpAt(fs, d)
<1>1. IsSite(fs[d].blk, fs[d].pc)
  BY DEF AtOp
<1>2. IsOp(prog[fs[d].blk][fs[d].pc])
  BY <1>1, OpFacts
<1>3. IsOp(op)
  BY <1>2 DEF OpAt
<1>4. RowsAre(op)
  BY <1>3, RowFacts
<1>5. fs[d].pc \in 1 .. Len(prog[fs[d].blk]) /\ Len(prog[fs[d].blk]) \in Nat /\ prog \in Kernels
  BY <1>1, BlockIs DEF IsSite
<1> HIDE DEF op
<1>6. "i" \notin Range(op.res) /\ "i" \notin Range(op.args)
  BY <1>3 DEF IsOp
<1>7. "i" \notin Range(op.outs)
  <2>1. CASE op.k = "reduce"
    <3>1. "i" \notin Range(op.ins \o op.outs)
      BY <1>3, <2>1 DEF IsOp
    <3> QED
      BY <1>4, <3>1, RangeOfConcat DEF RowsAre
  <2>2. CASE op.k # "reduce"
    <3>1. Len(op.outs) = 0
      BY <1>3, <2>2 DEF IsOp
    <3> QED
      BY <1>4, <3>1, RangeIs DEF RowsAre
  <2> QED
    BY <2>1, <2>2
<1> QED
  BY <1>3, <1>4, <1>5, <1>6, <1>7 DEF op

LEMMA SeenIs ==
    ASSUME NEW c, NEW fs, NEW st, CoreOK(c), FramesOK(fs), ScopesMatch(c, fs),
           NEW d, NEW n, NEW e, Sees(c, fs, st, d, n, e)
    PROVE  /\ d \in 1 .. Len(fs) /\ Len(fs) \in Nat /\ d \in 1 .. Len(c.scopes) /\ e \in 1 .. d
           /\ e \in 1 .. Len(c.scopes) /\ n \in DOMAIN c.scopes[e]
           /\ n = "i" => c.scopes[e][n] = Scalar
           /\ n # "i" => /\ c.scopes[e][n] \in 1 .. Len(c.tiles)
                         /\ c.tiles[c.scopes[e][n]] \in 1 .. Len(c.bufs)
<1>1. /\ d \in 1 .. Len(fs) /\ Len(fs) \in Nat /\ IsSite(fs[d].blk, fs[d].pc)
      /\ e \in 1 .. d /\ n \in DOMAIN c.scopes[e]
  BY SeqFacts DEF Sees, AtOp, IsAt, FramesOK
<1>2. fs[d].pc # 0
  BY <1>1, BlockIs DEF IsSite
<1>3. d \in 1 .. Len(c.scopes)
  <2>1. Len(c.scopes) \in Nat
    BY SeqFacts DEF CoreOK
  <2>2. d = Len(fs) => Len(c.scopes) = Len(fs)
    BY <1>1, <1>2 DEF ScopesMatch
  <2>3. Len(c.scopes) = Len(fs) \/ Len(c.scopes) = Len(fs) - 1
    BY <1>1 DEF ScopesMatch
  <2> QED
    BY <1>1, <2>1, <2>2, <2>3
<1>4. e \in 1 .. Len(c.scopes)
  <2>1. Len(c.scopes) \in Nat
    BY SeqFacts DEF CoreOK
  <2> QED
    BY <1>1, <1>3, <2>1
<1>5. ScopeOK(c, c.scopes[e])
  BY <1>4 DEF CoreOK
<1>6. IF n = "i" THEN c.scopes[e][n] = Scalar ELSE c.scopes[e][n] \in 1 .. Len(c.tiles)
  BY <1>1, <1>5 DEF ScopeOK
<1>7. c.scopes[e][n] \in 1 .. Len(c.tiles) => c.tiles[c.scopes[e][n]] \in 1 .. Len(c.bufs)
  BY DEF CoreOK
<1> QED
  BY <1>1, <1>3, <1>4, <1>6, <1>7

LEMMA UsedMore ==
    ASSUME NEW p, NEW b, NEW k, NEW l, k \in Int, l \in Int, k <= l, NEW n, Used(p, b, k, n)
    PROVE  Used(p, b, l, n)
<1>1. PICK i \in 1 .. k : n \in Range(p[b][i].ins)
  BY DEF Used
<1>2. i \in 1 .. l
  BY <1>1
<1> QED
  BY <1>1, <1>2 DEF Used

(* Below frame m nothing is used up that was not. *)
LEMMA PastBelow ==
    ASSUME TypeInv, NEW m, NEW con, NEW new, Moves(m, con, new), NEW e \in 1 .. m - 1
    PROVE  /\ Past(frames', status', e) = Past(frames, status, e)
           /\ frames'[e] = frames[e] /\ core'.scopes[e] = core.scopes[e]
<1>1. m \in Nat /\ frames'[e] = frames[e] /\ core'.scopes[e] = core.scopes[e]
  BY DEF Moves
<1>2. e # Len(frames) /\ e # Len(frames')
  <2>1. m \in 1 .. Len(frames) /\ Len(frames') \in {m, m + 1}
    BY DEF Moves, AtOp
  <2>2. Len(frames) \in Nat
    BY SeqFacts DEF TypeInv, FramesOK
  <2> QED
    BY <1>1, <2>1, <2>2
<1> QED
  BY <1>1, <1>2 DEF Past

LEMMA UsedUpMoves ==
    ASSUME TypeInv, NEW m, NEW con, NEW new, Moves(m, con, new), NEW k \in 1 .. m, NEW d, d \in Nat, k <= d,
           NEW n, UsedUp(prog, usedOnce, frames, status, k, n)
    PROVE  UsedUp(prog, usedOnce, frames', status', d, n)
<1>1. m \in Nat
  BY DEF Moves
<1>2. PICK e \in 1 .. k : Used(prog, frames[e].blk, Past(frames, status, e), n)
  BY DEF UsedUp
<1>3. Used(prog, frames'[e].blk, Past(frames', status', e), n)
  <2>1. CASE e = m
    <3>1. /\ Past(frames, status, m) \in Int /\ Past(frames', status', m) \in Int
          /\ Past(frames, status, m) <= Past(frames', status', m) /\ frames'[m].blk = frames[m].blk
      BY DEF Moves
    <3> QED
      BY <1>2, <2>1, <3>1, UsedMore
  <2>2. CASE e # m
    <3>1. e \in 1 .. m - 1
      BY <1>1, <1>2, <2>2
    <3> QED
      BY <1>2, <3>1, PastBelow
  <2> QED
    BY <2>1, <2>2
<1>4. e \in 1 .. d /\ n \in usedOnce
  BY <1>1, <1>2 DEF UsedUp
<1> QED
  BY <1>3, <1>4 DEF UsedUp

(* What an op sees of frame m that is not new was seen before. *)
LEMMA SeenAtLevel ==
    ASSUME TypeInv, NEW m, NEW con, NEW new, Moves(m, con, new), NEW d, d \in Nat, m <= d,
           NEW n, n \notin new, NEW e, IsAt(core', m, n, e), n \in ScopeAt(frames, m),
           ~UsedUp(prog, usedOnce, frames', status', d, n)
    PROVE  Sees(core, frames, status, m, n, e) /\ core'.scopes[e][n] = core.scopes[e][n]
<1>1. /\ m \in Nat /\ m >= 1 /\ AtOp(frames, m) /\ m \in 1 .. m
      /\ DOMAIN core'.scopes[m] = (DOMAIN core.scopes[m] \ con) \cup new
      /\ \A x \in DOMAIN core.scopes[m] \ (con \cup new) : core'.scopes[m][x] = core.scopes[m][x]
      /\ \A x \in 1 .. m - 1 : core'.scopes[x] = core.scopes[x]
  BY DEF Moves
<1>2. ~UsedUp(prog, usedOnce, frames, status, m, n)
  BY <1>1, UsedUpMoves
<1>3. n \notin con
  <2>1. SUFFICES ASSUME n \in con PROVE FALSE
    OBVIOUS
  <2>2. n \in usedOnce /\ Used(prog, frames'[m].blk, Past(frames', status', m), n)
    BY <2>1 DEF Moves
  <2>3. m \in 1 .. d
    BY <1>1
  <2> QED
    BY <2>2, <2>3 DEF UsedUp
<1>4. e \in 1 .. m /\ n \in DOMAIN core'.scopes[e] /\ \A g \in 1 .. m : g > e => n \notin DOMAIN core'.scopes[g]
  BY DEF IsAt
<1>5. \A g \in 1 .. m : n \in DOMAIN core'.scopes[g] <=> n \in DOMAIN core.scopes[g]
  <2> TAKE g \in 1 .. m
  <2>1. g = m \/ g \in 1 .. m - 1
    BY <1>1
  <2> QED
    BY <1>1, <1>3, <2>1
<1>6. IsAt(core, m, n, e)
  BY <1>4, <1>5 DEF IsAt
<1>7. core'.scopes[e][n] = core.scopes[e][n]
  <2>1. e = m \/ e \in 1 .. m - 1
    BY <1>1, <1>4
  <2>2. n \in DOMAIN core.scopes[e]
    BY <1>4, <1>5
  <2> QED
    BY <1>1, <1>3, <2>1, <2>2
<1> QED
  BY <1>1, <1>2, <1>6, <1>7 DEF Sees


LEMMA NotRedefined ==
    ASSUME AccumulatesSafely(prog), NEW d, AtOp(frames, d), NEW n \in ScopeAt(frames, d)
    PROVE  n \notin Range(OpAt(frames, d).args) /\ n \notin Range(OpAt(frames, d).res)
<1> DEFINE op == OpAt(frames, d)
<1>1. IsSite(frames[d].blk, frames[d].pc) /\ op = prog[frames[d].blk][frames[d].pc]
  BY DEF AtOp, OpAt
<1> HIDE DEF op
<1>2. (Range(op.res) \cup Binds(op)) \cap InScope(prog, frames[d].blk, frames[d].pc) \subseteq {"i"}
  BY <1>1, SafeOp
<1>3. "i" \notin Range(op.res) /\ "i" \notin Range(op.args)
  BY OpIsOp DEF op
<1> QED
  BY <1>2, <1>3 DEF ScopeAt, Binds, op

(* A sighting of a name that the step binds. *)
IsNew(m, new, d, n, e) ==
    /\ n \in new /\ n # "i" /\ e = m
    /\ (d = m /\ frames'[m].pc = frames[m].pc + 1) \/ d = m + 1

LEMMA NewNames ==
    ASSUME NEW m, NEW con, NEW new, Moves(m, con, new)
    PROVE  "i" \notin new
<1>1. /\ "i" \notin Range(OpAt(frames, m).res) /\ "i" \notin Range(OpAt(frames, m).args)
      /\ "i" \notin Range(OpAt(frames, m).outs)
  BY OpIsOp DEF Moves
<1> QED
  BY <1>1 DEF Moves

LEMMA SightsMove ==
    ASSUME TypeInv, AccumulatesSafely(prog), NEW m, NEW con, NEW new, Moves(m, con, new),
           NEW d, NEW n, NEW e, Sees(core', frames', status', d, n, e)
    PROVE  \/ Carried(d, n, e)
           \/ IsNew(m, new, d, n, e)
           \/ n = "i" /\ d = m + 1 /\ e = d /\ OpAt(frames, m).k = "for" /\ frames'[d].pc = 1
<1>1. /\ m \in Nat /\ m >= 1 /\ m \in 1 .. m /\ AtOp(frames, m) /\ Len(frames') \in {m, m + 1}
      /\ frames'[m].blk = frames[m].blk
  BY DEF Moves
<1>2. /\ AtOp(frames', d) /\ n \in ScopeAt(frames', d) /\ IsAt(core', d, n, e)
      /\ ~UsedUp(prog, usedOnce, frames', status', d, n)
  BY DEF Sees
<1>3. d \in 1 .. Len(frames') /\ d \in Nat /\ e \in 1 .. d /\ n \in DOMAIN core'.scopes[e]
  BY <1>1, <1>2 DEF AtOp, IsAt
<1>4. frames[m].pc \in Nat /\ frames[m].pc >= 1 /\ "i" \notin new
  BY <1>1, OpIsOp, NewNames
<1>5. IsSite(frames'[d].blk, frames'[d].pc) /\ frames'[d].pc \in Nat /\ frames'[d].pc >= 1
  <2>1. IsSite(frames'[d].blk, frames'[d].pc)
    BY <1>2 DEF AtOp
  <2> QED
    BY <2>1, BlockIs DEF IsSite
<1>6. CASE d < m
  <2>1. d \in 1 .. m - 1
    BY <1>1, <1>3, <1>6
  <2>2. \A x \in 1 .. d : /\ Past(frames', status', x) = Past(frames, status, x)
                          /\ frames'[x] = frames[x] /\ core'.scopes[x] = core.scopes[x]
    <3> TAKE x \in 1 .. d
    <3>1. x \in 1 .. m - 1
      BY <1>1, <2>1
    <3> QED
      BY <3>1, PastBelow
  <2>3. d \in 1 .. d /\ e \in 1 .. d
    BY <1>3
  <2>4. AtOp(frames, d)
    <3>1. d \in 1 .. Len(frames)
      <4>1. m \in 1 .. Len(frames) /\ Len(frames) \in Nat
        BY <1>1, SeqFacts DEF AtOp, TypeInv, FramesOK
      <4> QED
        BY <2>1, <4>1
    <3> QED
      BY <1>5, <2>2, <2>3, <3>1 DEF AtOp
  <2>5. ScopeAt(frames, d) = ScopeAt(frames', d)
    BY <2>2, <2>3 DEF ScopeAt
  <2>6. ~UsedUp(prog, usedOnce, frames, status, d, n)
    BY <1>2, <2>2 DEF UsedUp
  <2>7. IsAt(core, d, n, e)
    BY <1>2, <2>2 DEF IsAt
  <2>8. Sees(core, frames, status, d, n, e)
    BY <1>2, <2>4, <2>5, <2>6, <2>7 DEF Sees
  <2> QED
    BY <2>2, <2>3, <2>5, <2>8 DEF Carried
<1>7. CASE d = m
  <2>1. CASE n \in new
    <3>1. e = m
      <4>1. n \in DOMAIN core'.scopes[m]
        BY <2>1 DEF Moves
      <4>2. ~(m > e)
        BY <1>1, <1>2, <1>7, <4>1 DEF IsAt
      <4> QED
        BY <1>1, <1>3, <1>7, <4>2
    <3>2. frames'[m].pc = frames[m].pc + 1
      <4>1. CASE frames'[m].pc = frames[m].pc
        <5>1. n \in Range(OpAt(frames, m).args)
          BY <2>1, <4>1 DEF Moves
        <5>2. n \in ScopeAt(frames, m)
          BY <1>1, <1>2, <1>7, <4>1 DEF ScopeAt
        <5> QED
          BY <1>1, <5>1, <5>2, NotRedefined
      <4>2. CASE frames'[m].pc # frames[m].pc
        BY <4>2 DEF Moves
      <4> QED
        BY <4>1, <4>2
    <3> QED
      BY <1>4, <1>7, <2>1, <3>1, <3>2 DEF IsNew
  <2>2. CASE n \notin new
    <3>1. n \in ScopeAt(frames, m) /\ ScopeAt(frames, m) \subseteq ScopeAt(frames', m)
      <4>1. CASE frames'[m].pc = frames[m].pc
        BY <1>1, <1>2, <1>7, <4>1 DEF ScopeAt
      <4>2. CASE frames'[m].pc # frames[m].pc
        <5>1. frames'[m].pc = frames[m].pc + 1 /\ Range(OpAt(frames, m).res) \subseteq new
          BY <4>2 DEF Moves
        <5>2. InScope(prog, frames[m].blk, frames[m].pc + 1)
                  \subseteq InScope(prog, frames[m].blk, frames[m].pc) \cup Range(OpAt(frames, m).res)
          BY <1>1, <1>4, InScopeAfter DEF AtOp, OpAt
        <5>3. InScope(prog, frames[m].blk, frames[m].pc) \subseteq InScope(prog, frames[m].blk, frames[m].pc + 1)
          BY <1>4, InScopeGrows
        <5>4. /\ ScopeAt(frames, m) = InScope(prog, frames[m].blk, frames[m].pc)
              /\ ScopeAt(frames', m) = InScope(prog, frames[m].blk, frames[m].pc + 1)
          BY <1>1, <5>1 DEF ScopeAt
        <5> QED
          BY <1>2, <1>7, <2>2, <5>1, <5>2, <5>3, <5>4
      <4> QED
        BY <4>1, <4>2
    <3>2. Sees(core, frames, status, m, n, e) /\ core'.scopes[e][n] = core.scopes[e][n]
      BY <1>1, <1>2, <1>3, <1>7, <2>2, <3>1, SeenAtLevel
    <3>3. n \in DOMAIN frames[m].env => n \in DOMAIN frames'[d].env /\ frames'[d].env[n] = frames[m].env[n]
      <4>1. d \in m .. Len(frames') /\ frames'[d].pc > 0 /\ n \notin Opened(m, d)
        BY <1>1, <1>3, <1>5, <1>7 DEF Opened
      <4> QED
        BY <2>2, <4>1 DEF Moves
    <3> QED
      BY <1>1, <1>7, <3>1, <3>2, <3>3 DEF Carried
  <2> QED
    BY <2>1, <2>2
<1>8. CASE d > m
  <2>1. d = m + 1 /\ Len(frames') = m + 1 /\ m \in 1 .. d
    BY <1>1, <1>3, <1>8
  <2>2. /\ RegionOn(m)
        /\ frames'[m + 1].pc = 1 => /\ Range(OpAt(frames, m).args) \subseteq new
                                    /\ DOMAIN core'.scopes[m + 1] = Opened(m, m + 1)
    BY <2>1 DEF Moves
  <2>3. frames'[d].pc = 1 /\ frames'[d].blk \in Regions(OpAt(frames, m))
    BY <1>5, <2>1, <2>2 DEF RegionOn
  <2>4. CASE n \in DOMAIN core'.scopes[d]
    <3>1. n \in Opened(m, d)
      BY <2>1, <2>2, <2>3, <2>4
    <3>2. n = "i" /\ OpAt(frames, m).k = "for"
      BY <3>1 DEF Opened
    <3>3. ~(d > e)
      BY <1>2, <1>3, <2>4 DEF IsAt
    <3> QED
      BY <1>3, <2>1, <2>3, <3>2, <3>3
  <2>5. CASE n \notin DOMAIN core'.scopes[d]
    <3>1. e \in 1 .. m
      BY <1>1, <1>3, <2>1, <2>5
    <3>2. CASE n \in new
      <4>1. n \in DOMAIN core'.scopes[m]
        BY <3>2 DEF Moves
      <4>2. ~(m > e)
        BY <1>2, <2>1, <4>1 DEF IsAt
      <4>3. e = m
        BY <1>1, <3>1, <4>2
      <4> QED
        BY <1>4, <2>1, <3>2, <4>3 DEF IsNew
    <3>3. CASE n \notin new
      <4>1. IsAt(core', m, n, e)
        <5>1. \A g \in 1 .. m : g \in 1 .. d
          BY <1>1, <2>1
        <5> QED
          BY <1>2, <1>3, <3>1, <5>1 DEF IsAt
      <4>2. /\ ScopeAt(frames', d) = InScope(prog, frames'[d].blk, 1)
            /\ ScopeAt(frames, m) = InScope(prog, frames[m].blk, frames[m].pc)
        BY <2>3 DEF ScopeAt
      <4>3. /\ InScope(prog, frames'[d].blk, 1) \subseteq ScopeAt(frames, m) \cup Binds(OpAt(frames, m))
            /\ ScopeAt(frames, m) \subseteq InScope(prog, frames'[d].blk, 1)
        BY <1>1, <2>3, <4>2, InScopeInside, InScopeWithin DEF AtOp, OpAt
      <4>4. n \notin Binds(OpAt(frames, m))
        <5>1. Range(OpAt(frames, m).args) \subseteq new /\ DOMAIN core'.scopes[d] = Opened(m, d)
          BY <2>1, <2>2, <2>3
        <5>2. OpAt(frames, m).k = "for" => n # "i"
          BY <2>1, <2>5, <5>1 DEF Opened
        <5> QED
          BY <3>3, <5>1, <5>2 DEF Binds
      <4>5. n \in ScopeAt(frames, m) /\ ScopeAt(frames, m) \subseteq ScopeAt(frames', d)
        BY <1>2, <4>2, <4>3, <4>4
      <4>6. Sees(core, frames, status, m, n, e) /\ core'.scopes[e][n] = core.scopes[e][n]
        <5>1. m <= d
          BY <1>1, <2>1
        <5> QED
          BY <1>2, <1>3, <3>3, <4>1, <4>5, <5>1, SeenAtLevel
      <4>7. n \in DOMAIN frames[m].env => n \in DOMAIN frames'[d].env /\ frames'[d].env[n] = frames[m].env[n]
        <5>1. d \in m .. Len(frames') /\ frames'[d].pc > 0
          BY <1>1, <1>3, <1>5, <1>8
        <5>2. n \notin Opened(m, d)
          BY <2>1, <2>2, <2>3, <2>5
        <5> QED
          BY <3>3, <5>1, <5>2 DEF Moves
      <4> QED
        BY <2>1, <4>5, <4>6, <4>7 DEF Carried
    <3> QED
      BY <3>2, <3>3
  <2> QED
    BY <2>4, <2>5
<1> QED
  BY <1>1, <1>3, <1>6, <1>7, <1>8


(***************************************************************************)
(* What is bound where.  A loop remembers the meanings it began with; the  *)
(* lasting literals of the outermost scope are those of ops that ran; and  *)
(* the results of the ops a region has run are bound in its scope or used. *)
(***************************************************************************)
EnvLink(fs) == \A d \in 2 .. Len(fs) : fs[d].k = "for" => fs[d].outer = fs[d - 1].env
LastingIn(c, fs) ==
    \A n \in Lasting(prog) : n \in DOMAIN c.scopes[1] => n \in Before(prog, "main", fs[1].pc)
Results(b, i) == Range(prog[b][i].res) \cup Range(prog[b][i].outs)
OwnBound(c, fs, st, d) ==
    fs[d].pc > 0 =>
        \A i \in 1 .. fs[d].pc - 1 : \A n \in Results(fs[d].blk, i) :
            n \in DOMAIN c.scopes[d]
            \/ (n \in usedOnce /\ Used(prog, fs[d].blk, Past(fs, st, d), n))
BindsOK(c, fs, st) ==
    EnvLink(fs) /\ LastingIn(c, fs) /\ \A d \in 1 .. Len(fs) : OwnBound(c, fs, st, d)

LEMMA EnvLinkMoves ==
    ASSUME TypeInv, EnvLink(frames), NEW m, NEW con, NEW new, Moves(m, con, new)
    PROVE  EnvLink(frames')
<1>1. /\ m \in Nat /\ m \in 1 .. Len(frames) /\ Len(frames) \in Nat /\ Len(frames') \in {m, m + 1}
      /\ frames'[m].outer = frames[m].outer /\ frames'[m].k = frames[m].k
      /\ \A e \in 1 .. m - 1 : frames'[e] = frames[e]
  BY SeqFacts DEF Moves, AtOp, TypeInv, FramesOK
<1> SUFFICES ASSUME NEW d \in 2 .. Len(frames'), frames'[d].k = "for"
             PROVE  frames'[d].outer = frames'[d - 1].env
  BY DEF EnvLink
<1>2. CASE d <= m
  <2>1. d \in 2 .. Len(frames) /\ d - 1 \in 1 .. m - 1
    BY <1>1, <1>2
  <2>2. frames'[d].outer = frames[d].outer /\ frames'[d].k = frames[d].k
    <3>1. d = m \/ d \in 1 .. m - 1
      BY <1>1, <1>2
    <3> QED
      BY <1>1, <3>1
  <2>3. frames[d].outer = frames[d - 1].env
    BY <2>1, <2>2 DEF EnvLink
  <2> QED
    BY <1>1, <2>1, <2>2, <2>3
<1>3. CASE d > m
  <2>1. d = m + 1 /\ Len(frames') = m + 1 /\ d - 1 = m
    BY <1>1, <1>3
  <2>2. RegionOn(m)
    BY <2>1 DEF Moves
  <2> QED
    BY <2>1, <2>2 DEF RegionOn
<1> QED
  BY <1>1, <1>2, <1>3

LEMMA LastingMoves ==
    ASSUME TypeInv, LastingIn(core, frames), NEW m, NEW con, NEW new, Moves(m, con, new)
    PROVE  LastingIn(core', frames')
<1>1. /\ m \in Nat /\ m >= 1 /\ AtOp(frames, m)
      /\ \A e \in 1 .. m - 1 : frames'[e] = frames[e] /\ core'.scopes[e] = core.scopes[e]
      /\ DOMAIN core'.scopes[m] = (DOMAIN core.scopes[m] \ con) \cup new
  BY DEF Moves
<1> SUFFICES ASSUME NEW n \in Lasting(prog), n \in DOMAIN core'.scopes[1]
             PROVE  n \in Before(prog, "main", frames'[1].pc)
  BY DEF LastingIn
<1>2. CASE m > 1
  <2>1. 1 \in 1 .. m - 1
    BY <1>1, <1>2
  <2> QED
    BY <1>1, <2>1 DEF LastingIn
<1>3. CASE m = 1
  <2>1. frames[1].blk = "main" /\ prog \in Kernels /\ frames[1].pc \in Nat /\ frames[1].pc >= 1
        /\ IsSite("main", frames[1].pc) /\ OpAt(frames, 1) = prog["main"][frames[1].pc]
    <3>1. 1 \in 1 .. Len(frames) /\ FrameOK(frames, 1)
      BY <1>1, <1>3 DEF AtOp, TypeInv, FramesOK
    <3> QED
      BY <1>1, <1>3, <3>1, OpIsOp DEF FrameOK, AtOp, OpAt
  <2>2. n \notin Range(OpAt(frames, 1).args) /\ n \notin Range(OpAt(frames, 1).outs)
    BY <2>1, LastingNames, ConstantNames
  <2>3. Before(prog, "main", frames[1].pc) \subseteq Before(prog, "main", frames'[1].pc)
    <3>1. frames'[1].pc = frames[1].pc \/ frames'[1].pc = frames[1].pc + 1
      BY <1>3 DEF Moves
    <3>2. \A j \in 1 .. frames[1].pc - 1 : j \in 1 .. frames'[1].pc - 1
      BY <2>1, <3>1
    <3> QED
      BY <3>2 DEF Before
  <2>4. CASE n \in new
    <3>1. frames'[1].pc = frames[1].pc + 1 /\ n \in Range(OpAt(frames, 1).res)
      BY <1>3, <2>2, <2>4 DEF Moves
    <3> QED
      BY <2>1, <3>1, ResultsInScope
  <2>5. CASE n \notin new
    <3>1. n \in DOMAIN core.scopes[1]
      BY <1>1, <1>3, <2>5
    <3> QED
      BY <2>3, <3>1 DEF LastingIn
  <2> QED
    BY <2>4, <2>5
<1> QED
  BY <1>1, <1>2, <1>3

LEMMA OwnMoves ==
    ASSUME TypeInv, \A d \in 1 .. Len(frames) : OwnBound(core, frames, status, d),
           NEW m, NEW con, NEW new, Moves(m, con, new), NEW d \in 1 .. Len(frames')
    PROVE  OwnBound(core', frames', status', d)
<1>1. /\ m \in Nat /\ m >= 1 /\ m \in 1 .. Len(frames) /\ Len(frames') \in {m, m + 1} /\ AtOp(frames, m)
      /\ Len(frames) \in Nat
      /\ frames'[m].blk = frames[m].blk
      /\ DOMAIN core'.scopes[m] = (DOMAIN core.scopes[m] \ con) \cup new
  BY SeqFacts DEF Moves, AtOp, TypeInv, FramesOK
<1> SUFFICES ASSUME frames'[d].pc > 0, NEW i \in 1 .. frames'[d].pc - 1, NEW n \in Results(frames'[d].blk, i)
             PROVE  n \in DOMAIN core'.scopes[d]
                    \/ (n \in usedOnce /\ Used(prog, frames'[d].blk, Past(frames', status', d), n))
  BY DEF OwnBound
<1>2. CASE d < m
  <2>1. d \in 1 .. m - 1 /\ d \in 1 .. Len(frames)
    BY <1>1, <1>2
  <2>2. /\ Past(frames', status', d) = Past(frames, status, d)
        /\ frames'[d] = frames[d] /\ core'.scopes[d] = core.scopes[d]
    BY <2>1, PastBelow
  <2>3. OwnBound(core, frames, status, d)
    BY <2>1
  <2> QED
    BY <2>2, <2>3 DEF OwnBound
<1>3. CASE d = m
  <2>1. frames[m].pc \in Nat /\ frames[m].pc >= 1
    BY <1>1, OpIsOp
  <2>2. CASE frames'[m].pc = frames[m].pc + 1 /\ i = frames[m].pc
    <3>1. n \in Range(OpAt(frames, m).res) \cup Range(OpAt(frames, m).outs)
      BY <1>1, <1>3, <2>2 DEF Results, OpAt
    <3>2. new = Range(OpAt(frames, m).res) \cup Range(OpAt(frames, m).outs)
      BY <2>1, <2>2 DEF Moves
    <3>3. n \in DOMAIN core'.scopes[m]
      BY <1>1, <3>1, <3>2
    <3> QED
      BY <1>3, <3>3
  <2>3. CASE ~(frames'[m].pc = frames[m].pc + 1 /\ i = frames[m].pc)
    <3>1. frames'[m].pc = frames[m].pc \/ frames'[m].pc = frames[m].pc + 1
      BY DEF Moves
    <3>2. i \in 1 .. frames[m].pc - 1
      BY <1>3, <2>1, <2>3, <3>1
    <3>3. OwnBound(core, frames, status, m) /\ frames[m].pc > 0
      BY <1>1, <2>1
    <3>4. n \in DOMAIN core.scopes[m] \/ (n \in usedOnce /\ Used(prog, frames[m].blk, Past(frames, status, m), n))
      BY <1>1, <1>3, <3>2, <3>3 DEF OwnBound
    <3>5. CASE n \in usedOnce /\ Used(prog, frames[m].blk, Past(frames, status, m), n)
      <4>1. /\ Past(frames, status, m) \in Int /\ Past(frames', status', m) \in Int
            /\ Past(frames, status, m) <= Past(frames', status', m)
        BY DEF Moves
      <4> QED
        BY <1>1, <1>3, <3>5, <4>1, UsedMore
    <3>6. CASE n \in DOMAIN core.scopes[m]
      <4>1. n \in con => n \in usedOnce /\ Used(prog, frames[m].blk, Past(frames', status', m), n)
        BY DEF Moves
      <4>2. CASE n \in con
        BY <1>1, <1>3, <4>1, <4>2
      <4>3. CASE n \notin con
        <5>1. n \in DOMAIN core'.scopes[m]
          BY <1>1, <3>6, <4>3
        <5> QED
          BY <1>3, <5>1
      <4> QED
        BY <4>2, <4>3
    <3> QED
      BY <3>4, <3>5, <3>6
  <2> QED
    BY <2>2, <2>3
<1>4. CASE d > m
  <2>1. d = m + 1 /\ Len(frames') = m + 1
    BY <1>1, <1>4
  <2>2. frames'[d].pc \in {0, 1}
    BY <2>1 DEF Moves, RegionOn
  <2> QED
    BY <2>2
<1> QED
  BY <1>1, <1>2, <1>3, <1>4

LEMMA BindsMove ==
    ASSUME TypeInv, BindsOK(core, frames, status), NEW m, NEW con, NEW new, Moves(m, con, new)
    PROVE  BindsOK(core', frames', status')
<1>1. EnvLink(frames') /\ LastingIn(core', frames')
  BY EnvLinkMoves, LastingMoves DEF BindsOK
<1>2. \A d \in 1 .. Len(frames') : OwnBound(core', frames', status', d)
  BY OwnMoves DEF BindsOK
<1> QED
  BY <1>1, <1>2 DEF BindsOK


(***************************************************************************)
(* A name that only constants define stands for a literal.                 *)
(***************************************************************************)
LitsBound(c) ==
    \A d \in 1 .. Len(c.scopes) : \A n \in DOMAIN c.scopes[d] :
        n # "i" /\ OnlyConstant(prog, n) => c.scopes[d][n] \in c.uncharged

LEMMA LitsFetched ==
    ASSUME NEW c, CoreOK(c), LitsBound(c), NEW names, NEW a, FetchedIs(c, names, a)
    PROVE  LitsBound(a)
<1>1. /\ CoreOK(a) /\ Len(a.scopes) = Len(c.scopes) /\ a.uncharged = c.uncharged \cap BoundTiles(a.scopes)
      /\ \A d \in 1 .. Len(c.scopes) : \A n \in DOMAIN a.scopes[d] : a.scopes[d][n] = c.scopes[d][n]
      /\ \A d \in 1 .. Len(a.scopes) : \A n \in DOMAIN a.scopes[d] : n \in DOMAIN c.scopes[d]
  BY DEF FetchedIs, Tame
<1> SUFFICES ASSUME NEW d \in 1 .. Len(a.scopes), NEW n \in DOMAIN a.scopes[d], n # "i", OnlyConstant(prog, n)
             PROVE  a.scopes[d][n] \in a.uncharged
  BY DEF LitsBound
<1>2. a.scopes[d][n] = c.scopes[d][n] /\ n \in DOMAIN c.scopes[d] /\ d \in 1 .. Len(c.scopes)
  BY <1>1
<1>3. a.scopes[d][n] \in c.uncharged
  BY <1>2 DEF LitsBound
<1>4. a.scopes[d][n] \in 1 .. Len(a.tiles) /\ IsSeq(a.scopes)
  <2>1. ScopeOK(a, a.scopes[d]) /\ IsSeq(a.scopes)
    BY <1>1 DEF CoreOK
  <2> QED
    BY <2>1 DEF ScopeOK
<1>5. a.scopes[d][n] # Scalar
  BY <1>4 DEF Scalar
<1>6. PICK t : t = a.scopes[d][n]
  OBVIOUS
<1>7. t \in BoundTiles(a.scopes)
  BY <1>4, <1>5, <1>6, BoundTilesAre
<1> QED
  BY <1>1, <1>3, <1>6, <1>7

(* In scopes that are kept a literal stays one. *)
LEMMA LitsKept ==
    ASSUME NEW c, CoreOK(c), LitsBound(c), NEW a, NEW m, m \in Int, Kept(c, a, m), NEW d \in 1 .. m,
           NEW n \in DOMAIN a.scopes[d], n # "i", OnlyConstant(prog, n)
    PROVE  a.scopes[d][n] \in a.uncharged
<1>1. d \in 1 .. Len(c.scopes) /\ a.scopes[d] = c.scopes[d]
  <2>1. Len(c.scopes) \in Nat
    BY SeqFacts DEF CoreOK
  <2> QED
    BY <2>1 DEF Kept
<1>2. c.scopes[d][n] \in c.uncharged /\ n \in DOMAIN c.scopes[d]
  BY <1>1 DEF LitsBound
<1>3. PICK t : t = c.scopes[d][n]
  OBVIOUS
<1>4. t \in 1 .. Len(c.tiles) /\ HeldIn(c, m, t)
  BY <1>2, <1>3, TilesAreHeld DEF HeldIn
<1> QED
  BY <1>1, <1>2, <1>3, <1>4 DEF Kept

LEMMA LitsPopped ==
    ASSUME NEW c, CoreOK(c), LitsBound(c), NEW a, PoppedIs(c, a)
    PROVE  LitsBound(a)
<1>1. Kept(c, a, Len(c.scopes) - 1) /\ Len(a.scopes) = Len(c.scopes) - 1 /\ Len(c.scopes) - 1 \in Int
  BY SeqFacts DEF PoppedIs, CoreOK
<1> QED
  BY <1>1, LitsKept DEF LitsBound

LEMMA LitsGrown ==
    ASSUME NEW c, LitsBound(c), NEW a, GrownIs(c, a)
    PROVE  LitsBound(a)
BY DEF GrownIs, LitsBound

LEMMA LitsPushed ==
    ASSUME NEW c, CoreOK(c), LitsBound(c), NEW a, PushedIs(c, a)
    PROVE  LitsBound(a)
<1>1. /\ Len(a.scopes) = Len(c.scopes) + 1 /\ Len(c.scopes) \in Nat /\ a.uncharged = c.uncharged
      /\ \A d \in 1 .. Len(c.scopes) : a.scopes[d] = c.scopes[d]
      /\ a.scopes[Len(c.scopes) + 1] = EmptyScope
  BY SeqFacts DEF PushedIs, IsAppend, CoreOK
<1>2. DOMAIN EmptyScope = {}
  BY DEF EmptyScope
<1> SUFFICES ASSUME NEW d \in 1 .. Len(a.scopes), NEW n \in DOMAIN a.scopes[d], n # "i", OnlyConstant(prog, n)
             PROVE  a.scopes[d][n] \in a.uncharged
  BY DEF LitsBound
<1>3. d \in 1 .. Len(c.scopes)
  <2>1. d # Len(c.scopes) + 1
    BY <1>1, <1>2
  <2> QED
    BY <1>1, <2>1
<1> QED
  BY <1>1, <1>3 DEF LitsBound

LEMMA LitsBind ==
    ASSUME NEW c, CoreOK(c), LitsBound(c), NEW names, IsSeq(names), NEW vals, IsSeq(vals), Len(vals) = Len(names),
           NEW charge, NEW a, BoundIs(c, names, vals, charge, a), Len(c.scopes) >= 1,
           \A i \in 1 .. Len(names) : OnlyConstant(prog, names[i]) /\ names[i] # "i" =>
                                          ~charge /\ vals[i] # Scalar
    PROVE  LitsBound(a)
<1>1. /\ Kept(c, a, Len(c.scopes) - 1) /\ Len(a.scopes) = Len(c.scopes) /\ Len(c.scopes) \in Nat
      /\ Len(c.scopes) - 1 \in Int
  BY SeqFacts DEF BoundIs, CoreOK
<1> SUFFICES ASSUME NEW d \in 1 .. Len(a.scopes), NEW n \in DOMAIN a.scopes[d], n # "i", OnlyConstant(prog, n)
             PROVE  a.scopes[d][n] \in a.uncharged
  BY DEF LitsBound
<1>2. CASE d # Len(c.scopes)
  <2>1. d \in 1 .. Len(c.scopes) - 1
    BY <1>1, <1>2
  <2> QED
    BY <1>1, <2>1, LitsKept
<1>3. CASE d = Len(c.scopes)
  <2>1. CASE n \in Range(names)
    <3>1. PICK i \in 1 .. Len(names) : names[i] = n
      BY <2>1, RangeIs
    <3>2. ~charge /\ vals[i] # Scalar
      BY <3>1
    <3>3. vals[i] \in Range(vals)
      BY <3>1, RangeIs
    <3>4. a.scopes[d][n] = vals[i]
      BY <1>3, <3>1 DEF BoundIs
    <3> QED
      BY <3>2, <3>3, <3>4 DEF BoundIs
  <2>2. CASE n \notin Range(names)
    <3>1. n \in DOMAIN c.scopes[d] \ Range(names)
      BY <1>3, <2>2 DEF BoundIs
    <3>2. d \in 1 .. Len(c.scopes)
      BY <1>1
    <3>3. c.scopes[d][n] \in c.uncharged
      BY <3>1, <3>2 DEF LitsBound
    <3> QED
      BY <1>3, <3>1, <3>3 DEF BoundIs
  <2> QED
    BY <2>1, <2>2
<1> QED
  BY <1>2, <1>3

(* The names of an op that is not a constant. *)
LEMMA LitsOthers ==
    ASSUME NEW b, NEW i, IsSite(b, i), NEW names,
           \/ names = prog[b][i].args \/ names = prog[b][i].outs
           \/ names = prog[b][i].res /\ prog[b][i].k # "constant",
           NEW j \in 1 .. Len(names)
    PROVE  ~OnlyConstant(prog, names[j])
<1>1. IsOp(prog[b][i])
  BY OpFacts
<1>2. RowsAre(prog[b][i])
  BY <1>1, RowFacts
<1>3. names[j] \in Range(names)
  BY <1>2, RangeIs DEF RowsAre
<1> QED
  BY <1>3, ConstantNames


(***************************************************************************)
(* Steps of the innermost region.                                          *)
(***************************************************************************)
LEMMA MovesTop ==
    ASSUME TypeInv, Here, Goes, ConsumesSafely(prog), TopMoves, Steps(core, core'),
           NEW names, Range(names) \subseteq Range(Fetches), NEW new, GoesOn(new),
           DOMAIN core'.scopes[N] = (DOMAIN core.scopes[N] \ Consumed(core, names)) \cup new,
           \A n \in DOMAIN core.scopes[N] \ (Consumed(core, names) \cup new) :
               core'.scopes[N][n] = core.scopes[N][n],
           frames'[N].outer = Frame.outer,
           \A n \in DOMAIN Frame.env \ new :
               n \in DOMAIN frames'[N].env /\ frames'[N].env[n] = Frame.env[n],
           IF frames'[N].pc = Frame.pc THEN new = {} ELSE new = Range(Op.res) \cup Range(Op.outs)
    PROVE  Moves(N, Consumed(core, names), new)
<1>1. /\ N \in Nat /\ N >= 1 /\ Len(core.scopes) = N /\ Frame = frames[N] /\ N = Len(frames)
      /\ Len(frames') = N /\ N \in 1 .. N /\ Extends(core, core')
      /\ \A d \in 1 .. N - 1 : core'.scopes[d] = core.scopes[d] /\ frames'[d] = frames[d]
      /\ frames'[N].blk = frames[N].blk /\ frames'[N].k = frames[N].k
      /\ IsSite(frames[N].blk, frames[N].pc) /\ OpAt(frames, N) = Op
  BY DEF Here, Steps, Kept, TopMoves, Frame, N, Op, OpAt
<1>2. Carries(prog, usedOnce, core, core', frames, frames', status, status', Consumed(core, names), N, N)
  BY OpCarries
<1>3. /\ Past(frames, status, N) \in Int /\ Past(frames', status', N) \in Int
      /\ Past(frames, status, N) <= Past(frames', status', N)
  BY <1>1, <1>2 DEF Carries
<1>4. \A n \in Consumed(core, names) :
          n \in usedOnce /\ Used(prog, frames[N].blk, Past(frames', status', N), n)
  BY <1>1, <1>2 DEF Carries
<1>5. IF frames'[N].pc = frames[N].pc THEN new \subseteq Range(OpAt(frames, N).args)
      ELSE /\ frames'[N].pc = frames[N].pc + 1
           /\ new = Range(OpAt(frames, N).res) \cup Range(OpAt(frames, N).outs)
  BY <1>1 DEF GoesOn
<1>6. \A d \in N .. Len(frames') : frames'[d].pc > 0 =>
          \A n \in DOMAIN frames[N].env \ (new \cup Opened(N, d)) :
              n \in DOMAIN frames'[d].env /\ frames'[d].env[n] = frames[N].env[n]
  <2> TAKE d \in N .. Len(frames')
  <2>1. d = N
    BY <1>1
  <2> QED
    BY <1>1, <2>1
<1>7. AtOp(frames, N) /\ Len(frames') \in {N, N + 1} /\ Len(frames') # N + 1
  BY <1>1 DEF AtOp
<1> QED
  BY <1>1, <1>3, <1>4, <1>5, <1>6, <1>7 DEF Moves

LEMMA OutsOnlyOfReduce ==
    ASSUME Here, Op.k # "reduce"
    PROVE  Range(Op.outs) = {} /\ Writes = Range(Op.res) \cup Range(Op.outs)
<1>1. Len(Op.outs) = 0 /\ IsSeq(Op.outs)
  BY DEF Here, IsOp, RowsAre
<1> QED
  BY <1>1, RangeIs DEF Writes

(* What an op did not consume or bind is bound as before. *)
LEMMA ChainKeeps ==
    ASSUME Here, NEW vals, OpChain(vals), NEW n \in DOMAIN core.scopes[N],
           n \notin Consumed(core, Reads), n \notin Writes
    PROVE  core'.scopes[N][n] = core.scopes[N][n]
<1>1. PICK b, c, d :
          /\ FetchedIs(core, Reads, b) /\ GrownIs(b, c)
          /\ IF Op.k = "reduce" THEN BoundIs(c, Op.outs, vals, TRUE, d) ELSE d = c
          /\ BoundIs(d, Op.res, vals, Op.k # "constant", core')
  BY DEF OpChain
<1>2. N \in Nat /\ N >= 1 /\ Len(core.scopes) = N /\ N \in 1 .. N
  BY DEF Here
<1>3. n \in DOMAIN b.scopes[N] /\ b.scopes[N][n] = core.scopes[N][n] /\ Len(b.scopes) = N
  BY <1>1, <1>2 DEF FetchedIs
<1>4. c.scopes = b.scopes
  BY <1>1 DEF GrownIs
<1>5. n \in DOMAIN d.scopes[N] /\ d.scopes[N][n] = core.scopes[N][n] /\ Len(d.scopes) = N
  <2>1. CASE Op.k = "reduce"
    <3>1. n \notin Range(Op.outs) /\ BoundIs(c, Op.outs, vals, TRUE, d)
      BY <1>1, <2>1 DEF Writes
    <3> QED
      BY <1>3, <1>4, <3>1 DEF BoundIs
  <2>2. CASE Op.k # "reduce"
    BY <1>1, <1>3, <1>4, <2>2
  <2> QED
    BY <2>1, <2>2
<1>6. n \notin Range(Op.res)
  BY ReadsAreFetched
<1> QED
  BY <1>1, <1>5, <1>6 DEF BoundIs

LEMMA OpMoves ==
    ASSUME TypeInv, OpStep, Goes, ConsumesSafely(prog)
    PROVE  Moves(N, Consumed(core, Reads), Writes)
<1>1. Here /\ Ran(Reads, Writes) /\ Meant(frames'[N].env) /\ Op.k # "yield"
  BY OpStepRan DEF OpStep
<1>2. /\ Steps(core, core') /\ Advanced /\ status' = "running"
      /\ DOMAIN core'.scopes[N] = (DOMAIN core.scopes[N] \ Consumed(core, Reads)) \cup Writes
  BY <1>1 DEF Ran
<1>3. TopMoves
  BY <1>1, <1>2, TopMovesBy DEF Here
<1>4. /\ Range(Reads) \subseteq Range(Fetches) /\ Range(Op.res) \subseteq Writes
      /\ frames'[N].pc = Frame.pc + 1 /\ frames'[N].outer = Frame.outer
  BY <1>1, <1>2, ReadsAreFetched DEF Advanced, SameBut, FrameFields
<1>5. GoesOn(Writes)
  BY <1>2, <1>4 DEF GoesOn
<1>6. \A n \in DOMAIN core.scopes[N] \ (Consumed(core, Reads) \cup Writes) :
          core'.scopes[N][n] = core.scopes[N][n]
  <2>1. \E vals : OpChain(vals)
    BY OpChains
  <2> QED
    BY <1>1, <2>1, ChainKeeps
<1>7. \A n \in DOMAIN Frame.env \ Writes :
          n \in DOMAIN frames'[N].env /\ frames'[N].env[n] = Frame.env[n]
  BY <1>1 DEF Meant
<1>8. Writes = Range(Op.res) \cup Range(Op.outs) /\ frames'[N].pc # Frame.pc
  <2>1. Writes = Range(Op.res) \cup Range(Op.outs)
    BY <1>1, OutsOnlyOfReduce DEF Writes
  <2>2. Frame.pc \in Nat
    BY <1>1, BlockIs DEF Here, IsSite
  <2> QED
    BY <1>4, <2>1, <2>2
<1> QED
  BY <1>1, <1>2, <1>3, <1>4, <1>5, <1>6, <1>7, <1>8, MovesTop

LEMMA ParkMoves ==
    ASSUME TypeInv, ParkStep, status = "running", ConsumesSafely(prog)
    PROVE  Moves(N, Consumed(core, Op.ins), {})
<1>1. /\ Here /\ frames' = frames /\ Len(core.scopes) >= 1 /\ CoreOK(core) /\ status' = "parked"
      /\ Op.k = "receive" /\ N \in Nat /\ N >= 1 /\ Len(core.scopes) = N /\ Frame = frames[N]
      /\ N \in 1 .. N
  BY DEF ParkStep, ParkRan, Here, Frame, N
<1>2. PICK b : FetchedIs(core, Op.ins, b) /\ MadeIs(b, core', Term(Op.res[1], Contents(Op.ins)))
  BY DEF ParkStep, ParkRan
<1>3. Steps(core, b) /\ CoreOK(b) /\ Len(b.scopes) >= 1
  BY <1>1, <1>2, StepsAre DEF FetchedIs
<1>4. Steps(b, core')
  BY <1>2, <1>3, StepsAre DEF MadeIs
<1>5. Steps(core, core')
  BY <1>1, <1>3, <1>4, StepsCompose
<1>6. TopMoves
  BY <1>1, TopMovesBy
<1>7. /\ DOMAIN core'.scopes[N] = (DOMAIN core.scopes[N] \ Consumed(core, Op.ins)) \cup {}
      /\ \A n \in DOMAIN core.scopes[N] \ (Consumed(core, Op.ins) \cup {}) :
             core'.scopes[N][n] = core.scopes[N][n]
  BY <1>1, <1>2 DEF FetchedIs, MadeIs, GrownIs
<1>8. Range(Op.ins) \subseteq Range(Fetches) /\ Goes
  BY <1>1 DEF Fetches, Goes
<1>9. GoesOn({})
  BY <1>1 DEF GoesOn
<1> QED
  BY <1>1, <1>5, <1>6, <1>7, <1>8, <1>9, MovesTop

LEMMA YieldMoves ==
    ASSUME TypeInv, YieldStep, status = "running", ConsumesSafely(prog)
    PROVE  Moves(N, Consumed(core, Op.ins), {})
<1>1. /\ Here /\ YieldRan /\ Len(core.scopes) >= 1 /\ CoreOK(core) /\ Op.k = "yield"
      /\ N \in Nat /\ N >= 1 /\ Len(core.scopes) = N /\ IsOp(Op) /\ RowsAre(Op) /\ N \in 1 .. N
      /\ FetchedIs(core, Op.ins, core') /\ status' = "running" /\ frames'[N].pc = Frame.pc + 1
      /\ Frame = frames[N]
  BY DEF YieldStep, YieldRan, Here, Frame, N
<1>2. Steps(core, core')
  BY <1>1, StepsAre
<1>3. TopMoves
  BY <1>1, TopMovesBy DEF YieldRan
<1>4. /\ DOMAIN core'.scopes[N] = (DOMAIN core.scopes[N] \ Consumed(core, Op.ins)) \cup {}
      /\ \A n \in DOMAIN core.scopes[N] \ (Consumed(core, Op.ins) \cup {}) :
             core'.scopes[N][n] = core.scopes[N][n]
  BY <1>1 DEF FetchedIs
<1>5. Range(Op.ins) \subseteq Range(Fetches) /\ Goes
  BY <1>1 DEF Fetches, Goes
<1>6. Range(Op.res) = {} /\ Range(Op.outs) = {}
  <2>1. Len(Op.res) = 0 /\ IsSeq(Op.res)
    BY <1>1 DEF IsOp, NoResult, RowsAre
  <2> QED
    BY <1>1, <2>1, RangeIs, OutsOnlyOfReduce
<1>7. GoesOn({})
  BY <1>1, <1>6 DEF GoesOn
<1>8. frames'[N].outer = Frame.outer /\ frames'[N].env = Frame.env
  BY <1>1 DEF YieldRan, SetIs, SameBut, FrameFields
<1>9. frames'[N].pc # Frame.pc
  <2>1. Frame.pc \in Nat
    BY <1>1, BlockIs DEF Here, IsSite
  <2> QED
    BY <1>1, <2>1
<1> QED
  BY <1>1, <1>2, <1>3, <1>4, <1>5, <1>6, <1>7, <1>8, <1>9, MovesTop


(***************************************************************************)
(* Regions that are entered, go round and are left.                        *)
(***************************************************************************)
LEMMA RegionOps ==
    ASSUME NEW d, AtOp(frames, d), OpAt(frames, d).k \in {"for", "if"}
    PROVE  /\ Range(OpAt(frames, d).outs) = {}
           /\ OpAt(frames, d).k = "if" => Range(OpAt(frames, d).args) = {}
<1>1. PICK op : op = OpAt(frames, d)
  OBVIOUS
<1>2. IsOp(op) /\ RowsAre(op) /\ op.k \in {"for", "if"}
  BY <1>1, OpIsOp
<1>3. Len(op.outs) = 0 /\ (op.k = "if" => Len(op.args) = 0)
  BY <1>2 DEF IsOp
<1>4. Range(op.outs) = {} /\ (op.k = "if" => Range(op.args) = {})
  BY <1>2, <1>3, RangeIs DEF RowsAre
<1> QED
  BY <1>1, <1>4

LEMMA TopIs ==
    ASSUME Here
    PROVE  /\ N \in Nat /\ N >= 1 /\ N \in 1 .. N /\ N = Len(frames) /\ Len(core.scopes) = N
           /\ Frame = frames[N] /\ AtOp(frames, N) /\ OpAt(frames, N) = Op /\ CoreOK(core)
           /\ Frame.pc \in Nat /\ Frame.pc >= 1
<1>1. /\ N \in Nat /\ N >= 1 /\ N \in 1 .. N /\ N = Len(frames) /\ Len(core.scopes) = N
      /\ Frame = frames[N] /\ AtOp(frames, N) /\ OpAt(frames, N) = Op /\ CoreOK(core)
  BY DEF Here, AtOp, OpAt, N, Frame, Op
<1> QED
  BY <1>1, OpIsOp

LEMMA LoopMoves ==
    ASSUME TypeInv, LoopStep, status = "running"
    PROVE  Moves(N, {}, Range(Op.args))
<1>1. Here /\ Op.k = "for" /\ status' = status
  BY DEF LoopStep, EnterForRan
<1>2. PICK b, vals, g :
          /\ InitsAre(Op.ins, b, vals) /\ BoundIs(b, Op.args, vals, TRUE, core')
          /\ IsAppend(frames, g, frames') /\ IsFrame(g)
          /\ g.k = "for" /\ g.blk = Op.blks[1] /\ g.pc = 0 /\ g.vals = vals
          /\ g.outer = Frame.env
  BY DEF LoopStep, EnterForRan
<1>3. /\ N \in Nat /\ N >= 1 /\ N \in 1 .. N /\ N = Len(frames) /\ Len(core.scopes) = N
      /\ Frame = frames[N] /\ AtOp(frames, N) /\ OpAt(frames, N) = Op /\ CoreOK(core)
      /\ Frame.pc \in Nat /\ Frame.pc >= 1
  BY <1>1, TopIs
<1>4. /\ Len(frames') = N + 1 /\ frames'[N + 1] = g /\ \A d \in 1 .. N : frames'[d] = frames[d]
  BY <1>2, <1>3 DEF IsAppend
<1>5. GrownIs(core, b)
  BY <1>2 DEF InitsAre
<1>6. /\ b.scopes = core.scopes /\ Extends(core, core')
      /\ core'.tiles = b.tiles /\ core'.bufs = b.bufs
  BY <1>2, <1>5 DEF GrownIs, BoundIs, Extends
<1>7. /\ \A e \in 1 .. N - 1 : core'.scopes[e] = core.scopes[e]
      /\ DOMAIN core'.scopes[N] = (DOMAIN core.scopes[N] \ {}) \cup Range(Op.args)
      /\ \A n \in DOMAIN core.scopes[N] \ ({} \cup Range(Op.args)) : core'.scopes[N][n] = core.scopes[N][n]
  BY <1>2, <1>3, <1>6 DEF BoundIs, Kept
<1>8. Past(frames, status, N) = Frame.pc - 1 /\ Past(frames', status', N) = Frame.pc - 1
  BY <1>1, <1>3, <1>4 DEF Past
<1>9. \A d \in N .. Len(frames') : frames'[d].pc > 0 =>
          \A n \in DOMAIN frames[N].env \ (Range(Op.args) \cup Opened(N, d)) :
              n \in DOMAIN frames'[d].env /\ frames'[d].env[n] = frames[N].env[n]
  <2> TAKE d \in N .. Len(frames')
  <2>1. d = N \/ d = N + 1
    BY <1>3, <1>4
  <2>2. CASE d = N + 1
    <3>1. frames'[d].pc = 0
      BY <1>2, <1>4, <2>2
    <3> QED
      BY <3>1
  <2> QED
    BY <1>3, <1>4, <2>1, <2>2
<1>10. RegionOn(N)
  <2>1. Op.blks[1] \in Regions(Op)
    <3>1. Len(Op.blks) = 1 /\ Op.blks[1] # "none"
      BY <1>1 DEF Here, IsOp
    <3>2. 1 \in 1 .. Len(Op.blks)
      BY <3>1
    <3> QED
      BY <1>1, <3>1, <3>2, RegionIs
  <2> QED
    BY <1>1, <1>2, <1>3, <1>4, <2>1 DEF RegionOn
<1>11. frames'[N + 1].pc # 1 /\ frames'[N] = frames[N]
  BY <1>2, <1>3, <1>4
<1> QED
  BY <1>3, <1>4, <1>6, <1>7, <1>8, <1>9, <1>10, <1>11 DEF Moves

LEMMA BranchMoves ==
    ASSUME TypeInv, BranchStep, status = "running"
    PROVE  Moves(N, {}, {})
<1>1. PICK branch \in 1 .. 2 : BranchRan(branch)
  BY DEF BranchStep
<1>2. PICK g : /\ IsAppend(frames, g, frames') /\ IsFrame(g)
               /\ g.k = "if" /\ g.blk = Op.blks[branch] /\ g.pc = 1 /\ g.vals = <<>>
               /\ g.env = Frame.env
  BY <1>1 DEF BranchRan
<1>3. Here /\ Op.k = "if" /\ Op.blks[branch] # "none" /\ PushedIs(core, core') /\ status' = status
  BY <1>1 DEF BranchStep, BranchRan
<1>4. /\ N \in Nat /\ N >= 1 /\ N \in 1 .. N /\ N = Len(frames) /\ Len(core.scopes) = N
      /\ Frame = frames[N] /\ AtOp(frames, N) /\ OpAt(frames, N) = Op /\ CoreOK(core)
      /\ Frame.pc \in Nat /\ Frame.pc >= 1
  BY <1>3, TopIs
<1>5. /\ Len(frames') = N + 1 /\ frames'[N + 1] = g /\ \A d \in 1 .. N : frames'[d] = frames[d]
  BY <1>2, <1>4 DEF IsAppend
<1>6. /\ Extends(core, core') /\ \A e \in 1 .. N : core'.scopes[e] = core.scopes[e]
      /\ core'.scopes[N + 1] = EmptyScope
  BY <1>3, <1>4 DEF PushedIs, IsAppend
<1>7. Range(Op.args) = {} /\ Opened(N, N + 1) = {} /\ DOMAIN EmptyScope = {}
  BY <1>3, <1>4, RegionOps DEF Opened, EmptyScope
<1>8. Past(frames, status, N) = Frame.pc - 1 /\ Past(frames', status', N) = Frame.pc - 1
  BY <1>3, <1>4, <1>5 DEF Past
<1>9. \A d \in N .. Len(frames') : frames'[d].pc > 0 =>
          \A n \in DOMAIN frames[N].env \ ({} \cup Opened(N, d)) :
              n \in DOMAIN frames'[d].env /\ frames'[d].env[n] = frames[N].env[n]
  <2> TAKE d \in N .. Len(frames')
  <2>1. d = N \/ d = N + 1
    BY <1>4, <1>5
  <2>2. frames'[d].env = frames[N].env
    BY <1>2, <1>4, <1>5, <2>1
  <2> QED
    BY <2>2
<1>10. RegionOn(N)
  <2>1. Op.blks[branch] \in Regions(Op)
    <3>1. branch \in 1 .. Len(Op.blks)
      BY <1>3 DEF Here, IsOp
    <3> QED
      BY <1>3, <3>1, RegionIs
  <2> QED
    BY <1>2, <1>3, <1>4, <1>5, <2>1 DEF RegionOn
<1>11. /\ DOMAIN core'.scopes[N] = (DOMAIN core.scopes[N] \ {}) \cup {}
       /\ \A n \in DOMAIN core.scopes[N] \ ({} \cup {}) : core'.scopes[N][n] = core.scopes[N][n]
       /\ frames'[N] = frames[N] /\ N \in 1 .. N
  BY <1>4, <1>5, <1>6
<1>12. /\ \A e \in 1 .. N - 1 : frames'[e] = frames[e] /\ core'.scopes[e] = core.scopes[e]
       /\ DOMAIN core'.scopes[N + 1] = {}
  BY <1>4, <1>5, <1>6, <1>7
<1> QED
  BY <1>4, <1>5, <1>6, <1>7, <1>8, <1>9, <1>10, <1>11, <1>12 DEF Moves

(* The frame below the innermost region. *)
LEMMA BelowIs ==
    ASSUME Within, NEW m, m = N - 1
    PROVE  /\ N \in Nat /\ N >= 2 /\ N = Len(frames) /\ m \in Nat /\ m >= 1 /\ m + 1 = N /\ m \in 1 .. m
           /\ Parent = frames[m] /\ Frame = frames[m + 1] /\ AtOp(frames, m) /\ OpAt(frames, m) = Owner
           /\ CoreOK(core) /\ frames[m].pc \in Nat /\ frames[m].pc >= 1
           /\ Frame.blk \in Regions(Owner) /\ Frame.k = Owner.k /\ m <= Len(core.scopes)
<1>1. /\ N \in Nat /\ N >= 2 /\ N = Len(frames) /\ m \in Nat /\ m >= 1 /\ m + 1 = N /\ m \in 1 .. m
      /\ Parent = frames[m] /\ Frame = frames[m + 1] /\ CoreOK(core) /\ Owner = prog[Parent.blk][Parent.pc]
      /\ IsSite(Parent.blk, Parent.pc) /\ Frame.blk \in Regions(Owner) /\ Frame.k = Owner.k
      /\ Len(core.scopes) = IF Frame.pc = 0 THEN N - 1 ELSE N
  BY DEF Within, N, Owner
<1>2. AtOp(frames, m) /\ OpAt(frames, m) = Owner /\ m <= Len(core.scopes)
  BY <1>1 DEF AtOp, OpAt
<1>3. frames[m].pc \in Nat /\ frames[m].pc >= 1
  BY <1>2, OpIsOp
<1> QED
  BY <1>1, <1>2, <1>3


LEMMA IterationMeans ==
    ASSUME Within, NEW n \in DOMAIN Frame.outer, n \notin Range(Owner.args), n # "i"
    PROVE  n \in DOMAIN IterationEnv /\ IterationEnv[n] = Frame.outer[n]
<1>1. n \notin DOMAIN Assign(Owner.args, Frame.terms) /\ n \notin DOMAIN Assign(<<"i">>, <<ScalarTerm>>)
  <2>1. Range(<<"i">>) = {"i"}
    BY OneValue
  <2> QED
    BY <2>1 DEF Assign
<1> QED
  BY <1>1 DEF IterationEnv, Over

LEMMA IterateMoves ==
    ASSUME TypeInv, OperandsInv, IterateStep, status = "running", EnvLink(frames), NEW m, m = N - 1
    PROVE  Moves(m, {}, Range(Owner.args))
<1>1. Within /\ IterateRan /\ Goes
  BY DEF IterateStep, Goes
<1>2. PICK b : PushedIs(core, b) /\ BoundIs(b, <<"i">>, <<Scalar>>, TRUE, core')
  BY <1>1 DEF IterateRan
<1>3. /\ N \in Nat /\ N >= 2 /\ N = Len(frames) /\ m \in Nat /\ m >= 1 /\ m + 1 = N /\ m \in 1 .. m
      /\ Parent = frames[m] /\ Frame = frames[m + 1] /\ AtOp(frames, m) /\ OpAt(frames, m) = Owner
      /\ CoreOK(core) /\ frames[m].pc \in Nat /\ frames[m].pc >= 1
      /\ Frame.blk \in Regions(Owner) /\ Frame.k = Owner.k /\ m <= Len(core.scopes)
  BY <1>1, BelowIs
<1>4. /\ Len(core.scopes) = m /\ Frame.k = "for" /\ status' = status /\ frames'[N].pc = 1
      /\ frames'[N].env = IterationEnv
  BY <1>1, <1>3 DEF Within, IterateRan
<1>5. /\ Len(frames') = N /\ frames'[N].blk = Frame.blk /\ frames'[N].k = Frame.k
      /\ frames'[N].outer = Frame.outer /\ \A d \in 1 .. m : frames'[d] = frames[d]
  <2>1. SetIs(frames, N, {"pc", "env"}, frames')
    BY <1>1 DEF IterateRan
  <2>2. \A d \in 1 .. m : d # N /\ d \in 1 .. Len(frames)
    BY <1>3
  <2> QED
    BY <1>3, <2>1, <2>2 DEF SetIs, IsReplaced, SameBut, FrameFields
<1>6. frames[N].outer = frames[m].env
  <2>1. N \in 2 .. Len(frames) /\ N - 1 = m
    BY <1>3
  <2> QED
    BY <1>3, <1>4, <2>1 DEF EnvLink
<1>7. /\ Extends(core, core') /\ \A e \in 1 .. m : core'.scopes[e] = core.scopes[e]
      /\ DOMAIN core'.scopes[m + 1] = {"i"}
  <2>1. /\ Len(b.scopes) = m + 1 /\ \A e \in 1 .. m : b.scopes[e] = core.scopes[e]
        /\ b.scopes[m + 1] = EmptyScope /\ b.tiles = core.tiles /\ b.bufs = core.bufs
    BY <1>2, <1>3, <1>4 DEF PushedIs, IsAppend
  <2>2. Range(<<"i">>) = {"i"} /\ DOMAIN EmptyScope = {}
    BY OneValue DEF EmptyScope
  <2>3. m + 1 - 1 = m
    BY <1>3
  <2>4. /\ core'.tiles = b.tiles /\ core'.bufs = b.bufs
        /\ DOMAIN core'.scopes[m + 1] = DOMAIN b.scopes[m + 1] \cup Range(<<"i">>)
        /\ \A e \in 1 .. m : core'.scopes[e] = b.scopes[e]
    BY <1>2, <2>1, <2>3 DEF BoundIs, Kept
  <2>5. Len(core.tiles) \in Nat /\ Len(core.bufs) \in Nat
    BY <1>3, SeqFacts DEF CoreOK
  <2> QED
    BY <2>1, <2>2, <2>4, <2>5 DEF Extends
<1>8. Range(Owner.args) \subseteq DOMAIN core.scopes[m]
  <2>1. ArgsOK(prog, core, frames, N)
    BY <1>1, <1>3 DEF OperandsInv
  <2>2. N - 1 = m
    BY <1>3
  <2> QED
    BY <1>3, <1>4, <2>1, <2>2 DEF ArgsOK, OpAt
<1>9. Past(frames, status, m) = frames[m].pc - 1 /\ Past(frames', status', m) = frames[m].pc - 1
  BY <1>3, <1>4, <1>5 DEF Past
<1>10. \A d \in m .. Len(frames') : frames'[d].pc > 0 =>
          \A n \in DOMAIN frames[m].env \ (Range(Owner.args) \cup Opened(m, d)) :
              n \in DOMAIN frames'[d].env /\ frames'[d].env[n] = frames[m].env[n]
  <2> TAKE d \in m .. Len(frames')
  <2>1. d = m \/ d = N
    BY <1>3, <1>5
  <2>2. CASE d = m
    <3>1. frames'[d] = frames[m]
      BY <1>3, <1>5, <2>2
    <3> QED
      BY <3>1
  <2>3. CASE d = N
    <3>1. Opened(m, d) = {"i"}
      BY <1>3, <1>4, <2>3 DEF Opened
    <3>2. Frame.outer = frames[m].env /\ frames'[d].env = IterationEnv
      BY <1>3, <1>4, <1>6, <2>3
    <3> QED
      BY <1>1, <3>1, <3>2, IterationMeans
  <2> QED
    BY <2>1, <2>2, <2>3
<1>11. RegionOn(m) /\ Opened(m, m + 1) = {"i"}
  BY <1>3, <1>4, <1>5, <1>6 DEF RegionOn, Opened
<1>12. /\ DOMAIN core'.scopes[m] = (DOMAIN core.scopes[m] \ {}) \cup Range(Owner.args)
       /\ \A n \in DOMAIN core.scopes[m] \ ({} \cup Range(Owner.args)) : core'.scopes[m][n] = core.scopes[m][n]
       /\ frames'[m] = frames[m]
       /\ \A e \in 1 .. m - 1 : frames'[e] = frames[e] /\ core'.scopes[e] = core.scopes[e]
  BY <1>3, <1>5, <1>7, <1>8
<1>13. /\ Len(frames') \in {m, m + 1} /\ Len(frames') = m + 1 /\ frames'[m].pc = frames[m].pc
       /\ frames'[m].k = frames[m].k /\ frames'[m].blk = frames[m].blk
       /\ frames'[m].outer = frames[m].outer
       /\ Range(Owner.args) \subseteq Range(OpAt(frames, m).args)
       /\ DOMAIN core'.scopes[m + 1] = Opened(m, m + 1)
  BY <1>3, <1>5, <1>7, <1>11, <1>12
<1>14. /\ Past(frames, status, m) \in Int /\ Past(frames', status', m) \in Int
       /\ Past(frames, status, m) <= Past(frames', status', m)
  BY <1>3, <1>9
<1>15. Extends(core, core') /\ RegionOn(m) /\ OpAt(frames, m) = Owner
  BY <1>3, <1>7, <1>11
<1>16. m \in Nat /\ m >= 1 /\ AtOp(frames, m) /\ m <= Len(core.scopes)
  BY <1>3
<1> QED
  BY <1>10, <1>12, <1>13, <1>14, <1>15, <1>16 DEF Moves

LEMMA EndMoves ==
    ASSUME TypeInv, EndStep, status = "running", EnvLink(frames), NEW m, m = N - 1
    PROVE  Moves(m, {}, Range(Owner.args))
<1>1. Within /\ EndIterationRan
  BY DEF EndStep
<1>2. PICK b : PoppedIs(core, b) /\ BoundIs(b, Owner.args, Frame.vals, TRUE, core')
  BY <1>1 DEF EndIterationRan
<1>3. /\ N \in Nat /\ N >= 2 /\ N = Len(frames) /\ m \in Nat /\ m >= 1 /\ m + 1 = N /\ m \in 1 .. m
      /\ Parent = frames[m] /\ Frame = frames[m + 1] /\ AtOp(frames, m) /\ OpAt(frames, m) = Owner
      /\ CoreOK(core) /\ frames[m].pc \in Nat /\ frames[m].pc >= 1
      /\ Frame.blk \in Regions(Owner) /\ Frame.k = Owner.k /\ m <= Len(core.scopes)
  BY <1>1, BelowIs
<1>4. /\ Len(core.scopes) = N /\ Frame.k = "for" /\ status' = status /\ frames'[N].pc = 0
  <2>1. Len(prog[Frame.blk]) \in Nat
    BY <1>1, BlockIs DEF Within, FrameOK
  <2> QED
    BY <1>1, <1>3, <2>1 DEF Within, EndIterationRan
<1>5. /\ Len(frames') = N /\ frames'[N].blk = Frame.blk /\ frames'[N].k = Frame.k
      /\ frames'[N].outer = Frame.outer /\ \A d \in 1 .. m : frames'[d] = frames[d]
  <2>1. SetIs(frames, N, {"pc", "at"}, frames')
    BY <1>1 DEF EndIterationRan
  <2>2. \A d \in 1 .. m : d # N /\ d \in 1 .. Len(frames)
    BY <1>3
  <2> QED
    BY <1>3, <2>1, <2>2 DEF SetIs, IsReplaced, SameBut, FrameFields
<1>6. frames[N].outer = frames[m].env
  <2>1. N \in 2 .. Len(frames) /\ N - 1 = m
    BY <1>3
  <2> QED
    BY <1>3, <1>4, <2>1 DEF EnvLink
<1>7. /\ Extends(core, core') /\ \A e \in 1 .. m - 1 : core'.scopes[e] = core.scopes[e]
      /\ DOMAIN core'.scopes[m] = (DOMAIN core.scopes[m] \ {}) \cup Range(Owner.args)
      /\ \A n \in DOMAIN core.scopes[m] \ ({} \cup Range(Owner.args)) : core'.scopes[m][n] = core.scopes[m][n]
  <2>1. /\ Len(b.scopes) = m /\ \A e \in 1 .. m : b.scopes[e] = core.scopes[e]
        /\ b.tiles = core.tiles /\ b.bufs = core.bufs
    BY <1>2, <1>3, <1>4 DEF PoppedIs, Kept
  <2>2. /\ core'.tiles = b.tiles /\ core'.bufs = b.bufs
        /\ DOMAIN core'.scopes[m] = DOMAIN b.scopes[m] \cup Range(Owner.args)
        /\ \A n \in DOMAIN b.scopes[m] \ Range(Owner.args) : core'.scopes[m][n] = b.scopes[m][n]
        /\ \A e \in 1 .. m - 1 : core'.scopes[e] = b.scopes[e]
    BY <1>2, <2>1 DEF BoundIs, Kept
  <2>3. Len(core.tiles) \in Nat /\ Len(core.bufs) \in Nat
    BY <1>3, SeqFacts DEF CoreOK
  <2>4. b.scopes[m] = core.scopes[m] /\ \A e \in 1 .. m - 1 : e \in 1 .. m
    BY <1>3, <2>1
  <2>5. Extends(core, core')
    BY <2>1, <2>2, <2>3 DEF Extends
  <2> QED
    BY <2>1, <2>2, <2>4, <2>5
<1>8. Past(frames, status, m) = frames[m].pc - 1 /\ Past(frames', status', m) = frames[m].pc - 1
  BY <1>3, <1>4, <1>5 DEF Past
<1>9. \A d \in m .. Len(frames') : frames'[d].pc > 0 =>
          \A n \in DOMAIN frames[m].env \ (Range(Owner.args) \cup Opened(m, d)) :
              n \in DOMAIN frames'[d].env /\ frames'[d].env[n] = frames[m].env[n]
  <2> TAKE d \in m .. Len(frames')
  <2>1. d = m \/ d = N
    BY <1>3, <1>5
  <2>2. CASE d = m
    <3>1. frames'[d] = frames[m]
      BY <1>3, <1>5, <2>2
    <3> QED
      BY <3>1
  <2>3. CASE d = N
    BY <1>4, <2>3
  <2> QED
    BY <2>1, <2>2, <2>3
<1>10. RegionOn(m) /\ frames'[m + 1].pc # 1
  <2>1. /\ frames'[m] = frames[m] /\ frames'[m + 1].pc = 0 /\ frames'[m + 1].blk = Frame.blk
        /\ frames'[m + 1].k = Frame.k /\ frames'[m + 1].outer = Frame.outer
    BY <1>3, <1>4, <1>5
  <2>2. Frame.outer = frames[m].env
    BY <1>3, <1>6
  <2>3. /\ Regions(OpAt(frames, m)) = Regions(Owner) /\ OpAt(frames, m).k = Owner.k
        /\ Frame.blk \in Regions(Owner) /\ Frame.k = Owner.k
    BY <1>3
  <2> QED
    BY <2>1, <2>2, <2>3 DEF RegionOn
<1>11. frames'[m] = frames[m] /\ \A e \in 1 .. m - 1 : frames'[e] = frames[e]
  BY <1>3, <1>5
<1> QED
  BY <1>3, <1>5, <1>7, <1>8, <1>9, <1>10, <1>11 DEF Moves

LEMMA LeaveMoves ==
    ASSUME TypeInv, LeaveStep, status = "running", NEW m, m = N - 1
    PROVE  Moves(m, {}, Range(Owner.res))
<1>1. Within /\ LeaveRan
  BY DEF LeaveStep
<1>2. PICK b : /\ IF Frame.k = "for" THEN b = core /\ Frame.pc = 0
                  ELSE PoppedIs(core, b) /\ Frame.pc = Len(prog[Frame.blk]) + 1 /\ Frame.k = "if"
               /\ BoundIs(b, Owner.res, Frame.vals, TRUE, core')
  BY <1>1 DEF LeaveRan
<1>3. /\ N \in Nat /\ N >= 2 /\ N = Len(frames) /\ m \in Nat /\ m >= 1 /\ m + 1 = N /\ m \in 1 .. m
      /\ Parent = frames[m] /\ Frame = frames[m + 1] /\ AtOp(frames, m) /\ OpAt(frames, m) = Owner
      /\ CoreOK(core) /\ frames[m].pc \in Nat /\ frames[m].pc >= 1
      /\ Frame.blk \in Regions(Owner) /\ Frame.k = Owner.k /\ m <= Len(core.scopes)
  BY <1>1, BelowIs
<1>4. Frame.k \in {"for", "if"} /\ Range(Owner.outs) = {} /\ status' = status
  <2>1. Frame.k \in {"for", "if"} /\ status' = status
    BY <1>1, <1>2 DEF LeaveRan
  <2> QED
    BY <1>3, <2>1, RegionOps
<1>5. /\ Len(frames') = m /\ frames'[m].blk = frames[m].blk /\ frames'[m].k = frames[m].k
      /\ frames'[m].outer = frames[m].outer /\ frames'[m].pc = frames[m].pc + 1
      /\ frames'[m].env = Over(Assign(Owner.res, Frame.terms), frames[m].env)
      /\ \A d \in 1 .. m - 1 : frames'[d] = frames[d]
  <2>1. N - 2 = m - 1 /\ N - 1 = m /\ m - 1 + 1 = m
    BY <1>3
  <2> QED
    BY <1>1, <1>3, <2>1 DEF LeaveRan, EndsIn, SameBut, FrameFields
<1>6. /\ Len(b.scopes) = m /\ \A e \in 1 .. m : b.scopes[e] = core.scopes[e]
      /\ b.tiles = core.tiles /\ b.bufs = core.bufs
  <2>1. CASE Frame.k = "for"
    BY <1>1, <1>2, <1>3, <2>1 DEF Within
  <2>2. CASE Frame.k # "for"
    <3>1. Len(prog[Frame.blk]) \in Nat
      BY <1>1, BlockIs DEF Within, FrameOK
    <3>2. Len(core.scopes) = N /\ PoppedIs(core, b)
      BY <1>1, <1>2, <2>2, <3>1 DEF Within
    <3> QED
      BY <1>3, <3>2 DEF PoppedIs, Kept
  <2> QED
    BY <2>1, <2>2
<1>7. /\ Extends(core, core') /\ \A e \in 1 .. m - 1 : core'.scopes[e] = core.scopes[e]
      /\ DOMAIN core'.scopes[m] = (DOMAIN core.scopes[m] \ {}) \cup Range(Owner.res)
      /\ \A n \in DOMAIN core.scopes[m] \ ({} \cup Range(Owner.res)) : core'.scopes[m][n] = core.scopes[m][n]
  <2>1. /\ core'.tiles = b.tiles /\ core'.bufs = b.bufs
        /\ DOMAIN core'.scopes[m] = DOMAIN b.scopes[m] \cup Range(Owner.res)
        /\ \A n \in DOMAIN b.scopes[m] \ Range(Owner.res) : core'.scopes[m][n] = b.scopes[m][n]
        /\ \A e \in 1 .. m - 1 : core'.scopes[e] = b.scopes[e]
    BY <1>2, <1>6 DEF BoundIs, Kept
  <2>2. Len(core.tiles) \in Nat /\ Len(core.bufs) \in Nat
    BY <1>3, SeqFacts DEF CoreOK
  <2>3. b.scopes[m] = core.scopes[m] /\ \A e \in 1 .. m - 1 : e \in 1 .. m
    BY <1>3, <1>6
  <2>4. Extends(core, core')
    BY <1>6, <2>1, <2>2 DEF Extends
  <2> QED
    BY <1>6, <2>1, <2>3, <2>4
<1>8. Past(frames, status, m) = frames[m].pc - 1 /\ Past(frames', status', m) = frames[m].pc
  BY <1>3, <1>4, <1>5 DEF Past
<1>9. \A d \in m .. Len(frames') : frames'[d].pc > 0 =>
          \A n \in DOMAIN frames[m].env \ (Range(Owner.res) \cup Opened(m, d)) :
              n \in DOMAIN frames'[d].env /\ frames'[d].env[n] = frames[m].env[n]
  <2> TAKE d \in m .. Len(frames')
  <2>1. d = m
    BY <1>3, <1>5
  <2>2. DOMAIN Assign(Owner.res, Frame.terms) = Range(Owner.res)
    BY DEF Assign
  <2> QED
    BY <1>5, <2>1, <2>2 DEF Over
<1>10. frames'[m].pc # frames[m].pc /\ Len(frames') # m + 1 /\ Range(Owner.res) = Range(Owner.res) \cup Range(Owner.outs)
  BY <1>3, <1>4, <1>5
<1> QED
  BY <1>3, <1>5, <1>7, <1>8, <1>9, <1>10 DEF Moves


(***************************************************************************)
(* Every step keeps the literals.                                          *)
(***************************************************************************)
LEMMA OpLits ==
    ASSUME OpStep, LitsBound(core)
    PROVE  LitsBound(core')
<1>1. Here
  BY DEF OpStep
<1>2. /\ N \in Nat /\ N >= 1 /\ Len(core.scopes) = N /\ CoreOK(core) /\ IsSite(Frame.blk, Frame.pc)
      /\ Op = prog[Frame.blk][Frame.pc] /\ RowsAre(Op) /\ IsOp(Op)
  BY <1>1 DEF Here, Op
<1>3. \A vals : OpChain(vals) =>
          \E d : /\ LitsBound(d) /\ CoreOK(d) /\ Len(d.scopes) = N
                 /\ BoundIs(d, Op.res, vals, Op.k # "constant", core')
  <2> TAKE vals
  <2> HAVE OpChain(vals)
  <2>1. PICK b, c, d :
            /\ FetchedIs(core, Reads, b) /\ GrownIs(b, c)
            /\ IF Op.k = "reduce" THEN BoundIs(c, Op.outs, vals, TRUE, d) ELSE d = c
            /\ BoundIs(d, Op.res, vals, Op.k # "constant", core')
    BY DEF OpChain
  <2>2. LitsBound(b) /\ CoreOK(b) /\ Len(b.scopes) = N
    BY <1>2, <2>1, LitsFetched DEF FetchedIs
  <2>3. LitsBound(c) /\ CoreOK(c) /\ Len(c.scopes) = N
    BY <2>1, <2>2, LitsGrown DEF GrownIs
  <2>4. CASE Op.k # "reduce"
    BY <2>1, <2>3, <2>4
  <2>5. CASE Op.k = "reduce"
    <3>1. BoundIs(c, Op.outs, vals, TRUE, d)
      BY <2>1, <2>5
    <3>2. CoreOK(d) /\ Len(d.scopes) = N
      BY <3>1, <2>3 DEF BoundIs
    <3>3. LitsBound(d)
      <4> SUFFICES ASSUME NEW e \in 1 .. Len(d.scopes), NEW n \in DOMAIN d.scopes[e], n # "i", OnlyConstant(prog, n)
                   PROVE  d.scopes[e][n] \in d.uncharged
        BY DEF LitsBound
      <4>1. CASE e \in 1 .. N - 1
        <5>1. Kept(c, d, N - 1) /\ N - 1 \in Int
          BY <1>2, <3>1, <2>3 DEF BoundIs
        <5> QED
          BY <2>3, <4>1, <5>1, LitsKept
      <4>2. CASE e = N
        <5>1. n \notin Range(Op.outs)
          BY <1>2, ConstantNames
        <5>2. /\ n \in DOMAIN c.scopes[N]
              /\ d.scopes[N][n] = c.scopes[N][n]
              /\ c.scopes[N][n] \in c.uncharged => c.scopes[N][n] \in d.uncharged
          BY <3>1, <2>3, <4>2, <5>1 DEF BoundIs
        <5>3. N \in 1 .. Len(c.scopes)
          BY <1>2, <2>3
        <5> QED
          BY <2>3, <4>2, <5>2, <5>3 DEF LitsBound
      <4> QED
        BY <1>2, <3>2, <4>1, <4>2
    <3> QED
      BY <2>1, <3>2, <3>3
  <2> QED
    BY <2>4, <2>5
<1>4. CASE SkipRan /\ OpChain(<<>>)
  <2>1. PICK d : /\ LitsBound(d) /\ CoreOK(d) /\ Len(d.scopes) = N
                 /\ BoundIs(d, Op.res, <<>>, Op.k # "constant", core')
    BY <1>3, <1>4
  <2>2. Op.res = <<>> /\ Len(d.scopes) >= 1
    BY <1>2, <1>4, <2>1 DEF SkipRan
  <2>3. IsSeq(<<>>) /\ Len(<<>>) = 0
    BY EmptyIsSeq
  <2>4. BoundIs(d, <<>>, <<>>, Op.k # "constant", core')
    BY <2>1, <2>2
  <2>5. \A i \in 1 .. Len(<<>>) : OnlyConstant(prog, <<>>[i]) /\ <<>>[i] # "i" =>
            ~(Op.k # "constant") /\ <<>>[i] # Scalar
    BY <2>3
  <2> QED
    BY <2>1, <2>2, <2>3, <2>4, <2>5, LitsBind
<1>5. CASE \E t : OpChain(<<t>>) /\ OpValue(t)
  <2>1. PICK t : OpChain(<<t>>) /\ OpValue(t)
    BY <1>5
  <2>2. PICK vals : vals = <<t>>
    OBVIOUS
  <2>3. PICK d : /\ LitsBound(d) /\ CoreOK(d) /\ Len(d.scopes) = N
                 /\ BoundIs(d, Op.res, vals, Op.k # "constant", core')
    BY <1>3, <2>1, <2>2
  <2>4. Op.k \in OneResult
    BY <2>1 DEF OpValue, OneResult
  <2>5. Len(Op.res) = 1 /\ IsSeq(Op.res)
    BY <1>2, <2>4, Zenon DEF IsOp, RowsAre
  <2>6. IsSeq(vals) /\ Len(vals) = 1 /\ vals[1] = t
    BY <2>2, OneValue
  <2>7. ASSUME NEW i \in 1 .. Len(Op.res), OnlyConstant(prog, Op.res[i])
        PROVE  ~(Op.k # "constant") /\ vals[i] # Scalar
    <3>1. Op.k = "constant"
      BY <1>2, <2>7, LitsOthers
    <3>2. NewValue(t, Term(Op.res[1], <<>>))
      BY <2>1, <3>1 DEF OpValue
    <3>3. i = 1 /\ t \in 1 .. Len(core'.tiles)
      BY <2>5, <3>2 DEF NewValue
    <3> QED
      BY <2>6, <3>1, <3>3 DEF Scalar
  <2>8. Len(d.scopes) >= 1 /\ Len(vals) = Len(Op.res)
    BY <1>2, <2>3, <2>5, <2>6
  <2> QED
    BY <2>3, <2>5, <2>6, <2>7, <2>8, LitsBind
<1> QED
  BY <1>4, <1>5, OpChains

LEMMA ParkLits ==
    ASSUME ParkStep, LitsBound(core)
    PROVE  LitsBound(core')
<1>1. CoreOK(core)
  BY DEF ParkStep, Here
<1>2. PICK b : FetchedIs(core, Op.ins, b) /\ GrownIs(b, core')
  BY DEF ParkStep, ParkRan, MadeIs
<1> QED
  BY <1>1, <1>2, LitsFetched, LitsGrown

LEMMA YieldLits ==
    ASSUME YieldStep, LitsBound(core)
    PROVE  LitsBound(core')
<1>1. CoreOK(core) /\ FetchedIs(core, Op.ins, core')
  BY DEF YieldStep, YieldRan, Here
<1> QED
  BY <1>1, LitsFetched

LEMMA LoopLits ==
    ASSUME LoopStep, LitsBound(core)
    PROVE  LitsBound(core')
<1>1. Here /\ EnterForRan
  BY DEF LoopStep
<1>2. /\ N \in Nat /\ N >= 1 /\ Len(core.scopes) = N /\ CoreOK(core) /\ IsSite(Frame.blk, Frame.pc)
      /\ Op = prog[Frame.blk][Frame.pc] /\ RowsAre(Op) /\ IsOp(Op) /\ Op.k = "for"
  BY <1>1 DEF Here, Op, EnterForRan
<1>3. PICK b, vals : InitsAre(Op.ins, b, vals) /\ BoundIs(b, Op.args, vals, TRUE, core')
  BY <1>1 DEF EnterForRan
<1>4. LitsBound(b) /\ CoreOK(b) /\ Len(b.scopes) >= 1 /\ IsSeq(vals) /\ Len(vals) = Len(Op.ins)
  BY <1>2, <1>3, LitsGrown DEF InitsAre, GrownIs
<1>5. Len(Op.args) = Len(Op.ins) /\ IsSeq(Op.args)
  BY <1>2 DEF IsOp, RowsAre
<1>6. \A i \in 1 .. Len(Op.args) : ~OnlyConstant(prog, Op.args[i])
  BY <1>2, LitsOthers
<1> QED
  BY <1>3, <1>4, <1>5, <1>6, LitsBind

LEMMA BranchLits ==
    ASSUME BranchStep, LitsBound(core)
    PROVE  LitsBound(core')
<1>1. CoreOK(core) /\ PushedIs(core, core')
  BY DEF BranchStep, BranchRan, Here
<1> QED
  BY <1>1, LitsPushed

LEMMA IterateLits ==
    ASSUME IterateStep, LitsBound(core)
    PROVE  LitsBound(core')
<1>1. CoreOK(core)
  BY DEF IterateStep, Within
<1>2. PICK b : PushedIs(core, b) /\ BoundIs(b, <<"i">>, <<Scalar>>, TRUE, core')
  BY DEF IterateStep, IterateRan
<1>3. LitsBound(b) /\ CoreOK(b)
  BY <1>1, <1>2, LitsPushed DEF PushedIs
<1>4. Len(b.scopes) >= 1
  <2>1. Len(b.scopes) = Len(core.scopes) + 1
    BY <1>2 DEF PushedIs, IsAppend
  <2>2. Len(core.scopes) \in Nat
    BY <1>1, SeqFacts DEF CoreOK
  <2> QED
    BY <2>1, <2>2
<1>5. PICK names : names = <<"i">>
  OBVIOUS
<1>6. PICK vals : vals = <<Scalar>>
  OBVIOUS
<1>7. /\ IsSeq(names) /\ IsSeq(vals) /\ Len(vals) = Len(names) /\ Len(names) = 1 /\ names[1] = "i"
  BY <1>5, <1>6, OneValue
<1>8. BoundIs(b, names, vals, TRUE, core')
  BY <1>2, <1>5, <1>6
<1>9. \A i \in 1 .. Len(names) : OnlyConstant(prog, names[i]) /\ names[i] # "i" => ~TRUE /\ vals[i] # Scalar
  BY <1>7
<1> QED
  BY <1>3, <1>4, <1>7, <1>8, <1>9, LitsBind

LEMMA EndLits ==
    ASSUME EndStep, LitsBound(core)
    PROVE  LitsBound(core')
<1>1. Within /\ EndIterationRan
  BY DEF EndStep
<1>2. /\ CoreOK(core) /\ N \in Nat /\ N >= 2 /\ IsSite(Parent.blk, Parent.pc) /\ RowsAre(Owner)
      /\ Owner = prog[Parent.blk][Parent.pc] /\ Frame.k = "for" /\ Len(core.scopes) = N
  <2>1. Frame \in {Frame} /\ Frame.blk \in DOMAIN prog /\ Len(prog[Frame.blk]) \in Nat
    BY <1>1, BlockIs DEF Within, FrameOK
  <2> QED
    BY <1>1, <2>1 DEF Within, EndIterationRan, Owner
<1>3. PICK b : PoppedIs(core, b) /\ BoundIs(b, Owner.args, Frame.vals, TRUE, core')
  BY <1>1 DEF EndIterationRan
<1>4. LitsBound(b) /\ CoreOK(b) /\ Len(b.scopes) >= 1
  BY <1>2, <1>3, LitsPopped DEF PoppedIs
<1>5. IsSeq(Frame.vals) /\ Len(Frame.vals) = Len(Owner.args) /\ IsSeq(Owner.args)
  BY <1>1, <1>2, ValuesMatch, Zenon DEF Within, RowsAre
<1>6. \A i \in 1 .. Len(Owner.args) : ~OnlyConstant(prog, Owner.args[i])
  BY <1>2, LitsOthers
<1> QED
  BY <1>3, <1>4, <1>5, <1>6, LitsBind

LEMMA LeaveLits ==
    ASSUME LeaveStep, LitsBound(core)
    PROVE  LitsBound(core')
<1>1. Within /\ LeaveRan
  BY DEF LeaveStep
<1>2. PICK b : /\ IF Frame.k = "for" THEN b = core /\ Frame.pc = 0
                  ELSE PoppedIs(core, b) /\ Frame.pc = Len(prog[Frame.blk]) + 1 /\ Frame.k = "if"
               /\ BoundIs(b, Owner.res, Frame.vals, TRUE, core')
  BY <1>1 DEF LeaveRan
<1>3. /\ CoreOK(core) /\ N \in Nat /\ N >= 2 /\ IsSite(Parent.blk, Parent.pc) /\ RowsAre(Owner)
      /\ Owner = prog[Parent.blk][Parent.pc] /\ Owner.k # "constant" /\ Len(prog[Frame.blk]) \in Nat
  <2>1. Frame.blk \in DOMAIN prog /\ Len(prog[Frame.blk]) \in Nat
    BY <1>1, BlockIs DEF Within, FrameOK
  <2> QED
    BY <1>1, <1>2, <2>1 DEF Within, Owner
<1>4. LitsBound(b) /\ CoreOK(b) /\ Len(b.scopes) >= 1
  <2>1. CASE Frame.k = "for"
    BY <1>1, <1>2, <1>3, <2>1 DEF Within
  <2>2. CASE Frame.k # "for"
    <3>1. Frame.pc # 0 /\ PoppedIs(core, b)
      BY <1>2, <1>3, <2>2
    <3>2. Len(core.scopes) = N
      BY <1>1, <3>1 DEF Within
    <3> QED
      BY <1>3, <3>1, <3>2, LitsPopped DEF PoppedIs
  <2> QED
    BY <2>1, <2>2
<1>5. IsSeq(Frame.vals) /\ Len(Frame.vals) = Len(Owner.res) /\ IsSeq(Owner.res)
  <2>1. Frame.k = "for" \/ (Frame.k = "if" /\ Frame.pc > Len(prog[Frame.blk]))
    BY <1>2, <1>3
  <2> QED
    BY <1>1, <1>3, <2>1, ValuesMatch, Zenon DEF Within, RowsAre
<1>6. \A i \in 1 .. Len(Owner.res) : ~OnlyConstant(prog, Owner.res[i])
  BY <1>3, LitsOthers
<1> QED
  BY <1>2, <1>4, <1>5, <1>6, LitsBind


(***************************************************************************)
(* The inductive invariant.  What is seen holds what its name means.  A    *)
(* name that is no alias, and whose tile is not that of a lasting literal, *)
(* shares its buffer with aliases only, and only where it is in scope.     *)
(* The values a region has yielded, or a loop goes round with, and the     *)
(* tile a parked op will bind, are seen by nobody.                         *)
(***************************************************************************)
IsLasting(c, t) == \E n \in Lasting(prog) : n \in DOMAIN c.scopes[1] /\ c.scopes[1][n] = t

MeansIt(c, fs, d, n, e) == n \in DOMAIN fs[d].env /\ Holds(c, c.scopes[e][n]) = fs[d].env[n]
MeaningOK(c, fs, st) == \A d, n, e : Sees(c, fs, st, d, n, e) => MeansIt(c, fs, d, n, e)

Clear(c, fs, n, e, h, p, g) ==
    /\ n # "i" /\ p # "i" /\ ~(n = p /\ e = g)
    /\ n \notin Aliases(prog) /\ ~IsLasting(c, c.scopes[e][n])
    /\ c.tiles[c.scopes[e][n]] = c.tiles[c.scopes[g][p]]
    => p \in Aliases(prog) /\ IsShared(n) /\ n \in ScopeAt(fs, h) /\ e <= h
Apart(c, fs, st) ==
    \A d, n, e, h, p, g : Sees(c, fs, st, d, n, e) /\ Sees(c, fs, st, h, p, g) => Clear(c, fs, n, e, h, p, g)

Sole(c, fs, st, t) ==
    \A h, p, g : Sees(c, fs, st, h, p, g) /\ p # "i" => c.tiles[c.scopes[g][p]] # c.tiles[t]
ValueOK(c, fs, st, f, j) ==
    /\ Holds(c, f.vals[j]) = f.terms[j]
    /\ \/ IsLasting(c, f.vals[j])
       \/ /\ Sole(c, fs, st, f.vals[j])
          /\ \A i \in 1 .. Len(f.vals) : i # j => c.tiles[f.vals[i]] # c.tiles[f.vals[j]]
ValuesOK(c, fs, st) ==
    ~AtOp(fs, Len(fs)) =>
        \A j \in 1 .. Len(fs[Len(fs)].vals) :
            /\ ValueOK(c, fs, st, fs[Len(fs)], j)
            /\ fs[Len(fs)].pc = 0 =>
                  c.scopes[Len(fs) - 1][OwnerOf(fs, Len(fs)).args[j]] = fs[Len(fs)].vals[j]
ParkOK ==
    status = "parked" => /\ Sole(core, frames, status, Newest(core))
                         /\ Holds(core, Newest(core)) = Term(Op.res[1], Meaning(Op.ins))

SightsOK(c, fs, st) == MeaningOK(c, fs, st) /\ Apart(c, fs, st) /\ BindsOK(c, fs, st)
MeantInv ==
    Goes => /\ SightsOK(core, frames, status) /\ ValuesOK(core, frames, status) /\ ParkOK
            /\ LitsBound(core)

(* A lasting literal stays bound. *)
LEMMA LastingStays ==
    ASSUME TypeInv, AccumulatesSafely(prog), LastingIn(core, frames),
           NEW m, NEW con, NEW new, Moves(m, con, new),
           NEW n \in Lasting(prog), n \in DOMAIN core.scopes[1]
    PROVE  n \in DOMAIN core'.scopes[1] /\ core'.scopes[1][n] = core.scopes[1][n]
<1>1. /\ m \in Nat /\ m >= 1 /\ AtOp(frames, m)
      /\ \A e \in 1 .. m - 1 : frames'[e] = frames[e] /\ core'.scopes[e] = core.scopes[e]
      /\ DOMAIN core'.scopes[m] = (DOMAIN core.scopes[m] \ con) \cup new
      /\ \A x \in DOMAIN core.scopes[m] \ (con \cup new) : core'.scopes[m][x] = core.scopes[m][x]
      /\ \A x \in con : x \in usedOnce
      /\ new \subseteq Range(OpAt(frames, m).args) \cup Range(OpAt(frames, m).res)
                       \cup Range(OpAt(frames, m).outs)
  BY DEF Moves
<1>2. CASE m > 1
  <2>1. 1 \in 1 .. m - 1
    BY <1>1, <1>2
  <2> QED
    BY <1>1, <2>1
<1>3. CASE m = 1
  <2>1. frames[1].blk = "main" /\ prog \in Kernels /\ IsSite("main", frames[1].pc)
        /\ OpAt(frames, 1) = prog["main"][frames[1].pc]
    <3>1. 1 \in 1 .. Len(frames) /\ FrameOK(frames, 1)
      BY <1>1, <1>3 DEF AtOp, TypeInv, FramesOK
    <3> QED
      BY <1>1, <1>3, <3>1, OpIsOp DEF FrameOK, AtOp, OpAt
  <2>2. /\ n \notin Range(OpAt(frames, 1).args) /\ n \notin Range(OpAt(frames, 1).outs)
        /\ UseCount(prog, n) # 1
    BY <2>1, LastingNames, ConstantNames
  <2>3. n \in ScopeAt(frames, 1)
    BY <2>1 DEF LastingIn, ScopeAt, InScope
  <2>4. n \notin Range(OpAt(frames, 1).res)
    BY <1>1, <1>3, <2>3, NotRedefined
  <2>5. n \notin con
    BY <1>1, <2>2 DEF TypeInv
  <2> QED
    BY <1>1, <1>3, <2>2, <2>4, <2>5
<1> QED
  BY <1>1, <1>2, <1>3

LEMMA LastingTileStays ==
    ASSUME TypeInv, AccumulatesSafely(prog), LastingIn(core, frames),
           NEW m, NEW con, NEW new, Moves(m, con, new), NEW t, IsLasting(core, t)
    PROVE  IsLasting(core', t)
<1>1. PICK n \in Lasting(prog) : n \in DOMAIN core.scopes[1] /\ core.scopes[1][n] = t
  BY DEF IsLasting
<1>2. n \in DOMAIN core'.scopes[1] /\ core'.scopes[1][n] = t
  BY <1>1, LastingStays
<1> QED
  BY <1>2 DEF IsLasting

(* The outermost region is at an op as long as any is. *)
LEMMA FirstAtOp ==
    ASSUME TypeInv, NEW d, AtOp(frames, d)
    PROVE  AtOp(frames, 1)
<1>1. d \in 1 .. Len(frames) /\ Len(frames) \in Nat
  BY SeqFacts DEF AtOp, TypeInv, FramesOK
<1>2. CASE Len(frames) = 1
  BY <1>1, <1>2
<1>3. CASE Len(frames) >= 2
  <2>1. 2 \in 1 .. Len(frames) /\ 2 - 1 = 1 /\ 2 # 1 /\ 1 \in 1 .. Len(frames)
    BY <1>1, <1>3
  <2>2. FrameOK(frames, 2)
    BY <2>1 DEF TypeInv, FramesOK
  <2> QED
    BY <2>1, <2>2 DEF FrameOK, AtOp
<1> QED
  BY <1>1, <1>2, <1>3

LEMMA LastingSeen ==
    ASSUME TypeInv, LastingIn(core, frames), AtOp(frames, 1),
           NEW n \in Lasting(prog), n \in DOMAIN core.scopes[1]
    PROVE  Sees(core, frames, status, 1, n, 1)
<1>1. frames[1].blk = "main" /\ prog \in Kernels
  BY DEF AtOp, TypeInv, FramesOK, FrameOK
<1>2. n \in ScopeAt(frames, 1)
  BY <1>1 DEF LastingIn, ScopeAt, InScope
<1>3. ~UsedUp(prog, usedOnce, frames, status, 1, n)
  <2>1. UseCount(prog, n) # 1
    BY <1>1, LastingNames DEF OnlyConstant
  <2> QED
    BY <2>1 DEF UsedUp, TypeInv
<1>4. IsAt(core, 1, n, 1)
  BY DEF IsAt
<1> QED
  BY <1>2, <1>3, <1>4 DEF Sees

(* A name that is no alias shares no buffer with a lasting literal. *)
LEMMA LastingLone ==
    ASSUME TypeInv, LastingIn(core, frames), Apart(core, frames, status),
           NEW d, NEW n, NEW e, Sees(core, frames, status, d, n, e), n # "i", n \notin Aliases(prog),
           ~IsLasting(core, core.scopes[e][n]), NEW t, IsLasting(core, t)
    PROVE  core.tiles[core.scopes[e][n]] # core.tiles[t]
<1>1. PICK l \in Lasting(prog) : l \in DOMAIN core.scopes[1] /\ core.scopes[1][l] = t
  BY DEF IsLasting
<1>2. AtOp(frames, 1)
  BY FirstAtOp DEF Sees
<1>3. Sees(core, frames, status, 1, l, 1)
  BY <1>1, <1>2, LastingSeen
<1>4. l # "i" /\ l \notin Aliases(prog)
  BY LastingNames DEF TypeInv
<1>5. Clear(core, frames, n, e, 1, l, 1)
  BY <1>3 DEF Apart
<1>6. ~(n = l /\ e = 1)
  BY <1>1
<1> QED
  BY <1>1, <1>4, <1>5, <1>6 DEF Clear

(***************************************************************************)
(* What the sightings after a step must be to mean their names again.      *)
(***************************************************************************)
KeepsSeen ==
    \A d, n, e : Carried(d, n, e) /\ Sees(core', frames', status', d, n, e) /\ n # "i" =>
        core'.bufs[core.tiles[core.scopes[e][n]]] = core.bufs[core.tiles[core.scopes[e][n]]]
NewMeant(m, new) ==
    \A d, n, e : IsNew(m, new, d, n, e) /\ Sees(core', frames', status', d, n, e) =>
        /\ MeansIt(core', frames', d, n, e)
        /\ \A h, p, g : Sees(core', frames', status', h, p, g) =>
              Clear(core', frames', n, e, h, p, g) /\ Clear(core', frames', p, g, d, n, e)
IndexMeant(m) ==
    OpAt(frames, m).k = "for" /\ AtOp(frames', m + 1) /\ frames'[m + 1].pc = 1 =>
        MeansIt(core', frames', m + 1, "i", m + 1)

LEMMA CarriedTile ==
    ASSUME TypeInv, NEW m, NEW con, NEW new, Moves(m, con, new), NEW d, NEW n, NEW e, Carried(d, n, e)
    PROVE  /\ core'.scopes[e][n] = core.scopes[e][n]
           /\ n = "i" => core.scopes[e][n] = Scalar
           /\ n # "i" => /\ core.scopes[e][n] \in 1 .. Len(core.tiles)
                         /\ core'.tiles[core.scopes[e][n]] = core.tiles[core.scopes[e][n]]
                         /\ core.tiles[core.scopes[e][n]] \in 1 .. Len(core.bufs)
<1>1. PICK k \in 1 .. d : Sees(core, frames, status, k, n, e) /\ core'.scopes[e][n] = core.scopes[e][n]
  BY DEF Carried
<1>2. CoreOK(core) /\ FramesOK(frames) /\ ScopesMatch(core, frames)
  BY DEF TypeInv
<1>3. Extends(core, core')
  BY DEF Moves
<1> QED
  BY <1>1, <1>2, <1>3, SeenIs DEF Extends

LEMMA CarriedMeans ==
    ASSUME TypeInv, NEW m, NEW con, NEW new, Moves(m, con, new), KeepsSeen,
           MeaningOK(core, frames, status),
           NEW d, NEW n, NEW e, Carried(d, n, e), Sees(core', frames', status', d, n, e)
    PROVE  MeansIt(core', frames', d, n, e)
<1>1. PICK k \in 1 .. d :
          /\ Sees(core, frames, status, k, n, e)
          /\ n \in DOMAIN frames[k].env =>
                 n \in DOMAIN frames'[d].env /\ frames'[d].env[n] = frames[k].env[n]
  BY DEF Carried
<1>2. n \in DOMAIN frames[k].env /\ Holds(core, core.scopes[e][n]) = frames[k].env[n]
  BY <1>1 DEF MeaningOK, MeansIt
<1>3. /\ core'.scopes[e][n] = core.scopes[e][n]
      /\ n = "i" => core.scopes[e][n] = Scalar
      /\ n # "i" => core'.tiles[core.scopes[e][n]] = core.tiles[core.scopes[e][n]]
      /\ n # "i" => core.scopes[e][n] # Scalar
  BY CarriedTile DEF Scalar
<1>4. Holds(core', core.scopes[e][n]) = Holds(core, core.scopes[e][n])
  <2>1. CASE n = "i"
    BY <1>3, <2>1 DEF Holds
  <2>2. CASE n # "i"
    <3>1. core'.bufs[core.tiles[core.scopes[e][n]]] = core.bufs[core.tiles[core.scopes[e][n]]]
      BY <2>2 DEF KeepsSeen
    <3> QED
      BY <1>3, <2>2, <3>1 DEF Holds
  <2> QED
    BY <2>1, <2>2
<1> QED
  BY <1>1, <1>2, <1>3, <1>4 DEF MeansIt

LEMMA CarriedClear ==
    ASSUME TypeInv, AccumulatesSafely(prog), LastingIn(core, frames), Apart(core, frames, status),
           NEW m, NEW con, NEW new, Moves(m, con, new),
           NEW d, NEW n, NEW e, Carried(d, n, e), NEW h, NEW p, NEW g, Carried(h, p, g),
           h \in Nat
    PROVE  Clear(core', frames', n, e, h, p, g)
<1> SUFFICES ASSUME n # "i", p # "i", ~(n = p /\ e = g), n \notin Aliases(prog),
                    ~IsLasting(core', core'.scopes[e][n]),
                    core'.tiles[core'.scopes[e][n]] = core'.tiles[core'.scopes[g][p]]
             PROVE  p \in Aliases(prog) /\ IsShared(n) /\ n \in ScopeAt(frames', h) /\ e <= h
  BY DEF Clear
<1>1. PICK k \in 1 .. d : Sees(core, frames, status, k, n, e)
  BY DEF Carried
<1>2. PICK l \in 1 .. h : Sees(core, frames, status, l, p, g) /\ ScopeAt(frames, l) \subseteq ScopeAt(frames', h)
  BY DEF Carried
<1>3. /\ core'.scopes[e][n] = core.scopes[e][n]
      /\ core'.tiles[core.scopes[e][n]] = core.tiles[core.scopes[e][n]]
  BY CarriedTile
<1>4. /\ core'.scopes[g][p] = core.scopes[g][p]
      /\ core'.tiles[core.scopes[g][p]] = core.tiles[core.scopes[g][p]]
  BY CarriedTile
<1>5. ~IsLasting(core, core.scopes[e][n])
  BY <1>3, LastingTileStays
<1>6. Clear(core, frames, n, e, l, p, g)
  BY <1>1, <1>2 DEF Apart
<1>7. p \in Aliases(prog) /\ IsShared(n) /\ n \in ScopeAt(frames, l) /\ e <= l
  BY <1>3, <1>4, <1>5, <1>6 DEF Clear
<1>8. e \in Nat
  <2>1. CoreOK(core) /\ FramesOK(frames) /\ ScopesMatch(core, frames)
    BY DEF TypeInv
  <2>2. e \in 1 .. k /\ k \in 1 .. Len(frames) /\ Len(frames) \in Nat
    BY <1>1, <2>1, SeenIs
  <2> QED
    BY <2>2
<1> QED
  BY <1>2, <1>7, <1>8

(* A tile that nobody sees, and that gets no new name, is still unseen. *)
LEMMA SoleMoves ==
    ASSUME TypeInv, AccumulatesSafely(prog), NEW m, NEW con, NEW new, Moves(m, con, new),
           NEW t, core'.tiles[t] = core.tiles[t], Sole(core, frames, status, t),
           \A d, n, e : IsNew(m, new, d, n, e) /\ Sees(core', frames', status', d, n, e) =>
               core'.tiles[core'.scopes[e][n]] # core'.tiles[t]
    PROVE  Sole(core', frames', status', t)
<1> SUFFICES ASSUME NEW d, NEW n, NEW e, Sees(core', frames', status', d, n, e), n # "i"
             PROVE  core'.tiles[core'.scopes[e][n]] # core'.tiles[t]
  BY DEF Sole
<1>1. Carried(d, n, e) \/ IsNew(m, new, d, n, e)
  BY SightsMove
<1>2. CASE Carried(d, n, e)
  <2>1. PICK k \in 1 .. d : Sees(core, frames, status, k, n, e)
    BY <1>2 DEF Carried
  <2>2. core.tiles[core.scopes[e][n]] # core.tiles[t]
    BY <2>1 DEF Sole
  <2>3. /\ core'.scopes[e][n] = core.scopes[e][n]
        /\ core'.tiles[core.scopes[e][n]] = core.tiles[core.scopes[e][n]]
    BY <1>2, CarriedTile
  <2> QED
    BY <2>2, <2>3
<1>3. CASE IsNew(m, new, d, n, e)
  BY <1>3
<1> QED
  BY <1>1, <1>2, <1>3

LEMMA SightsStay ==
    ASSUME TypeInv, AccumulatesSafely(prog), SightsOK(core, frames, status),
           NEW m, NEW con, NEW new, Moves(m, con, new), KeepsSeen, NewMeant(m, new), IndexMeant(m)
    PROVE  SightsOK(core', frames', status')
<1>1. MeaningOK(core, frames, status) /\ Apart(core, frames, status)
      /\ BindsOK(core, frames, status) /\ LastingIn(core, frames)
  BY DEF SightsOK, BindsOK
<1>2. m \in Nat /\ Len(frames') \in {m, m + 1}
  BY DEF Moves
<1>3. \A d, n, e : Sees(core', frames', status', d, n, e) =>
          \/ Carried(d, n, e)
          \/ IsNew(m, new, d, n, e)
          \/ n = "i" /\ d = m + 1 /\ e = d /\ OpAt(frames, m).k = "for" /\ frames'[d].pc = 1
  BY SightsMove
<1>4. MeaningOK(core', frames', status')
  <2> SUFFICES ASSUME NEW d, NEW n, NEW e, Sees(core', frames', status', d, n, e)
               PROVE  MeansIt(core', frames', d, n, e)
    BY DEF MeaningOK
  <2>1. CASE Carried(d, n, e)
    BY <1>1, <2>1, CarriedMeans
  <2>2. CASE IsNew(m, new, d, n, e)
    BY <2>2 DEF NewMeant
  <2>3. CASE n = "i" /\ d = m + 1 /\ e = d /\ OpAt(frames, m).k = "for" /\ frames'[d].pc = 1
    <3>1. AtOp(frames', m + 1)
      BY <2>3 DEF Sees
    <3> QED
      BY <2>3, <3>1 DEF IndexMeant
  <2> QED
    BY <1>3, <2>1, <2>2, <2>3
<1>5. Apart(core', frames', status')
  <2> SUFFICES ASSUME NEW d, NEW n, NEW e, Sees(core', frames', status', d, n, e),
                      NEW h, NEW p, NEW g, Sees(core', frames', status', h, p, g)
               PROVE  Clear(core', frames', n, e, h, p, g)
    BY DEF Apart
  <2>1. CASE n = "i" \/ p = "i"
    BY <2>1 DEF Clear
  <2>2. CASE IsNew(m, new, d, n, e)
    BY <2>2 DEF NewMeant
  <2>3. CASE IsNew(m, new, h, p, g)
    BY <2>3 DEF NewMeant
  <2>4. CASE Carried(d, n, e) /\ Carried(h, p, g)
    <3>1. h \in Nat
      <4>1. h \in 1 .. Len(frames')
        BY DEF Sees, AtOp
      <4> QED
        BY <1>2, <4>1
    <3> QED
      BY <1>1, <2>4, <3>1, CarriedClear
  <2> QED
    BY <1>3, <2>1, <2>2, <2>3, <2>4
<1>6. BindsOK(core', frames', status')
  BY <1>1, BindsMove
<1> QED
  BY <1>4, <1>5, <1>6 DEF SightsOK


(***************************************************************************)
(* The invariant after a step, in terms of what the step leaves.           *)
(***************************************************************************)
LEMMA AtOpNext ==
    ASSUME UNCHANGED prog, NEW d
    PROVE  AtOp(frames, d)' <=> AtOp(frames', d)
BY DEF AtOp, IsSite

LEMMA SeesNext ==
    ASSUME UNCHANGED <<prog, usedOnce>>, NEW d, NEW n, NEW e
    PROVE  Sees(core, frames, status, d, n, e)' <=> Sees(core', frames', status', d, n, e)
BY AtOpNext DEF Sees, ScopeAt

LEMMA MeaningNext ==
    ASSUME UNCHANGED <<prog, usedOnce>>, MeaningOK(core', frames', status')
    PROVE  MeaningOK(core, frames, status)'
BY SeesNext DEF MeaningOK, MeansIt, Holds

LEMMA SharedNext ==
    ASSUME UNCHANGED prog, NEW n
    PROVE  IsShared(n)' <=> IsShared(n)
BY DEF IsShared, IsSite

LEMMA ClearNext ==
    ASSUME UNCHANGED prog, NEW n, NEW e, NEW h, NEW p, NEW g, Clear(core', frames', n, e, h, p, g)
    PROVE  Clear(core, frames, n, e, h, p, g)'
<1>1. IsShared(n)' <=> IsShared(n)
  BY SharedNext
<1>2. ScopeAt(frames, h)' = ScopeAt(frames', h)
  BY DEF ScopeAt
<1>3. IsLasting(core, core.scopes[e][n])' <=> IsLasting(core', core'.scopes[e][n])
  BY DEF IsLasting
<1> QED
  BY <1>1, <1>2, <1>3 DEF Clear

LEMMA ApartNext ==
    ASSUME UNCHANGED <<prog, usedOnce>>, Apart(core', frames', status')
    PROVE  Apart(core, frames, status)'
BY SeesNext, ClearNext DEF Apart

LEMMA SoleNext ==
    ASSUME UNCHANGED <<prog, usedOnce>>, NEW t, Sole(core', frames', status', t)
    PROVE  Sole(core, frames, status, t)'
BY SeesNext DEF Sole

LEMMA BindsNext ==
    ASSUME UNCHANGED <<prog, usedOnce>>, BindsOK(core', frames', status')
    PROVE  BindsOK(core, frames, status)'
<1>1. EnvLink(frames)'
  BY DEF BindsOK, EnvLink
<1>2. LastingIn(core, frames)'
  BY DEF BindsOK, LastingIn
<1>3. \A d \in 1 .. Len(frames') : OwnBound(core, frames, status, d)'
  BY DEF BindsOK, OwnBound, Results, Past
<1> QED
  BY <1>1, <1>2, <1>3 DEF BindsOK

LEMMA ValueNext ==
    ASSUME UNCHANGED <<prog, usedOnce>>, NEW j, ValueOK(core', frames', status', frames'[Len(frames')], j)
    PROVE  ValueOK(core, frames, status, frames[Len(frames)], j)'
<1>1. CASE IsLasting(core', frames'[Len(frames')].vals[j])
  <2>1. IsLasting(core, frames[Len(frames)].vals[j])'
    BY <1>1 DEF IsLasting
  <2> QED
    BY <2>1 DEF ValueOK, Holds
<1>2. CASE Sole(core', frames', status', frames'[Len(frames')].vals[j])
  <2>1. Sole(core, frames, status, frames[Len(frames)].vals[j])'
    BY <1>2, SeesNext DEF Sole
  <2>2. IsLasting(core, frames[Len(frames)].vals[j])' <=> IsLasting(core', frames'[Len(frames')].vals[j])
    BY DEF IsLasting
  <2> QED
    BY <2>1, <2>2 DEF ValueOK, Holds
<1> QED
  BY <1>1, <1>2 DEF ValueOK

LEMMA ValuesNext ==
    ASSUME UNCHANGED <<prog, usedOnce>>, ValuesOK(core', frames', status')
    PROVE  ValuesOK(core, frames, status)'
<1>1. AtOp(frames, Len(frames))' <=> AtOp(frames', Len(frames'))
  BY DEF AtOp, IsSite
<1>2. \A j : ValueOK(core', frames', status', frames'[Len(frames')], j) =>
                 ValueOK(core, frames, status, frames[Len(frames)], j)'
  BY ValueNext
<1> QED
  BY <1>1, <1>2, Zenon DEF ValuesOK, OwnerOf

LEMMA MeantNext ==
    ASSUME UNCHANGED <<prog, usedOnce>>, SightsOK(core', frames', status'),
           ValuesOK(core', frames', status'), ParkOK', LitsBound(core')
    PROVE  MeantInv'
<1>1. SightsOK(core, frames, status)'
  BY MeaningNext, ApartNext, BindsNext DEF SightsOK
<1>2. ValuesOK(core, frames, status)'
  BY ValuesNext
<1>3. LitsBound(core)'
  BY DEF LitsBound
<1> QED
  BY <1>1, <1>2, <1>3 DEF MeantInv

LEMMA NotParkedNext ==
    ASSUME status' = "running"
    PROVE  ParkOK'
BY DEF ParkOK

(***************************************************************************)
(* Operands and values.                                                    *)
(***************************************************************************)
LEMMA OperandSeen ==
    ASSUME TypeInv, Here, OperandsInv, ConsumesSafely(prog), status = "running",
           NEW n \in Range(Op.ins) \cup Range(Op.outs), NEW w, w = Where(core, n)
    PROVE  /\ Sees(core, frames, status, N, n, w)
           /\ Visible(core, n) /\ Lookup(core, n) = core.scopes[w][n]
<1>1. /\ N \in Nat /\ N >= 1 /\ N = Len(frames) /\ Len(core.scopes) = N
      /\ Frame = frames[N] /\ AtOp(frames, N) /\ CoreOK(core) /\ IsSite(Frame.blk, Frame.pc)
      /\ prog \in Kernels /\ Op = prog[Frame.blk][Frame.pc]
  BY TopIs DEF Here, Op
<1>2. n \in usedOnce => n \in Range(Op.ins)
  <2>1. n \in Range(Op.outs) => UseCount(prog, n) # 1
    BY <1>1, OutsUsed
  <2> QED
    BY <2>1 DEF TypeInv
<1>3. n \in InScope(prog, Frame.blk, Frame.pc) /\ ~UsedUp(prog, usedOnce, frames, status, N, n)
  BY <1>2, OperandNotUsed
<1>4. Visible(core, n)
  BY <1>1, <1>2, OperandIsBound, VisibleIs
<1>5. /\ w \in 1 .. N /\ n \in DOMAIN core.scopes[w] /\ Lookup(core, n) = core.scopes[w][n]
      /\ \A d \in 1 .. N : n \in DOMAIN core.scopes[d] => d <= w
  BY <1>1, <1>4, LookupIs
<1>6. IsAt(core, N, n, w)
  <2>1. \A d \in 1 .. N : d > w => n \notin DOMAIN core.scopes[d]
    BY <1>1, <1>5
  <2> QED
    BY <1>5, <2>1 DEF IsAt
<1> QED
  BY <1>1, <1>3, <1>4, <1>5, <1>6 DEF Sees, ScopeAt

LEMMA OperandMeans ==
    ASSUME TypeInv, Here, OperandsInv, ConsumesSafely(prog), status = "running",
           MeaningOK(core, frames, status), NEW n \in Range(Op.ins) \cup Range(Op.outs)
    PROVE  n \in DOMAIN Frame.env /\ Holds(core, Lookup(core, n)) = Frame.env[n]
<1>1. PICK w : w = Where(core, n)
  OBVIOUS
<1>2. Sees(core, frames, status, N, n, w) /\ Lookup(core, n) = core.scopes[w][n]
  BY <1>1, OperandSeen
<1> QED
  BY <1>2 DEF MeaningOK, MeansIt, Frame, N

LEMMA ContentsMean ==
    ASSUME TypeInv, Here, OperandsInv, ConsumesSafely(prog), status = "running",
           MeaningOK(core, frames, status), NEW names,
           Range(names) \subseteq Range(Op.ins) \cup Range(Op.outs)
    PROVE  Contents(names) = Meaning(names)
<1>1. \A i \in DOMAIN names : names[i] \in Range(Op.ins) \cup Range(Op.outs)
  BY DEF Range
<1>2. \A i \in DOMAIN names : Holds(core, Lookup(core, names[i])) = Frame.env[names[i]]
  BY <1>1, OperandMeans
<1> QED
  BY <1>2 DEF Contents, Meaning

(* A region that goes on to its end without a yield has yielded nothing. *)
LEMMA NoValues ==
    ASSUME prog \in Kernels, NEW fs, FramesOK(fs), NEW m, m = Len(fs),
           NEW k, fs[m].pc = k + 1, IsSite(fs[m].blk, k), prog[fs[m].blk][k].k # "yield",
           ~AtOp(fs, m)
    PROVE  Len(fs[m].vals) = 0
<1>1. /\ m \in Nat /\ m >= 1 /\ m \in 1 .. Len(fs) /\ FrameOK(fs, m)
  BY SeqFacts DEF FramesOK
<1>2. /\ Len(prog[fs[m].blk]) \in Nat /\ k \in 1 .. Len(prog[fs[m].blk]) /\ fs[m].blk \in DOMAIN prog
      /\ IsSeq(prog[fs[m].blk])
  BY BlockIs DEF IsSite
<1>3. k = Len(prog[fs[m].blk]) /\ fs[m].pc > Len(prog[fs[m].blk])
  <2>1. fs[m].pc \notin 1 .. Len(prog[fs[m].blk])
    BY <1>1, <1>2 DEF AtOp, IsSite
  <2> QED
    BY <1>2, <2>1
<1>4. CASE m = 1
  BY <1>1, <1>4 DEF FrameOK
<1>5. CASE m # 1
  <2>1. PICK op : op = OwnerOf(fs, m)
    OBVIOUS
  <2>2. /\ IsSite(fs[m - 1].blk, fs[m - 1].pc) /\ op = prog[fs[m - 1].blk][fs[m - 1].pc]
        /\ fs[m].blk \in Regions(op) /\ fs[m].k = op.k /\ Len(fs[m].vals) = YieldsSoFar(fs[m], op)
        /\ fs[m].k \in {"for", "if"}
    BY <1>1, <1>5, <2>1 DEF FrameOK, OwnerOf
  <2>3. Terminated(op, prog[fs[m].blk]) /\ IsOp(op)
    BY <2>2, OpFacts
  <2>4. Last(prog[fs[m].blk]) = prog[fs[m].blk][k]
    BY <1>3 DEF Last
  <2>5. op.k # "for" /\ op.res = <<>>
    BY <2>3, <2>4 DEF Terminated
  <2> QED
    BY <1>3, <2>2, <2>5 DEF YieldsSoFar
<1> QED
  BY <1>4, <1>5

LEMMA NoValuesOK ==
    ASSUME NEW c, NEW fs, NEW st, AtOp(fs, Len(fs)) \/ Len(fs[Len(fs)].vals) = 0
    PROVE  ValuesOK(c, fs, st)
BY DEF ValuesOK

(***************************************************************************)
(* Steps after which nothing new is seen.                                  *)
(***************************************************************************)
LEMMA UnwrittenKeeps ==
    ASSUME TypeInv, NEW m, NEW con, NEW new, Moves(m, con, new), Unwritten(NoBuffer)
    PROVE  KeepsSeen
<1> SUFFICES ASSUME NEW d, NEW n, NEW e, Carried(d, n, e), n # "i"
             PROVE  core'.bufs[core.tiles[core.scopes[e][n]]] = core.bufs[core.tiles[core.scopes[e][n]]]
  BY DEF KeepsSeen
<1>1. core.tiles[core.scopes[e][n]] \in 1 .. Len(core.bufs)
  BY CarriedTile
<1> QED
  BY <1>1 DEF Unwritten, NoBuffer

Quiet(m, new) ==
    /\ new = {} \/ (frames'[m].pc = frames[m].pc /\ ~AtOp(frames', m + 1))
    /\ ~AtOp(frames', m + 1) \/ OpAt(frames, m).k = "if"

LEMMA QuietSights ==
    ASSUME TypeInv, AccumulatesSafely(prog), SightsOK(core, frames, status),
           NEW m, NEW con, NEW new, Moves(m, con, new), Unwritten(NoBuffer), Quiet(m, new)
    PROVE  /\ SightsOK(core', frames', status')
           /\ \A d, n, e : IsNew(m, new, d, n, e) => ~Sees(core', frames', status', d, n, e)
<1>1. m \in Nat /\ m >= 1 /\ frames[m].pc \in Nat
  BY OpIsOp DEF Moves
<1>2. \A d, n, e : IsNew(m, new, d, n, e) => ~Sees(core', frames', status', d, n, e)
  <2> SUFFICES ASSUME NEW d, NEW n, NEW e, IsNew(m, new, d, n, e), Sees(core', frames', status', d, n, e)
               PROVE  FALSE
    OBVIOUS
  <2>1. AtOp(frames', d) /\ n \in new
    BY DEF Sees, IsNew
  <2>2. d = m + 1
    BY <1>1, <2>1 DEF IsNew, Quiet
  <2> QED
    BY <2>1, <2>2 DEF Quiet
<1>3. NewMeant(m, new)
  BY <1>2 DEF NewMeant
<1>4. IndexMeant(m)
  BY DEF IndexMeant, Quiet
<1>5. KeepsSeen
  BY UnwrittenKeeps
<1> QED
  BY <1>2, <1>3, <1>4, <1>5, SightsStay

LEMMA QuietSole ==
    ASSUME TypeInv, AccumulatesSafely(prog), SightsOK(core, frames, status),
           NEW m, NEW con, NEW new, Moves(m, con, new), Unwritten(NoBuffer), Quiet(m, new),
           NEW t, core'.tiles[t] = core.tiles[t], Sole(core, frames, status, t)
    PROVE  Sole(core', frames', status', t)
BY QuietSights, SoleMoves

(* A tile over a new buffer. *)
LEMMA QuietFresh ==
    ASSUME TypeInv, AccumulatesSafely(prog), SightsOK(core, frames, status),
           NEW m, NEW con, NEW new, Moves(m, con, new), Unwritten(NoBuffer), Quiet(m, new),
           NEW t, core'.tiles[t] \notin 1 .. Len(core.bufs)
    PROVE  Sole(core', frames', status', t)
<1> SUFFICES ASSUME NEW h, NEW p, NEW g, Sees(core', frames', status', h, p, g), p # "i"
             PROVE  core'.tiles[core'.scopes[g][p]] # core'.tiles[t]
  BY DEF Sole
<1>1. Carried(h, p, g)
  BY QuietSights, SightsMove
<1> QED
  BY <1>1, CarriedTile


(***************************************************************************)
(* Each step keeps the meaning.                                            *)
(***************************************************************************)
Safely == ConsumesSafely(prog) /\ AccumulatesSafely(prog) /\ UNCHANGED <<prog, usedOnce>>

LEMMA ParkMeant ==
    ASSUME TypeInv, OperandsInv, MeantInv, Safely, ParkStep, status = "running"
    PROVE  MeantInv'
<1>1. /\ SightsOK(core, frames, status) /\ LitsBound(core) /\ MeaningOK(core, frames, status)
      /\ ConsumesSafely(prog) /\ AccumulatesSafely(prog) /\ UNCHANGED <<prog, usedOnce>>
  BY DEF MeantInv, SightsOK, Goes, Safely
<1>2. /\ Here /\ frames' = frames /\ Op.k = "receive"
  BY DEF ParkStep, ParkRan
<1>3. /\ N \in Nat /\ N >= 1 /\ N = Len(frames) /\ CoreOK(core) /\ AtOp(frames, N)
  BY <1>2, TopIs
<1>4. Moves(N, Consumed(core, Op.ins), {})
  BY <1>1, ParkMoves
<1>5. PICK b : FetchedIs(core, Op.ins, b) /\ MadeIs(b, core', Term(Op.res[1], Contents(Op.ins)))
  BY DEF ParkStep, ParkRan
<1>6. NewValue(Newest(core'), Term(Op.res[1], Contents(Op.ins)))
  <2>1. b.tiles = core.tiles /\ b.bufs = core.bufs
    BY <1>5 DEF FetchedIs
  <2> QED
    BY <1>3, <1>5, <2>1, MadeValue
<1>7. Unwritten(NoBuffer) /\ core'.tiles[Newest(core')] \notin 1 .. Len(core.bufs)
  <2>1. Len(core.bufs) \in Nat
    BY <1>3, SeqFacts DEF CoreOK
  <2> QED
    BY <1>6, <2>1 DEF NewValue
<1>8. Quiet(N, {})
  <2>1. ~AtOp(frames', N + 1)
    BY <1>2, <1>3 DEF AtOp
  <2> QED
    BY <2>1 DEF Quiet
<1>9. SightsOK(core', frames', status')
  BY <1>1, <1>4, <1>7, <1>8, QuietSights
<1>10. Sole(core', frames', status', Newest(core'))
  BY <1>1, <1>4, <1>7, <1>8, QuietFresh
<1>11. ValuesOK(core', frames', status')
  BY <1>2, <1>3, NoValuesOK
<1>12. Holds(core', Newest(core')) = Term(Op.res[1], Meaning(Op.ins))
  <2>1. Newest(core') # Scalar
    BY <1>6 DEF NewValue, Scalar
  <2>2. Contents(Op.ins) = Meaning(Op.ins)
    BY <1>1, <1>2, ContentsMean
  <2> QED
    BY <1>6, <2>1, <2>2 DEF Holds, NewValue
<1>13. ParkOK'
  <2>1. Sole(core, frames, status, Newest(core))'
    BY <1>1, <1>10, SeesNext DEF Sole, Newest
  <2>2. Op' = Op /\ \A names : Meaning(names)' = Meaning(names)
    BY <1>1, <1>2 DEF Op, Frame, Meaning
  <2>3. Meaning(Op.ins)' = Meaning(Op.ins)
    BY <1>1, <1>2 DEF Op, Frame, Meaning
  <2>4. Holds(core', Newest(core')) = Term(Op'.res[1], Meaning(Op.ins)')
    BY <1>12, <2>2, <2>3
  <2> QED
    BY <2>1, <2>4 DEF ParkOK, Holds, Newest
<1>14. LitsBound(core')
  BY <1>1, ParkLits
<1> QED
  BY <1>1, <1>9, <1>11, <1>13, <1>14, MeantNext

LEMMA BranchMeant ==
    ASSUME TypeInv, MeantInv, Safely, BranchStep, status = "running"
    PROVE  MeantInv'
<1>1. /\ SightsOK(core, frames, status) /\ LitsBound(core) /\ MeaningOK(core, frames, status)
      /\ AccumulatesSafely(prog) /\ UNCHANGED <<prog, usedOnce>>
  BY DEF MeantInv, SightsOK, Goes, Safely
<1>2. PICK branch \in 1 .. 2 : BranchRan(branch)
  BY DEF BranchStep
<1>3. PICK g : IsAppend(frames, g, frames') /\ g.vals = <<>>
  BY <1>2 DEF BranchRan
<1>4. Here /\ Op.k = "if" /\ PushedIs(core, core') /\ status' = "running"
  BY <1>2 DEF BranchStep, BranchRan
<1>5. N \in Nat /\ N = Len(frames) /\ CoreOK(core) /\ OpAt(frames, N) = Op
  BY <1>4, TopIs
<1>6. Moves(N, {}, {})
  BY BranchMoves
<1>7. Unwritten(NoBuffer)
  BY <1>4 DEF PushedIs, Unwritten
<1>8. Quiet(N, {})
  BY <1>4, <1>5 DEF Quiet
<1>9. SightsOK(core', frames', status')
  BY <1>1, <1>6, <1>7, <1>8, QuietSights
<1>10. ValuesOK(core', frames', status')
  <2>1. frames'[Len(frames')].vals = <<>>
    BY <1>3, <1>5 DEF IsAppend
  <2> QED
    BY <2>1, EmptyIsSeq, NoValuesOK
<1>11. ParkOK' /\ LitsBound(core')
  BY <1>1, <1>4, NotParkedNext, BranchLits
<1> QED
  BY <1>1, <1>9, <1>10, <1>11, MeantNext

LEMMA LoopMeant ==
    ASSUME TypeInv, OperandsInv, MeantInv, Safely, LoopStep, status = "running"
    PROVE  MeantInv'
<1>1. /\ SightsOK(core, frames, status) /\ LitsBound(core) /\ MeaningOK(core, frames, status)
      /\ ConsumesSafely(prog) /\ AccumulatesSafely(prog) /\ UNCHANGED <<prog, usedOnce>>
  BY DEF MeantInv, SightsOK, Goes, Safely
<1>2. Here /\ Op.k = "for" /\ status' = "running"
  BY DEF LoopStep, EnterForRan
<1>3. PICK b, vals, g :
          /\ InitsAre(Op.ins, b, vals) /\ BoundIs(b, Op.args, vals, TRUE, core')
          /\ IsAppend(frames, g, frames') /\ g.pc = 0 /\ g.vals = vals /\ g.terms = Meaning(Op.ins)
  BY DEF LoopStep, EnterForRan
<1>4. /\ N \in Nat /\ N >= 1 /\ N = Len(frames) /\ Len(core.scopes) = N /\ CoreOK(core)
      /\ Frame = frames[N] /\ OpAt(frames, N) = Op /\ IsOp(Op) /\ RowsAre(Op)
      /\ Len(core.bufs) \in Nat /\ Len(core.tiles) \in Nat
  BY <1>2, TopIs, SeqFacts DEF Here, CoreOK
<1>5. /\ Len(frames') = N + 1 /\ frames'[N + 1] = g /\ frames'[N] = frames[N]
      /\ OwnerOf(frames', N + 1) = Op
  <2>1. /\ Len(frames') = N + 1 /\ frames'[N + 1] = g /\ frames'[N] = frames[N] /\ N + 1 - 1 = N
    BY <1>3, <1>4 DEF IsAppend
  <2> QED
    BY <1>4, <2>1 DEF OwnerOf, OpAt
<1>6. Moves(N, {}, Range(Op.args))
  BY LoopMoves
<1>7. core'.tiles = b.tiles /\ core'.bufs = b.bufs /\ b.scopes = core.scopes
  BY <1>3 DEF InitsAre, GrownIs, BoundIs
<1>8. Unwritten(NoBuffer)
  BY <1>3, <1>7 DEF InitsAre, Unwritten
<1>9. ~AtOp(frames', N + 1)
  BY <1>3, <1>5 DEF AtOp, IsSite
<1>10. Quiet(N, Range(Op.args))
  BY <1>5, <1>9 DEF Quiet
<1>11. SightsOK(core', frames', status')
  BY <1>1, <1>6, <1>8, <1>10, QuietSights
<1>12. ASSUME NEW j \in 1 .. Len(vals)
       PROVE  /\ ValueOK(core', frames', status', g, j)
              /\ core'.scopes[N][Op.args[j]] = vals[j]
  <2>1. Len(vals) = Len(Op.ins) /\ Len(Op.args) = Len(Op.ins) /\ IsSeq(Op.ins)
    BY <1>2, <1>3, <1>4 DEF InitsAre, IsOp, RowsAre
  <2>2. \A i \in 1 .. Len(vals) : core'.tiles[vals[i]] = Len(core.bufs) + i
    BY <1>3, <1>7, <2>1 DEF InitsAre
  <2>3. vals[j] # Scalar /\ core'.bufs[Len(core.bufs) + j] = Holds(core, Lookup(core, Op.ins[j]))
    <3>0. \A i \in 1 .. Len(Op.ins) : vals[i] = Len(core.tiles) + i
      BY <1>3 DEF InitsAre
    <3>5. Len(Op.ins) \in Nat
      BY <2>1, SeqFacts
    <3>1. vals[j] = Len(core.tiles) + j /\ j \in Nat /\ j >= 1
      BY <2>1, <3>0, <3>5
    <3>2. \A i \in 1 .. Len(Op.ins) :
              b.bufs[Len(core.bufs) + i] = Holds(core, Lookup(core, Op.ins[i]))
      BY <1>3 DEF InitsAre
    <3>3. vals[j] # 0
      BY <1>4, <3>1
    <3>4. j \in 1 .. Len(Op.ins)
      BY <2>1
    <3> QED
      BY <1>7, <3>2, <3>3, <3>4 DEF Scalar
  <2>4. Op.ins[j] \in Range(Op.ins) \cup Range(Op.outs) /\ j \in DOMAIN Op.ins
    BY <2>1, RangeIs, SeqFacts
  <2>5. Holds(core, Lookup(core, Op.ins[j])) = Frame.env[Op.ins[j]]
    BY <1>1, <1>2, <2>4, OperandMeans
  <2>6. Holds(core', g.vals[j]) = g.terms[j]
    BY <1>3, <2>2, <2>3, <2>4, <2>5 DEF Holds, Meaning
  <2>7. Sole(core', frames', status', vals[j])
    <3>1. core'.tiles[vals[j]] \notin 1 .. Len(core.bufs)
      BY <1>4, <2>2
    <3> QED
      BY <1>1, <1>6, <1>8, <1>10, <3>1, QuietFresh
  <2>8. \A i \in 1 .. Len(vals) : i # j => core'.tiles[vals[i]] # core'.tiles[vals[j]]
    BY <1>4, <2>2
  <2>9. core'.scopes[N][Op.args[j]] = vals[j]
    BY <1>3, <1>4, <1>7, <2>1 DEF BoundIs
  <2> QED
    BY <1>3, <2>6, <2>7, <2>8, <2>9 DEF ValueOK
<1>13. ValuesOK(core', frames', status')
  <2>1. Len(frames') - 1 = N
    BY <1>4, <1>5
  <2> QED
    BY <1>3, <1>5, <1>12, <2>1 DEF ValuesOK
<1>14. ParkOK' /\ LitsBound(core')
  BY <1>1, <1>2, NotParkedNext, LoopLits
<1> QED
  BY <1>1, <1>11, <1>13, <1>14, MeantNext

LEMMA EndMeant ==
    ASSUME TypeInv, MeantInv, Safely, EndStep, status = "running"
    PROVE  MeantInv'
<1>1. /\ SightsOK(core, frames, status) /\ LitsBound(core) /\ ValuesOK(core, frames, status)
      /\ AccumulatesSafely(prog) /\ UNCHANGED <<prog, usedOnce>>
      /\ LastingIn(core, frames) /\ EnvLink(frames)
  BY DEF MeantInv, SightsOK, Goes, Safely, BindsOK
<1>2. Within /\ EndIterationRan
  BY DEF EndStep
<1>3. PICK b : PoppedIs(core, b) /\ BoundIs(b, Owner.args, Frame.vals, TRUE, core')
  BY <1>2 DEF EndIterationRan
<1>4. PICK m : m = N - 1
  OBVIOUS
<1>5. /\ N \in Nat /\ N >= 2 /\ N = Len(frames) /\ m \in Nat /\ m >= 1 /\ m + 1 = N
      /\ Frame = frames[m + 1] /\ CoreOK(core) /\ OpAt(frames, m) = Owner /\ Frame.k = "for"
      /\ status' = "running" /\ Frame.pc = Len(prog[Frame.blk]) + 1
  BY <1>2, <1>4, BelowIs DEF EndIterationRan
<1>6. Moves(m, {}, Range(Owner.args))
  BY <1>1, <1>4, EndMoves
<1>7. /\ Len(frames') = N /\ frames'[N].pc = 0 /\ frames'[N].vals = Frame.vals
      /\ frames'[N].terms = Frame.terms /\ frames'[m] = frames[m]
  <2>1. SetIs(frames, N, {"pc", "at"}, frames') /\ frames'[N].pc = 0
    BY <1>2 DEF EndIterationRan
  <2>2. m # N /\ m \in 1 .. Len(frames)
    BY <1>5
  <2> QED
    BY <1>5, <2>1, <2>2 DEF SetIs, IsReplaced, SameBut, FrameFields
<1>8. OwnerOf(frames', N) = Owner
  BY <1>4, <1>5, <1>7 DEF OwnerOf, OpAt
<1>9. core'.tiles = core.tiles /\ core'.bufs = core.bufs /\ Len(b.scopes) = m
  <2>1. Len(core.scopes) = N
    <3>1. Frame.pc # 0
      BY <1>2, <1>5, BlockIs DEF Within, FrameOK
    <3> QED
      BY <1>2, <3>1 DEF Within
  <2> QED
    BY <1>3, <1>4, <2>1 DEF PoppedIs, BoundIs
<1>10. Unwritten(NoBuffer)
  BY <1>9 DEF Unwritten
<1>11. ~AtOp(frames', m + 1) /\ ~AtOp(frames, Len(frames))
  <2>1. Len(prog[Frame.blk]) \in Nat
    BY <1>2, BlockIs DEF Within, FrameOK
  <2> QED
    BY <1>5, <1>7, <2>1 DEF AtOp, IsSite
<1>12. Quiet(m, Range(Owner.args))
  BY <1>7, <1>11 DEF Quiet
<1>13. SightsOK(core', frames', status')
  BY <1>1, <1>6, <1>10, <1>12, QuietSights
<1>14. ASSUME NEW j \in 1 .. Len(Frame.vals)
       PROVE  /\ ValueOK(core', frames', status', frames'[N], j)
              /\ core'.scopes[m][Owner.args[j]] = Frame.vals[j]
  <2>1. ValueOK(core, frames, status, Frame, j)
    BY <1>1, <1>5, <1>11 DEF ValuesOK
  <2>2. Holds(core', frames'[N].vals[j]) = frames'[N].terms[j]
    BY <1>7, <1>9, <2>1 DEF ValueOK, Holds
  <2>3. CASE IsLasting(core, Frame.vals[j])
    <3>1. IsLasting(core', frames'[N].vals[j])
      BY <1>1, <1>6, <1>7, <2>3, LastingTileStays
    <3> QED
      BY <1>3, <1>9, <2>2, <3>1, ValuesMatch, <1>2, <1>5 DEF ValueOK, BoundIs
  <2>4. CASE ~IsLasting(core, Frame.vals[j])
    <3>1. Sole(core, frames, status, Frame.vals[j])
          /\ \A i \in 1 .. Len(Frame.vals) : i # j => core.tiles[Frame.vals[i]] # core.tiles[Frame.vals[j]]
      BY <2>1, <2>4 DEF ValueOK
    <3>2. Sole(core', frames', status', Frame.vals[j])
      BY <1>1, <1>6, <1>9, <1>10, <1>12, <3>1, QuietSole
    <3>3. ValueOK(core', frames', status', frames'[N], j)
      BY <1>7, <1>9, <2>2, <3>1, <3>2 DEF ValueOK
    <3> QED
      BY <1>2, <1>3, <1>5, <1>9, <3>3, ValuesMatch DEF BoundIs
  <2> QED
    BY <2>3, <2>4
<1>15. ValuesOK(core', frames', status')
  BY <1>4, <1>7, <1>8, <1>14 DEF ValuesOK
<1>16. ParkOK' /\ LitsBound(core')
  BY <1>1, <1>5, NotParkedNext, EndLits
<1> QED
  BY <1>1, <1>13, <1>15, <1>16, MeantNext


(* Names are given tiles there were, which nobody sees unless they are     *)
(* those of lasting literals.                                              *)
Given(m, names, vals, terms) ==
    /\ IsSeq(names) /\ core'.tiles = core.tiles /\ core'.bufs = core.bufs
    /\ \A j \in 1 .. Len(names) :
          /\ core'.scopes[m][names[j]] = vals[j] /\ Holds(core, vals[j]) = terms[j]
          /\ \/ IsLasting(core, vals[j])
             \/ /\ Sole(core, frames, status, vals[j])
                /\ \A i \in 1 .. Len(names) : i # j => core.tiles[vals[i]] # core.tiles[vals[j]]
          /\ \A d : (d = m /\ frames'[m].pc = frames[m].pc + 1) \/ (d = m + 1 /\ AtOp(frames', d)) =>
                 names[j] \in DOMAIN frames'[d].env /\ frames'[d].env[names[j]] = terms[j]

LEMMA GivenMeant ==
    ASSUME TypeInv, AccumulatesSafely(prog), SightsOK(core, frames, status),
           NEW m, NEW con, NEW names, Moves(m, con, Range(names)),
           NEW vals, NEW terms, Given(m, names, vals, terms)
    PROVE  NewMeant(m, Range(names))
<1>1. /\ LastingIn(core, frames) /\ Apart(core, frames, status)
      /\ core'.tiles = core.tiles /\ core'.bufs = core.bufs
  BY DEF SightsOK, BindsOK, Given
<1> SUFFICES ASSUME NEW d, NEW n, NEW e, IsNew(m, Range(names), d, n, e), Sees(core', frames', status', d, n, e)
             PROVE  /\ MeansIt(core', frames', d, n, e)
                    /\ \A h, p, g : Sees(core', frames', status', h, p, g) =>
                          Clear(core', frames', n, e, h, p, g) /\ Clear(core', frames', p, g, d, n, e)
  BY DEF NewMeant
<1>2. PICK j \in 1 .. Len(names) : names[j] = n
  BY RangeIs DEF Given, IsNew
<1>3. PICK t : t = vals[j]
  OBVIOUS
<1>4. /\ core'.scopes[e][n] = t /\ Holds(core, t) = terms[j] /\ n # "i" /\ e = m
      /\ \/ IsLasting(core, t)
         \/ /\ Sole(core, frames, status, t)
            /\ \A i \in 1 .. Len(names) : i # j => core.tiles[vals[i]] # core.tiles[t]
  BY <1>2, <1>3 DEF Given, IsNew
<1>5. n \in DOMAIN frames'[d].env /\ frames'[d].env[n] = terms[j]
  <2>1. (d = m /\ frames'[m].pc = frames[m].pc + 1) \/ (d = m + 1 /\ AtOp(frames', d))
    BY DEF IsNew, Sees
  <2> QED
    BY <1>2, <2>1 DEF Given
<1>6. MeansIt(core', frames', d, n, e)
  BY <1>1, <1>4, <1>5 DEF MeansIt, Holds
<1>7. \A u : IsLasting(core, u) => IsLasting(core', u)
  BY <1>1, LastingTileStays
<1>8. ASSUME NEW h, NEW p, NEW g, Sees(core', frames', status', h, p, g), p # "i", ~(n = p /\ e = g)
      PROVE  \/ core'.tiles[core'.scopes[g][p]] # core'.tiles[t]
             \/ /\ IsLasting(core', t)
                /\ p \in Aliases(prog) \/ IsLasting(core', core'.scopes[g][p])
  <2>1. CASE Carried(h, p, g)
    <3>1. PICK k : Sees(core, frames, status, k, p, g) /\ core'.scopes[g][p] = core.scopes[g][p]
      BY <2>1 DEF Carried
    <3>2. CASE IsLasting(core, t)
      <4>1. CASE p \in Aliases(prog) \/ IsLasting(core, core.scopes[g][p])
        BY <1>7, <3>1, <3>2, <4>1
      <4>2. CASE p \notin Aliases(prog) /\ ~IsLasting(core, core.scopes[g][p])
        <5>1. core.tiles[core.scopes[g][p]] # core.tiles[t]
          BY <1>1, <1>8, <3>1, <3>2, <4>2, LastingLone
        <5> QED
          BY <1>1, <3>1, <5>1
      <4> QED
        BY <4>1, <4>2
    <3>3. CASE Sole(core, frames, status, t)
      BY <1>1, <1>8, <3>1, <3>3 DEF Sole
    <3> QED
      BY <1>4, <3>2, <3>3
  <2>2. CASE IsNew(m, Range(names), h, p, g)
    <3>1. PICK i \in 1 .. Len(names) : names[i] = p
      BY <2>2, RangeIs DEF Given, IsNew
    <3>2. g = m /\ i # j /\ core'.scopes[g][p] = vals[i]
      BY <1>2, <1>4, <1>8, <2>2, <3>1 DEF Given, IsNew
    <3>3. \/ IsLasting(core, vals[i]) 
          \/ core.tiles[t] # core.tiles[vals[i]]
      BY <1>3, <3>1, <3>2 DEF Given
    <3> QED
      BY <1>1, <1>4, <1>7, <3>2, <3>3
  <2> QED
    BY <1>8, <2>1, <2>2, SightsMove
<1>9. ASSUME NEW h, NEW p, NEW g, Sees(core', frames', status', h, p, g)
      PROVE  Clear(core', frames', n, e, h, p, g) /\ Clear(core', frames', p, g, d, n, e)
  <2>1. CASE p = "i" \/ (n = p /\ e = g)
    BY <2>1 DEF Clear
  <2>2. CASE ~(p = "i" \/ (n = p /\ e = g))
    BY <1>4, <1>8, <1>9, <2>2 DEF Clear
  <2> QED
    BY <2>1, <2>2
<1> QED
  BY <1>6, <1>9

LEMMA IterateMeant ==
    ASSUME TypeInv, OperandsInv, MeantInv, Safely, IterateStep, status = "running"
    PROVE  MeantInv'
<1>1. /\ SightsOK(core, frames, status) /\ LitsBound(core) /\ ValuesOK(core, frames, status)
      /\ AccumulatesSafely(prog) /\ UNCHANGED <<prog, usedOnce>> /\ EnvLink(frames)
  BY DEF MeantInv, SightsOK, Goes, Safely, BindsOK
<1>2. Within /\ IterateRan
  BY DEF IterateStep
<1>3. PICK b : PushedIs(core, b) /\ BoundIs(b, <<"i">>, <<Scalar>>, TRUE, core')
  BY <1>2 DEF IterateRan
<1>4. PICK m : m = N - 1
  OBVIOUS
<1>5. /\ N \in Nat /\ N >= 2 /\ N = Len(frames) /\ m \in Nat /\ m >= 1 /\ m + 1 = N
      /\ Frame = frames[m + 1] /\ CoreOK(core) /\ OpAt(frames, m) = Owner /\ Frame.k = "for"
      /\ status' = "running" /\ Frame.pc = 0 /\ frames'[N].pc = 1 /\ frames'[N].env = IterationEnv
      /\ Len(core.scopes) = m /\ Frame.k = Owner.k /\ Frame.blk \in Regions(Owner)
  BY <1>2, <1>4, BelowIs DEF Within, IterateRan
<1>6. Moves(m, {}, Range(Owner.args))
  BY <1>1, <1>4, IterateMoves
<1>7. /\ Len(frames') = N /\ frames'[N].blk = Frame.blk /\ frames'[m] = frames[m]
  <2>1. SetIs(frames, N, {"pc", "env"}, frames')
    BY <1>2 DEF IterateRan
  <2>2. m # N /\ m \in 1 .. Len(frames)
    BY <1>5
  <2> QED
    BY <1>5, <2>1, <2>2 DEF SetIs, IsReplaced, SameBut, FrameFields
<1>8. AtOp(frames', N)
  <2>1. IsSite(Parent.blk, Parent.pc) /\ Owner = prog[Parent.blk][Parent.pc] /\ prog \in Kernels
    BY <1>2 DEF Within, IsSite, Owner
  <2>2. Frame.blk \in DOMAIN prog /\ Terminated(Owner, prog[Frame.blk])
    BY <1>5, <2>1, OpFacts
  <2>3. IsSeq(prog[Frame.blk]) /\ Len(prog[Frame.blk]) \in Nat
    BY <2>1, <2>2, BlockIs
  <2>4. prog[Frame.blk] # <<>>
    BY <1>5, <2>2 DEF Terminated
  <2>5. Len(prog[Frame.blk]) # 0
    BY <2>3, <2>4, EmptySeq DEF IsSeq
  <2> QED
    BY <1>5, <1>7, <2>1, <2>2, <2>3, <2>5 DEF AtOp, IsSite
<1>9. /\ core'.tiles = core.tiles /\ core'.bufs = core.bufs /\ core'.scopes[m] = core.scopes[m]
      /\ core'.scopes[N]["i"] = Scalar
  <2>1. /\ Len(b.scopes) = m + 1 /\ \A e \in 1 .. m : b.scopes[e] = core.scopes[e]
        /\ b.tiles = core.tiles /\ b.bufs = core.bufs
    BY <1>3, <1>5 DEF PushedIs, IsAppend
  <2>2. /\ core'.tiles = b.tiles /\ core'.bufs = b.bufs
        /\ \A e \in 1 .. m : core'.scopes[e] = b.scopes[e]
        /\ core'.scopes[m + 1][<<"i">>[1]] = <<Scalar>>[1]
    <3>1. m + 1 - 1 = m /\ 1 \in 1 .. Len(<<"i">>)
      BY <1>5
    <3>2. PICK names, vals : names = <<"i">> /\ vals = <<Scalar>>
      OBVIOUS
    <3>3. BoundIs(b, names, vals, TRUE, core') /\ 1 \in 1 .. Len(names)
      BY <1>3, <3>1, <3>2
    <3>4. core'.tiles = b.tiles /\ core'.bufs = b.bufs /\ \A e \in 1 .. m : core'.scopes[e] = b.scopes[e]
      <4>1. Len(b.scopes) - 1 = m
        BY <1>5, <2>1
      <4> QED
        BY <3>3, <4>1 DEF BoundIs, Kept
    <3>5. core'.scopes[m + 1][names[1]] = vals[1]
      BY <2>1, <3>3 DEF BoundIs
    <3> QED
      BY <3>2, <3>4, <3>5
  <2>3. m \in 1 .. m
    BY <1>5
  <2> QED
    BY <1>5, <2>1, <2>2, <2>3
<1>10. /\ \A j \in 1 .. Len(Owner.args) :
             Owner.args[j] \in DOMAIN IterationEnv /\ IterationEnv[Owner.args[j]] = Frame.terms[j]
       /\ "i" \in DOMAIN IterationEnv /\ IterationEnv["i"] = ScalarTerm
  <2>1. IsSeq(Owner.args) /\ IsInjective(Owner.args) /\ "i" \notin Range(Owner.args)
    BY <1>2 DEF Within, IsOp, RowsAre
  <2>2. /\ DOMAIN Assign(Owner.args, Frame.terms) = Range(Owner.args)
        /\ \A j \in 1 .. Len(Owner.args) : Assign(Owner.args, Frame.terms)[Owner.args[j]] = Frame.terms[j]
    BY <2>1, AssignIs
  <2>3. /\ DOMAIN Assign(<<"i">>, <<ScalarTerm>>) = {"i"}
        /\ Assign(<<"i">>, <<ScalarTerm>>)["i"] = ScalarTerm
    <3>1. Range(<<"i">>) = {"i"}
      BY OneValue
    <3>2. Assign(<<"i">>, <<ScalarTerm>>) =
              [n \in {"i"} |-> <<ScalarTerm>>[CHOOSE k \in DOMAIN <<"i">> : <<"i">>[k] = n]]
      BY <3>1 DEF Assign
    <3>3. (CHOOSE k \in DOMAIN <<"i">> : <<"i">>[k] = "i") = 1
      <4>1. DOMAIN <<"i">> = {1} /\ <<"i">>[1] = "i"
        OBVIOUS
      <4>2. \A k \in DOMAIN <<"i">> : k = 1
        BY <4>1
      <4> QED
        BY <4>1, <4>2
    <3> QED
      BY <3>2, <3>3
  <2>4. \A j \in 1 .. Len(Owner.args) : Owner.args[j] \in Range(Owner.args)
    BY <2>1, RangeIs
  <2> QED
    <3>1. PICK f : f = Assign(Owner.args, Frame.terms)
      OBVIOUS
    <3>2. PICK g : g = Assign(<<"i">>, <<ScalarTerm>>)
      OBVIOUS
    <3>3. IterationEnv = Over(f, Over(g, Frame.outer))
      BY <3>1, <3>2 DEF IterationEnv
    <3>4. /\ DOMAIN f = Range(Owner.args) /\ DOMAIN g = {"i"} /\ g["i"] = ScalarTerm
          /\ \A j \in 1 .. Len(Owner.args) : f[Owner.args[j]] = Frame.terms[j]
      BY <2>2, <2>3, <3>1, <3>2
    <3> QED
      BY <2>1, <2>4, <3>3, <3>4 DEF Over
<1>11. ASSUME NEW j \in 1 .. Len(Owner.args)
       PROVE  /\ core'.scopes[m][Owner.args[j]] = Frame.vals[j]
              /\ ValueOK(core, frames, status, Frame, j)
  <2>1. Len(Frame.vals) = Len(Owner.args)
    BY <1>2, <1>5, ValuesMatch
  <2>2. ~AtOp(frames, Len(frames)) /\ OwnerOf(frames, Len(frames)) = Owner /\ frames[Len(frames)] = Frame
    BY <1>2, <1>5 DEF AtOp, IsSite, Within
  <2>3. Len(frames) - 1 = m
    BY <1>5
  <2>4. /\ ValueOK(core, frames, status, Frame, j)
        /\ core.scopes[m][Owner.args[j]] = Frame.vals[j]
    BY <1>1, <1>5, <2>1, <2>2, <2>3 DEF ValuesOK
  <2> QED
    BY <1>9, <2>4
<1>12. Given(m, Owner.args, Frame.vals, Frame.terms)
  <2>1. IsSeq(Owner.args) /\ Len(Frame.vals) = Len(Owner.args)
    BY <1>2, <1>5, ValuesMatch DEF Within, RowsAre
  <2>2. \A d : (d = m /\ frames'[m].pc = frames[m].pc + 1) \/ (d = m + 1 /\ AtOp(frames', d)) => d = N
    <3>1. frames[m].pc \in Nat
      BY <1>2, <1>4, BelowIs
    <3> QED
      BY <1>5, <1>7, <3>1
  <2>3. ASSUME NEW j \in 1 .. Len(Owner.args)
        PROVE  /\ core'.scopes[m][Owner.args[j]] = Frame.vals[j] /\ Holds(core, Frame.vals[j]) = Frame.terms[j]
               /\ \/ IsLasting(core, Frame.vals[j])
                  \/ /\ Sole(core, frames, status, Frame.vals[j])
                     /\ \A i \in 1 .. Len(Owner.args) :
                           i # j => core.tiles[Frame.vals[i]] # core.tiles[Frame.vals[j]]
    BY <1>11, <2>1 DEF ValueOK
  <2>4. ASSUME NEW j \in 1 .. Len(Owner.args)
        PROVE  Owner.args[j] \in DOMAIN frames'[N].env /\ frames'[N].env[Owner.args[j]] = Frame.terms[j]
    BY <1>5, <1>10
  <2> QED
    BY <1>9, <2>1, <2>2, <2>3, <2>4 DEF Given
<1>13. NewMeant(m, Range(Owner.args))
  BY <1>1, <1>6, <1>12, GivenMeant
<1>14. KeepsSeen
  BY <1>6, <1>9, UnwrittenKeeps DEF Unwritten
<1>15. IndexMeant(m)
  BY <1>5, <1>9, <1>10 DEF IndexMeant, MeansIt, Holds
<1>16. SightsOK(core', frames', status')
  BY <1>1, <1>6, <1>13, <1>14, <1>15, SightsStay
<1>17. ValuesOK(core', frames', status')
  BY <1>7, <1>8, NoValuesOK
<1>18. ParkOK' /\ LitsBound(core')
  BY <1>1, <1>5, NotParkedNext, IterateLits
<1> QED
  BY <1>1, <1>16, <1>17, <1>18, MeantNext

LEMMA LeaveMeant ==
    ASSUME TypeInv, MeantInv, Safely, LeaveStep, status = "running"
    PROVE  MeantInv'
<1>1. /\ SightsOK(core, frames, status) /\ LitsBound(core) /\ ValuesOK(core, frames, status)
      /\ AccumulatesSafely(prog) /\ UNCHANGED <<prog, usedOnce>>
  BY DEF MeantInv, SightsOK, Goes, Safely
<1>2. Within /\ LeaveRan
  BY DEF LeaveStep
<1>3. PICK b : /\ IF Frame.k = "for" THEN b = core /\ Frame.pc = 0
                  ELSE PoppedIs(core, b) /\ Frame.pc = Len(prog[Frame.blk]) + 1 /\ Frame.k = "if"
               /\ BoundIs(b, Owner.res, Frame.vals, TRUE, core')
  BY <1>2 DEF LeaveRan
<1>4. PICK m : m = N - 1
  OBVIOUS
<1>5. /\ N \in Nat /\ N >= 2 /\ N = Len(frames) /\ m \in Nat /\ m >= 1 /\ m + 1 = N
      /\ Frame = frames[m + 1] /\ Parent = frames[m] /\ CoreOK(core) /\ AtOp(frames, m)
      /\ OpAt(frames, m) = Owner /\ status' = "running" /\ Frame.k = Owner.k
      /\ Len(prog[Frame.blk]) \in Nat /\ frames[m].pc \in Nat
  BY <1>2, <1>4, BelowIs, BlockIs DEF Within, FrameOK, LeaveRan
<1>6. Moves(m, {}, Range(Owner.res))
  BY <1>4, LeaveMoves
<1>7. /\ Len(frames') = m /\ frames'[m].blk = frames[m].blk /\ frames'[m].pc = frames[m].pc + 1
      /\ frames'[m].env = Over(Assign(Owner.res, Frame.terms), frames[m].env)
      /\ frames'[m].vals = frames[m].vals
  <2>1. N - 2 = m - 1 /\ N - 1 = m /\ m - 1 + 1 = m
    BY <1>5
  <2> QED
    BY <1>2, <1>5, <2>1 DEF LeaveRan, EndsIn, SameBut, FrameFields
<1>8. core'.tiles = core.tiles /\ core'.bufs = core.bufs /\ Len(b.scopes) = m
  <2>1. CASE Frame.k = "for"
    BY <1>2, <1>3, <1>4, <2>1 DEF Within, BoundIs
  <2>2. CASE Frame.k # "for"
    <3>1. Len(core.scopes) = N /\ PoppedIs(core, b)
      BY <1>2, <1>3, <1>5, <2>2 DEF Within
    <3> QED
      BY <1>3, <1>4, <3>1 DEF PoppedIs, BoundIs
  <2> QED
    BY <2>1, <2>2
<1>9. /\ IsSeq(Owner.res) /\ IsInjective(Owner.res) /\ Len(Owner.res) = Len(Frame.vals)
  <2>1. Frame.k = "for" \/ (Frame.k = "if" /\ Frame.pc > Len(prog[Frame.blk]))
    BY <1>3, <1>5
  <2> QED
    BY <1>2, <2>1, ValuesMatch DEF Within, IsOp, RowsAre
<1>10. \A j \in 1 .. Len(Owner.res) :
           Owner.res[j] \in DOMAIN frames'[m].env /\ frames'[m].env[Owner.res[j]] = Frame.terms[j]
  <2>1. /\ DOMAIN Assign(Owner.res, Frame.terms) = Range(Owner.res)
        /\ \A j \in 1 .. Len(Owner.res) : Assign(Owner.res, Frame.terms)[Owner.res[j]] = Frame.terms[j]
    BY <1>9, AssignIs
  <2>2. \A j \in 1 .. Len(Owner.res) : Owner.res[j] \in Range(Owner.res)
    BY <1>9, RangeIs
  <2> QED
    BY <1>7, <2>1, <2>2 DEF Over
<1>11. Given(m, Owner.res, Frame.vals, Frame.terms)
  <2>1. ~AtOp(frames, Len(frames)) /\ frames[Len(frames)] = Frame
    BY <1>3, <1>5 DEF AtOp, IsSite
  <2>2. \A d : (d = m /\ frames'[m].pc = frames[m].pc + 1) \/ (d = m + 1 /\ AtOp(frames', d)) => d = m
    <3>1. ~AtOp(frames', m + 1)
      BY <1>5, <1>7 DEF AtOp
    <3> QED
      BY <3>1
  <2>3. ASSUME NEW j \in 1 .. Len(Owner.res)
        PROVE  ValueOK(core, frames, status, Frame, j)
    BY <1>1, <1>9, <2>1 DEF ValuesOK
  <2>4. ASSUME NEW j \in 1 .. Len(Owner.res)
        PROVE  core'.scopes[m][Owner.res[j]] = Frame.vals[j]
    BY <1>3, <1>8 DEF BoundIs
  <2>5. ASSUME NEW j \in 1 .. Len(Owner.res)
        PROVE  /\ core'.scopes[m][Owner.res[j]] = Frame.vals[j] /\ Holds(core, Frame.vals[j]) = Frame.terms[j]
               /\ \/ IsLasting(core, Frame.vals[j])
                  \/ /\ Sole(core, frames, status, Frame.vals[j])
                     /\ \A i \in 1 .. Len(Owner.res) :
                           i # j => core.tiles[Frame.vals[i]] # core.tiles[Frame.vals[j]]
    BY <1>9, <2>3, <2>4 DEF ValueOK
  <2> QED
    BY <1>8, <1>9, <1>10, <2>2, <2>5 DEF Given
<1>12. NewMeant(m, Range(Owner.res))
  BY <1>1, <1>6, <1>11, GivenMeant
<1>13. KeepsSeen
  BY <1>6, <1>8, UnwrittenKeeps DEF Unwritten
<1>14. IndexMeant(m)
  BY <1>5, <1>7 DEF IndexMeant, AtOp
<1>15. SightsOK(core', frames', status')
  BY <1>1, <1>6, <1>12, <1>13, <1>14, SightsStay
<1>16. ValuesOK(core', frames', status')
  <2>1. CASE AtOp(frames', m)
    BY <1>7, <2>1, NoValuesOK
  <2>2. CASE ~AtOp(frames', m)
    <3>1. TypeInv'
      BY <1>1, <1>2, LeaveKeeps
    <3>2. FramesOK(frames') /\ prog \in Kernels
      BY <1>1, <3>1 DEF TypeInv, FramesOK, FrameOK, YieldsSoFar, OwnerOf, IsSite
    <3>3. PICK k : k = frames[m].pc
      OBVIOUS
    <3>4. IsSite(frames'[m].blk, k) /\ prog[frames'[m].blk][k].k # "yield"
      <4>1. IsSite(frames[m].blk, k) /\ prog[frames[m].blk][k] = Owner
        BY <1>5, <3>3 DEF AtOp, OpAt
      <4>2. Owner.k # "yield"
        BY <1>3, <1>5
      <4> QED
        BY <1>7, <4>1, <4>2
    <3>5. Len(frames'[m].vals) = 0
      BY <1>7, <2>2, <3>2, <3>3, <3>4, NoValues
    <3> QED
      BY <1>7, <3>5, NoValuesOK
  <2> QED
    BY <2>1, <2>2
<1>17. ParkOK' /\ LitsBound(core')
  BY <1>1, <1>5, NotParkedNext, LeaveLits
<1> QED
  BY <1>1, <1>15, <1>16, <1>17, MeantNext


(* A name that is bound anew each time the region is executed is found in  *)
(* the region's scope, or in that of its loop.                             *)
LEMMA OwnNames ==
    ASSUME prog \in Kernels, NEW b \in DOMAIN prog, NEW n \in Own(prog, b)
    PROVE  \/ \E d, i : IsSite(d, i) /\ b \in Regions(prog[d][i]) /\ n \in Range(prog[d][i].args)
           \/ \E i : IsSite(b, i) /\ n \in Results(b, i)
<1>1. CASE n \in OwnArgs(prog, b)
  <2>1. PICK d \in DOMAIN prog :
            n \in UNION {Range(prog[d][i].args) : i \in {i \in DOMAIN prog[d] : b \in Regions(prog[d][i])}}
    BY <1>1 DEF OwnArgs
  <2>2. PICK i \in DOMAIN prog[d] : b \in Regions(prog[d][i]) /\ n \in Range(prog[d][i].args)
    BY <2>1
  <2> QED
    BY <2>2, BlockIs
<1>2. CASE n \notin OwnArgs(prog, b)
  <2>1. PICK i \in DOMAIN prog[b] : n \in Range(prog[b][i].res) \cup Range(prog[b][i].outs)
    BY <1>2 DEF Own
  <2> QED
    BY <2>1, BlockIs DEF Results
<1> QED
  BY <1>1, <1>2

(* A yield is the last op of a region. *)
LEMMA YieldIsLast ==
    ASSUME TypeInv, Here, Op.k = "yield"
    PROVE  /\ N >= 2 /\ Frame.pc = Len(prog[Frame.blk]) /\ IsSite(Frame.blk, Frame.pc)
           /\ Len(prog[Frame.blk]) \in Nat
           /\ IsSite(frames[N - 1].blk, frames[N - 1].pc) /\ AtOp(frames, N - 1)
           /\ Frame.blk \in Regions(OpAt(frames, N - 1)) /\ Frame.k = OpAt(frames, N - 1).k
<1>1. N \in Nat /\ N >= 1 /\ N = Len(frames) /\ Frame = frames[N] /\ IsSite(Frame.blk, Frame.pc)
      /\ FrameOK(frames, N) /\ prog \in Kernels
  BY DEF Here, N, Frame
<1>2. Len(prog[Frame.blk]) \in Nat /\ Frame.pc \in DOMAIN prog[Frame.blk] /\ prog[Frame.blk][Frame.pc] = Op
  BY <1>1, BlockIs DEF Op, IsSite
<1>3. N # 1
  <2>1. SUFFICES ASSUME N = 1 PROVE FALSE
    OBVIOUS
  <2>2. Frame.blk = "main" /\ WellFormed(prog)
    BY <1>1, <2>1, KernelsAssumption DEF FrameOK
  <2>3. prog["main"][Frame.pc].k # "yield"
    BY <1>2, <2>2 DEF WellFormed
  <2> QED
    BY <1>2, <2>2, <2>3
<1>4. /\ IsSite(frames[N - 1].blk, frames[N - 1].pc) /\ OwnerOf(frames, N) = OpAt(frames, N - 1)
      /\ Frame.blk \in Regions(OwnerOf(frames, N)) /\ Frame.k = OwnerOf(frames, N).k
      /\ N - 1 \in 1 .. Len(frames)
  BY <1>1, <1>3 DEF FrameOK, OwnerOf, OpAt
<1>5. Terminated(OpAt(frames, N - 1), prog[Frame.blk])
  BY <1>4, OpFacts DEF OpAt
<1>6. Frame.pc = Len(prog[Frame.blk])
  BY <1>2, <1>5 DEF Terminated
<1> QED
  BY <1>1, <1>2, <1>3, <1>4, <1>6 DEF AtOp

LEMMA OwnIsFound ==
    ASSUME TypeInv, OperandsInv, Here, Op.k = "yield", status = "running",
           OwnBound(core, frames, status, N), AccumulatesSafely(prog),
           NEW n \in Own(prog, Frame.blk), NEW w, Sees(core, frames, status, N, n, w)
    PROVE  w >= N - 1 /\ (w = N - 1 => n \notin ScopeAt(frames, N - 1))
<1>1. /\ N \in Nat /\ N >= 2 /\ N = Len(frames) /\ Frame = frames[N] /\ Frame.blk \in DOMAIN prog
      /\ Frame.pc = Len(prog[Frame.blk]) /\ Len(prog[Frame.blk]) \in Nat /\ prog \in Kernels
      /\ IsSite(frames[N - 1].blk, frames[N - 1].pc) /\ AtOp(frames, N - 1)
      /\ Frame.blk \in Regions(OpAt(frames, N - 1)) /\ Frame.k = OpAt(frames, N - 1).k
      /\ Frame.pc >= 1 /\ N - 1 \in 1 .. N /\ N \in 1 .. N
  BY YieldIsLast, TopIs DEF Here, IsSite
<1>2. w \in 1 .. N /\ \A d \in 1 .. N : d > w => n \notin DOMAIN core.scopes[d]
  BY DEF Sees, IsAt
<1>3. CASE \E d, i : IsSite(d, i) /\ Frame.blk \in Regions(prog[d][i]) /\ n \in Range(prog[d][i].args)
  <2>1. PICK d, i : IsSite(d, i) /\ Frame.blk \in Regions(prog[d][i]) /\ n \in Range(prog[d][i].args)
    BY <1>3
  <2>2. d = frames[N - 1].blk /\ i = frames[N - 1].pc
    <3>1. Regions(prog[d][i]) \cap Regions(prog[frames[N - 1].blk][frames[N - 1].pc]) # {}
      BY <1>1, <2>1 DEF OpAt
    <3> QED
      BY <1>1, <2>1, <3>1, OpFacts
  <2>3. n \in Range(OpAt(frames, N - 1).args)
    BY <2>1, <2>2 DEF OpAt
  <2>4. OpAt(frames, N - 1).k = "for"
    <3>1. /\ IsOp(OpAt(frames, N - 1)) /\ RowsAre(OpAt(frames, N - 1))
      BY <1>1, OpIsOp
    <3>2. Len(OpAt(frames, N - 1).args) # 0
      BY <2>3, <3>1, RangeIs DEF RowsAre
    <3> QED
      BY <3>1, <3>2 DEF IsOp
  <2>5. n \in DOMAIN core.scopes[N - 1]
    <3>1. ArgsOK(prog, core, frames, N) /\ Frame.k = "for"
      BY <1>1, <2>4 DEF OperandsInv, Goes
    <3> QED
      BY <1>1, <2>3, <3>1 DEF ArgsOK, OpAt
  <2>6. n \notin ScopeAt(frames, N - 1)
    BY <1>1, <2>3, NotRedefined
  <2> QED
    BY <1>1, <1>2, <2>5, <2>6
<1>4. CASE \E i : IsSite(Frame.blk, i) /\ n \in Results(Frame.blk, i)
  <2>1. PICK i : IsSite(Frame.blk, i) /\ n \in Results(Frame.blk, i)
    BY <1>4
  <2>2. i # Frame.pc
    <3>1. Len(Op.res) = 0 /\ Len(Op.outs) = 0 /\ RowsAre(Op)
      BY DEF Here, IsOp, NoResult
    <3>2. Range(Op.res) = {} /\ Range(Op.outs) = {}
      BY <3>1, RangeIs DEF RowsAre
    <3> QED
      BY <2>1, <3>2 DEF Results, Op
  <2>3. i \in 1 .. Frame.pc - 1
    BY <1>1, <2>1, <2>2 DEF IsSite
  <2>4. n \in DOMAIN core.scopes[N] \/ (n \in usedOnce /\ Used(prog, Frame.blk, Past(frames, status, N), n))
    BY <1>1, <2>1, <2>3 DEF OwnBound
  <2>5. ~(n \in usedOnce /\ Used(prog, Frame.blk, Past(frames, status, N), n))
    BY <1>1 DEF Sees, UsedUp
  <2> QED
    BY <1>1, <1>2, <2>4, <2>5
<1> QED
  BY <1>1, <1>3, <1>4, OwnNames

(* The lasting literals are found in the outermost scope. *)
LEMMA LastingIsFound ==
    ASSUME TypeInv, OperandsInv, NEW n \in Lasting(prog), NEW w \in 1 .. Len(core.scopes),
           n \in DOMAIN core.scopes[w]
    PROVE  IsLasting(core, core.scopes[w][n])
<1>1. /\ prog \in Kernels /\ FramesOK(frames) /\ ScopesMatch(core, frames)
      /\ LocalOK(prog, core, frames, w) /\ Len(frames) \in Nat /\ Len(frames) >= 1
  BY SeqFacts DEF TypeInv, OperandsInv, FramesOK
<1>2. w \in 1 .. Len(frames) /\ 1 \in 1 .. Len(frames)
  BY <1>1 DEF ScopesMatch
<1>3. frames[w].blk \in DOMAIN prog /\ (frames[w].blk = "main" => w = 1)
  BY <1>1, <1>2 DEF FramesOK, FrameOK
<1>4. n \in DefinedIn(prog, frames[w].blk)
  <2>1. OnlyConstant(prog, n) /\ n # "i"
    BY <1>1, LastingNames
  <2>2. n \notin OutsIn(prog, frames[w].blk)
    <3>1. SUFFICES ASSUME NEW i \in DOMAIN prog[frames[w].blk], n \in Range(prog[frames[w].blk][i].outs)
                   PROVE  FALSE
      BY DEF OutsIn
    <3>2. IsSite(frames[w].blk, i)
      BY <1>1, <1>3, BlockIs
    <3> QED
      BY <2>1, <3>1, <3>2, ConstantNames
  <2> QED
    BY <1>1, <2>1, <2>2 DEF LocalOK, Local
<1>5. w = 1
  BY <1>1, <1>3, <1>4, LastingNames
<1> QED
  BY <1>5 DEF IsLasting


LEMMA YieldMeant ==
    ASSUME TypeInv, OperandsInv, MeantInv, Safely, YieldStep, status = "running"
    PROVE  MeantInv'
<1>1. /\ SightsOK(core, frames, status) /\ LitsBound(core) /\ MeaningOK(core, frames, status)
      /\ Apart(core, frames, status) /\ LastingIn(core, frames)
      /\ \A d \in 1 .. Len(frames) : OwnBound(core, frames, status, d)
      /\ ConsumesSafely(prog) /\ AccumulatesSafely(prog) /\ UNCHANGED <<prog, usedOnce>>
  BY DEF MeantInv, SightsOK, Goes, Safely, BindsOK
<1>2. /\ Here /\ YieldRan /\ Op.k = "yield" /\ FetchedIs(core, Op.ins, core') /\ status' = "running"
  BY DEF YieldStep, YieldRan
<1>3. /\ N \in Nat /\ N >= 2 /\ N = Len(frames) /\ Len(core.scopes) = N /\ CoreOK(core)
      /\ Frame = frames[N] /\ Frame.pc = Len(prog[Frame.blk]) /\ Len(prog[Frame.blk]) \in Nat
      /\ Frame.blk \in DOMAIN prog /\ prog \in Kernels /\ IsSeq(Op.ins)
      /\ IsSite(Frame.blk, Frame.pc) /\ N - 1 \in 1 .. N /\ AtOp(frames, N - 1)
  BY <1>2, YieldIsLast, TopIs DEF Here, IsSite, RowsAre
<1>4. /\ Len(frames') = N /\ frames'[N].pc = Frame.pc + 1 /\ frames'[N].blk = Frame.blk
      /\ \A d \in 1 .. N - 1 : frames'[d] = frames[d]
      /\ frames'[N].terms = Meaning(Op.ins) /\ Yields(frames'[N].vals)
  <2>1. SetIs(frames, N, {"pc", "vals", "terms"}, frames') /\ frames'[N].pc = Frame.pc + 1
    BY <1>2 DEF YieldRan
  <2>2. \A d \in 1 .. N - 1 : d # N /\ d \in 1 .. Len(frames)
    BY <1>3
  <2> QED
    BY <1>2, <1>3, <2>1, <2>2 DEF SetIs, IsReplaced, SameBut, FrameFields, YieldRan
<1>5. ~AtOp(frames', N) /\ ~AtOp(frames', N + 1)
  BY <1>3, <1>4 DEF AtOp, IsSite
<1>6. Moves(N, Consumed(core, Op.ins), {})
  BY <1>1, YieldMoves
<1>7. core'.tiles = core.tiles /\ core'.bufs = core.bufs /\ Unwritten(NoBuffer)
  BY <1>2 DEF FetchedIs, Unwritten
<1>8. Quiet(N, {})
  BY <1>5 DEF Quiet
<1>9. SightsOK(core', frames', status')
  BY <1>1, <1>6, <1>7, <1>8, QuietSights
<1>10. \A h, p, g : Sees(core', frames', status', h, p, g) /\ p # "i" => Carried(h, p, g) /\ h \in 1 .. N - 1
  <2> SUFFICES ASSUME NEW h, NEW p, NEW g, Sees(core', frames', status', h, p, g), p # "i"
               PROVE  Carried(h, p, g) /\ h \in 1 .. N - 1
    OBVIOUS
  <2>1. Carried(h, p, g)
    BY <1>1, <1>6, <1>7, <1>8, QuietSights, SightsMove
  <2>2. AtOp(frames', h) /\ h \in 1 .. N
    BY <1>4 DEF Sees, AtOp
  <2> QED
    BY <1>3, <1>5, <2>1, <2>2
<1>11. /\ IsInjective(Op.ins)
       /\ Range(Op.ins) \subseteq Lasting(prog) \cup (Own(prog, Frame.blk) \ Aliases(prog))
  BY <1>1, <1>2, <1>3, SafeOp DEF Op
<1>12. ASSUME NEW j \in 1 .. Len(Op.ins), NEW n, n = Op.ins[j], NEW w, w = Where(core, n)
       PROVE  /\ n \in Range(Op.ins) /\ n # "i" /\ n \notin Aliases(prog)
              /\ Sees(core, frames, status, N, n, w) /\ w \in 1 .. N
              /\ frames'[N].vals[j] = core.scopes[w][n]
              /\ Holds(core, core.scopes[w][n]) = frames'[N].terms[j]
              /\ n \in Lasting(prog) => IsLasting(core, core.scopes[w][n])
  <2>1. n \in Range(Op.ins) /\ j \in DOMAIN Op.ins
    BY <1>3, <1>12, RangeIs, SeqFacts
  <2>2. n # "i" /\ frames'[N].vals[j] = Lookup(core, n)
    BY <1>4, <1>12 DEF Yields
  <2>3. n \notin Aliases(prog)
    BY <1>3, <1>11, <2>1, LastingNames
  <2>4. Sees(core, frames, status, N, n, w) /\ Lookup(core, n) = core.scopes[w][n]
    BY <1>1, <1>2, <1>12, <2>1, OperandSeen
  <2>5. Holds(core, Lookup(core, n)) = Frame.env[n]
    BY <1>1, <1>2, <2>1, OperandMeans
  <2>6. frames'[N].terms[j] = Frame.env[n]
    BY <1>4, <1>12, <2>1 DEF Meaning
  <2>7. w \in 1 .. N /\ n \in DOMAIN core.scopes[w]
    BY <2>4 DEF Sees, IsAt
  <2>8. n \in Lasting(prog) => IsLasting(core, core.scopes[w][n])
    BY <1>3, <2>7, LastingIsFound
  <2> QED
    BY <2>1, <2>2, <2>3, <2>4, <2>5, <2>6, <2>7, <2>8
<1>13. ASSUME NEW j \in 1 .. Len(Op.ins)
       PROVE  ValueOK(core', frames', status', frames'[N], j)
  <2>1. PICK n, w : n = Op.ins[j] /\ w = Where(core, n)
    OBVIOUS
  <2>2. /\ n \in Range(Op.ins) /\ n # "i" /\ n \notin Aliases(prog)
        /\ Sees(core, frames, status, N, n, w) /\ w \in 1 .. N
        /\ frames'[N].vals[j] = core.scopes[w][n]
        /\ Holds(core, core.scopes[w][n]) = frames'[N].terms[j]
        /\ n \in Lasting(prog) => IsLasting(core, core.scopes[w][n])
    BY <1>12, <2>1
  <2>3. Holds(core', frames'[N].vals[j]) = frames'[N].terms[j]
    BY <1>7, <2>2 DEF Holds
  <2>4. CASE IsLasting(core, core.scopes[w][n])
    <3>1. IsLasting(core', frames'[N].vals[j])
      BY <1>1, <1>6, <2>2, <2>4, LastingTileStays
    <3> QED
      BY <2>3, <3>1 DEF ValueOK
  <2>5. CASE ~IsLasting(core, core.scopes[w][n])
    <3>1. n \in Own(prog, Frame.blk)
      BY <1>11, <2>2, <2>5
    <3>2. w >= N - 1 /\ (w = N - 1 => n \notin ScopeAt(frames, N - 1))
      BY <1>1, <1>2, <1>3, <2>2, <3>1, OwnIsFound
    <3>3. Sole(core', frames', status', frames'[N].vals[j])
      <4> SUFFICES ASSUME NEW h, NEW p, NEW g, Sees(core', frames', status', h, p, g), p # "i",
                          core'.tiles[core'.scopes[g][p]] = core'.tiles[frames'[N].vals[j]]
                   PROVE  FALSE
        BY DEF Sole
      <4>1. Carried(h, p, g) /\ h \in 1 .. N - 1
        BY <1>10
      <4>2. PICK k \in 1 .. h : /\ Sees(core, frames, status, k, p, g)
                                /\ ScopeAt(frames, k) \subseteq ScopeAt(frames', h)
                                /\ core'.scopes[g][p] = core.scopes[g][p]
        BY <4>1 DEF Carried
      <4>3. core.tiles[core.scopes[g][p]] = core.tiles[core.scopes[w][n]]
        BY <1>7, <2>2, <4>2
      <4>4. ScopeAt(frames', h) = ScopeAt(frames, h)
        BY <1>1, <1>4, <4>1 DEF ScopeAt
      <4>5. CASE n = p /\ w = g
        <5>1. n \in ScopeAt(frames, h) /\ w \in 1 .. h
          BY <4>4, <4>5 DEF Sees, IsAt
        <5> QED
          BY <1>3, <3>2, <4>1, <5>1
      <4>6. CASE ~(n = p /\ w = g)
        <5>1. Clear(core, frames, n, w, k, p, g)
          BY <1>1, <2>2, <4>2 DEF Apart
        <5>2. n \in ScopeAt(frames, k) /\ w <= k
          BY <2>2, <2>5, <4>3, <4>6, <5>1 DEF Clear
        <5>3. n \in ScopeAt(frames, h) /\ k <= h /\ h <= N - 1 /\ k \in Nat /\ h \in Nat
          BY <1>3, <4>1, <4>2, <4>4, <5>2
        <5>4. h = N - 1 /\ w = N - 1
          BY <1>3, <2>2, <3>2, <5>2, <5>3
        <5> QED
          BY <3>2, <5>3, <5>4
      <4> QED
        BY <4>5, <4>6
    <3>4. ASSUME NEW i \in 1 .. Len(Op.ins), i # j
          PROVE  core'.tiles[frames'[N].vals[i]] # core'.tiles[frames'[N].vals[j]]
      <4>1. PICK p, g : p = Op.ins[i] /\ g = Where(core, p)
        OBVIOUS
      <4>2. /\ p # "i" /\ p \notin Aliases(prog) /\ Sees(core, frames, status, N, p, g)
            /\ frames'[N].vals[i] = core.scopes[g][p]
        BY <1>12, <4>1
      <4>3. n # p
        BY <1>3, <1>11, <2>1, <3>4, <4>1, SeqFacts DEF IsInjective
      <4>4. Clear(core, frames, n, w, N, p, g)
        BY <1>1, <2>2, <4>2 DEF Apart
      <4> QED
        BY <1>7, <2>2, <2>5, <4>2, <4>3, <4>4 DEF Clear
    <3>5. Len(frames'[N].vals) = Len(Op.ins)
      BY <1>4 DEF Yields
    <3> QED
      BY <2>3, <3>3, <3>4, <3>5 DEF ValueOK
  <2> QED
    BY <2>4, <2>5
<1>14. ValuesOK(core', frames', status')
  <2>1. Len(frames'[N].vals) = Len(Op.ins) /\ frames'[N].pc # 0
    BY <1>3, <1>4 DEF Yields
  <2> QED
    BY <1>4, <1>13, <2>1 DEF ValuesOK
<1>15. ParkOK' /\ LitsBound(core')
  BY <1>1, <1>2, NotParkedNext, YieldLits
<1> QED
  BY <1>1, <1>9, <1>14, <1>15, MeantNext


(* Where an op that ran has left the machine. *)
OpLeft ==
    /\ SightsOK(core, frames, status) /\ LitsBound(core) /\ MeaningOK(core, frames, status)
    /\ Apart(core, frames, status) /\ LastingIn(core, frames)
    /\ \A d \in 1 .. Len(frames) : OwnBound(core, frames, status, d)
    /\ ConsumesSafely(prog) /\ AccumulatesSafely(prog) /\ UNCHANGED <<prog, usedOnce>>
    /\ Here /\ N \in Nat /\ N >= 1 /\ N = Len(frames) /\ CoreOK(core) /\ Len(core.scopes) = N
    /\ Frame = frames[N] /\ AtOp(frames, N) /\ OpAt(frames, N) = Op /\ N \in 1 .. N
    /\ Op = prog[Frame.blk][Frame.pc] /\ IsSite(Frame.blk, Frame.pc) /\ RowsAre(Op) /\ IsOp(Op)
    /\ Frame.pc \in Nat /\ Frame.pc >= 1 /\ Op.k \notin {"yield", "for"}
    /\ Moves(N, Consumed(core, Reads), Writes) /\ status' = "running"
    /\ Len(frames') = N /\ frames'[N].pc = Frame.pc + 1 /\ frames'[N].blk = Frame.blk
    /\ \A d \in 1 .. N - 1 : frames'[d] = frames[d]
    /\ ~AtOp(frames', N + 1)
    /\ \A n \in Writes : n \in DOMAIN frames'[N].env /\ frames'[N].env[n] = OpTerm

LEMMA OpLeaves ==
    ASSUME TypeInv, MeantInv, Safely, OpStep
    PROVE  OpLeft
<1>1. Ran(Reads, Writes) /\ Op.k \notin {"yield", "for"} /\ status \in {"running", "parked"}
  BY OpStepRan
<1>2. /\ SightsOK(core, frames, status) /\ LitsBound(core) /\ MeaningOK(core, frames, status)
      /\ Apart(core, frames, status) /\ LastingIn(core, frames)
      /\ \A d \in 1 .. Len(frames) : OwnBound(core, frames, status, d)
      /\ ConsumesSafely(prog) /\ AccumulatesSafely(prog) /\ UNCHANGED <<prog, usedOnce>>
  BY <1>1 DEF MeantInv, SightsOK, Goes, Safely, BindsOK
<1>3. Here /\ Meant(frames'[N].env)
  BY DEF OpStep
<1>4. /\ N \in Nat /\ N >= 1 /\ N = Len(frames) /\ CoreOK(core) /\ Len(core.scopes) = N
      /\ Frame = frames[N] /\ AtOp(frames, N) /\ OpAt(frames, N) = Op /\ N \in 1 .. N
      /\ Op = prog[Frame.blk][Frame.pc] /\ IsSite(Frame.blk, Frame.pc) /\ RowsAre(Op) /\ IsOp(Op)
      /\ Frame.pc \in Nat /\ Frame.pc >= 1
  BY <1>3, TopIs DEF Here, Op
<1>5. Moves(N, Consumed(core, Reads), Writes)
  BY <1>1, <1>2, OpMoves DEF Goes
<1>6. Advanced /\ status' = "running"
  BY <1>1 DEF Ran
<1>7. TopMoves
  BY <1>4, <1>6, TopMovesBy
<1>8. /\ Len(frames') = N /\ frames'[N].pc = Frame.pc + 1 /\ frames'[N].blk = Frame.blk
      /\ \A d \in 1 .. N - 1 : frames'[d] = frames[d]
  BY <1>6, <1>7 DEF TopMoves, Advanced
<1>9. ~AtOp(frames', N + 1)
  BY <1>4, <1>8 DEF AtOp
<1>10. \A n \in Writes : n \in DOMAIN frames'[N].env /\ frames'[N].env[n] = OpTerm
  BY <1>3 DEF Meant
<1> QED
  BY <1>1, <1>2, <1>3, <1>4, <1>5, <1>6, <1>8, <1>9, <1>10 DEF OpLeft

(* What is to be shown of an op: the names it bound are meant. *)
LEMMA OpMeantBy ==
    ASSUME TypeInv, OpStep, OpLeft, KeepsSeen, NewMeant(N, Writes)
    PROVE  MeantInv'
<1>1. SightsOK(core', frames', status')
  <2>1. IndexMeant(N)
    BY DEF OpLeft, IndexMeant
  <2> QED
    BY <2>1, SightsStay DEF OpLeft
<1>2. TypeInv'
  BY StepKeepsType DEF OpLeft, Step
<1>3. ValuesOK(core', frames', status')
  <2>1. CASE AtOp(frames', N)
    BY <2>1, NoValuesOK DEF OpLeft
  <2>2. CASE ~AtOp(frames', N)
    <3>1. FramesOK(frames') /\ prog \in Kernels
      BY <1>2, ZenonT(30)
         DEF OpLeft, Here, TypeInv, FramesOK, FrameOK, IsFrame, SameBut, IsSite, OwnerOf, YieldsSoFar
    <3> QED
      BY <2>2, <3>1, NoValues, NoValuesOK DEF OpLeft
  <2> QED
    BY <2>1, <2>2
<1>4. ParkOK' /\ LitsBound(core')
  BY NotParkedNext, OpLits DEF OpLeft
<1> QED
  BY <1>1, <1>3, <1>4, MeantNext DEF OpLeft

(* The tile that an op binds. *)
LEMMA ChainBinds ==
    ASSUME Here, NEW t, OpChain(<<t>>), NEW n \in Writes, Op.k \in OneResult
    PROVE  core'.scopes[N][n] = t
<1>1. PICK vals : vals = <<t>>
  OBVIOUS
<1>2. IsSeq(vals) /\ Len(vals) = 1 /\ vals[1] = t
  BY <1>1, OneValue
<1>3. PICK b, c, d :
          /\ FetchedIs(core, Reads, b) /\ GrownIs(b, c)
          /\ IF Op.k = "reduce" THEN BoundIs(c, Op.outs, vals, TRUE, d) ELSE d = c
          /\ BoundIs(d, Op.res, vals, Op.k # "constant", core')
  BY <1>1 DEF OpChain
<1>4. /\ RowsAre(Op) /\ Len(Op.res) = 1 /\ (Op.k = "reduce" => Len(Op.outs) = 1)
      /\ Len(core.scopes) = N /\ N \in Nat
  BY DEF Here, IsOp
<1>5. Len(c.scopes) = N /\ Len(d.scopes) = N
  <2>1. Len(b.scopes) = N
    BY <1>3, <1>4 DEF FetchedIs
  <2>2. Len(c.scopes) = N
    BY <1>3, <2>1 DEF GrownIs
  <2> QED
    BY <1>3, <2>2 DEF BoundIs
<1>6. CASE n \in Range(Op.res)
  <2>1. PICK i \in 1 .. Len(Op.res) : Op.res[i] = n
    BY <1>4, <1>6, RangeIs DEF RowsAre
  <2>2. i = 1
    BY <1>4, <2>1
  <2> QED
    BY <1>2, <1>3, <1>5, <2>1, <2>2 DEF BoundIs
<1>7. CASE n \notin Range(Op.res)
  <2>1. Op.k = "reduce" /\ n \in Range(Op.outs)
    BY <1>7 DEF Writes
  <2>2. PICK i \in 1 .. Len(Op.outs) : Op.outs[i] = n
    BY <1>4, <2>1, RangeIs DEF RowsAre
  <2>3. i = 1
    BY <1>4, <2>1, <2>2
  <2>4. BoundIs(c, Op.outs, vals, TRUE, d)
    BY <1>3, <2>1
  <2>5. d.scopes[N][n] = t /\ n \in DOMAIN d.scopes[N]
    BY <1>2, <1>5, <2>1, <2>2, <2>3, <2>4 DEF BoundIs
  <2>6. core'.scopes[N][n] = d.scopes[N][n]
    BY <1>3, <1>5, <1>7, <2>5 DEF BoundIs
  <2> QED
    BY <2>5, <2>6
<1> QED
  BY <1>6, <1>7

(* Two names that an op binds are the result and the outs of a reduction. *)
LEMMA WritesAre ==
    ASSUME OpLeft, Op.k \in OneResult, NEW n \in Writes, NEW p \in Writes, n # p
    PROVE  n \in Aliases(prog) \/ (p \in Aliases(prog) /\ IsShared(n))
<1>1. RowsAre(Op) /\ Len(Op.res) = 1 /\ (Op.k = "reduce" => Len(Op.outs) = 1)
  BY Zenon DEF OpLeft, IsOp
<1>2. \A m \in Range(Op.res) : m = Op.res[1]
  BY <1>1, RangeIs DEF RowsAre
<1>3. Op.k = "reduce"
  BY <1>2 DEF Writes
<1>4. \A m \in Range(Op.outs) : m = Op.outs[1]
  BY <1>1, <1>3, RangeIs DEF RowsAre
<1>5. \A m \in Range(Op.res) : m \in Aliases(prog)
  BY <1>3, AliasesAre DEF OpLeft, Here
<1>6. IsShared(Op.outs[1])
  BY <1>3 DEF OpLeft, IsShared
<1> QED
  BY <1>2, <1>3, <1>4, <1>5, <1>6 DEF Writes


LEMMA NewIs ==
    ASSUME OpLeft, NEW t, OpChain(<<t>>), Op.k \in OneResult,
           NEW d, NEW n, NEW e, IsNew(N, Writes, d, n, e), Sees(core', frames', status', d, n, e)
    PROVE  /\ d = N /\ e = N /\ n \in Writes /\ n # "i" /\ core'.scopes[e][n] = t
           /\ n \in DOMAIN frames'[d].env /\ frames'[d].env[n] = OpTerm
           /\ n \in ScopeAt(frames', N)
<1>1. AtOp(frames', d) /\ n \in ScopeAt(frames', d)
  BY DEF Sees
<1>2. d = N /\ e = N /\ n \in Writes /\ n # "i"
  BY <1>1 DEF IsNew, OpLeft
<1>3. core'.scopes[N][n] = t
  BY <1>2, ChainBinds DEF OpLeft
<1> QED
  BY <1>1, <1>2, <1>3 DEF OpLeft

(* A tile that holds the op's term and that no other name is seen to share *)
(* makes the names it is bound to meant.                                   *)
LEMMA ValueMeant ==
    ASSUME TypeInv, OpLeft, NEW t, OpChain(<<t>>), Op.k \in OneResult, Holds(core', t) = OpTerm,
           \A h, p, g : Carried(h, p, g) /\ Sees(core', frames', status', h, p, g) /\ p # "i" =>
               core'.tiles[core'.scopes[g][p]] # core'.tiles[t]
    PROVE  NewMeant(N, Writes)
<1> SUFFICES ASSUME NEW d, NEW n, NEW e, IsNew(N, Writes, d, n, e),
                    Sees(core', frames', status', d, n, e)
             PROVE  /\ MeansIt(core', frames', d, n, e)
                    /\ \A h, p, g : Sees(core', frames', status', h, p, g) =>
                          Clear(core', frames', n, e, h, p, g) /\ Clear(core', frames', p, g, d, n, e)
  BY DEF NewMeant
<1>1. /\ d = N /\ e = N /\ n \in Writes /\ n # "i" /\ core'.scopes[e][n] = t
      /\ n \in DOMAIN frames'[d].env /\ frames'[d].env[n] = OpTerm /\ n \in ScopeAt(frames', N)
  BY NewIs
<1>2. MeansIt(core', frames', d, n, e)
  BY <1>1 DEF MeansIt
<1>3. ASSUME NEW h, NEW p, NEW g, Sees(core', frames', status', h, p, g)
      PROVE  Clear(core', frames', n, e, h, p, g) /\ Clear(core', frames', p, g, d, n, e)
  <2>1. \/ Carried(h, p, g)
        \/ IsNew(N, Writes, h, p, g)
        \/ p = "i"
    BY <1>3, SightsMove DEF OpLeft
  <2>2. CASE p = "i"
    BY <2>2 DEF Clear
  <2>3. CASE Carried(h, p, g) /\ p # "i"
    <3>1. core'.tiles[core'.scopes[g][p]] # core'.tiles[core'.scopes[e][n]]
      BY <1>1, <1>3, <2>3
    <3> QED
      BY <3>1 DEF Clear
  <2>4. CASE IsNew(N, Writes, h, p, g)
    <3>1. h = N /\ g = N /\ p \in Writes /\ p \in ScopeAt(frames', N)
      BY <1>3, <2>4, NewIs
    <3>2. CASE n = p
      BY <1>1, <3>1, <3>2 DEF Clear
    <3>3. CASE n # p
      <4>1. /\ n \in Aliases(prog) \/ (p \in Aliases(prog) /\ IsShared(n))
            /\ p \in Aliases(prog) \/ (n \in Aliases(prog) /\ IsShared(p))
        BY <1>1, <3>1, <3>3, WritesAre
      <4>2. N <= N
        BY DEF OpLeft
      <4>3. Clear(core', frames', n, e, h, p, g)
        BY <1>1, <3>1, <4>1, <4>2 DEF Clear
      <4>4. Clear(core', frames', p, g, d, n, e)
        BY <1>1, <3>1, <4>1, <4>2 DEF Clear
      <4> QED
        BY <4>3, <4>4
    <3> QED
      BY <3>2, <3>3
  <2> QED
    BY <2>1, <2>2, <2>3, <2>4
<1> QED
  BY <1>2, <1>3

(* A value of its own. *)
LEMMA NewValueMeant ==
    ASSUME TypeInv, OpStep, OpLeft, NEW t, OpChain(<<t>>), Op.k \in OneResult, NewValue(t, OpTerm)
    PROVE  MeantInv'
<1>1. Len(core.bufs) \in Nat /\ Unwritten(NoBuffer)
  BY SeqFacts DEF OpLeft, CoreOK, NewValue
<1>2. KeepsSeen
  BY <1>1, UnwrittenKeeps DEF OpLeft
<1>3. ASSUME NEW h, NEW p, NEW g, Carried(h, p, g), p # "i"
      PROVE  core'.tiles[core'.scopes[g][p]] # core'.tiles[t]
  <2>1. /\ core'.scopes[g][p] = core.scopes[g][p]
        /\ core'.tiles[core.scopes[g][p]] = core.tiles[core.scopes[g][p]]
        /\ core.tiles[core.scopes[g][p]] \in 1 .. Len(core.bufs)
    BY <1>3, CarriedTile DEF OpLeft
  <2> QED
    BY <1>1, <2>1 DEF NewValue
<1>4. Holds(core', t) = OpTerm
  <2>1. t # Scalar
    BY DEF NewValue, Scalar
  <2> QED
    BY <2>1 DEF NewValue, Holds
<1>5. NewMeant(N, Writes)
  BY <1>3, <1>4, ValueMeant
<1> QED
  BY <1>2, <1>5, OpMeantBy

LEMMA ResumeMeant ==
    ASSUME TypeInv, MeantInv, OpStep, OpLeft, NEW t, OpChain(<<t>>), Op.k = "receive",
           status = "parked", t = Newest(core), core'.tiles = core.tiles, core'.bufs = core.bufs
    PROVE  MeantInv'
<1>1. ParkOK
  BY DEF MeantInv, Goes
<1>2. Sole(core, frames, status, t) /\ Holds(core, t) = Term(Op.res[1], Meaning(Op.ins))
  BY <1>1 DEF ParkOK
<1>3. Unwritten(NoBuffer)
  BY DEF Unwritten
<1>4. KeepsSeen
  BY <1>3, UnwrittenKeeps DEF OpLeft
<1>5. ASSUME NEW h, NEW p, NEW g, Carried(h, p, g), p # "i"
      PROVE  core'.tiles[core'.scopes[g][p]] # core'.tiles[t]
  <2>1. PICK k \in 1 .. h : /\ Sees(core, frames, status, k, p, g)
                            /\ core'.scopes[g][p] = core.scopes[g][p]
    BY <1>5 DEF Carried
  <2> QED
    BY <1>2, <1>5, <2>1 DEF Sole
<1>6. Holds(core', t) = OpTerm
  BY <1>2 DEF Holds, OpTerm
<1>7. Op.k \in OneResult
  BY DEF OneResult
<1>8. NewMeant(N, Writes)
  BY <1>5, <1>6, <1>7, ValueMeant
<1> QED
  BY <1>4, <1>8, OpMeantBy

(* A reshape's tile is another over the buffer of its operand. *)
LEMMA ReshapeMeant ==
    ASSUME TypeInv, OperandsInv, OpStep, OpLeft, NEW t, OpChain(<<t>>), Op.k = "reshape",
           status = "running", Unwritten(NoBuffer), t \in 1 .. Len(core'.tiles),
           core'.tiles[t] = core.tiles[Lookup(core, Op.ins[1])]
    PROVE  MeantInv'
<1>0. /\ N \in Nat /\ N >= 1 /\ prog \in Kernels /\ IsSite(Frame.blk, Frame.pc)
      /\ Op = prog[Frame.blk][Frame.pc] /\ frames'[N].pc = Frame.pc + 1 /\ frames'[N].blk = Frame.blk
      /\ Moves(N, Consumed(core, Reads), Writes)
  BY Zenon DEF OpLeft, Here
<1>1. PICK x, v : x = Op.ins[1] /\ v = Where(core, x)
  OBVIOUS
<1>2. x \in Range(Op.ins) /\ Len(Op.ins) = 1 /\ x # "i" /\ Op.k \in OneResult
  <2>1. Len(Op.ins) = 1 /\ IsSeq(Op.ins)
    BY Zenon DEF OpLeft, IsOp, RowsAre
  <2>2. x \in Range(Op.ins)
    BY <1>1, <2>1, RangeIs
  <2>3. "i" \notin Range(Op.ins \o Op.outs)
    BY Zenon DEF OpLeft, IsOp
  <2>4. x # "i"
    BY <2>2, <2>3, RangeOfConcat, ZenonT(30) DEF OpLeft, RowsAre
  <2> QED
    BY <2>1, <2>2, <2>4 DEF OneResult
<1>3. Sees(core, frames, status, N, x, v) /\ Lookup(core, x) = core.scopes[v][x]
  BY <1>1, <1>2, OperandSeen, Zenon DEF OpLeft
<1>4. Holds(core, Lookup(core, x)) = OpTerm
  <2>1. Holds(core, Lookup(core, x)) = Frame.env[x]
    BY <1>2, OperandMeans, Zenon DEF OpLeft
  <2> QED
    BY <1>1, <2>1 DEF OpTerm
<1>5. /\ core.scopes[v][x] \in 1 .. Len(core.tiles) /\ core.tiles[core.scopes[v][x]] \in 1 .. Len(core.bufs)
      /\ v \in 1 .. N
  <2>1. FramesOK(frames) /\ ScopesMatch(core, frames)
    BY DEF TypeInv
  <2> QED
    BY <1>2, <1>3, <2>1, SeenIs, Zenon DEF OpLeft
<1>6. core'.tiles[t] = core.tiles[core.scopes[v][x]]
  BY <1>1, <1>3
<1>7. Holds(core', t) = OpTerm
  <2>1. t # Scalar /\ core.scopes[v][x] # Scalar
    BY <1>5 DEF Scalar
  <2>2. core'.bufs[core'.tiles[t]] = core.bufs[core.tiles[core.scopes[v][x]]]
    BY <1>5, <1>6 DEF Unwritten, NoBuffer
  <2> QED
    BY <1>3, <1>4, <2>1, <2>2 DEF Holds
<1>8. KeepsSeen
  BY UnwrittenKeeps DEF OpLeft
<1>9. IsShared(x) /\ x \in ScopeAt(frames, N)
  <2>1. x \in ScopeAt(frames, N)
    BY <1>3 DEF Sees
  <2>2. IsShared(x)
    BY <1>0, <1>1 DEF IsShared
  <2> QED
    BY <2>1, <2>2
<1>10. ScopeAt(frames, N) \subseteq ScopeAt(frames', N)
  BY InScopeGrows DEF OpLeft, ScopeAt
<1>11. \A n \in Writes : n \in Aliases(prog)
  BY <1>0, AliasesAre DEF Writes
<1>12. ASSUME NEW h, NEW p, NEW g, Carried(h, p, g), p # "i"
       PROVE  core'.tiles[core.scopes[g][p]] = core.tiles[core.scopes[g][p]]
  <2>1. PICK m, con, new : Moves(m, con, new)
    BY <1>0
  <2> QED
    BY <1>12, <2>1, CarriedTile
<1>13. NewMeant(N, Writes)
  <2> SUFFICES ASSUME NEW d, NEW n, NEW e, IsNew(N, Writes, d, n, e),
                      Sees(core', frames', status', d, n, e)
               PROVE  /\ MeansIt(core', frames', d, n, e)
                      /\ \A h, p, g : Sees(core', frames', status', h, p, g) =>
                            Clear(core', frames', n, e, h, p, g) /\ Clear(core', frames', p, g, d, n, e)
    BY DEF NewMeant
  <2>1. /\ d = N /\ e = N /\ n \in Writes /\ n # "i" /\ core'.scopes[e][n] = t
        /\ n \in DOMAIN frames'[d].env /\ frames'[d].env[n] = OpTerm /\ n \in ScopeAt(frames', N)
    BY <1>2, NewIs
  <2>2. MeansIt(core', frames', d, n, e)
    BY <1>7, <2>1 DEF MeansIt
  <2>3. n \in Aliases(prog)
    BY <1>11, <2>1
  <2>4. ASSUME NEW h, NEW p, NEW g, Sees(core', frames', status', h, p, g)
        PROVE  Clear(core', frames', n, e, h, p, g) /\ Clear(core', frames', p, g, d, n, e)
    <3>1. Clear(core', frames', n, e, h, p, g)
      BY <2>3 DEF Clear
    <3>2. \/ Carried(h, p, g)
          \/ IsNew(N, Writes, h, p, g)
          \/ p = "i"
      BY <2>4, SightsMove DEF OpLeft
    <3>3. CASE p = "i"
      BY <3>1, <3>3 DEF Clear
    <3>4. CASE IsNew(N, Writes, h, p, g)
      <4>1. p \in Aliases(prog)
        BY <1>11, <3>4 DEF IsNew
      <4> QED
        BY <3>1, <4>1 DEF Clear
    <3>5. CASE Carried(h, p, g) /\ p # "i"
      <4> SUFFICES ASSUME p \notin Aliases(prog), ~IsLasting(core', core'.scopes[g][p]),
                          core'.tiles[core'.scopes[g][p]] = core'.tiles[t]
                   PROVE  IsShared(p) /\ p \in ScopeAt(frames', N) /\ g <= N
        BY <2>1, <2>3, <3>1 DEF Clear
      <4>1. PICK k \in 1 .. h : /\ Sees(core, frames, status, k, p, g)
                                /\ core'.scopes[g][p] = core.scopes[g][p]
        BY <3>5 DEF Carried
      <4>2. core'.tiles[core.scopes[g][p]] = core.tiles[core.scopes[g][p]]
        BY <1>12, <3>5
      <4>3. core.tiles[core.scopes[g][p]] = core.tiles[core.scopes[v][x]]
        BY <1>6, <4>1, <4>2
      <4>4. ~IsLasting(core, core.scopes[g][p])
        BY <4>1, LastingTileStays, Zenon DEF OpLeft
      <4>5. CASE p = x /\ g = v
        BY <1>0, <1>5, <1>9, <1>10, <4>5
      <4>6. CASE ~(p = x /\ g = v)
        <5>1. Clear(core, frames, p, g, N, x, v)
          BY <1>3, <4>1, Zenon DEF OpLeft, Apart
        <5> QED
          BY <1>2, <1>10, <3>5, <4>3, <4>4, <4>6, <5>1 DEF Clear
      <4> QED
        BY <4>5, <4>6
    <3> QED
      BY <3>2, <3>3, <3>4, <3>5
  <2> QED
    BY <2>2, <2>4
<1> QED
  BY <1>8, <1>13, OpMeantBy


LEMMA InScopeLater ==
    ASSUME NEW b, NEW i \in Nat, NEW j \in Nat, i <= j
    PROVE  InScope(prog, b, i) \subseteq InScope(prog, b, j)
<1>1. Before(prog, b, i) \subseteq Before(prog, b, j)
  <2> SUFFICES ASSUME NEW k \in 1 .. i - 1, NEW n \in Range(prog[b][k].res)
               PROVE  n \in Before(prog, b, j)
    BY DEF Before
  <2>1. k \in 1 .. j - 1
    OBVIOUS
  <2> QED
    BY <2>1 DEF Before
<1> QED
  BY <1>1 DEF InScope

(* An accumulator of the op's own block is not seen by the regions below.  *)
LEMMA AccumulatorIsFound ==
    ASSUME TypeInv, OperandsInv, OpLeft, status = "running", NEW n \in Own(prog, Frame.blk),
           UseCount(prog, n) = 1, n # "i", NEW w, Sees(core, frames, status, N, n, w),
           NEW h \in 1 .. N - 1, w <= h
    PROVE  n \notin ScopeAt(frames, h)
<1>1. /\ N \in Nat /\ N = Len(frames) /\ Frame = frames[N] /\ AccumulatesSafely(prog)
      /\ ConsumesSafely(prog) /\ OwnBound(core, frames, status, N) /\ prog \in Kernels
      /\ FramesOK(frames) /\ Frame.pc \in Nat /\ Frame.pc >= 1 /\ IsSite(Frame.blk, Frame.pc)
      /\ N \in 1 .. N
  BY DEF OpLeft, Here
<1>2. /\ w \in 1 .. N /\ \A d \in 1 .. N : d > w => n \notin DOMAIN core.scopes[d]
      /\ n \in ScopeAt(frames, N) /\ ~UsedUp(prog, usedOnce, frames, status, N, n)
  BY DEF Sees, IsAt
<1>3. Frame.blk \in DOMAIN prog
  BY <1>1 DEF IsSite
<1>4. CASE \E d, i : IsSite(d, i) /\ Frame.blk \in Regions(prog[d][i]) /\ n \in Range(prog[d][i].args)
  <2>1. PICK d, i : IsSite(d, i) /\ Frame.blk \in Regions(prog[d][i]) /\ n \in Range(prog[d][i].args)
    BY <1>4
  <2>2. /\ IsSite(frames[N - 1].blk, frames[N - 1].pc) /\ AtOp(frames, N - 1)
        /\ Frame.blk \in Regions(OpAt(frames, N - 1)) /\ Frame.k = OpAt(frames, N - 1).k
        /\ N - 1 \in 1 .. N
    <3>1. N >= 2 /\ N # 1
      BY <1>1
    <3>2. FrameOK(frames, N) /\ N - 1 \in 1 .. Len(frames)
      BY <1>1, <3>1 DEF FramesOK
    <3> QED
      BY <1>1, <3>1, <3>2 DEF FrameOK, AtOp, OpAt, OwnerOf
  <2>3. d = frames[N - 1].blk /\ i = frames[N - 1].pc
    <3>1. Regions(prog[d][i]) \cap Regions(prog[frames[N - 1].blk][frames[N - 1].pc]) # {}
      BY <2>1, <2>2 DEF OpAt
    <3> QED
      BY <2>1, <2>2, <3>1, OpFacts
  <2>4. n \in Range(OpAt(frames, N - 1).args)
    BY <2>1, <2>3 DEF OpAt
  <2>5. OpAt(frames, N - 1).k = "for"
    <3>1. IsOp(OpAt(frames, N - 1)) /\ RowsAre(OpAt(frames, N - 1))
      BY <2>2, OpIsOp
    <3>2. Len(OpAt(frames, N - 1).args) # 0
      BY <2>4, <3>1, RangeIs DEF RowsAre
    <3> QED
      BY <3>1, <3>2 DEF IsOp
  <2>6. n \in DOMAIN core.scopes[N - 1]
    <3>1. ArgsOK(prog, core, frames, N) /\ Frame.k = "for"
      BY <1>1, <2>2, <2>5 DEF OperandsInv, Goes
    <3> QED
      BY <1>1, <2>4, <3>1 DEF ArgsOK, OpAt
  <2>7. h = N - 1
    BY <1>1, <1>2, <2>2, <2>6
  <2> QED
    BY <1>1, <2>2, <2>4, <2>7, NotRedefined
<1>5. CASE \E i : IsSite(Frame.blk, i) /\ n \in Results(Frame.blk, i)
  <2>1. PICK i : IsSite(Frame.blk, i) /\ n \in Results(Frame.blk, i)
    BY <1>5
  <2>2. i \in Nat /\ i >= 1
    BY <1>3, <2>1, BlockIs DEF IsSite
  <2>3. CASE i \in 1 .. Frame.pc - 1
    <3>1. n \in DOMAIN core.scopes[N] \/ (n \in usedOnce /\ Used(prog, Frame.blk, Past(frames, status, N), n))
      BY <1>1, <2>1, <2>3 DEF OwnBound
    <3>2. ~(n \in usedOnce /\ Used(prog, Frame.blk, Past(frames, status, N), n))
      BY <1>1, <1>2 DEF UsedUp
    <3> QED
      BY <1>1, <1>2, <3>1, <3>2
  <2>4. CASE i \notin 1 .. Frame.pc - 1
    <3>1. Frame.pc <= i
      BY <1>1, <2>2, <2>4
    <3>2. n \in InScope(prog, Frame.blk, i)
      BY <1>1, <1>2, <2>2, <3>1, InScopeLater DEF ScopeAt
    <3>3. n \notin Range(prog[Frame.blk][i].res)
      BY <1>1, <2>1, <3>2, SafeOp
    <3>4. n \notin Range(prog[Frame.blk][i].outs)
      BY <1>1, <2>1, OutsUsed
    <3> QED
      BY <2>1, <3>3, <3>4 DEF Results
  <2> QED
    BY <2>3, <2>4
<1> QED
  BY <1>1, <1>3, <1>4, <1>5, OwnNames

(* Nobody sees what an op accumulates into, afterwards, but the result.    *)
LEMMA AccumulatorIsAlone ==
    ASSUME TypeInv, OperandsInv, OpLeft, status = "running", Op.k = "matmul", NEW t, InPlace(t),
           NEW h, NEW p, NEW g, Carried(h, p, g), Sees(core', frames', status', h, p, g), p # "i"
    PROVE  core.tiles[core.scopes[g][p]] # core.tiles[t]
<1>1. /\ N \in Nat /\ N = Len(frames) /\ Frame = frames[N] /\ AccumulatesSafely(prog)
      /\ ConsumesSafely(prog) /\ prog \in Kernels /\ Here /\ LitsBound(core)
      /\ Apart(core, frames, status) /\ Frame.pc \in Nat /\ Frame.pc >= 1
      /\ IsSite(Frame.blk, Frame.pc) /\ Op = prog[Frame.blk][Frame.pc] /\ RowsAre(Op)
      /\ Len(core.scopes) = N /\ N \in 1 .. N
  BY DEF OpLeft, Here
<1>2. /\ Len(frames') = N /\ frames'[N].pc = Frame.pc + 1 /\ frames'[N].blk = Frame.blk
      /\ \A d \in 1 .. N - 1 : frames'[d] = frames[d]
      /\ status' = "running" /\ UNCHANGED <<prog, usedOnce>>
  BY DEF OpLeft
<1>3. PICK n, w : n = Op.ins[2] /\ w = Where(core, n)
  OBVIOUS
<1>4. n \in Range(Op.ins) /\ n # "i" /\ t = Lookup(core, n)
  <2>1. Len(Op.ins) = 2 /\ IsSeq(Op.ins)
    BY Zenon DEF OpLeft, IsOp, RowsAre
  <2>2. n \in Range(Op.ins)
    <3>1. 2 \in 1 .. Len(Op.ins)
      BY <2>1
    <3> QED
      BY <1>3, <2>1, <3>1, RangeIs
  <2> QED
    BY <1>3, <2>2 DEF InPlace
<1>5. Sees(core, frames, status, N, n, w) /\ t = core.scopes[w][n]
  BY <1>1, <1>3, <1>4, OperandSeen, Zenon
<1>6. w \in 1 .. N /\ n \in DOMAIN core.scopes[w] /\ n \in ScopeAt(frames, N)
  BY <1>5 DEF Sees, IsAt
<1>7. ASSUME NEW e \in 1 .. N, NEW q \in DOMAIN core.scopes[e], OnlyConstant(prog, q), q # "i"
      PROVE  core.scopes[e][q] # t
  <2>1. core.scopes[e][q] \in core.uncharged
    BY <1>1, <1>7 DEF LitsBound
  <2>2. q \notin Consumed(core, Op.ins)
    <3>1. Range(Op.ins) \subseteq Range(Fetches)
      BY DEF Fetches
    <3>2. UseCount(prog, q) # 1
      BY <1>7 DEF OnlyConstant
    <3> QED
      BY <1>1, <3>1, <3>2, ReadsUsed
  <2> QED
    BY <1>7, <2>1, <2>2 DEF InPlace
<1>8. ~OnlyConstant(prog, n)
  BY <1>4, <1>5, <1>6, <1>7
<1>9. UseCount(prog, n) = 1 /\ n \in Own(prog, Frame.blk) /\ n \notin Aliases(prog)
  <2>1. \A d \in DOMAIN prog : n \notin Literals(prog, d)
    BY <1>1, <1>8, LiteralNames
  <2> QED
    BY <1>1, <1>3, <2>1, SafeOp, ZenonT(30)
<1>10. ~IsLasting(core, t)
  <2>1. 1 \in 1 .. N
    BY <1>1
  <2> QED
    BY <1>1, <1>7, <2>1, LastingNames DEF IsLasting
<1>11. ~IsShared(n)
  BY <1>1, <1>3, <1>9, AccumulatorIsNotShared, Zenon
<1>12. PICK k \in 1 .. h : Sees(core, frames, status, k, p, g)
  BY DEF Carried
<1>13. CASE ~(n = p /\ w = g)
  <2>1. Clear(core, frames, n, w, k, p, g)
    BY <1>1, <1>5, <1>12 DEF Apart
  <2> QED
    BY <1>4, <1>5, <1>9, <1>10, <1>11, <1>13, <2>1 DEF Clear
<1>14. CASE n = p /\ w = g
  <2>1. /\ h \in 1 .. N /\ n \in ScopeAt(frames', h) /\ w \in 1 .. h
        /\ ~UsedUp(prog, usedOnce, frames', status', h, n)
    BY <1>2, <1>14 DEF Sees, AtOp, IsAt
  <2>2. n \in usedOnce
    <3>1. n \in Operands(prog)
      BY <1>1, <1>4, BlockIs DEF Operands, IsSite
    <3> QED
      BY <1>9, <3>1 DEF TypeInv
  <2>3. h # N
    <3>1. Past(frames', status', N) = Frame.pc
      BY <1>1, <1>2 DEF Past
    <3>2. Used(prog, frames'[N].blk, Past(frames', status', N), n)
      <4>1. Frame.pc \in 1 .. Frame.pc
        BY <1>1
      <4> QED
        BY <1>1, <1>2, <1>4, <3>1, <4>1 DEF Used
    <3> QED
      BY <1>1, <2>1, <2>2, <3>2 DEF UsedUp
  <2>4. h \in 1 .. N - 1 /\ w <= h
    BY <1>1, <2>1, <2>3
  <2>5. ScopeAt(frames', h) = ScopeAt(frames, h)
    BY <1>2, <2>4 DEF ScopeAt
  <2> QED
    BY <1>4, <1>5, <1>9, <2>1, <2>4, <2>5, AccumulatorIsFound
<1> QED
  BY <1>13, <1>14

LEMMA InPlaceMeant ==
    ASSUME TypeInv, OperandsInv, OpStep, OpLeft, status = "running", Op.k = "matmul",
           NEW t, OpChain(<<t>>), InPlace(t)
    PROVE  MeantInv'
<1>1. /\ core'.tiles = core.tiles /\ Unwritten(core.tiles[t])
      /\ core'.bufs[core.tiles[t]] = Term("matmul", Contents(Op.ins))
      /\ Visible(core, Op.ins[2]) /\ Op.ins[2] # "i" /\ t = Lookup(core, Op.ins[2])
  BY DEF InPlace
<1>2. PICK m, con, new : m = N /\ Moves(m, con, new)
  BY DEF OpLeft
<1>3. ASSUME NEW h, NEW p, NEW g, Carried(h, p, g), Sees(core', frames', status', h, p, g), p # "i"
      PROVE  /\ core.tiles[core.scopes[g][p]] # core.tiles[t]
             /\ core'.scopes[g][p] = core.scopes[g][p]
             /\ core.tiles[core.scopes[g][p]] \in 1 .. Len(core.bufs)
  BY <1>2, <1>3, AccumulatorIsAlone, CarriedTile
<1>4. KeepsSeen
  BY <1>1, <1>3 DEF KeepsSeen, Unwritten
<1>5. Op.k \in OneResult
  BY DEF OneResult
<1>6. Holds(core', t) = OpTerm
  <2>1. t # Scalar
    <3>1. CoreOK(core)
      BY DEF OpLeft
    <3>2. t \in 1 .. Len(core.tiles)
      BY <1>1, <3>1, LookupIs
    <3> QED
      BY <3>2 DEF Scalar
  <2>2. Contents(Op.ins) = Meaning(Op.ins)
    BY ContentsMean DEF OpLeft
  <2> QED
    BY <1>1, <2>1, <2>2 DEF Holds, OpTerm
<1>7. NewMeant(N, Writes)
  BY <1>1, <1>3, <1>5, <1>6, ValueMeant
<1> QED
  BY <1>4, <1>7, OpMeantBy


LEMMA OpMeant ==
    ASSUME TypeInv, OperandsInv, MeantInv, Safely, OpStep
    PROVE  MeantInv'
<1>1. OpLeft
  BY OpLeaves
<1>2. /\ Here /\ MeaningOK(core, frames, status) /\ ConsumesSafely(prog)
      /\ RowsAre(Op) /\ Moves(N, Consumed(core, Reads), Writes)
  BY <1>1 DEF OpLeft
<1>3. status = "parked" => Op.k = "receive"
  BY DEF OpStep, ResumeRan
<1>4. status \in {"running", "parked"}
  BY OpStepRan
<1>5. CASE \E t : OpChain(<<t>>) /\ OpValue(t)
  <2>1. PICK t : OpChain(<<t>>) /\ OpValue(t)
    BY <1>5
  <2>2. Op.k \in OneResult
    BY <2>1 DEF OpValue, OneResult
  <2>3. CASE Op.k = "constant" /\ NewValue(t, Term(Op.res[1], <<>>))
    <3>1. NewValue(t, OpTerm)
      BY <2>3 DEF OpTerm
    <3> QED
      BY <1>1, <2>1, <2>2, <3>1, NewValueMeant
  <2>4. CASE Op.k = "compute" /\ NewValue(t, Term(Op.res[1], Contents(Op.ins)))
    <3>1. Contents(Op.ins) = Meaning(Op.ins)
      BY <1>2, <1>3, <1>4, <2>4, ContentsMean
    <3>2. NewValue(t, OpTerm)
      BY <2>4, <3>1 DEF OpTerm
    <3> QED
      BY <1>1, <2>1, <2>2, <3>2, NewValueMeant
  <2>5. CASE Op.k = "reduce" /\ NewValue(t, Term("reduce", Contents(Op.ins \o Op.outs)))
    <3>1. PICK names : names = Op.ins \o Op.outs
      OBVIOUS
    <3>2. Range(names) \subseteq Range(Op.ins) \cup Range(Op.outs)
      BY <1>2, <3>1, RangeOfConcat DEF RowsAre
    <3>3. Contents(names) = Meaning(names)
      BY <1>2, <1>3, <1>4, <2>5, <3>2, ContentsMean
    <3>4. NewValue(t, OpTerm)
      BY <2>5, <3>1, <3>3 DEF OpTerm
    <3> QED
      BY <1>1, <2>1, <2>2, <3>4, NewValueMeant
  <2>6. CASE Op.k = "matmul" /\ NewValue(t, Term("matmul", Contents(Op.ins)))
    <3>1. Contents(Op.ins) = Meaning(Op.ins)
      BY <1>2, <1>3, <1>4, <2>6, ContentsMean
    <3>2. NewValue(t, OpTerm)
      BY <2>6, <3>1 DEF OpTerm
    <3> QED
      BY <1>1, <2>1, <2>2, <3>2, NewValueMeant
  <2>7. CASE Op.k = "matmul" /\ InPlace(t)
    BY <1>1, <1>3, <1>4, <2>1, <2>7, InPlaceMeant
  <2>8. CASE /\ Op.k = "reshape" /\ Unwritten(NoBuffer) /\ t \in 1 .. Len(core'.tiles)
             /\ core'.tiles[t] = core.tiles[Lookup(core, Op.ins[1])]
    BY <1>1, <1>3, <1>4, <2>1, <2>8, ReshapeMeant
  <2>9. CASE /\ Op.k = "receive" /\ status = "parked" /\ t = Newest(core)
             /\ core'.tiles = core.tiles /\ core'.bufs = core.bufs
    BY <1>1, <2>1, <2>9, ResumeMeant
  <2> QED
    BY <2>1, <2>3, <2>4, <2>5, <2>6, <2>7, <2>8, <2>9 DEF OpValue
<1>6. CASE SkipRan /\ OpChain(<<>>) /\ core'.tiles = core.tiles /\ core'.bufs = core.bufs
  <2>1. Unwritten(NoBuffer)
    BY <1>6 DEF Unwritten
  <2>2. Writes = {}
    <3>1. Op.k = "if" /\ Op.res = <<>>
      BY <1>6 DEF SkipRan
    <3>2. \A n : n \notin Range(Op.res)
      BY <1>2, <3>1, EmptyIsSeq, RangeIs DEF RowsAre
    <3> QED
      BY <3>1, <3>2 DEF Writes
  <2>3. KeepsSeen
    BY <1>2, <2>1, UnwrittenKeeps
  <2>4. NewMeant(N, Writes)
    BY <2>2 DEF NewMeant, IsNew
  <2> QED
    BY <1>1, <2>3, <2>4, OpMeantBy
<1> QED
  BY <1>5, <1>6, OpChains

LEMMA InitMeant == ASSUME Init PROVE MeantInv
<1>1. prog \in Kernels /\ status = "running" /\ core.scopes = <<EmptyScope>>
  BY DEF Init
<1> DEFINE f == Region("func", "main", 1, EmptyEnv)
<1>2. frames = <<f>>
  BY DEF Init
<1>3. f.blk = "main" /\ f.pc = 1 /\ f.vals = <<>>
  BY DEF Region
<1> HIDE DEF f
<1>4. Len(frames) = 1 /\ frames[1] = f
  BY <1>2, OneValue
<1>5. Len(core.scopes) = 1 /\ core.scopes[1] = EmptyScope /\ DOMAIN core.scopes[1] = {}
  BY <1>1, OneValue DEF EmptyScope
<1>6. (\A d \in 1 .. 1 : d = 1) /\ (\A d \in 2 .. 1 : FALSE) /\ (\A d \in 1 .. 0 : FALSE)
  OBVIOUS
<1>7. \A d, n, e : ~Sees(core, frames, status, d, n, e)
  <2> SUFFICES ASSUME NEW d, NEW n, NEW e, Sees(core, frames, status, d, n, e) PROVE FALSE
    OBVIOUS
  <2>1. d \in 1 .. 1 /\ e \in 1 .. d /\ n \in DOMAIN core.scopes[e]
    BY <1>4 DEF Sees, AtOp, IsAt
  <2>2. e = 1
    BY <2>1
  <2> QED
    BY <1>5, <2>1, <2>2
<1>8. SightsOK(core, frames, status)
  <2>1. MeaningOK(core, frames, status) /\ Apart(core, frames, status)
    BY <1>7 DEF MeaningOK, Apart
  <2>2. EnvLink(frames) /\ LastingIn(core, frames)
    BY <1>4, <1>5, <1>6 DEF EnvLink, LastingIn
  <2>3. OwnBound(core, frames, status, 1)
    BY <1>3, <1>4, <1>6 DEF OwnBound
  <2> QED
    BY <1>4, <1>6, <2>1, <2>2, <2>3 DEF SightsOK, BindsOK
<1>9. ValuesOK(core, frames, status)
  <2>1. Len(frames[1].vals) = 0
    BY <1>3, <1>4, EmptyIsSeq
  <2> QED
    BY <1>4, <2>1, NoValuesOK
<1>10. ParkOK /\ LitsBound(core)
  BY <1>1, <1>5, <1>6 DEF ParkOK, LitsBound
<1> QED
  BY <1>8, <1>9, <1>10 DEF MeantInv

LEMMA StepKeepsMeant ==
    ASSUME TypeInv, OperandsInv, MeantInv, Safely, Step
    PROVE  MeantInv'
<1>1. CASE FetchError \/ InitError \/ OutsError
  BY <1>1 DEF FetchError, InitError, OutsError, Raise, MeantInv, Goes
<1>2. CASE ReturnStep
  BY <1>2 DEF ReturnStep, MeantInv, Goes
<1> QED
  BY <1>1, <1>2, OpMeant, ParkMeant, YieldMeant, LoopMeant, BranchMeant, IterateMeant, EndMeant,
     LeaveMeant DEF Step

LEMMA MeantInvHolds ==
    ASSUME \A p \in Kernels : ConsumesSafely(p) /\ AccumulatesSafely(p)
    PROVE  Spec => [](TypeInv /\ OperandsInv /\ MeantInv)
<1>1. TypeInv /\ OperandsInv /\ MeantInv /\ [Next]_vars => MeantInv'
  <2> SUFFICES ASSUME TypeInv, OperandsInv, MeantInv, [Next]_vars PROVE MeantInv'
    OBVIOUS
  <2>1. CASE Next
    <3>1. Step /\ UNCHANGED <<prog, usedOnce>>
      BY <2>1, NextCases
    <3>2. Safely
      BY <3>1 DEF TypeInv, Safely
    <3> QED
      BY <3>1, <3>2, StepKeepsMeant
  <2>2. CASE UNCHANGED vars
    <3>1. UNCHANGED <<prog, usedOnce, core, frames, status>>
      BY <2>2 DEF vars
    <3>2. ASSUME Goes' PROVE MeantInv'
      <4>1. /\ SightsOK(core, frames, status) /\ ValuesOK(core, frames, status) /\ ParkOK
            /\ LitsBound(core)
        BY <3>1, <3>2 DEF MeantInv, Goes
      <4>2. SightsOK(core', frames', status') /\ ValuesOK(core', frames', status') /\ LitsBound(core')
        BY <3>1, <4>1
      <4>3. ParkOK'
        <5>1. ASSUME status' = "parked" PROVE Sole(core, frames, status, Newest(core))'
          <6>1. Sole(core, frames, status, Newest(core))
            BY <3>1, <4>1, <5>1 DEF ParkOK
          <6> QED
            BY <3>1, <6>1, SoleNext DEF Newest
        <5> QED
          BY <3>1, <4>1, <5>1, Zenon DEF ParkOK, Holds, Newest, Meaning, Op, Frame
      <4> QED
        BY <3>1, <4>2, <4>3, MeantNext
    <3> QED
      BY <3>2 DEF MeantInv
  <2> QED
    BY <2>1, <2>2
<1>2. Spec => [](TypeInv /\ OperandsInv)
  BY OperandsInvHolds
<1> QED
  BY <1>1, <1>2, InitMeant, PTL DEF Spec

(***************************************************************************)
(* THEOREM: in kernels that accumulate into literals or into names of the  *)
(* op's own block with no other use and no other name, and whose regions   *)
(* yield tiles of their own or lasting literals, each operand an op is     *)
(* about to fetch holds the value that MLIR gives to its name, whatever    *)
(* was accumulated in place, copied, reshaped, carried round loops,        *)
(* consumed or bound again, for any bounds and branches taken.             *)
(***************************************************************************)
THEOREM OperandsKeepTheirMeaning ==
    ASSUME \A p \in Kernels : ConsumesSafely(p) /\ AccumulatesSafely(p)
    PROVE  Spec => []OperandsMeanTheirNames
<1>1. TypeInv /\ OperandsInv /\ MeantInv => OperandsMeanTheirNames
  <2> SUFFICES ASSUME TypeInv, OperandsInv, MeantInv, status = "running",
                      Frame.pc \in DOMAIN prog[Frame.blk],
                      NEW n \in Range(Op.ins \o Op.outs)
               PROVE  Holds(core, Lookup(core, n)) = Frame.env[n]
    BY DEF OperandsMeanTheirNames
  <2>1. Here
    BY HereIs
  <2>2. ConsumesSafely(prog) /\ MeaningOK(core, frames, status)
    BY DEF TypeInv, MeantInv, Goes, SightsOK
  <2>3. n \in Range(Op.ins) \cup Range(Op.outs)
    BY <2>1, RangeOfConcat DEF Here, RowsAre
  <2> QED
    BY <2>1, <2>2, <2>3, OperandMeans
<1>2. Spec => [](TypeInv /\ OperandsInv /\ MeantInv)
  BY MeantInvHolds
<1> QED
  BY <1>1, <1>2, PTL
=============================================================================
