----------------------------- MODULE SsaMachine -----------------------------
(***************************************************************************)
(* One core of the interpreter at work on a structured kernel: the op      *)
(* loop, the regions of scf.for and scf.if, the binding of results in the  *)
(* core's scopes and the fetches that consume a name at its last use.      *)
(*                                                                         *)
(* A Tile is an object (its id) over a NumPy buffer; a reshape makes a new *)
(* object over the old buffer, and an in-place accumulation changes the    *)
(* buffer.  What a buffer holds is the term that computed it.  Beside the  *)
(* machine runs the meaning of the kernel, as MLIR gives it: the `env` of  *)
(* a region maps its names to the terms they stand for, and no op changes  *)
(* the term of another name, except that linalg.reduce rebinds its outs.   *)
(***************************************************************************)
EXTENDS SsaKernels

CONSTANTS
    Kernels,    \* the kernels considered
    MaxTrip,    \* bound on the upper bound of a loop, whose lower bound is 0
    LoopSteps   \* the step operands considered

ASSUME BoundsAssumption == MaxTrip \in Nat /\ LoopSteps \subseteq Int
ASSUME KernelsAssumption == \A p \in Kernels : WellFormed(p)

VARIABLES
    prog,       \* the kernel
    usedOnce,   \* the names func.use_counts maps to 1
    core,       \* scopes, uncharged tiles, tiles (id -> buffer), buffers
    frames,     \* the regions being executed, the innermost last
    status      \* "running", "parked" at a receive, "done", or the exception

vars == <<prog, usedOnce, core, frames, status>>

Scalar == 0
Term(f, of) == [f |-> f, of |-> of]
ScalarTerm == Term("scalar", <<>>)

Frame == frames[Len(frames)]
Op == prog[Frame.blk][Frame.pc]
Ready(k) ==
    /\ status = "running"
    /\ Frame.pc \in DOMAIN prog[Frame.blk]
    /\ Op.k = k

(***************************************************************************)
(* The core's context.                                                     *)
(***************************************************************************)
(* A faulty count that counts a name once for each op. *)
UseCount_PerOp(p, n) ==
    Cardinality(UNION {{<<b, i>> : i \in {i \in DOMAIN p[b] : n \in Range(p[b][i].ins)}} :
                           b \in DOMAIN p})

(* build_use_counts: the operands of all ops in all regions, by name. *)
UseCount(p, n) ==
    Cardinality(UNION {UNION {{<<b, i, j>> : j \in {j \in DOMAIN p[b][i].ins : p[b][i].ins[j] = n}} :
                                  i \in DOMAIN p[b]} :
                           b \in DOMAIN p})

Operands(p) == UNION {UNION {Range(p[b][i].ins) : i \in DOMAIN p[b]} : b \in DOMAIN p}

Depths(c, n) == {d \in DOMAIN c.scopes : n \in DOMAIN c.scopes[d]}
Visible(c, n) == Depths(c, n) # {}
Where(c, n) == Max(Depths(c, n))
Lookup(c, n) == c.scopes[Where(c, n)][n]
Holds(c, v) == IF v = Scalar THEN ScalarTerm ELSE c.bufs[c.tiles[v]]

BoundTiles(scopes) ==
    (UNION {Range(scopes[d]) : d \in DOMAIN scopes}) \ {Scalar}

(* A tile that no name is bound to any more leaves _uncharged_tiles. *)
WithScopes(c, scopes) ==
    [c EXCEPT !.scopes = scopes, !.uncharged = @ \cap BoundTiles(scopes)]

WithTop(c, scope) == WithScopes(c, [c.scopes EXCEPT ![Len(c.scopes)] = scope])
Without(scope, names) == [n \in DOMAIN scope \ names |-> scope[n]]
Over(f, g) == [n \in DOMAIN f \cup DOMAIN g |-> IF n \in DOMAIN f THEN f[n] ELSE g[n]]
Assign(names, vals) == [n \in Range(names) |-> vals[CHOOSE i \in DOMAIN names : names[i] = n]]

(* A faulty get_value that consumes names of outer scopes too. *)
Fetched_AnyScope(c, names) ==
    WithScopes(c, [d \in DOMAIN c.scopes |->
        Without(c.scopes[d], {n \in Range(names) \cap usedOnce :
                                  n \in DOMAIN c.scopes[d] /\ c.scopes[d][n] # Scalar})])

(* get_value of each name: a last use in the topmost scope unbinds a tile. *)
Fetched(c, names) ==
    WithTop(c, Without(Last(c.scopes),
        {n \in Range(names) \cap usedOnce :
             n \in DOMAIN Last(c.scopes) /\ Last(c.scopes)[n] # Scalar}))

(* One of them raises KeyError. *)
FetchFails(c, names) ==
    \E i \in DOMAIN names : ~Visible(Fetched(c, SubSeq(names, 1, i - 1)), names[i])

(* set_value of each name in turn.  The old binding is released before the *)
(* new one is made: a literal that is unbound for a moment, here by the    *)
(* i-th name, is a literal no more.                                        *)
Bound(c, names, vals, charge) ==
    LET top == Last(c.scopes)
        outer == Front(c.scopes)
        n == Min({Len(names), Len(vals)})
        heldAt(i) == BoundTiles(Append(outer, Without(top, Range(SubSeq(names, 1, i)))))
                     \cup Range(SubSeq(vals, 1, i - 1))
        given == Assign(SubSeq(names, 1, n), vals)
    IN  [c EXCEPT !.scopes = Append(outer, Over(given, top)),
                  !.uncharged = {t \in @ : \A i \in 1..n : t \in heldAt(i)}
                                \cup IF charge THEN {} ELSE Range(vals) \ {Scalar}]

EmptyScope == [n \in {} |-> Scalar]
Pushed(c) == [c EXCEPT !.scopes = Append(@, EmptyScope)]
Popped(c) == WithScopes(c, Front(c.scopes))

(* A tile over a buffer of its own, and one over the buffer of another. *)
Made(c, term) ==
    [c EXCEPT !.tiles = Append(@, Len(c.bufs) + 1), !.bufs = Append(@, term)]
Viewed(c, v) == [c EXCEPT !.tiles = Append(@, c.tiles[v])]
Newest(c) == Len(c.tiles)

(* The meaning of names: their terms in the region's environment. *)
Meaning(names) == [i \in DOMAIN names |-> Frame.env[names[i]]]
WithMeaning(names, terms) == Over(Assign(names, terms), Frame.env)

EmptyEnv == [n \in {} |-> ScalarTerm]
Region(k, blk, pc, env) ==
    [k |-> k, blk |-> blk, pc |-> pc, env |-> env, vals |-> <<>>, terms |-> <<>>,
     at |-> 0, to |-> 0, by |-> 0, live |-> 0, outer |-> env]

Init ==
    /\ prog \in Kernels
    /\ usedOnce = {n \in Operands(prog) : UseCount(prog, n) = 1}
    /\ core = [scopes |-> <<EmptyScope>>, uncharged |-> {}, tiles |-> <<>>, bufs |-> <<>>]
    /\ frames = <<Region("func", "main", 1, EmptyEnv)>>
    /\ status = "running"

(***************************************************************************)
(* Ops.                                                                    *)
(***************************************************************************)
Contents(names) == [i \in DOMAIN names |-> Holds(core, Lookup(core, names[i]))]
Raise(exception) ==
    /\ status' = exception
    /\ UNCHANGED <<core, frames>>

(* The results are bound in the present scope and the op loop goes on. *)
Finish(c, fs, vals, env) ==
    /\ \E d \in {c} : core' = Bound(d, Op.res, vals, Op.k # "constant")
    /\ frames' = [fs EXCEPT ![Len(fs)].pc = @ + 1, ![Len(fs)].env = env]
    /\ status' = "running"

(* arith.constant: a literal, bound without charge. *)
Constant ==
    /\ Ready("constant")
    /\ LET literal == Term(Op.res[1], <<>>)
           c == Made(core, literal)
       IN  Finish(c, frames, <<Newest(c)>>, WithMeaning(Op.res, <<literal>>))
    /\ UNCHANGED <<prog, usedOnce>>

(* An op that computes a new array from its operands, a load included. *)
Compute ==
    /\ Ready("compute")
    /\ IF FetchFails(core, Op.ins) THEN Raise("KeyError")
       ELSE LET c == Made(Fetched(core, Op.ins), Term(Op.res[1], Contents(Op.ins)))
            IN  Finish(c, frames, <<Newest(c)>>,
                       WithMeaning(Op.res, <<Term(Op.res[1], Meaning(Op.ins))>>))
    /\ UNCHANGED <<prog, usedOnce>>

(* tensor.expand_shape, collapse_shape and reshape: a view of the array. *)
Reshape ==
    /\ Ready("reshape")
    /\ IF FetchFails(core, Op.ins) THEN Raise("KeyError")
       ELSE LET c == Viewed(Fetched(core, Op.ins), Lookup(core, Op.ins[1]))
            IN  Finish(c, frames, <<Newest(c)>>, WithMeaning(Op.res, Meaning(Op.ins)))
    /\ UNCHANGED <<prog, usedOnce>>

(* A faulty accumulation that writes into a literal. *)
Accumulator_Shares(c, acc) == [core |-> c, tile |-> acc]

(* _accumulate_inplace copies an accumulator that is a literal. *)
Accumulator(c, acc) ==
    IF acc \in c.uncharged
    THEN LET d == Made(c, Holds(c, acc)) IN [core |-> d, tile |-> Newest(d)]
    ELSE [core |-> c, tile |-> acc]

(* _execute_op asserts that an in-place op returned its outs tile. *)
OutsReplaced(c, n, v) ==
    Visible(c, n) /\ Lookup(c, n) \notin c.uncharged \cup {Scalar, v}

(* linalg.matmul and batch_matmul with operands a, acc: acc += a. *)
Matmul ==
    /\ Ready("matmul")
    /\ IF FetchFails(core, Op.ins) THEN Raise("KeyError")
       ELSE LET into == Accumulator(Fetched(core, Op.ins), Lookup(core, Op.ins[2]))
                sum == Term("matmul", Contents(Op.ins))
                c == [into.core EXCEPT !.bufs[into.core.tiles[into.tile]] = sum]
            IN  IF OutsReplaced(c, Op.ins[2], into.tile) THEN Raise("AssertionError")
                ELSE Finish(c, frames, <<into.tile>>,
                            WithMeaning(Op.res, <<Term("matmul", Meaning(Op.ins))>>))
    /\ UNCHANGED <<prog, usedOnce>>

(* linalg.reduce: the result is bound to the outs name as well.  The scope *)
(* the combiner runs in opens and closes within the op.                    *)
Reduce ==
    /\ Ready("reduce")
    /\ LET names == Op.ins \o Op.outs
       IN  IF FetchFails(core, names) THEN Raise("KeyError")
           ELSE LET c == Made(Fetched(core, names), Term("reduce", Contents(names)))
                    t == Term("reduce", Meaning(names))
                IN  Finish(Bound(c, Op.outs, <<Newest(c)>>, TRUE), frames, <<Newest(c)>>,
                           WithMeaning(Op.res \o Op.outs, <<t, t>>))
    /\ UNCHANGED <<prog, usedOnce>>

(* A communication op: its generator fetches, then yields to the scheduler. *)
Park ==
    /\ Ready("receive")
    /\ IF FetchFails(core, Op.ins) THEN Raise("KeyError")
       ELSE /\ core' = Made(Fetched(core, Op.ins), Term(Op.res[1], Contents(Op.ins)))
            /\ status' = "parked"
            /\ UNCHANGED frames
    /\ UNCHANGED <<prog, usedOnce>>

(* The generator returns: _store, or the region loop, binds the result. *)
Resume ==
    /\ status = "parked"
    /\ Finish(core, frames, <<Newest(core)>>,
              WithMeaning(Op.res, <<Term(Op.res[1], Meaning(Op.ins))>>))
    /\ UNCHANGED <<prog, usedOnce>>

(***************************************************************************)
(* Regions.                                                                *)
(***************************************************************************)
Live(c) == Cardinality(BoundTiles(c.scopes) \ c.uncharged)
Parent == frames[Len(frames) - 1]
Owner == prog[Parent.blk][Parent.pc]
AtHead == status = "running" /\ Frame.k = "for" /\ Frame.pc = 0
AtEnd(k) == status = "running" /\ Frame.k = k /\ Frame.pc = Len(prog[Frame.blk]) + 1

(* A faulty initialisation that hands the loop the tiles themselves. *)
IterInits_Shared(names) ==
    [core |-> core, vals |-> [i \in DOMAIN names |-> Lookup(core, names[i])]]

(* _materialize_iter_inits: the loop gets copies; the names are peeked at. *)
IterInits(names) ==
    [core |-> [core EXCEPT !.tiles = @ \o [i \in DOMAIN names |-> Len(core.bufs) + i],
                           !.bufs = @ \o Contents(names)],
     vals |-> [i \in DOMAIN names |-> Newest(core) + i]]

(* range(lb, ub, max(step, 1)) *)
Stride(step) == Max({step, 1})

(* scf.for up to the head of the loop: iter_args go to the parent's scope. *)
EnterFor(to, step) ==
    /\ Ready("for")
    /\ IF \E n \in Range(Op.ins) : ~Visible(core, n) THEN Raise("KeyError")
       ELSE LET inits == IterInits(Op.ins)
                c == Bound(inits.core, Op.args, inits.vals, TRUE)
            IN  /\ core' = c
                /\ frames' = Append(frames,
                       [Region("for", Op.blks[1], 0, Frame.env) EXCEPT
                           !.vals = inits.vals, !.terms = Meaning(Op.ins),
                           !.to = to, !.by = Stride(step), !.live = Live(c)])
                /\ UNCHANGED status
    /\ UNCHANGED <<prog, usedOnce>>

(* The next iteration: a scope for the body, with the loop variable. *)
Iterate ==
    /\ AtHead /\ Frame.at < Frame.to
    /\ core' = Bound(Pushed(core), <<"i">>, <<Scalar>>, TRUE)
    /\ frames' = [frames EXCEPT ![Len(frames)].pc = 1,
                      ![Len(frames)].env = Over(Assign(Owner.args, Frame.terms),
                                                Over(Assign(<<"i">>, <<ScalarTerm>>), Frame.outer))]
    /\ UNCHANGED <<prog, usedOnce, status>>

(* A faulty loop that binds the yielded values before it pops the scope. *)
Rebound_BeforePop(c) == Popped(Bound(c, Owner.args, Frame.vals, TRUE))

(* A faulty loop that leaves the scope of each iteration open. *)
Rebound_KeepsScope(c) == Bound(c, Owner.args, Frame.vals, TRUE)

(* pop_scope, then _for_op_rebind in the parent's scope. *)
Rebound(c) == Bound(Popped(c), Owner.args, Frame.vals, TRUE)

EndIteration ==
    /\ AtEnd("for")
    /\ core' = Rebound(core)
    /\ frames' = [frames EXCEPT ![Len(frames)].pc = 0, ![Len(frames)].at = @ + Frame.by]
    /\ UNCHANGED <<prog, usedOnce, status>>

(* The region's owner takes the values over and the parent goes on. *)
Leave(c) ==
    /\ core' = Bound(c, Owner.res, Frame.vals, TRUE)
    /\ frames' = [Front(frames) EXCEPT
                      ![Len(frames) - 1].pc = @ + 1,
                      ![Len(frames) - 1].env = Over(Assign(Owner.res, Frame.terms), @)]
    /\ UNCHANGED <<prog, usedOnce, status>>

ExitFor == AtHead /\ Frame.at >= Frame.to /\ Leave(core)

(* scf.if: the condition is any value; a branch without ops binds nothing. *)
EnterIf(branch) ==
    /\ Ready("if")
    /\ IF Op.blks[branch] = "none" THEN Finish(core, frames, <<>>, Frame.env)
       ELSE /\ core' = Pushed(core)
            /\ frames' = Append(frames, Region("if", Op.blks[branch], 1, Frame.env))
            /\ UNCHANGED status
    /\ UNCHANGED <<prog, usedOnce>>

(* A faulty branch that leaves its scope open. *)
ExitIf_KeepsScope == AtEnd("if") /\ Leave(core)

ExitIf == AtEnd("if") /\ Leave(Popped(core))

(* scf.yield *)
Yield ==
    /\ Ready("yield")
    /\ IF FetchFails(core, Op.ins) THEN Raise("KeyError")
       ELSE /\ core' = Fetched(core, Op.ins)
            /\ frames' = [frames EXCEPT
                              ![Len(frames)].pc = @ + 1,
                              ![Len(frames)].vals =
                                  [j \in DOMAIN Op.ins |-> Lookup(core, Op.ins[j])],
                              ![Len(frames)].terms = Meaning(Op.ins)]
            /\ UNCHANGED status
    /\ UNCHANGED <<prog, usedOnce>>

(* func.return *)
Return ==
    /\ Ready("return")
    /\ IF FetchFails(core, Op.ins) THEN Raise("KeyError")
       ELSE /\ core' = Fetched(core, Op.ins)
            /\ status' = "done"
            /\ UNCHANGED frames
    /\ UNCHANGED <<prog, usedOnce>>

Next ==
    \/ Constant \/ Compute \/ Reshape \/ Matmul \/ Reduce \/ Park \/ Resume
    \/ \E to \in 0..MaxTrip, step \in LoopSteps : EnterFor(to, step)
    \/ Iterate \/ EndIteration \/ ExitFor
    \/ \E branch \in 1..2 : EnterIf(branch)
    \/ ExitIf \/ Yield \/ Return

Spec == Init /\ [][Next]_vars

(***************************************************************************)
(* What kernels must avoid beyond what MLIR guarantees.                    *)
(***************************************************************************)
DefinedIn(p, b) == UNION {Range(p[b][i].res) \cup Range(p[b][i].args) : i \in DOMAIN p[b]}

(* linalg.reduce fetches its init through an attribute, which is no use:   *)
(* the init is not used exactly once elsewhere.  A name used exactly once  *)
(* is defined in one block only.                                           *)
ConsumesSafely(p) ==
    /\ \A b \in DOMAIN p : \A i \in DOMAIN p[b] :
          p[b][i].k = "reduce" => UseCount(p, p[b][i].outs[1]) # 1
    /\ \A b, c \in DOMAIN p : \A n \in DefinedIn(p, b) \cap DefinedIn(p, c) :
          UseCount(p, n) = 1 => b = c

(* The names a region's op gives to value j that the region yields. *)
Receivers(op, j) == {op.res[j]} \cup IF op.k = "for" THEN {op.args[j]} ELSE {}

(* With L the names that may stand for a literal and V those that may      *)
(* stand for a reshape of one: nothing accumulates into the latter.        *)
KeepsLiterals(p, L, V) ==
    \A b \in DOMAIN p : \A i \in DOMAIN p[b] :
        LET op == p[b][i] IN
        /\ op.k = "constant" => op.res[1] \in L
        /\ op.k = "reshape" /\ op.ins[1] \in L \cup V => op.res[1] \in V
        /\ op.k = "matmul" => op.ins[2] \notin V
        /\ \A d \in Regions(op) : \A y \in DOMAIN p[d] : \A j \in DOMAIN p[d][y].ins :
              p[d][y].k = "yield" =>
                  \A S \in {L, V} : p[d][y].ins[j] \in S => Receivers(op, j) \subseteq S

(* The names that only constants define, and that are used more than once; *)
(* those of main outlive every region.                                     *)
OnlyConstant(p, n) ==
    /\ UseCount(p, n) # 1
    /\ \A b \in DOMAIN p : \A i \in DOMAIN p[b] :
          /\ n \notin Range(p[b][i].args \o p[b][i].outs)
          /\ n \in Range(p[b][i].res) => p[b][i].k = "constant"
Literals(p, b) == {n \in UNION {Range(p[b][i].res) : i \in DOMAIN p[b]} : OnlyConstant(p, n)}
Lasting(p) == Literals(p, "main") \ UNION {DefinedIn(p, b) : b \in DOMAIN p \ {"main"}}

(* The names whose tile is another's, and those that are bound anew each   *)
(* time block b is executed.                                               *)
Shares(p, b, i) == p[b][i].k \in {"reshape", "reduce"}
Aliases(p) == UNION {UNION {Range(p[b][i].res) : i \in {i \in DOMAIN p[b] : Shares(p, b, i)}} :
                         b \in DOMAIN p}
OwnArgs(p, b) ==
    UNION {UNION {Range(p[d][i].args) : i \in {i \in DOMAIN p[d] : b \in Regions(p[d][i])}} :
               d \in DOMAIN p}
Own(p, b) ==
    OwnArgs(p, b) \cup UNION {Range(p[b][i].res) \cup Range(p[b][i].outs) : i \in DOMAIN p[b]}

(* An op accumulates into a literal, or into a name of its own block with  *)
(* no other use and no alias; a region yields different tiles of its own,  *)
(* or lasting literals; and, as MLIR has it, nothing in scope is redefined.*)
AccumulatesSafely(p) ==
    \A b \in DOMAIN p : \A i \in DOMAIN p[b] :
        LET op == p[b][i] IN
        /\ (Range(op.res) \cup Binds(op)) \cap InScope(p, b, i) \subseteq {"i"}
        /\ op.k = "matmul" =>
              \/ \E d \in DOMAIN p : op.ins[2] \in Literals(p, d)
              \/ UseCount(p, op.ins[2]) = 1 /\ op.ins[2] \in Own(p, b) \ Aliases(p)
        /\ op.k = "yield" => /\ IsInjective(op.ins)
                             /\ Range(op.ins) \subseteq Lasting(p) \cup (Own(p, b) \ Aliases(p))

(***************************************************************************)
(* Properties.                                                             *)
(***************************************************************************)
(* Scopes and the regions being executed correspond, and tiles exist. *)
TypeOK ==
    /\ status \in {"running", "parked", "done", "KeyError", "AssertionError"}
    /\ core.uncharged \subseteq BoundTiles(core.scopes)
    /\ BoundTiles(core.scopes) \subseteq DOMAIN core.tiles
    /\ Range(core.tiles) \subseteq DOMAIN core.bufs
    /\ Len(core.scopes) = Cardinality({d \in DOMAIN frames : frames[d].pc # 0})

(* Consuming a tile at its last use never takes away what a later op, a    *)
(* later iteration or another branch fetches: no get_value raises, and no  *)
(* in-place op trips the assertion of _execute_op.                         *)
OperandsAreThere == status \notin {"KeyError", "AssertionError"}

(* Whatever was accumulated in place, copied, aliased, reshaped, carried   *)
(* round loops or bound again, each operand an op is about to fetch holds  *)
(* the value MLIR gives to its name.                                       *)
OperandsMeanTheirNames ==
    (status = "running" /\ Frame.pc \in DOMAIN prog[Frame.blk]) =>
        \A n \in Range(Op.ins \o Op.outs) :
            Visible(core, n) => Holds(core, Lookup(core, n)) = Frame.env[n]

(* At the head of a loop no more tiles are charged than when it started:   *)
(* an iteration leaves no body-local tile behind.                          *)
LoopsDoNotLeak == AtHead => Live(core) <= Frame.live

(* A literal is what its constant says as long as its name is bound:       *)
(* linalg_ops.py:307-317 copies it "so the shared literal is never         *)
(* mutated".                                                               *)
LiteralsNeverChange ==
    \A v \in core.uncharged : Holds(core, v).of = <<>>
=============================================================================
