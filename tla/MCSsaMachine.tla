---------------------------- MODULE MCSsaMachine ----------------------------
(***************************************************************************)
(* Small kernels for SsaMachine: a literal "c", a loaded tile "t" and one  *)
(* read at most in the loop, "w"; a loop with two iter_args, two ops in    *)
(* its body and one after it.  Some bodies contain a branch or a loop.     *)
(***************************************************************************)
EXTENDS SsaMachine

Do(k, res, ins, outs, args, blks) ==
    [k |-> k, res |-> res, ins |-> ins, outs |-> outs, args |-> args, blks |-> blks]
Plain(k, res, ins) == Do(k, <<res>>, ins, <<>>, <<>>, <<>>)
Const(r) == Plain("constant", r, <<>>)
Load(r) == Plain("compute", r, <<>>)
Ends(k, ins) == Do(k, <<>>, ins, <<>>, <<>>, <<>>)
LoopOp(res, inits, args, blk) == Do("for", res, inits, <<>>, args, <<blk>>)

(* The ops that may define r from the names in scope. *)
Ops(r, names) ==
    {Plain("compute", r, <<x, "t">>) : x \in names}
    \cup {Plain("reshape", r, <<x>>) : x \in names}
    \cup {Plain("receive", r, <<x>>) : x \in names}
    \cup {Plain("matmul", r, <<"t", x>>) : x \in names}
    \cup {Do("reduce", <<r>>, <<"t">>, <<x>>, <<>>, <<>>) : x \in names}

Branches(r) == {Do("if", <<r>>, <<>>, <<>>, <<>>, <<"then", els>>) : els \in {"else"}}
Guard == Do("if", <<>>, <<>>, <<>>, <<>>, <<"guarded", "none">>)
Nested(r, names) ==
    {IF r = "p" THEN LoopOp(<<r>>, <<x>>, <<"e">>, "inner")
     ELSE LoopOp(<<r>>, <<x>>, <<"f">>, "inner2") : x \in names}

Blocks(init, first, second, yields, after) ==
    [main |-> <<Const("c"), Load("t"), Load("w"), LoopOp(<<"r", "s">>, init, <<"a", "b">>, "body"),
                after, Ends("return", <<"v">>)>>,
     body |-> <<first, second, Ends("yield", yields)>>,
     then |-> <<Plain("matmul", "m", <<"t", "c">>), Ends("yield", <<"m">>)>>,
     else |-> <<Plain("compute", "n", <<"a">>), Ends("yield", <<"n">>)>>,
     guarded |-> <<Plain("receive", "g", <<"b">>)>>,
     inner |-> <<Plain("matmul", "h", <<"t", "e">>), Ends("yield", <<"h">>)>>,
     inner2 |-> <<Plain("matmul", "k", <<"t", "f">>), Ends("yield", <<"k">>)>>]

(* The blocks the kernel reaches. *)
Reached(p) ==
    LET inner(bs) == bs \cup UNION {UNION {Range(p[b][i].blks) : i \in DOMAIN p[b]} : b \in bs}
    IN  inner(inner({"main"})) \ {"none"}
Trimmed(p) == [b \in Reached(p) |-> p[b]]

(* The kernels for which in-place ops stay invisible: the accumulator of a *)
(* matmul is a literal or a name with no other use that was not made by    *)
(* aliasing; a region yields distinct tiles of its own, its iter_args or   *)
(* literals; the init of a reduce is not used exactly once elsewhere.      *)
Defs(p, ks) ==
    UNION {UNION {Range(p[b][i].res) : i \in {i \in DOMAIN p[b] : p[b][i].k \in ks}} :
               b \in DOMAIN p}
OwnIterArgs(p, b) ==
    UNION {UNION {Range(p[d][i].args) : i \in {i \in DOMAIN p[d] : p[d][i].blks = <<b>>}} :
               d \in DOMAIN p}
Disciplined(p) ==
    \A b \in DOMAIN p : \A i \in DOMAIN p[b] :
        LET op == p[b][i] IN
        /\ op.k = "matmul" =>
               \/ op.ins[2] = "c"
               \/ UseCount(p, op.ins[2]) = 1 /\ op.ins[2] \notin Defs(p, {"reshape", "reduce"})
        /\ op.k = "reduce" => UseCount(p, op.outs[1]) # 1
        /\ op.k = "yield" =>
               /\ IsInjective(op.ins)
               /\ Range(op.ins) \subseteq
                      {"c"} \cup OwnIterArgs(p, b)
                      \cup (UNION {Range(p[b][j].res) : j \in DOMAIN p[b]}
                            \ Defs(p, {"reshape", "reduce"}))

Yields == {<<x, y>> \in {"a", "b", "c", "p", "q"} \X {"a", "b", "p", "q"} : x # y}
Bodies ==
    {<<f, s, y>> \in
        (Ops("p", {"a", "b", "c"}) \cup Branches("p") \cup Nested("p", {"a", "c"})
            \cup {Plain("compute", "p", <<"w", "i">>)})
        \X (Ops("q", {"a", "p"}) \cup {Guard} \cup Nested("q", {"p"})
            \cup {Plain("compute", "q", <<"p", "p">>)})
        \X Yields : s = Guard => "q" \notin Range(y)}

After(body) ==
    IF body[3][1] = "a" THEN Plain("matmul", "v", <<"t", "r">>)
    ELSE Plain("compute", "v", <<"r", "s">>)
KernelOf(body) == Trimmed(Blocks(<<"t", "c">>, body[1], body[2], body[3], After(body)))

(* They avoid what SsaMachine says kernels must avoid. *)
Safe(p) ==
    /\ ConsumesSafely(p)
    /\ AccumulatesSafely(p)
    /\ KeepsLiterals(p, UNION {DefinedIn(p, b) : b \in DOMAIN p}, Defs(p, {"reshape"}))

MCKernels == {p \in {KernelOf(body) : body \in Bodies} : Disciplined(p)}
ASSUME MCKernelsAssumption == \A p \in MCKernels : Safe(p)

(* A literal seen through a reshape. *)
MCReshaped ==
    {KernelOf(body) : body \in {x \in Bodies : x[1].k = "reshape" /\ x[1].ins = <<"c">>}}
MCSteps == {0, 1, 2}
=============================================================================
