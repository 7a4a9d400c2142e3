---------------------------- MODULE MCKtirParser ----------------------------
(***************************************************************************)
(* Texts for KtirParser: modules put together from statements written the  *)
(* way the examples write them, each with the ops it stands for.  A        *)
(* statement is [lines, ops, open]; one that is open ends without a type,  *)
(* and the next one must follow a blank line or assign a result, which is  *)
(* the documented condition of the parser (parser.py:417-423).             *)
(***************************************************************************)
EXTENDS KtirParser

Tok(t) == [t |-> t, n |-> <<>>, v |-> ""]
N(x) == <<x>>
Named(xs) == <<>> \o [i \in DOMAIN xs |-> <<xs[i]>>]
Def(x) == [t |-> "def", n |-> <<N(x)>>, v |-> <<0>>]
Use(x) == [t |-> "use", n |-> <<N(x)>>, v |-> ""]
Nth(x, i) == [t |-> "use", n |-> <<<<x, i>>>>, v |-> ""]
Said(k) == [t |-> "op", n |-> <<>>, v |-> k]
List(t, xs) == [t |-> t, n |-> Named(xs), v |-> ""]
Bind(x, y) == [t |-> "bind", n |-> <<N(x), N(y)>>, v |-> ""]
Sizes(xs, vs) == [t |-> "sizes", n |-> Named(xs), v |-> vs]
Type(name, dims) == [t |-> "type", n |-> <<>>, v |-> [name |-> name, dims |-> dims]]
Attr(key, alias) == [t |-> "attr", n |-> <<>>, v |-> <<key, alias>>]
Set(key, set) == [t |-> "set", n |-> <<>>, v |-> <<key, set>>]
Alias(name, set) == [t |-> "alias", n |-> <<>>, v |-> <<name, set>>]
Tensor == Type("tensor", <<4>>)
Index == Type("index", <<>>)
Tile == Type("access_tile", <<4>>)
Future == Type("tile_future", <<>>)

OpOf(k, res, ins, args, attrs, regions) ==
    [k |-> k, res |-> Named(res), ins |-> Named(ins),
     args |-> Named(args), attrs |-> attrs, regions |-> regions]
Stmt(lines, op, open) == [lines |-> lines, ops |-> <<op>>, open |-> open]

(***************************************************************************)
(* Statements without regions.                                             *)
(***************************************************************************)
Add(r, x) == Stmt(<<<<Def(r), Said("arith.addf"), Use(x), Use("y"), Tok(":"), Tensor>>>>,
                  OpOf("arith.addf", <<r>>, <<x, "y">>, <<>>, {}, <<>>), FALSE)
\* a general op, whose attributes keep the name of an alias (parser.py:625)
Flagged(r) ==
    Stmt(<<<<Def(r), Said("arith.addf"), Use("x"), Use("y"), Tok("{"), Attr("fastmath", "#order"), Tok("}"),
             Tok(":"), Tensor>>>>,
         OpOf("arith.addf", <<r>>, <<"x", "y">>, <<>>, {<<"fastmath", "#order">>}, <<>>), FALSE)
\* %w = arith.negf %x : tensor  // %u = {%y}
Commented(r) ==
    Stmt(<<<<Def(r), Said("arith.negf"), Use("x"), Tok(":"), Tensor, Tok("//"), Def("u"), Tok("{"), Use("y"), Tok("}")>>>>,
         OpOf("arith.negf", <<r>>, <<"x">>, <<>>, {}, <<>>), FALSE)
Infix(r) == Stmt(<<<<Def(r), Use("i"), [t |-> "infix", n |-> <<>>, v |-> "mul"], Use("n"), Tok(":"), Index>>>>,
                 OpOf("arith.muli", <<r>>, <<"i", "n">>, <<>>, {}, <<>>), FALSE)
\* the result type on a line of its own
Load(r) == Stmt(<<<<Def(r), Said("ktdp.load"), Use("t"), Tok(":"), Tile>>, <<Tok("->"), Tensor>>>>,
                OpOf("ktdp.load", <<r>>, <<"t">>, <<>>, {}, <<>>), FALSE)
Late(r) == Stmt(<<<<Def(r), Said("ktdp.load"), Use("t")>>, <<Tok(":"), Tile, Tok("->"), Tensor>>>>,
                OpOf("ktdp.load", <<r>>, <<"t">>, <<>>, {}, <<>>), FALSE)
Store(x) == Stmt(<<<<Said("ktdp.store"), Use(x), Use("t"), Tok(":"), Tensor, Tile>>>>,
                 OpOf("ktdp.store", <<>>, <<x, "t">>, <<>>, {}, <<>>), FALSE)
\* an attribute block over several lines, with a comment in it
View(r) ==
    Stmt(<<<<Def(r), Said("ktdp.construct_memory_view"), Use("p"), Sizes(<<"n">>, <<0, 4>>),
             List("strides", <<"s">>), Tok("{"), Tok("//"), Use("rows")>>,
           <<Attr("coordinate_set", "#all"), Tok("//"), Def("rows"), Tok("{"), Tok("}")>>,
           <<Attr("memory_space", "HBM")>>,
           <<Tok("}"), Tok(":"), Type("memref", <<0, 4>>)>>>>,
         OpOf("ktdp.construct_memory_view", <<r>>, <<"p", "n", "s">>, <<>>,
              {<<"coordinate_set", "rectangle">>}, <<>>), FALSE)
AccessOf(r) ==
    Stmt(<<<<Def(r), Said("ktdp.construct_access_tile"), Use("v"), Use("i"), Tok("{")>>,
           <<Set("access_tile_set", "box"), Attr("access_tile_order", "#order")>>,
           <<Tok("}"), Tok(":"), Type("memref", <<4>>), Tok("->"), Tile>>>>,
         OpOf("ktdp.construct_access_tile", <<r>>, <<"v", "i">>, <<>>,
              {<<"access_tile_set", "box">>, <<"access_tile_order", "swap">>}, <<>>), FALSE)
\* %x, %z = ...   and   %g:2 = ..., used as %g#0 and %g#1
Ids == Stmt(<<<<[t |-> "def", n |-> <<N("i"), N("j")>>, v |-> <<0, 0>>],
                Said("ktdp.get_compute_tile_id"), Tok(":"), Index, Index>>>>,
            OpOf("ktdp.get_compute_tile_id", <<"i", "j">>, <<>>, <<>>, {}, <<>>), FALSE)
Bundle ==
    [lines |-> <<<<[t |-> "def", n |-> <<N("g")>>, v |-> <<2>>],
                   Said("ktdp.get_compute_tile_id"), Tok(":"), Index, Index>>,
                 <<Def("o"), Said("arith.addi"), Nth("g", 1), Nth("g", 0), Tok(":"), Index>>>>,
     ops |-> <<[OpOf("ktdp.get_compute_tile_id", <<>>, <<>>, <<>>, {}, <<>>)
                    EXCEPT !.res = <<<<"g", 0>>, <<"g", 1>>>>],
               [OpOf("arith.addi", <<"o">>, <<>>, <<>>, {}, <<>>)
                    EXCEPT !.ins = <<<<"g", 1>>, <<"g", 0>>>>]>>,
     open |-> FALSE]
\* linalg.reduce { arith.addf } ... dimensions = [1], which ends without a type
Short(r) ==
    Stmt(<<<<Def(r), Said("linalg.reduce"), Tok("{"), Said("arith.addf"), Tok("}")>>,
           <<List("ins", <<"x">>)>>, <<List("outs", <<"y">>)>>, <<Tok("dimensions")>>>>,
         OpOf("linalg.reduce", <<r>>, <<"x">>, <<"y">>, {<<"reduce_fn", "arith.addf">>}, <<>>), TRUE)
ReturnOp == Stmt(<<<<Said("return")>>>>, OpOf("return", <<>>, <<>>, <<>>, {}, <<>>), FALSE)

(***************************************************************************)
(* Bodies: statements one after another, with or without a blank line or a *)
(* line of comment between them.                                           *)
(***************************************************************************)
Fits(a, gap, b) == gap # <<>> \/ ~a.open \/ StartsSsa(b.lines[1])
Then(a, gap, b) ==
    [lines |-> a.lines \o (IF Fits(a, gap, b) THEN gap ELSE <<<<>>>>) \o b.lines,
     ops |-> a.ops \o b.ops, open |-> b.open]
Gaps == <<<<>>, <<<<>>>>, <<<<Tok("//"), Use("x"), Tok("{"), Tok("}")>>>>>>

(* A body and the line that closes its block, alone or after the last op. *)
Closed(body, tail, glued) ==
    IF glued THEN Front(body.lines) \o <<Last(body.lines) \o <<Tok("}")>> \o tail>>
    ELSE body.lines \o <<<<Tok("}")>> \o tail>>

Yield(k, x) == Stmt(<<<<Said(k), Use(x), Tok(":"), Tensor>>>>, OpOf(k, <<>>, <<x>>, <<>>, {}, <<>>), FALSE)
Label(xs) == Stmt(<<<<List("label", xs)>>>>, OpOf("region.bb0_args", <<>>, <<>>, xs, {}, <<>>), FALSE)

(***************************************************************************)
(* Statements with regions.                                                *)
(***************************************************************************)
If(body, glued) ==
    Stmt(<<<<Said("scf.if"), Use("c"), Tok("{")>>>> \o Closed(body, <<>>, glued),
         OpOf("scf.if", <<>>, <<"c">>, <<>>, {}, <<body.ops>>), TRUE)
For0(body, glued) ==
    Stmt(<<<<Said("scf.for"), Use("i"), Use("a"), Use("b"), Use("s"), Tok("{")>>>> \o Closed(body, <<>>, glued),
         OpOf("scf.for", <<"i">>, <<"a", "b", "s">>, <<"i">>, {}, <<body.ops>>), TRUE)
\* types: `-> (tensor<...>)`, or one `-> tensor<...>`
For1(r, types, body, glued) ==
    LET all == Then(body, <<>>, Yield("scf.yield", "w"))
    IN  Stmt(<<<<Def(r), Said("scf.for"), Use("i"), Use("a"), Use("b"), Use("s"), Bind("acc", "z"),
                 Tok("->"), types, Tok("{")>>>> \o Closed(all, <<>>, glued),
             OpOf("scf.for", <<r>>, <<"a", "b", "s", "z">>, <<"i", "acc">>, {}, <<all.ops>>), types.t = "types")
Produce(body, glued) ==
    LET all == Then(body, <<>>, Yield("ktdp.yield_partial", "w"))
    IN  Stmt(<<<<Def("f"), Said("ktdp.inter_tile_produce")>>, <<Attr("producer_tiles_per_group", "#all")>>,
               <<Attr("groups", "#groups")>>, <<Tok(":"), Tensor, Tok("->"), Future>>, <<Tok("{")>>>>
                 \o Closed(all, <<>>, glued),
             OpOf("ktdp.inter_tile_produce", <<"f">>, <<>>, <<>>,
                  {<<"producer_tiles_per_group", "rectangle">>, <<"groups", "one">>}, <<all.ops>>), FALSE)
Reduce(body, glued) ==
    LET all == Then(Then(Label(<<"lhs", "rhs">>), <<>>, body), <<>>, Yield("ktdp.yield_reduced", "w"))
    IN  Stmt(<<<<Def("q"), Said("ktdp.inter_tile_reduce"), Use("f")>>,
               <<Attr("consumer_tiles_per_group", "#all")>>, <<Attr("groups", "#groups")>>,
               <<List("identity", <<"z">>)>>, <<Tok(":"), Future, Tok("->"), Tensor>>, <<Tok("{")>>>>
                 \o Closed(all, <<>>, glued),
             OpOf("ktdp.inter_tile_reduce", <<"q">>, <<"f", "z">>, <<>>,
                  {<<"consumer_tiles_per_group", "rectangle">>, <<"groups", "one">>}, <<all.ops>>), FALSE)
Generate(body, glued) ==
    LET all == Then(Then(Label(<<"i", "j">>), <<>>, body), <<>>, Yield("tensor.yield", "w"))
    IN  Stmt(<<<<Def("m"), Said("tensor.generate"), Tok("{")>>>> \o Closed(all, <<Tok(":"), Tensor>>, glued),
             OpOf("tensor.generate", <<"m">>, <<>>, <<>>, {}, <<all.ops>>), FALSE)
\* linalg.reduce with its combiner written out
Long(body, glued) ==
    LET all == Then(body, <<>>, Yield("linalg.yield", "w"))
    IN  Stmt(<<<<Def("h"), Said("linalg.reduce"), List("ins", <<"x">>)>>, <<List("outs", <<"y">>), Tok("dimensions")>>,
               <<List("args", <<"in", "out">>), Tok("{")>>>> \o Closed(all, <<>>, glued),
             OpOf("linalg.reduce", <<"h">>, <<"x">>, <<"y">>, {}, <<all.ops>>), TRUE)
\* linalg.generic { ... } ins(...) outs(...) { ^bb0 ... } -> tensor
Generic(body, glued) ==
    LET all == Then(Then(Label(<<"e", "o">>), <<>>, body), <<>>, Yield("linalg.yield", "w"))
    IN  Stmt(<<<<Def("l"), Said("linalg.generic"), Tok("{")>>, <<Tok("maps")>>, <<Tok("iterators"), Tok("}")>>,
               <<List("ins", <<"x", "y">>)>>, <<List("outs", <<"z">>), Tok("{")>>>>
                 \o Closed(all, <<Tok("->"), Tensor>>, glued),
             OpOf("linalg.generic", <<"l">>, <<"x", "y", "z">>, <<>>, {}, <<all.ops>>), FALSE)

\* scf.if %c { ... } else { ... }, with a line for each brace
IfElse(yes, no) ==
    Stmt(<<<<Said("scf.if"), Use("c"), Tok("{")>>>> \o yes.lines \o <<<<Tok("}"), Tok("else"), Tok("{")>>>>
           \o no.lines \o <<<<Tok("}")>>>>,
         OpOf("scf.if", <<>>, <<"c">>, <<>>, {}, <<yes.ops, no.ops>>), TRUE)

(***************************************************************************)
(* Modules.                                                                *)
(***************************************************************************)
Joined(lines) == FlattenSeq([i \in DOMAIN lines |-> lines[i] \o <<Tok("nl")>>])
Func == [t |-> "func", n |-> <<N("x"), N("y")>>, v |-> [name |-> "kernel", args |-> <<N("x"), N("y")>>]]
GridOf(dims) == [t |-> "grid", n |-> <<>>, v |-> dims]

Heads == << <<Func, Tok("{")>>,
            <<Func, Tok("attributes"), Tok("{"), GridOf(<<4>>), Tok("}"), Tok("{")>> >>
(* The alias of the set is given twice; the second definition holds. *)
Before == << <<Alias("#all", "empty")>>, <<Alias("#order", "swap")>>, <<Alias("#groups", "one")>>,
             <<Alias("#all", "rectangle")>>, <<Tok("module"), Tok("{")>> >>

ModuleOf(head, body, refused) ==
    [toks |-> Joined(Before \o <<Heads[head]>> \o body.lines \o <<<<Tok("}")>>, <<Tok("}")>>>>),
     means |-> [f \in {"kernel"} |->
                   [args |-> <<N("x"), N("y")>>, ops |-> body.ops,
                    grid |-> IF head = 1 THEN <<1, 1, 1>> ELSE <<4, 1, 1>>]],
     refused |-> refused]

Simple == << Add("w", "x"), Flagged("w"), Commented("w"), Infix("w"), Load("w"), Late("w"), Store("x"), View("v"),
             AccessOf("t"), Ids, Bundle, Short("w") >>
Inner == << Add("w", "acc"), Then(View("v"), <<>>, Load("w")), Then(Short("w"), <<>>, Store("w")) >>
Regioned(body, glued) ==
    << If(body, glued), For0(body, glued), For1("r", Tok("types"), body, glued), For1("r", Tensor, body, glued),
       Produce(body, glued), Reduce(body, glued), Generate(body, glued), Long(body, glued), Generic(body, glued) >>
Nested(glued) == FlattenSeq([i \in DOMAIN Inner |-> Regioned(Inner[i], glued)])
Deep == << For0(If(Then(For1("w", Tensor, Inner[1], FALSE), <<>>, Store("w")), TRUE), FALSE),
           For0(Then(Produce(Generate(Inner[2], FALSE), FALSE), <<>>, Reduce(Inner[1], TRUE)), FALSE) >>
All == Simple \o Nested(FALSE) \o Nested(TRUE) \o Deep

Wrong == << Stmt(<<<<Def("v"), Said("ktdp.construct_memory_view"), Use("p"), Sizes(<<>>, <<4, 8>>), Tok(":"),
                     Type("memref", <<4, 4>>)>>>>, None, FALSE),
            Stmt(<<<<Def("v"), Said("ktdp.construct_memory_view"), Use("p"), Tok(":"), Type("memref", <<0>>)>>>>, None, FALSE),
            Stmt(<<<<Def("t"), Said("ktdp.construct_access_tile"), Use("v"), Use("i"), Tok(":"), Tile>>>>, None, FALSE),
            Stmt(<<<<Def("f"), Said("ktdp.inter_tile_produce"), Attr("groups", "#groups"), Tok(":"), Future>>>>, None, FALSE),
            Stmt(<<<<Def("i"), Said("ktdp.get_compute_tile_id"), Tok(":"), Index, Index>>>>, None, FALSE) >>

Pair(a, gap, b) == Then(Then(a, gap, b), gap, ReturnOp)

(* Every statement before and after every simple one, with every gap. *)
NAll == Len(All)
NSimple == Len(Simple)
Pairs2 == 2 * Len(Gaps) * NAll * NSimple
PairOf(k) ==
    LET simple == Simple[1 + (k % NSimple)]
        any == All[1 + ((k \div NSimple) % NAll)]
        rest == k \div (NSimple * NAll)
        gap == Gaps[1 + (rest \div 2)]
    IN  ModuleOf(1 + (k % 2), IF rest % 2 = 0 THEN Pair(any, gap, simple) ELSE Pair(simple, gap, any), FALSE)

MCNumTexts == Pairs2 + Len(Wrong)
MCTextOf(k) ==
    IF k <= Pairs2 THEN PairOf(k - 1) ELSE ModuleOf(1, Then(Wrong[k - Pairs2], <<>>, ReturnOp), TRUE)

(* A conditional with both of its blocks. *)
ElseText(k) == ModuleOf(k, Then(IfElse(Add("w", "x"), Store("y")), <<<<>>>>, ReturnOp), FALSE)
=============================================================================
