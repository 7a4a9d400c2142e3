----------------------------- MODULE KtirParser -----------------------------
(***************************************************************************)
(* The text parser (parser.py): from the text of a module to its           *)
(* functions and their trees of operations.                                *)
(*                                                                         *)
(* A text is a sequence of tokens [t, n, v]: t is the kind of the token, n *)
(* the SSA names written in it and v what else it says.  "nl" ends a line, *)
(* "//" starts a comment.  "def" is the list of results with its `=`, "op" *)
(* an operation's name, "use" an operand, "bind" a pair of iter_args,      *)
(* "ins", "outs", "identity", "sizes" and "strides" a list, in the last    *)
(* two each name once, "label" a line ^bb0(...):, "args" the arguments of  *)
(* an inline block, "attr" a `key = #alias` and "set" a                    *)
(* `key = affine_set<...>`, "type" a type and "types" several in           *)
(* parentheses; "func", "grid" and "alias" occur at module level, the last *)
(* at the start of a line.  An SSA name is <<base>> or, of a bundle,       *)
(* <<base, i>>.                                                            *)
(***************************************************************************)
EXTENDS Integers, Sequences, FiniteSets, SequencesExt

CONSTANTS
    NumTexts,     \* the number of texts considered
    TextOf(_)     \* each: its tokens `toks`, the functions `means` that its
                  \* author wrote, and whether it is to be `refused`

VARIABLES
    text,      \* the text
    found,     \* the func.func headers looked at
    funcs,     \* the functions of the IRModule
    todo,      \* the regions of the present function that wait, innermost first
    cur,       \* the body being split into ops
    tree,      \* path of a body -> its ops
    status     \* "scan", "parse", "collect", "done" or "ValueError"

vars == <<text, found, funcs, todo, cur, tree, status>>

At(toks, kinds) == {i \in DOMAIN toks : toks[i].t \in kinds}
Has(toks, kinds) == At(toks, kinds) # {}
Positions(toks, kind) == SelectSeq([i \in DOMAIN toks |-> i], LAMBDA i : toks[i].t = kind)
First(toks, kind) == toks[Min(At(toks, {kind}))]
Prefix(toks, i) == SubSeq(toks, 1, i)
Suffix(toks, i) == SubSeq(toks, i, Len(toks))
Names(toks) == FlattenSeq([i \in DOMAIN toks |-> toks[i].n])
Balance(toks) == Cardinality(At(toks, {"{"})) - Cardinality(At(toks, {"}"}))

(* The brace that closes the one at i, or 0. *)
Closing(toks, i) ==
    LET ends == {j \in At(toks, {"}"}) : j > i /\ Balance(SubSeq(toks, i, j)) = 0}
    IN  IF ends = {} THEN 0 ELSE Min(ends)

(***************************************************************************)
(* The module.                                                             *)
(***************************************************************************)
(* Of several definitions of an alias the last one holds. *)
Aliases(toks) ==
    LET defs == At(toks, {"alias"})
    IN  [name \in {toks[i].v[1] : i \in defs} |->
            toks[Max({i \in defs : toks[i].v[1] = name})].v[2]]

RECURSIVE BraceBody(_, _, _)
(* _extract_brace_body: the last block before a brace closes more than was *)
(* opened; <<0, 0>> if there is none.                                      *)
BraceBody(toks, start, last) ==
    LET braces == {i \in At(toks, {"{", "}"}) : i >= start}
    IN  IF braces = {} \/ toks[Min(braces)].t = "}" THEN last
        ELSE LET i == Min(braces)
             IN  IF Closing(toks, i) = 0 THEN <<0, 0>>
                 ELSE BraceBody(toks, Closing(toks, i) + 1, <<i, Closing(toks, i)>>)

(* _parse_grid_attribute *)
Grid(toks) ==
    IF Has(toks, {"grid"})
    THEN [d \in 1 .. 3 |-> IF d \in DOMAIN First(toks, "grid").v THEN First(toks, "grid").v[d] ELSE 1]
    ELSE <<1, 1, 1>>

Lines(toks) ==
    LET cuts == <<0>> \o Positions(toks, "nl") \o <<Len(toks) + 1>>
    IN  [k \in 1 .. Len(cuts) - 1 |-> SubSeq(toks, cuts[k] + 1, cuts[k + 1] - 1)]

(* _preprocess_text drops the comment of a line. *)
Preprocessed(line) ==
    IF Has(line, {"//"}) THEN Prefix(line, Min(At(line, {"//"})) - 1) ELSE line

Body(path, lines) ==
    [path |-> path, lines |-> [k \in DOMAIN lines |-> Preprocessed(lines[k])], i |-> 1,
     acc |-> <<>>, regions |-> <<>>, out |-> <<>>]

Headers == Positions(text.toks, "func")

(***************************************************************************)
(* _tokenize_operations                                                    *)
(***************************************************************************)
StartsSsa(line) == line[1].t \in {"def", "bind"}
VoidOps == {"return", "scf.yield", "linalg.yield", "tensor.yield"}
TypeEnds == {"type", "set"}
Colons == {":", "->", "ins", "outs", "set", "args", "label", "identity", "sizes", "strides"}

IsOpComplete(acc) ==
    LET head == IF acc[1].t = "def" THEN 2 ELSE 1
    IN  \/ acc[1].t = "label" /\ Last(acc).t = "label"
        \/ head \in DOMAIN acc /\ acc[head].t = "op" /\ acc[head].v \in VoidOps
        \/ Last(acc).t \in TypeEnds /\ Has(acc, Colons)

(* A faulty flush that takes a bare brace for the start of an op. *)
Flushes_OnBareBrace(c, line) ==
    /\ c.acc # <<>> /\ Balance(c.acc) = 0 /\ line[1].t # "->"
    /\ IsOpComplete(c.acc) \/ StartsSsa(line)

(* A line ends the op before it. *)
Flushes(c, line) ==
    /\ c.acc # <<>> /\ Balance(c.acc) = 0 /\ line[1].t # "->"
    /\ IsOpComplete(c.acc) \/ StartsSsa(line)
    /\ ~(Len(line) = 1 /\ line[1].t = "{")

Flushed(c) ==
    [c EXCEPT !.out = Append(@, [toks |-> c.acc, regions |-> c.regions]),
              !.acc = <<>>, !.regions = <<>>]

(* The depth below the brace that ends line i, after line j. *)
DepthAfter(lines, i, j) == 1 + Balance(FlattenSeq(SubSeq(lines, i + 1, j)))

(* A faulty detection that looks beyond the end of the block. *)
OpensRegion_Anywhere(lines, i) ==
    Last(lines[i]).t = "{" /\ \E j \in i + 1 .. Len(lines) : Names(lines[j]) # <<>>

(* _line_opens_region: an SSA name before or on the line of its end. *)
OpensRegion(lines, i) ==
    /\ Last(lines[i]).t = "{"
    /\ \E j \in i + 1 .. Len(lines) :
         /\ Names(lines[j]) # <<>>
         /\ \A m \in i + 1 .. j - 1 : DepthAfter(lines, i, m) > 0

(* _extract_region_from_lines, with the last brace of the closing line. *)
RegionEnd(lines, i) ==
    LET closes(j) == \E k \in At(lines[j], {"}"}) :
                        DepthAfter(lines, i, j - 1) + Balance(Prefix(lines[j], k)) = 0
        ends == {j \in i + 1 .. Len(lines) : closes(j)}
    IN  IF ends = {} THEN 0 ELSE Min(ends)

RegionOf(lines, i) ==
    LET j == RegionEnd(lines, i)
        brace == Max(At(lines[j], {"}"}))
        before == Prefix(lines[j], brace - 1)
    IN  [body |-> SubSeq(lines, i + 1, j - 1) \o (IF before = <<>> THEN <<>> ELSE <<before>>),
         trailing |-> Suffix(lines[j], brace + 1)]

(***************************************************************************)
(* _parse_operation_text and the parsers of the dialects.                  *)
(***************************************************************************)
Op(k, ins, args, attrs) ==
    [k |-> k, res |-> <<>>, ins |-> ins, args |-> args, attrs |-> attrs]
None == Op("none", <<>>, <<>>, {})
Error == Op("error", <<>>, <<>>, {})

Base(name) == <<name[1]>>

(* parse_multi_result_lhs: a bundle has a name for each of its results. *)
Results(def) ==
    FlattenSeq([i \in DOMAIN def.v |->
        IF def.v[i] = 0 THEN <<def.n[i]>>
        ELSE [j \in 1 .. def.v[i] |-> <<def.n[i][1], j - 1>>]])

(* The order in which the dialects register their parsers. *)
Registry == <<
    "ktdp.get_compute_tile_id", "ktdp.construct_memory_view", "ktdp.construct_access_tile",
    "ktdp.inter_tile_produce", "ktdp.yield_partial", "ktdp.yield_reduced",
    "ktdp.inter_tile_reduce", "linalg.reduce", "linalg.generic", "linalg.yield",
    "^bb0", "scf.for", "scf.yield", "tensor.yield", "tensor.generate">>

(* dispatch_parser: the first whose pattern occurs anywhere in the text. *)
Dispatch(toks) ==
    LET said == {toks[i].v : i \in At(toks, {"op"})} \cup (IF Has(toks, {"label"}) THEN {"^bb0"} ELSE {})
        known == {k \in DOMAIN Registry : Registry[k] \in said}
    IN  IF known = {} THEN "general" ELSE Registry[Min(known)]

IsHead(toks, k) == toks # <<>> /\ toks[1].t = "op" /\ (k = "general" \/ toks[1].v = k)

(* The attributes in toks and, below, in the outermost block; a value with *)
(* no entry in the table of aliases stays as it is written.                *)
Pairs(toks, aliases) ==
    {<<toks[i].v[1], IF toks[i].v[2] \in DOMAIN aliases THEN aliases[toks[i].v[2]] ELSE toks[i].v[2]>> :
        i \in At(toks, {"attr", "set"})}
AttrBlock(toks, aliases) ==
    IF ~Has(toks, {"{"}) THEN {}
    ELSE LET i == Min(At(toks, {"{"})) IN Pairs(SubSeq(toks, i, Closing(toks, i)), aliases)

(* parse_ctx.aliases, which the dialects' parsers get; and none at all. *)
ModuleAliases == Aliases(text.toks)
NoAliases == <<>>
Keys(pairs) == {p[1] : p \in pairs}

(* _extract_operands: not those between a brace and the next closing one. *)
OutsideBraces(toks) ==
    LET inside(i) == \E j \in At(Prefix(toks, i), {"{"}) :
                        /\ Has(Suffix(toks, i), {"}"})
                        /\ ~Has(SubSeq(toks, j, i - 1), {"}"})
    IN  [i \in DOMAIN toks |-> IF inside(i) THEN [toks[i] EXCEPT !.n = <<>>] ELSE toks[i]]

(* _parse_general_operation does not hand the table of aliases on. *)
General(toks) == Op(toks[1].v, Names(OutsideBraces(toks)), <<>>, AttrBlock(toks, NoAliases))

(* parse_index_binary *)
InfixOp == [add |-> "arith.addi", sub |-> "arith.subi", mul |-> "arith.muli"]
IsInfix(toks) ==
    /\ Len(toks) >= 4 /\ toks[1].t = "def" /\ toks[1].v = <<0>>
    /\ toks[2].t = "use" /\ toks[3].t = "infix" /\ toks[4].t = "use"
    /\ Len(toks[2].n[1]) = 1 /\ Len(toks[4].n[1]) = 1

(* parse_scf_for; a bound that is one of a bundle does not match, and the  *)
(* result, without results of its own, is the induction variable.          *)
For(toks) ==
    LET uses == Names(SelectSeq(toks, LAMBDA tok : tok.t = "use"))
        binds == SelectSeq(toks, LAMBDA tok : tok.t = "bind")
        args == [i \in DOMAIN binds |-> binds[i].n[1]]
    IN  IF \E i \in 1 .. 3 : Len(uses[i]) # 1 THEN None
        ELSE [Op("scf.for", <<uses[2], uses[3], Base(uses[4])>>
                                \o [i \in DOMAIN binds |-> Base(binds[i].n[2])],
                 <<uses[1]>> \o args, {}) EXCEPT !.res = <<uses[1]>>]

(* The operands of a yield: those before the first, or the last, colon. *)
BeforeColon(toks, colon) == IF Has(toks, {":"}) THEN Prefix(toks, colon - 1) ELSE toks
Yielded(k, toks) ==
    Op(k, Names(BeforeColon(toks, IF k \in {"ktdp.yield_partial", "ktdp.yield_reduced"}
                                  THEN Max(At(toks, {":"})) ELSE Min(At(toks, {":"})))), <<>>, {})

Listed(toks, kind) == IF Has(toks, {kind}) THEN First(toks, kind).n ELSE <<>>
FirstListed(toks, kind) ==
    IF Listed(toks, kind) = <<>> THEN <<>> ELSE <<Base(Listed(toks, kind)[1])>>

(* parse_linalg_reduce: the shorthand names the combiner in braces, and the *)
(* outs name is kept as an attribute.                                      *)
LinalgReduce(toks) ==
    LET named == {i \in At(toks, {"op"}) : i > 1 /\ toks[i - 1].t = "{"}
    IN  Op("linalg.reduce", FirstListed(toks, "ins"), FirstListed(toks, "outs"),
           {<<"reduce_fn", toks[i].v>> : i \in named})

TypesOf(toks, name) == {i \in At(toks, {"type"}) : toks[i].v.name = name}

(* parse_construct_memory_view: a dimension of 0 is `?`, or an SSA size. *)
MemoryView(toks) ==
    LET uses == Listed(toks, "use")
        dims == toks[Min(TypesOf(toks, "memref"))].v.dims
        sizes == First(toks, "sizes").v
    IN  IF uses = <<>> THEN None
        ELSE IF TypesOf(toks, "memref") = {} THEN Error
        ELSE IF ~Has(toks, {"sizes"}) /\ 0 \in Range(dims) THEN Error
        ELSE IF Has(toks, {"sizes"}) /\ (\/ Len(sizes) # Len(dims)
                                         \/ \E d \in DOMAIN dims : sizes[d] # dims[d] /\ sizes[d] # 0)
        THEN Error
        ELSE Op("ktdp.construct_memory_view",
                <<Base(uses[1])>> \o Listed(toks, "sizes") \o Listed(toks, "strides"), <<>>,
                {p \in AttrBlock(toks, ModuleAliases) : p[1] = "coordinate_set"})

AccessTile(toks) ==
    LET attrs == AttrBlock(toks, ModuleAliases)
    IN  IF TypesOf(toks, "access_tile") = {} \/ "access_tile_set" \notin Keys(attrs) THEN Error
        ELSE Op("ktdp.construct_access_tile", Names(toks), <<>>, attrs)

InterTileProduce(toks) ==
    LET attrs == Pairs(toks, ModuleAliases)
    IN  IF \/ ~({"producer_tiles_per_group", "groups"} \subseteq Keys(attrs))
           \/ TypesOf(toks, "tile_future") = {}
        THEN Error ELSE Op("ktdp.inter_tile_produce", <<>>, <<>>, attrs)

InterTileReduce(toks) ==
    LET attrs == Pairs(toks, ModuleAliases)
    IN  IF Len(toks) < 2 \/ toks[2].t # "use" THEN None
        ELSE IF ~({"consumer_tiles_per_group", "groups"} \subseteq Keys(attrs)) THEN Error
        ELSE Op("ktdp.inter_tile_reduce", <<Base(toks[2].n[1])>> \o Listed(toks, "identity"), <<>>, attrs)

LinalgGeneric(toks) == Op("linalg.generic", Listed(toks, "ins") \o Listed(toks, "outs"), <<>>, {})

(* The type comes after the block, which is a region by now. *)
TensorGenerate(toks) ==
    IF Last(toks).t = "type" THEN Op("tensor.generate", <<>>, <<>>, {}) ELSE Error

(* A label becomes an op that holds the names of the arguments. *)
BlockArgs(toks) == Op("region.bb0_args", <<>>, First(toks, "label").n, {})

ComputeTileId(toks) ==
    IF Has(toks, {":"}) THEN Op("ktdp.get_compute_tile_id", <<>>, <<>>, {}) ELSE Error

ParseBody(toks) ==
    LET k == Dispatch(toks)
    IN  CASE k = "^bb0" -> BlockArgs(toks)
          [] k \in {"scf.yield", "tensor.yield"} -> Yielded(k, toks)
          [] OTHER ->
             IF ~IsHead(toks, k) THEN None
             ELSE CASE k = "general" -> General(toks)
                    [] k = "scf.for" -> For(toks)
                    [] k = "linalg.reduce" -> LinalgReduce(toks)
                    [] k = "linalg.generic" -> LinalgGeneric(toks)
                    [] k = "tensor.generate" -> TensorGenerate(toks)
                    [] k = "ktdp.get_compute_tile_id" -> ComputeTileId(toks)
                    [] k = "ktdp.construct_memory_view" -> MemoryView(toks)
                    [] k = "ktdp.construct_access_tile" -> AccessTile(toks)
                    [] k = "ktdp.inter_tile_produce" -> InterTileProduce(toks)
                    [] k = "ktdp.inter_tile_reduce" -> InterTileReduce(toks)
                    [] OTHER -> IF Len(toks) = 1 THEN None ELSE Yielded(k, toks)

(* An op of several results says how many: one type for each name. *)
BadCount(op, toks, results) ==
    op.k = "ktdp.get_compute_tile_id" /\ Cardinality(At(toks, {"type"})) # Len(results)

ParseOperation(toks) ==
    IF IsInfix(toks)
    THEN IF Has(toks, {":"})
         THEN [Op(InfixOp[toks[3].v], <<toks[2].n[1], toks[4].n[1]>>, <<>>, {}) EXCEPT !.res = toks[1].n]
         ELSE None
    ELSE IF toks[1].t = "def"
    THEN LET op == ParseBody(Tail(toks))
         IN  IF op \in {None, Error} THEN op
             ELSE IF BadCount(op, toks, Results(toks[1])) THEN Error
             ELSE [op EXCEPT !.res = Results(toks[1])]
    ELSE ParseBody(toks)

(***************************************************************************)
(* The parser.                                                             *)
(***************************************************************************)
Idle == Body(<<>>, <<>>)

Init ==
    /\ \E i \in 1 .. NumTexts : text = TextOf(i)
    /\ found = 0
    /\ funcs = <<>>
    /\ todo = <<>>
    /\ cur = Idle
    /\ tree = <<>>
    /\ status = "scan"

(* parse_module: the next header, with its body, if it has one. *)
NextHeader ==
    /\ status = "scan" /\ found < Len(Headers)
    /\ found' = found + 1
    /\ LET at == Headers[found + 1]
           body == BraceBody(text.toks, at + 1, <<0, 0>>)
       IN  IF body = <<0, 0>> THEN UNCHANGED <<cur, status>>
           ELSE /\ cur' = Body(<<>>, Lines(SubSeq(text.toks, body[1] + 1, body[2] - 1)))
                /\ status' = "parse"
    /\ tree' = <<>>
    /\ UNCHANGED <<text, funcs, todo>>

Line == cur.lines[cur.i]
Reading == status = "parse" /\ cur.i \in DOMAIN cur.lines

(* A blank line ends an op whose braces are balanced. *)
ReadBlank ==
    /\ Reading /\ Line = <<>>
    /\ cur' = [(IF cur.acc # <<>> /\ Balance(cur.acc) = 0 THEN Flushed(cur) ELSE cur) EXCEPT !.i = @ + 1]
    /\ UNCHANGED <<text, found, funcs, todo, tree, status>>

Taken == IF Flushes(cur, Line) THEN Flushed(cur) ELSE cur

ReadLine ==
    /\ Reading /\ Line # <<>> /\ ~OpensRegion(cur.lines, cur.i)
    /\ cur' = [Taken EXCEPT !.acc = @ \o Line, !.i = @ + 1]
    /\ UNCHANGED <<text, found, funcs, todo, tree, status>>

(* The brace is dropped; a region that does not end is read as lines. *)
ReadRegion ==
    /\ Reading /\ Line # <<>> /\ OpensRegion(cur.lines, cur.i)
    /\ cur' = IF RegionEnd(cur.lines, cur.i) = 0
              THEN [Taken EXCEPT !.acc = @ \o Front(Line), !.i = @ + 1]
              ELSE LET region == RegionOf(cur.lines, cur.i)
                   IN  [Taken EXCEPT !.acc = @ \o Front(Line) \o region.trailing,
                                     !.regions = Append(@, region.body),
                                     !.i = RegionEnd(cur.lines, cur.i) + 1]
    /\ UNCHANGED <<text, found, funcs, todo, tree, status>>

(* The end of a body: _parse_operations parses its ops, without those that *)
(* no parser knows, and goes on with their regions.                        *)
EndBody ==
    /\ status = "parse" /\ cur.i > Len(cur.lines)
    /\ LET out == (IF cur.acc # <<>> THEN Flushed(cur) ELSE cur).out
           all == [i \in DOMAIN out |-> [op |-> ParseOperation(out[i].toks), regions |-> out[i].regions]]
           ops == SelectSeq(all, LAMBDA o : o.op # None)
           inner == FlattenSeq([i \in DOMAIN ops |->
                        [r \in DOMAIN ops[i].regions |-> Body(cur.path \o <<i, r>>, ops[i].regions[r])]])
           next == inner \o todo
       IN  IF \E i \in DOMAIN ops : ops[i].op = Error
           THEN status' = "ValueError" /\ UNCHANGED <<todo, cur, tree>>
           ELSE /\ tree' = [p \in DOMAIN tree \cup {cur.path} |->
                               IF p = cur.path
                               THEN [i \in DOMAIN ops |-> [op |-> ops[i].op, n |-> Len(ops[i].regions)]]
                               ELSE tree[p]]
                /\ IF next = <<>> THEN status' = "collect" /\ todo' = <<>> /\ cur' = Idle
                   ELSE status' = "parse" /\ todo' = Tail(next) /\ cur' = next[1]
    /\ UNCHANGED <<text, found, funcs>>

RECURSIVE Built(_)
Built(path) ==
    [i \in DOMAIN tree[path] |->
        tree[path][i].op @@ [regions |-> [r \in 1 .. tree[path][i].n |-> Built(path \o <<i, r>>)]]]

(* module.add_function *)
AddFunction ==
    /\ status = "collect"
    /\ LET at == Headers[found]
           func == [args |-> text.toks[at].v.args, ops |-> Built(<<>>),
                    grid |-> Grid(SubSeq(text.toks, at, BraceBody(text.toks, at + 1, <<0, 0>>)[2]))]
       IN  funcs' = [f \in DOMAIN funcs \cup {text.toks[at].v.name} |->
                        IF f = text.toks[at].v.name THEN func ELSE funcs[f]]
    /\ status' = "scan"
    /\ UNCHANGED <<text, found, todo, cur, tree>>

Return ==
    /\ status = "scan" /\ found = Len(Headers)
    /\ status' = "done"
    /\ UNCHANGED <<text, found, funcs, todo, cur, tree>>

Next == NextHeader \/ ReadBlank \/ ReadLine \/ ReadRegion \/ EndBody \/ AddFunction \/ Return

Spec == Init /\ [][Next]_vars

(***************************************************************************)
(* Properties.                                                             *)
(***************************************************************************)
(* An op text is being collected before any region is attached to it, no   *)
(* text that was flushed is empty, and a region is parsed after its op.    *)
TypeOK ==
    /\ status \in {"scan", "parse", "collect", "done", "ValueError"}
    /\ found \in 0 .. Len(Headers)
    /\ cur.i \in 1 .. Len(cur.lines) + 1
    /\ cur.regions # <<>> => cur.acc # <<>>
    /\ \A i \in DOMAIN cur.out : cur.out[i].toks # <<>>
    /\ \A i \in DOMAIN todo : Front(Front(todo[i].path)) \in DOMAIN tree

(* The functions of the module are those its author wrote: every op is in  *)
(* the body and at the place it was written at, with its operands, results *)
(* and regions, however the ops were laid out over lines; a text that      *)
(* breaks a rule of an op is refused.                                      *)
TreeIsSource ==
    /\ status = "done" => ~text.refused /\ text.means = funcs
    /\ status = "ValueError" => text.refused
=============================================================================
