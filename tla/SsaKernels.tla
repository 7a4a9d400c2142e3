----------------------------- MODULE SsaKernels -----------------------------
(***************************************************************************)
(* What MLIR guarantees of a kernel, which the interpreter relies on and   *)
(* does not check: the nesting of regions, the operands and results of     *)
(* each kind of op, terminators, and that a name is defined before it is   *)
(* used (dominance).  A name may be defined again where it is out of scope.*)
(*                                                                         *)
(* A kernel is a function from blocks to sequences of ops.  An op has a    *)
(* kind k, the names res it defines, its operands ins, the names outs that *)
(* it fetches through an attribute, the names args its region binds and    *)
(* its regions blks.  "i" is the variable of every loop.                   *)
(***************************************************************************)
EXTENDS Integers, Sequences, FiniteSets, SequencesExt

OneResult == {"constant", "compute", "reshape", "matmul", "reduce", "receive"}
NoResult == {"yield", "return"}

IsSeq(s) == s \in Seq(Range(s))
Regions(op) == Range(op.blks) \ {"none"}

(* The names an op binds for its regions. *)
Binds(op) == Range(op.args) \cup IF op.k = "for" THEN {"i"} ELSE {}

(* The blocks nested in op i of block b: the least set with its regions    *)
(* and the regions of the ops inside.                                      *)
Closed(p, S) == \A b \in S : \A i \in DOMAIN p[b] : Regions(p[b][i]) \subseteq S
Inside(p, b, i) ==
    {d \in DOMAIN p : \A S \in SUBSET DOMAIN p :
                          Regions(p[b][i]) \subseteq S /\ Closed(p, S) => d \in S}

(* The names visible to op i of block b. *)
Before(p, b, i) == UNION {Range(p[b][j].res) : j \in 1 .. i - 1}
Around(p, b) ==
    {s \in UNION {{<<d, j>> : j \in {j \in DOMAIN p[d] : p[d][j].blks # <<>>}} : d \in DOMAIN p} :
        b \in Inside(p, s[1], s[2])}
InScope(p, b, i) ==
    Before(p, b, i)
    \cup UNION {Before(p, s[1], s[2]) \cup Binds(p[s[1]][s[2]]) : s \in Around(p, b)}

(* The operands, results and regions of an op; what goes round a loop or   *)
(* out of a region is a tile, not the loop variable.                       *)
IsOp(op) ==
    /\ op = [k |-> op.k, res |-> op.res, ins |-> op.ins, outs |-> op.outs,
             args |-> op.args, blks |-> op.blks]
    /\ op.k \in OneResult \cup NoResult \cup {"for", "if"}
    /\ \A names \in {op.res, op.ins, op.outs, op.args, op.blks} : IsSeq(names)
    /\ IsInjective(op.res) /\ IsInjective(op.args)
    /\ "i" \notin Range(op.res) \cup Range(op.args)
    /\ op.k \notin {"compute", "receive", "return"} => "i" \notin Range(op.ins \o op.outs)
    /\ op.k \in OneResult => Len(op.res) = 1
    /\ op.k \in NoResult => Len(op.res) = 0
    /\ op.k = "constant" => Len(op.ins) = 0
    /\ op.k = "reshape" => Len(op.ins) = 1
    /\ op.k = "matmul" => Len(op.ins) = 2
    /\ Len(op.outs) = IF op.k = "reduce" THEN 1 ELSE 0
    /\ op.k = "for" => /\ Len(op.blks) = 1 /\ op.blks[1] # "none"
                       /\ Len(op.args) = Len(op.ins) /\ Len(op.res) = Len(op.ins)
    /\ op.k # "for" => Len(op.args) = 0
    /\ op.k = "if" => Len(op.blks) = 2 /\ (op.res # <<>> => "none" \notin Range(op.blks))
    /\ op.k \notin {"for", "if"} => Len(op.blks) = 0

(* A region ends with a yield of what its op defines. *)
Terminated(op, blk) ==
    /\ \A i \in DOMAIN blk :
          /\ blk[i].k # "return"
          /\ blk[i].k = "yield" => i = Len(blk) /\ Len(blk[i].ins) = Len(op.res)
    /\ op.k = "for" \/ op.res # <<>> => blk # <<>> /\ Last(blk).k = "yield"

WellFormed(p) ==
    /\ IsFiniteSet(DOMAIN p) /\ "main" \in DOMAIN p /\ "none" \notin DOMAIN p
    /\ \A b \in DOMAIN p : IsSeq(p[b])
    /\ \A b \in DOMAIN p : \A i \in DOMAIN p[b] :
          /\ IsOp(p[b][i])
          /\ Range(p[b][i].ins \o p[b][i].outs) \subseteq InScope(p, b, i)
          /\ Regions(p[b][i]) \subseteq DOMAIN p \ {"main"}
          /\ \A d \in Regions(p[b][i]) : Terminated(p[b][i], p[d])
          /\ \A c \in DOMAIN p : \A j \in DOMAIN p[c] :
                Regions(p[b][i]) \cap Regions(p[c][j]) # {} => c = b /\ j = i
    /\ \A i \in DOMAIN p["main"] : p["main"][i].k # "yield"
=============================================================================
