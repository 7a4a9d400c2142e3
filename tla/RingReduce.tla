----------------------------- MODULE RingReduce -----------------------------
(***************************************************************************)
(* ktdp.inter_tile_produce followed by ktdp.inter_tile_reduce on every core*)
(* of a grid, Ops times in a row (straight-line code or the iterations of  *)
(* an scf.for), with RingReduceBackend as the reduction.                   *)
(*                                                                         *)
(* The cores meet only in the queues messages[(prev, c)], so each core's   *)
(* steps are interleaved freely; GridScheduler's order is one of these     *)
(* (RingOnScheduler).  Messages carry no tag: what a core receives is      *)
(* matched to an operation and a round by its position in the queue alone. *)
(*                                                                         *)
(* A tile is the seed it started as: the partial of a core for the op-th   *)
(* reduce, or the identity.  An accumulator is the sequence of tiles folded*)
(* into it, so equal sequences mean equal results under every combiner.    *)
(***************************************************************************)
EXTENDS Integers, Sequences, FiniteSets

CONSTANTS
    N,          \* number of cores of the grid
    Ops,        \* number of reduces the kernel runs, one after the other
    Group,      \* the group indices groups_set admits
    None,       \* no group or tile yet; what a non-consumer's reduce returns
    Kernels,    \* the producer and consumer sets its reduces may declare
    Trackers    \* {FALSE}, {TRUE} or both: runs without and with a tracker

Core == 0 .. N - 1
Family == [producers : [Group -> SUBSET Core], consumers : [Group -> SUBSET Core]]
Tile == [op : 1 .. Ops, core : Core, partial : BOOLEAN]
Result == [value : Seq(Tile), bytes : 0 .. N - 1] \cup {None}

ASSUME NAssumption == N \in Nat \ {0}
ASSUME NoneAssumption == None \notin Group \cup Tile \cup [value : Seq(Tile), bytes : 0 .. N - 1]
ASSUME OpsAssumption == Ops \in Nat
ASSUME KernelsAssumption == Kernels \subseteq [1 .. Ops -> Family]
ASSUME TrackersAssumption == Trackers \subseteq BOOLEAN

VARIABLES
    kernel,     \* the affine sets written on the r-th produce and reduce ops
    tracked,    \* whether a LatencyTracker records the operations
    op,         \* op[c]: the reduce core c is at, Ops + 1 when past the last
    at,         \* at[c]: the handler core c is in
    gid,        \* gid[c]: the group bound by produce, on the TileFuture
    round,      \* round[c]: k of the ring loop
    waits,      \* waits[c]: suspended in yield RecvRequest(prev)
    acc,        \* acc[c]: result, as the tiles folded into it
    fwd,        \* fwd[c]: to_forward
    bytes,      \* bytes[c]: bytes_moved, in tiles
    chan,       \* chan[c]: messages[((c - 1) % N, c)]
    out,        \* out[c]: what the reduces of core c returned so far
    failed      \* an exception left the run

vars == <<kernel, tracked, op, at, gid, round, waits, acc, fwd, bytes, chan, out, failed>>
run == <<kernel, tracked>>
ring == <<round, waits, acc, fwd, bytes>>

NextCore(c) == (c + 1) % N
PrevCore(c) == (c - 1) % N
(* A faulty origin: the ring run the other way round. *)
Origin_WrongWay(c, k) == (c + k) % N
Origin(c, k) == (c - k) % N

(* CommPlan.for_reduce at the group index this core's future carries. *)
IsProducer(c, q) == q \in kernel[op[c]].producers[gid[c]]
IsConsumer(c) == c \in kernel[op[c]].consumers[gid[c]]

Seed(c, r, partial) == [op |-> r, core |-> c, partial |-> partial]

Init ==
    /\ kernel \in Kernels
    /\ tracked \in Trackers
    /\ op = [c \in Core |-> 1]
    /\ at = [c \in Core |-> "produce"]
    /\ gid = [c \in Core |-> None]
    /\ round = [c \in Core |-> 1]
    /\ waits = [c \in Core |-> FALSE]
    /\ acc = [c \in Core |-> <<>>]
    /\ fwd = [c \in Core |-> None]
    /\ bytes = [c \in Core |-> 0]
    /\ chan = [c \in Core |-> <<>>]
    /\ out = [c \in Core |-> <<>>]
    /\ failed = FALSE

Live(c) == ~failed /\ op[c] <= Ops

Memberships(c, r) == {g \in Group : c \in kernel[r].producers[g]}

(* inter_tile_produce: find this core's group and stash its partial. *)
Produce(c) ==
    /\ Live(c) /\ at[c] = "produce"
    /\ \E g \in Group :
         /\ Memberships(c, op[c]) = {g}
         /\ gid' = [gid EXCEPT ![c] = g]
    /\ at' = [at EXCEPT ![c] = "reduce"]
    /\ UNCHANGED <<run, op, ring, chan, out, failed>>

(* _find_tile_group raises unless exactly one group holds this core. *)
ProduceRaises(c) ==
    /\ Live(c) /\ at[c] = "produce"
    /\ Cardinality(Memberships(c, op[c])) # 1
    /\ failed' = TRUE
    /\ UNCHANGED <<run, op, at, gid, ring, chan, out>>

(* A faulty entry that goes on counting the bytes of the last reduce. *)
Enter_KeepsBytes(c) ==
    /\ Live(c) /\ at[c] = "reduce"
    /\ LET seed == Seed(c, op[c], IsProducer(c, c)) IN
         /\ acc' = [acc EXCEPT ![c] = <<seed>>]
         /\ fwd' = [fwd EXCEPT ![c] = seed]
    /\ round' = [round EXCEPT ![c] = 1]
    /\ waits' = [waits EXCEPT ![c] = FALSE]
    /\ at' = [at EXCEPT ![c] = "ring"]
    /\ UNCHANGED <<run, op, gid, bytes, chan, out, failed>>

(* inter_tile_reduce builds the plan and starts a fresh backend. *)
Enter(c) ==
    /\ Live(c) /\ at[c] = "reduce"
    /\ LET seed == Seed(c, op[c], IsProducer(c, c)) IN
         /\ acc' = [acc EXCEPT ![c] = <<seed>>]
         /\ fwd' = [fwd EXCEPT ![c] = seed]
    /\ round' = [round EXCEPT ![c] = 1]
    /\ waits' = [waits EXCEPT ![c] = FALSE]
    /\ bytes' = [bytes EXCEPT ![c] = 0]
    /\ at' = [at EXCEPT ![c] = "ring"]
    /\ UNCHANGED <<run, op, gid, chan, out, failed>>

(* A faulty round that saves the send of the last one. *)
SendOn_SkipsLast(c) ==
    /\ Live(c) /\ at[c] = "ring" /\ ~waits[c] /\ round[c] < N
    /\ bytes' = [bytes EXCEPT ![c] = @ + 1]
    /\ chan' = IF round[c] = N - 1 THEN chan
               ELSE [chan EXCEPT ![NextCore(c)] = Append(@, fwd[c])]
    /\ waits' = [waits EXCEPT ![c] = TRUE]
    /\ UNCHANGED <<run, op, at, gid, round, acc, fwd, out, failed>>

(* The first half of a round, up to the yield. *)
SendOn(c) ==
    /\ Live(c) /\ at[c] = "ring" /\ ~waits[c] /\ round[c] < N
    /\ bytes' = [bytes EXCEPT ![c] = @ + 1]
    /\ chan' = [chan EXCEPT ![NextCore(c)] = Append(@, fwd[c])]
    /\ waits' = [waits EXCEPT ![c] = TRUE]
    /\ UNCHANGED <<run, op, at, gid, round, acc, fwd, out, failed>>

(* A faulty round that folds every arrival, whatever the plan. *)
Receive_FoldsAll(c) ==
    /\ Live(c) /\ at[c] = "ring" /\ waits[c] /\ chan[c] # <<>>
    /\ acc' = [acc EXCEPT ![c] = Append(@, Head(chan[c]))]
    /\ fwd' = [fwd EXCEPT ![c] = Head(chan[c])]
    /\ chan' = [chan EXCEPT ![c] = Tail(@)]
    /\ round' = [round EXCEPT ![c] = @ + 1]
    /\ waits' = [waits EXCEPT ![c] = FALSE]
    /\ UNCHANGED <<run, op, at, gid, bytes, out, failed>>

(* The second half: fold what arrived if its origin is in the plan. *)
Receive(c) ==
    /\ Live(c) /\ at[c] = "ring" /\ waits[c] /\ chan[c] # <<>>
    /\ acc' = [acc EXCEPT ![c] =
                  IF IsProducer(c, Origin(c, round[c]))
                  THEN Append(@, Head(chan[c])) ELSE @]
    /\ fwd' = [fwd EXCEPT ![c] = Head(chan[c])]
    /\ chan' = [chan EXCEPT ![c] = Tail(@)]
    /\ round' = [round EXCEPT ![c] = @ + 1]
    /\ waits' = [waits EXCEPT ![c] = FALSE]
    /\ UNCHANGED <<run, op, at, gid, bytes, out, failed>>

(* A faulty ring of N - 2 rounds. *)
Leave_RoundShort(c) ==
    /\ Live(c) /\ at[c] = "ring" /\ round[c] = N - 1
    /\ out' = [out EXCEPT ![c] = Append(@,
                  IF IsConsumer(c) THEN [value |-> acc[c], bytes |-> bytes[c]]
                                   ELSE None)]
    /\ op' = [op EXCEPT ![c] = @ + 1]
    /\ at' = [at EXCEPT ![c] = "produce"]
    /\ UNCHANGED <<run, gid, ring, chan, failed>>

(* A faulty ring that only the consumers leave. *)
Leave_ConsumersOnly(c) ==
    /\ Live(c) /\ at[c] = "ring" /\ round[c] = N /\ IsConsumer(c)
    /\ out' = [out EXCEPT ![c] = Append(@, [value |-> acc[c], bytes |-> bytes[c]])]
    /\ op' = [op EXCEPT ![c] = @ + 1]
    /\ at' = [at EXCEPT ![c] = "produce"]
    /\ UNCHANGED <<run, gid, ring, chan, failed>>

(* The generator returns; a consumer's tile is stamped with the bytes. *)
Leave(c) ==
    /\ Live(c) /\ at[c] = "ring" /\ round[c] = N
    /\ IsConsumer(c) \/ ~tracked
    /\ out' = [out EXCEPT ![c] = Append(@,
                  IF IsConsumer(c) THEN [value |-> acc[c], bytes |-> bytes[c]]
                                   ELSE None)]
    /\ op' = [op EXCEPT ![c] = @ + 1]
    /\ at' = [at EXCEPT ![c] = "produce"]
    /\ UNCHANGED <<run, gid, ring, chan, failed>>

(* With a tracker, record_op asks _comm_size for the bytes of the result,  *)
(* which raises for anything that is not a Tile.                           *)
LeaveRaises(c) ==
    /\ Live(c) /\ at[c] = "ring" /\ round[c] = N
    /\ ~IsConsumer(c) /\ tracked
    /\ failed' = TRUE
    /\ UNCHANGED <<run, op, at, gid, ring, chan, out>>

Step(c) == \/ Produce(c) \/ ProduceRaises(c) \/ Enter(c)
           \/ SendOn(c) \/ Receive(c) \/ Leave(c) \/ LeaveRaises(c)

Next == \E c \in Core : Step(c)

(* The scheduler resumes some core as long as one can be resumed. *)
Spec == Init /\ [][Next]_vars /\ WF_vars(Next)

----------------------------------------------------------------------------
TypeOK ==
    /\ kernel \in [1 .. Ops -> Family]
    /\ tracked \in BOOLEAN
    /\ op \in [Core -> 1 .. Ops + 1]
    /\ at \in [Core -> {"produce", "reduce", "ring"}]
    /\ gid \in [Core -> Group \cup {None}]
    /\ round \in [Core -> 1 .. N]
    /\ waits \in [Core -> BOOLEAN]
    /\ acc \in [Core -> Seq(Tile)]
    /\ fwd \in [Core -> Tile \cup {None}]
    /\ bytes \in [Core -> 0 .. N - 1]
    /\ chan \in [Core -> Seq(Tile)]
    /\ out \in [Core -> Seq(Result)]
    /\ failed \in BOOLEAN

(* The queues carry no tags, yet a suspended core's next tile is the       *)
(* partial of exactly the core the backend computes as its origin, made    *)
(* for the reduce the receiver is in, however far ahead its neighbours run.*)
ArrivalIsFromItsOrigin ==
    \A c \in Core :
        at[c] = "ring" /\ waits[c] /\ chan[c] # <<>> =>
            /\ Head(chan[c]).op = op[c]
            /\ Head(chan[c]).core = Origin(c, round[c])

Producers(c, r) == UNION {kernel[r].producers[g] : g \in Memberships(c, r)}
Consumers(c, r) == UNION {kernel[r].consumers[g] : g \in Memberships(c, r)}

(* The value a core binds for its r-th reduce: its own partial, then the   *)
(* partials of the other producers of its group in ring order, each once   *)
(* and all of the same reduce; a core that is not a consumer binds none.   *)
Contribution(c, r, k) ==
    IF Origin(c, k) \in Producers(c, r) THEN <<Seed(Origin(c, k), r, TRUE)>> ELSE <<>>

Fold(c, r) ==
    LET fold[k \in 0 .. N - 1] ==
            IF k = 0 THEN Contribution(c, r, 0) ELSE fold[k - 1] \o Contribution(c, r, k)
    IN  fold

Folded(c, r) == Fold(c, r)[N - 1]

ResultsAreGroupFolds ==
    \A c \in Core : \A r \in DOMAIN out[c] :
        out[c][r] = IF c \in Consumers(c, r)
                    THEN [value |-> Folded(c, r), bytes |-> N - 1]
                    ELSE None

(* Unless a handler raises, the ring never stops half-way: as long as some *)
(* core has reduces left, some core is not waiting on an empty queue.      *)
RingIsDeadlockFree ==
    ~failed /\ (\E c \in Core : op[c] <= Ops) =>
        \E c \in Core : op[c] <= Ops /\ ~(at[c] = "ring" /\ waits[c] /\ chan[c] = <<>>)

(* Nothing is left in the queues for a later operation to pick up once     *)
(* every core is past its last reduce.                                     *)
QueuesDrain ==
    (\A c \in Core : op[c] = Ops + 1) => \A c \in Core : chan[c] = <<>>

(* Every reduce of every core returns, or an exception ends the run. *)
EveryReduceReturns == <>(failed \/ \A c \in Core : Len(out[c]) = Ops)

(* A core that is no consumer completes the op with no value: comm_ops.py  *)
(* lines 187-190 and 242-245.  So a handler raises only where the groups   *)
(* are not disjoint or do not cover the cores.                             *)
Grouped(c) == op[c] <= Ops => Cardinality(Memberships(c, op[c])) = 1
NonConsumersComplete == failed => \E c \in Core : ~Grouped(c)
=============================================================================
