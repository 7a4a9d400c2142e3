-------------------------- MODULE RingOnScheduler --------------------------
(***************************************************************************)
(* The ring reduce as a client of the grid scheduler: the programs are the *)
(* steps RingReduceBackend.run makes on each core, and RingReduce, whose   *)
(* cores are interleaved freely, is what the scheduler's one order of them *)
(* implements.  The kernel is one all-reduce of the whole grid, repeated.  *)
(***************************************************************************)
EXTENDS GridScheduler

CONSTANTS
    Ops,        \* number of produce and reduce pairs the kernel runs
    G,          \* the one group of the kernel
    None        \* Python's None, as in RingReduce

Left(c) == (c - 1) % N
Right(c) == (c + 1) % N

(* Produce, entering the reduce, its N - 1 rounds, and its return. *)
OpLength == 2 * N + 1

(* Faulty rounds: sending to the left, and receiving before sending. *)
RingStep_SendsLeft(c, offset) ==
    CASE offset \in {0, 1, 2 * N} -> [op |-> "work", peer |-> c]
      [] offset \in 2 .. 2 * N - 1 /\ offset % 2 = 0 -> [op |-> "send", peer |-> Left(c)]
      [] OTHER -> [op |-> "recv", peer |-> Right(c)]

RingStep_RecvFirst(c, offset) ==
    CASE offset \in {0, 1, 2 * N} -> [op |-> "work", peer |-> c]
      [] offset \in 2 .. 2 * N - 1 /\ offset % 2 = 1 -> [op |-> "send", peer |-> Right(c)]
      [] OTHER -> [op |-> "recv", peer |-> Left(c)]

RingStep(c, offset) ==
    CASE offset \in {0, 1, 2 * N} -> [op |-> "work", peer |-> c]
      [] offset \in 2 .. 2 * N - 1 /\ offset % 2 = 0 -> [op |-> "send", peer |-> Right(c)]
      [] OTHER -> [op |-> "recv", peer |-> Left(c)]

RingPrograms ==
    {[c \in Core |-> [i \in 1 .. Ops * OpLength |-> RingStep(c, (i - 1) % OpLength)]]}

(* The executor runs the kernel, once. *)
RunsTheRing == Ops \in Nat /\ Programs = RingPrograms /\ MaxCalls = 1

----------------------------------------------------------------------------
(* Where a position of the program lies: the reduce, the offset in it, the *)
(* reduce whose ring state the core still holds and the rounds it received.*)
OpOf(i) == (i - 1) \div OpLength + 1
OffsetOf(i) == (i - 1) % OpLength
Rounds(offset) == IF offset < 2 THEN 0 ELSE (offset - 2) \div 2
InRing(c) == OffsetOf(pc[c]) >= 2
HeldOp(c) == IF InRing(c) THEN OpOf(pc[c]) ELSE OpOf(pc[c]) - 1
HeldRounds(c) == IF InRing(c) THEN Rounds(OffsetOf(pc[c])) ELSE N - 1
Waits(c) == OffsetOf(pc[c]) \in 2 .. 2 * N - 1 /\ OffsetOf(pc[c]) % 2 = 1

Arrived(c, r, k) == got[c][(r - 1) * (N - 1) + k]
Partial(c, r) == [op |-> r, core |-> c % N, partial |-> TRUE]

(* What a tile on the wire holds.  In each round a core forwards what came *)
(* in the round before, so k rounds into a reduce it sends the partial of  *)
(* the core k places to its left: RingReduce!SendOn holds it to that.      *)
Payload(tile) == Partial(tile.src - Rounds(OffsetOf(tile.step)), OpOf(tile.step))

Accumulated(c, r, k) ==
    [j \in 1 .. k + 1 |-> IF j = 1 THEN Partial(c, r) ELSE Payload(Arrived(c, r, j - 1))]

Kernel == [r \in 1 .. Ops |-> [producers |-> [g \in {G} |-> Core],
                               consumers |-> [g \in {G} |-> Core]]]

(* The state of the ring, read off the scheduler's. *)
RingOp == [c \in Core |-> OpOf(pc[c])]
RingAt == [c \in Core |-> CASE OffsetOf(pc[c]) = 0 -> "produce"
                            [] OffsetOf(pc[c]) = 1 -> "reduce"
                            [] OTHER -> "ring"]
RingGid == [c \in Core |-> IF pc[c] = 1 THEN None ELSE G]
RingRound == [c \in Core |-> IF HeldOp(c) = 0 THEN 1 ELSE HeldRounds(c) + 1]
RingWaits == [c \in Core |-> Waits(c)]
RingAcc == [c \in Core |-> IF HeldOp(c) = 0 THEN <<>>
                           ELSE Accumulated(c, HeldOp(c), HeldRounds(c))]
RingFwd == [c \in Core |->
               IF HeldOp(c) = 0 THEN None
               ELSE IF HeldRounds(c) = 0 THEN Partial(c, HeldOp(c))
               ELSE Payload(Arrived(c, HeldOp(c), HeldRounds(c)))]
RingBytes == [c \in Core |-> IF HeldOp(c) = 0 THEN 0
                             ELSE HeldRounds(c) + (IF Waits(c) THEN 1 ELSE 0)]
RingChan == [c \in Core |-> [i \in DOMAIN messages[<<Left(c), c>>] |->
                                Payload(messages[<<Left(c), c>>][i])]]
RingOut == [c \in Core |-> [r \in 1 .. OpOf(pc[c]) - 1 |->
               [value |-> Accumulated(c, r, N - 1), bytes |-> N - 1]]]

Ring == INSTANCE RingReduce WITH
    Group <- {G},
    Kernels <- {Kernel},
    Trackers <- BOOLEAN,
    kernel <- Kernel,
    tracked <- FALSE,
    op <- RingOp,
    at <- RingAt,
    gid <- RingGid,
    round <- RingRound,
    waits <- RingWaits,
    acc <- RingAcc,
    fwd <- RingFwd,
    bytes <- RingBytes,
    chan <- RingChan,
    out <- RingOut,
    failed <- FALSE

(* Every step the scheduler makes a core take is a step of the free ring,  *)
(* with the tiles that travelled through the scheduler's queues.           *)
SchedulerImplementsRing == Ring!Init /\ [][Ring!Next]_(Ring!vars)

(* Under the scheduler's own order the symmetric exchange never deadlocks: *)
(* a call that is set up returns (docs/gap_analysis.md, K2).               *)
KernelReturns == phase = "setup" ~> phase = "done"
============================================================================
