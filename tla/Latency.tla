------------------------------ MODULE Latency ------------------------------
(***************************************************************************)
(* The latency tracker and its report (latency.py), with the calls the     *)
(* interpreter makes: a run of a kernel drops the counters of the one      *)
(* before and sets the cores that share the bandwidth, every op that       *)
(* returns is recorded on its core, and a report keeps the counter objects *)
(* themselves.                                                             *)
(*                                                                         *)
(* Time is counted in ticks, Scale to a cycle, so that every cost is a     *)
(* whole number; bandwidths are bytes per cycle.  A ratio is a pair of     *)
(* numerator and denominator.                                              *)
(***************************************************************************)
EXTENDS Integers, Sequences, FiniteSetsExt

CONSTANTS
    NumCores,     \* HardwareConfig.num_cores
    Grids,        \* the numbers of cores kernels run on
    Ops,          \* the ops kernels execute
    StickBytes,
    HbmRate, LxRate, RingRate,   \* bytes per cycle
    SimdRate, SystolicRate,      \* elements and flops per cycle
    Penalty,      \* transcendental_penalty
    Scale,        \* ticks in a cycle
    MaxOps,       \* bound on the ops recorded
    MaxRuns,      \* bound on the runs
    MaxReports    \* bound on the reports

VARIABLES
    objects,      \* the CoreLatencyCounters ever made
    counters,     \* the tracker's: core -> object
    coresActive,
    running,      \* a kernel is executing
    runs,
    moved,        \* the HBM sticks the ops of the run touched, by core
    mixed,        \* the LX bytes that views of both spaces added, by core
    ops,          \* the ops recorded, in all runs
    reports       \* what each report taken keeps: core -> object

vars == <<objects, counters, coresActive, running, runs, moved, mixed, ops, reports>>

Rates == {HbmRate, LxRate, RingRate, SimdRate, SystolicRate}

(* A tick is so short that no cost is rounded. *)
LatencyAssumption ==
    /\ NumCores \in Nat \ {0} /\ Grids \subseteq 1 .. NumCores
    /\ StickBytes \in Nat /\ Penalty \in Nat \ {0}
    /\ Scale \in Nat \ {0} /\ \A rate \in Rates : rate \in Nat \ {0} /\ Scale % rate = 0
    /\ MaxRuns \in Nat

ASSUME LatencyAssumption

Units == {"systolic", "simd"}
UnitOf == [compute_matmul |-> "systolic", compute_float |-> "simd",
           compute_transcendental |-> "simd", compute_int |-> "simd"]
Computes == DOMAIN UnitOf
Categories == Computes \cup {"memory", "comm", "zero"}
CategoriesOf(unit) == {cat \in Computes : UnitOf[cat] = unit}

(* What the operands and the result of an op tell of its cost. *)
Parts == Seq([space : {"HBM", "LX"}, sticks : Nat, bytes : Nat])
IsOp(op) ==
    CASE op.cat = "memory" -> op.load \in BOOLEAN /\ op.parts \in Parts /\ op.index \in Parts
      [] op.cat = "compute_matmul" -> op.flops \in Nat
      [] op.cat = "comm" -> op.bytes \in Nat \cup {-1}
      [] op.cat = "zero" -> TRUE
      [] OTHER -> op.cat \in Computes /\ op.elems \in Nat

ASSUME OpsAssumption == \A op \in Ops : IsOp(op)

Sum1(f, keys) == MapThenSumSet(LAMBDA k : f[k], keys)
Most(s) == CHOOSE a \in s : \A b \in s : b <= a

(***************************************************************************)
(* What the handlers return: a load a tile with its sticks, a store the    *)
(* number of them.  -1 is None.                                            *)
(***************************************************************************)
HbmSticks(tiles) ==
    Sum1([i \in DOMAIN tiles |-> IF tiles[i].space = "HBM" THEN tiles[i].sticks ELSE 0], DOMAIN tiles)
LxBytes(tiles) ==
    Sum1([i \in DOMAIN tiles |-> IF tiles[i].space = "LX" THEN tiles[i].bytes ELSE 0], DOMAIN tiles)
Spaces(tiles) == {tiles[i].space : i \in DOMAIN tiles}

UniqueSticks(op) == IF "HBM" \in Spaces(op.parts) THEN HbmSticks(op.parts) ELSE -1

(* _memory_space *)
MemorySpace(op) == IF "HBM" \in Spaces(op.parts) \cup Spaces(op.index) THEN "HBM" ELSE "LX"

(* _data_size raises on a tile without sticks. *)
NoDataSize(op) == op.load /\ UniqueSticks(op) = -1

(* A faulty size that takes only the data's sticks from the tile. *)
DataSize_DataOnly(op) == HbmSticks(op.parts) * StickBytes

DataSize(op) == (HbmSticks(op.parts) + HbmSticks(op.index)) * StickBytes

(* _is_distributed_mixed *)
Mixed(op) == {"HBM", "LX"} \subseteq Spaces(op.parts)

(* The HBM sticks of the op's data and of its indices. *)
Touched(op) == IF op.cat = "memory" THEN HbmSticks(op.parts) + HbmSticks(op.index) ELSE 0
Added(op) == IF op.cat = "memory" /\ Mixed(op) THEN LxBytes(op.parts) ELSE 0

(* _estimate: what it raises on, and what it returns. *)
Unpriced(op) ==
    \/ op.cat = "memory" /\ MemorySpace(op) = "HBM" /\ NoDataSize(op)
    \/ op.cat = "comm" /\ op.bytes = -1

(* A faulty time that gives each core the bandwidth of the chip. *)
HbmTicks_Alone(bytes) == (bytes * Scale) \div HbmRate

HbmTicks(bytes) == (bytes * coresActive * Scale) \div HbmRate

Cost(ticks, flops, bytes) == [ticks |-> ticks, flops |-> flops, bytes |-> bytes]

MemoryCost(op) ==
    IF MemorySpace(op) = "LX" THEN Cost(0, 0, 0)
    ELSE IF Mixed(op)
    THEN LET hbm == DataSize(op)
             lx == LxBytes(op.parts)
         IN  Cost(Most({HbmTicks(hbm), (lx * Scale) \div LxRate}), 0, hbm + lx)
    ELSE Cost(HbmTicks(DataSize(op)), 0, DataSize(op))

Estimate(op) ==
    CASE op.cat = "zero" -> Cost(0, 0, 0)
      [] op.cat = "memory" -> MemoryCost(op)
      [] op.cat = "compute_matmul" -> Cost((op.flops * Scale) \div SystolicRate, op.flops, 0)
      [] op.cat = "compute_transcendental" ->
             Cost(((op.elems * Scale) \div SimdRate) * Penalty, op.elems, 0)
      [] op.cat = "compute_float" -> Cost((op.elems * Scale) \div SimdRate, op.elems, 0)
      [] op.cat = "compute_int" ->
             IF op.elems <= 1 THEN Cost(0, 0, 0)
             ELSE Cost((op.elems * Scale) \div SimdRate, op.elems, 0)
      [] op.cat = "comm" -> Cost((op.bytes * Scale) \div RingRate, 0, op.bytes)

(***************************************************************************)
(* CoreLatencyCounters                                                     *)
(***************************************************************************)
NewCounters == [ticks |-> [cat \in Categories |-> 0], flops |-> [cat \in Categories |-> 0],
                bytes |-> [cat \in Categories |-> 0]]

Recorded(obj, cat, cost) ==
    [ticks |-> [obj.ticks EXCEPT ![cat] = @ + cost.ticks],
     flops |-> [obj.flops EXCEPT ![cat] = @ + cost.flops],
     bytes |-> [obj.bytes EXCEPT ![cat] = @ + cost.bytes]]

ComputeTicks(obj) == Sum1(obj.ticks, Computes)

(***************************************************************************)
(* The tracker.                                                            *)
(***************************************************************************)
Init ==
    /\ objects = <<>>
    /\ counters = <<>>
    /\ coresActive = NumCores
    /\ running = FALSE
    /\ runs = 0
    /\ moved = [c \in 0 .. NumCores - 1 |-> 0]
    /\ mixed = moved
    /\ ops = 0
    /\ reports = <<>>

(* A faulty reset that clears the counters and keeps them. *)
Reset_InPlace ==
    /\ objects' = [i \in DOMAIN objects |->
                      IF \E c \in DOMAIN counters : counters[c] = i THEN NewCounters ELSE objects[i]]
    /\ UNCHANGED counters

(* LatencyTracker.reset *)
Reset ==
    /\ counters' = <<>>
    /\ UNCHANGED objects

(* execute_function, to where the kernel's body starts. *)
Execute(grid) ==
    /\ ~running /\ runs < MaxRuns
    /\ Reset
    /\ coresActive' = grid
    /\ running' = TRUE
    /\ runs' = runs + 1
    /\ moved' = [c \in DOMAIN moved |-> 0]
    /\ mixed' = [c \in DOMAIN mixed |-> 0]
    /\ UNCHANGED <<ops, reports>>

(* record_op, after a handler returned or its generator did: the counters  *)
(* of a core are made before the cost is known, and the run ends where     *)
(* there is no cost to know.                                               *)
RecordOp(core, op) ==
    /\ running /\ core < coresActive /\ ops < MaxOps
    /\ LET fresh == core \notin DOMAIN counters
           made == IF fresh THEN Append(objects, NewCounters) ELSE objects
           id == IF fresh THEN Len(made) ELSE counters[core]
       IN  /\ counters' = [c \in DOMAIN counters \cup {core} |-> IF c = core THEN id ELSE counters[c]]
           /\ IF Unpriced(op)
              THEN objects' = made /\ running' = FALSE /\ UNCHANGED <<moved, mixed>>
              ELSE /\ objects' = [made EXCEPT ![id] = Recorded(@, op.cat, Estimate(op))]
                   /\ moved' = [moved EXCEPT ![core] = @ + Touched(op)]
                   /\ mixed' = [mixed EXCEPT ![core] = @ + Added(op)]
                   /\ UNCHANGED running
    /\ ops' = ops + 1
    /\ UNCHANGED <<coresActive, runs, reports>>

Return ==
    /\ running
    /\ running' = FALSE
    /\ UNCHANGED <<objects, counters, coresActive, runs, moved, mixed, ops, reports>>

(* get_latency_report; report() copies the dict, not what is in it. *)
Report ==
    /\ ~running /\ Len(reports) < MaxReports
    /\ reports' = Append(reports, counters)
    /\ UNCHANGED <<objects, counters, coresActive, running, runs, moved, mixed, ops>>

Next ==
    \/ \E grid \in Grids : Execute(grid)
    \/ \E core \in 0 .. NumCores - 1, op \in Ops : RecordOp(core, op)
    \/ Return
    \/ Report

Spec == Init /\ [][Next]_vars

(***************************************************************************)
(* LatencyReport, of counters by core, under one of the pipeline models.   *)
(***************************************************************************)
Pipelines == {"serial", "overlapped", "overlapped_3way"}

EffectiveTicks(pipeline, obj) ==
    LET compute == ComputeTicks(obj)
        memory == obj.ticks["memory"]
        comm == obj.ticks["comm"]
    IN  CASE pipeline = "serial" -> compute + memory + comm
          [] pipeline = "overlapped" -> Most({compute, memory + comm})
          [] OTHER -> Most({compute, memory, comm})

KernelTicks(pipeline, report) == Most({EffectiveTicks(pipeline, report[c]) : c \in DOMAIN report})

(* critical_core, whichever of equal ones comes first *)
CriticalCores(pipeline, report) ==
    {c \in DOMAIN report : EffectiveTicks(pipeline, report[c]) = KernelTicks(pipeline, report)}
BusyCores(pipeline, report) == {c \in DOMAIN report : EffectiveTicks(pipeline, report[c]) > 0}

UnitSum(f, unit) == Sum1(f, CategoriesOf(unit))
ChipSum(f, report) == Sum1([c \in DOMAIN report |-> f[c]], DOMAIN report)

UnitTicks(report, unit) == ChipSum([c \in DOMAIN report |-> UnitSum(report[c].ticks, unit)], report)
Dominant(report) ==
    IF UnitTicks(report, "systolic") > UnitTicks(report, "simd")
       \/ (UnitTicks(report, "systolic") = UnitTicks(report, "simd") /\ UnitTicks(report, "simd") > 0)
    THEN "systolic" ELSE "simd"

Peak(unit) == IF unit = "systolic" THEN SystolicRate ELSE SimdRate

(* _roofline_at, for bandwidth HbmRate \div shares; attainment is achieved *)
(* over the lower of the two ceilings, so the larger of the two ratios.    *)
RooflineAt(flops, bytes, peak, shares, elapsed) ==
    LET compute == <<flops * Scale, peak * elapsed>>
        dram == <<bytes * Scale * shares, HbmRate * elapsed>>
    IN  [compute |-> compute, dram |-> dram,
         attainment |-> IF flops = 0 THEN {<<0, 1>>}
                        ELSE IF bytes = 0 THEN {compute} ELSE {compute, dram}]

ChipRoofline(pipeline, report) ==
    LET dom == Dominant(report)
    IN  RooflineAt(ChipSum([c \in DOMAIN report |-> UnitSum(report[c].flops, dom)], report),
                   ChipSum([c \in DOMAIN report |-> report[c].bytes["memory"]], report),
                   Peak(dom) * NumCores, 1, KernelTicks(pipeline, report))

CoreRoofline(pipeline, report, critical, unit) ==
    RooflineAt(UnitSum(report[critical].flops, unit), report[critical].bytes["memory"], Peak(unit),
               Cardinality(BusyCores(pipeline, report)), KernelTicks(pipeline, report))

MeanActive(pipeline, report) ==
    <<ChipSum([c \in DOMAIN report |-> EffectiveTicks(pipeline, report[c])], report),
      NumCores * KernelTicks(pipeline, report)>>

(***************************************************************************)
(* Properties.                                                             *)
(***************************************************************************)
Contents(report) == [c \in DOMAIN report |-> objects[report[c]]]
Now == Contents(counters)

(* Counters belong to cores of the run, each to one. *)
TypeOK ==
    /\ DOMAIN counters \subseteq 0 .. coresActive - 1
    /\ \A c, d \in DOMAIN counters : counters[c] = counters[d] => c = d
    /\ \A c \in DOMAIN counters : counters[c] \in DOMAIN objects
    /\ coresActive \in Grids \cup {NumCores}
    /\ runs \in 0 .. MaxRuns

AtMostOne(ratio) == ratio[1] <= ratio[2]

(* No ratio of a report exceeds one, whatever ops ran on whichever cores   *)
(* and however many of them: nothing computes faster than its unit's peak  *)
(* or moves more than the share of the bandwidth it is measured against,   *)
(* under every pipeline model (latency.py, chip_roofline, core_roofline).  *)
(* The ratios to the bandwidth of HBM hold where no op went through a view *)
(* of both spaces, whose LX bytes line 337 counts as bytes of HBM.         *)
RatiosAreFractions ==
    \A pipeline \in Pipelines :
        DOMAIN counters # {} /\ KernelTicks(pipeline, Now) > 0 =>
            LET chip == ChipRoofline(pipeline, Now)
            IN  /\ AtMostOne(chip.compute)
                /\ AtMostOne(MeanActive(pipeline, Now))
                /\ (\A core \in DOMAIN counters : mixed[core] = 0) =>
                      /\ \A r \in chip.attainment \cup {chip.dram} : AtMostOne(r)
                      /\ \A core \in CriticalCores(pipeline, Now), unit \in Units :
                            \A r \in CoreRoofline(pipeline, Now, core, unit).attainment : AtMostOne(r)

(* The memory bytes of a core are the HBM sticks its ops of this run       *)
(* touched, for data and for indices, whichever carrier brought them: the  *)
(* tile of a load or the number a store returns (latency.py, _data_size),  *)
(* and beside them only the LX parts of the views of both spaces.          *)
MemoryIsHbmTraffic ==
    \A core \in DOMAIN counters :
        Now[core].bytes["memory"] = moved[core] * StickBytes + mixed[core]

(* A report does not change afterwards: it shares the counters of its run, *)
(* and neither the reset nor the ops of a later one reach them             *)
(* (latency.py, report and reset).                                         *)
ReportsAreFinal ==
    [][\A i \in DOMAIN reports : Contents(reports[i])' = Contents(reports[i])]_vars
=============================================================================
