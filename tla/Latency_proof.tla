--------------------------- MODULE Latency_proof ---------------------------
(***************************************************************************)
(* What is proved of the latency tracker for every hardware, every set of  *)
(* grids and of ops, and runs of any length: counters belong to the cores  *)
(* of their run, a report never changes, memory bytes are what the ops     *)
(* moved, and no ratio of a report exceeds one.                            *)
(*                                                                         *)
(* The inductive invariant adds to the type the books that the report only *)
(* sums up: for each core, every compute category has spent at least the   *)
(* time its flops take at the peak of its unit, and the memory ticks are   *)
(* at least what the bytes take at the core's share of the bandwidth.      *)
(***************************************************************************)
EXTENDS Latency, CommonLemmas

(***************************************************************************)
(* Sums, maxima and categories.                                            *)
(***************************************************************************)
LEMMA SumIs == ASSUME NEW f, NEW S PROVE Sum1(f, S) = SumOver(f, S)
BY DEF Sum1, SumOver

LEMMA MostFacts ==
    ASSUME NEW S \in SUBSET Nat, IsFiniteSet(S), S # {}
    PROVE  Most(S) \in S /\ Most(S) \in Nat /\ \A b \in S : b <= Most(S)
<1>1. \E a \in S : \A b \in S : b <= a
  BY FiniteMaximum
<1> QED
  BY <1>1 DEF Most

LEMMA MostOfTwo ==
    ASSUME NEW a \in Nat, NEW b \in Nat
    PROVE  Most({a, b}) \in Nat /\ a <= Most({a, b}) /\ b <= Most({a, b})
<1>1. IsFiniteSet({a, b})
  <2>1. IsFiniteSet({a} \cup {b})
    BY FS_Singleton, FS_Union
  <2>2. {a} \cup {b} = {a, b}
    OBVIOUS
  <2> QED
    BY <2>1, <2>2
<1> QED
  BY <1>1, MostFacts

LEMMA MostOfThree ==
    ASSUME NEW a \in Nat, NEW b \in Nat, NEW c \in Nat
    PROVE  /\ Most({a, b, c}) \in Nat
           /\ a <= Most({a, b, c}) /\ b <= Most({a, b, c}) /\ c <= Most({a, b, c})
<1>1. IsFiniteSet({a, b, c})
  <2>1. IsFiniteSet({a} \cup {b}) /\ IsFiniteSet({c})
    BY FS_Singleton, FS_Union
  <2>2. IsFiniteSet(({a} \cup {b}) \cup {c})
    BY <2>1, FS_Union
  <2>3. ({a} \cup {b}) \cup {c} = {a, b, c}
    OBVIOUS
  <2> QED
    BY <2>2, <2>3
<1> QED
  BY <1>1, MostFacts

LEMMA CategoryFacts ==
    /\ Computes = {"compute_matmul", "compute_float", "compute_transcendental", "compute_int"}
    /\ Computes \subseteq Categories /\ IsFiniteSet(Computes)
    /\ "memory" \in Categories /\ "comm" \in Categories /\ "zero" \in Categories
    /\ "memory" \notin Computes /\ "comm" \notin Computes /\ "zero" \notin Computes
    /\ \A cat \in Computes : UnitOf[cat] \in Units
<1>1. Computes = {"compute_matmul", "compute_float", "compute_transcendental", "compute_int"}
  BY DEF Computes, UnitOf
<1>2. IsFiniteSet(Computes)
  <2> DEFINE A == {"compute_matmul"} \cup {"compute_float"}
             B == {"compute_transcendental"} \cup {"compute_int"}
  <2>1. IsFiniteSet(A) /\ IsFiniteSet(B)
    BY FS_Singleton, FS_Union
  <2>2. IsFiniteSet(A \cup B)
    <3> HIDE DEF A, B
    <3> QED
      BY <2>1, FS_Union
  <2>3. A \cup B = Computes
    BY <1>1
  <2> QED
    BY <2>2, <2>3
<1>3. \A cat \in Computes : UnitOf[cat] \in Units
  BY <1>1 DEF UnitOf, Units
<1> QED
  BY <1>1, <1>2, <1>3 DEF Categories

LEMMA UnitFacts ==
    ASSUME NEW unit \in Units
    PROVE  /\ CategoriesOf(unit) \in SUBSET Computes
           /\ CategoriesOf(unit) \in SUBSET Categories
           /\ IsFiniteSet(CategoriesOf(unit))
           /\ \A cat \in CategoriesOf(unit) : UnitOf[cat] = unit
           /\ Peak(unit) \in Nat \ {0}
<1>1. CategoriesOf(unit) \subseteq Computes
  BY DEF CategoriesOf
<1>2. CategoriesOf(unit) \subseteq Categories /\ IsFiniteSet(CategoriesOf(unit))
  BY <1>1, CategoryFacts, FS_Subset
<1>3. Peak(unit) \in Nat \ {0}
  BY LatencyAssumption DEF LatencyAssumption, Peak, Rates
<1> QED
  BY <1>1, <1>2, <1>3 DEF CategoriesOf

(***************************************************************************)
(* What an op costs.                                                       *)
(***************************************************************************)
LEMMA SticksFacts ==
    ASSUME NEW tiles \in Parts
    PROVE  /\ HbmSticks(tiles) \in Nat /\ LxBytes(tiles) \in Nat
           /\ "HBM" \notin Spaces(tiles) => HbmSticks(tiles) = 0
<1> DEFINE D == 1 .. Len(tiles)
           f == [i \in D |-> IF tiles[i].space = "HBM" THEN tiles[i].sticks ELSE 0]
           g == [i \in D |-> IF tiles[i].space = "LX" THEN tiles[i].bytes ELSE 0]
<1>1. Len(tiles) \in Nat /\ DOMAIN tiles = D
  BY DEF Parts
<1>2. ASSUME NEW i \in D PROVE tiles[i].sticks \in Nat /\ tiles[i].bytes \in Nat
  <2> DEFINE S == [space : {"HBM", "LX"}, sticks : Nat, bytes : Nat]
  <2>1. tiles \in Seq(S) /\ i \in 1 .. Len(tiles)
    BY DEF Parts
  <2> HIDE DEF S, f, g
  <2>2. tiles[i] \in S
    BY <2>1
  <2> QED
    BY <2>2 DEF S
<1>3. f \in [D -> Nat] /\ g \in [D -> Nat] /\ D \in SUBSET D
  BY <1>2
<1>4. IsFiniteSet(D)
  BY <1>1, FS_Interval
<1>5. HbmSticks(tiles) = SumOver(f, D) /\ LxBytes(tiles) = SumOver(g, D)
  BY <1>1, SumIs DEF HbmSticks, LxBytes
<1>6. "HBM" \notin Spaces(tiles) => \A i \in D : f[i] = 0
  BY <1>1 DEF Spaces
<1> HIDE DEF D, f, g
<1>7. SumOver(f, D) \in Nat /\ SumOver(g, D) \in Nat
  BY <1>3, <1>4, SumFacts
<1>8. (\A i \in D : f[i] = 0) => SumOver(f, D) = 0
  BY <1>3, <1>4, SumOfZeros
<1> QED
  BY <1>5, <1>6, <1>7, <1>8

(* An elementwise cost at rate r, in ticks. *)
LEMMA ExactTicks ==
    ASSUME NEW r \in Rates, NEW x \in Nat
    PROVE  (x * Scale) \div r \in Nat /\ r * ((x * Scale) \div r) = x * Scale
<1>1. r \in Nat \ {0} /\ Scale \in Nat /\ Scale % r = 0
  BY LatencyAssumption DEF LatencyAssumption
<1> QED
  BY <1>1, ExactDivision

LEMMA HbmTicksFacts ==
    ASSUME NEW bytes \in Nat, coresActive \in Nat
    PROVE  HbmTicks(bytes) \in Nat /\ HbmRate * HbmTicks(bytes) = bytes * coresActive * Scale
<1> DEFINE x == bytes * coresActive
<1>1. x \in Nat /\ HbmRate \in Rates
  BY DEF Rates
<1>2. HbmTicks(bytes) = (x * Scale) \div HbmRate
  BY DEF HbmTicks
<1> HIDE DEF x
<1>3. (x * Scale) \div HbmRate \in Nat /\ HbmRate * ((x * Scale) \div HbmRate) = x * Scale
  BY <1>1, ExactTicks
<1> QED
  BY <1>2, <1>3 DEF x

LEMMA EstimateFacts ==
    ASSUME NEW op \in Ops, ~Unpriced(op), coresActive \in 1 .. NumCores
    PROVE  LET cost == Estimate(op) IN
           /\ op.cat \in Categories
           /\ cost.ticks \in Nat /\ cost.flops \in Nat /\ cost.bytes \in Nat
           /\ op.cat \in Computes => cost.flops * Scale <= Peak(UnitOf[op.cat]) * cost.ticks
           /\ Touched(op) \in Nat /\ Added(op) \in Nat
           /\ op.cat = "memory" =>
                 /\ cost.bytes = Touched(op) * StickBytes + Added(op)
                 /\ Added(op) = 0 => cost.bytes * coresActive * Scale <= HbmRate * cost.ticks
           /\ op.cat # "memory" => Touched(op) = 0 /\ Added(op) = 0
<1> DEFINE cost == Estimate(op)
<1>1. IsOp(op)
  BY OpsAssumption
<1>2. coresActive \in Nat /\ Scale \in Nat /\ StickBytes \in Nat /\ Penalty \in Nat \ {0}
  BY LatencyAssumption DEF LatencyAssumption
<1>3. ASSUME NEW r \in Rates, NEW x \in Nat
      PROVE  (x * Scale) \div r \in Nat /\ r * ((x * Scale) \div r) = x * Scale
  BY ExactTicks
<1>4. \A r \in Rates : r \in Nat
  BY LatencyAssumption DEF LatencyAssumption
<1>5. SystolicRate \in Rates /\ SimdRate \in Rates /\ RingRate \in Rates /\ LxRate \in Rates
      /\ HbmRate \in Rates
  BY DEF Rates
<1>6. CASE op.cat = "memory"
  <2>1. op.parts \in Parts /\ op.index \in Parts
    BY <1>1, <1>6 DEF IsOp
  <2> DEFINE sticks == HbmSticks(op.parts) + HbmSticks(op.index)
             hbm == DataSize(op)
             lx == LxBytes(op.parts)
             lxTicks == (lx * Scale) \div LxRate
  <2>2. /\ HbmSticks(op.parts) \in Nat /\ HbmSticks(op.index) \in Nat /\ lx \in Nat
        /\ "HBM" \notin Spaces(op.parts) => HbmSticks(op.parts) = 0
        /\ "HBM" \notin Spaces(op.index) => HbmSticks(op.index) = 0
    BY <2>1, SticksFacts
  <2>3. sticks \in Nat /\ Touched(op) = sticks /\ hbm = sticks * StickBytes
    BY <1>6, <2>2 DEF Touched, DataSize
  <2> HIDE DEF sticks, hbm, lx
  <2>4. hbm \in Nat
    BY <1>2, <2>3
  <2>5. HbmTicks(hbm) \in Nat /\ HbmRate * HbmTicks(hbm) = hbm * coresActive * Scale
    BY <1>2, <2>4, HbmTicksFacts
  <2>6. lxTicks \in Nat
    BY <1>3, <1>5, <2>2
  <2>7. op.cat \in Categories /\ op.cat \notin Computes /\ cost = MemoryCost(op)
    BY <1>6, CategoryFacts DEF Estimate
  <2>8. CASE MemorySpace(op) = "LX"
    <3>1. "HBM" \notin Spaces(op.parts) /\ "HBM" \notin Spaces(op.index)
      BY <2>8 DEF MemorySpace
    <3>2. sticks = 0
      BY <2>2, <3>1 DEF sticks
    <3>3. Added(op) = 0
      BY <3>1 DEF Added, Mixed
    <3>4. cost.ticks = 0 /\ cost.flops = 0 /\ cost.bytes = 0
      BY <2>7, <2>8 DEF MemoryCost, Cost
    <3> HIDE DEF cost
    <3>5. 0 * coresActive * Scale = 0 /\ HbmRate * 0 = 0 /\ 0 * StickBytes = 0
      BY <1>2, <1>4, <1>5
    <3> QED
      BY <1>6, <2>3, <2>7, <3>2, <3>3, <3>4, <3>5 DEF cost
  <2>9. CASE MemorySpace(op) # "LX" /\ Mixed(op)
    <3>1. cost.ticks = Most({HbmTicks(hbm), lxTicks}) /\ cost.flops = 0 /\ cost.bytes = hbm + lx
      BY <2>7, <2>9 DEF MemoryCost, Cost, hbm, lx
    <3>2. cost.ticks \in Nat /\ HbmTicks(hbm) <= cost.ticks
      <4> HIDE DEF cost, lxTicks
      <4> QED
        BY <2>5, <2>6, <3>1, MostOfTwo
    <3>3. Added(op) = lx
      BY <1>6, <2>9 DEF Added, lx
    <3> HIDE DEF cost
    <3>4. HbmRate * HbmTicks(hbm) <= HbmRate * cost.ticks
      BY <1>4, <1>5, <2>5, <3>2, Scaled
    <3>5. lx = 0 => cost.bytes = hbm
      BY <2>4, <3>1
    <3> QED
      BY <1>6, <2>2, <2>3, <2>4, <2>5, <2>7, <3>1, <3>2, <3>3, <3>4, <3>5 DEF cost
  <2>10. CASE MemorySpace(op) # "LX" /\ ~Mixed(op)
    <3>1. cost.ticks = HbmTicks(hbm) /\ cost.flops = 0 /\ cost.bytes = hbm
      BY <2>7, <2>10 DEF MemoryCost, Cost, hbm
    <3>2. Added(op) = 0
      BY <2>10 DEF Added
    <3> HIDE DEF cost
    <3>3. HbmRate * cost.ticks \in Int /\ cost.bytes * coresActive * Scale = HbmRate * cost.ticks
      BY <1>4, <1>5, <2>5, <3>1
    <3> QED
      BY <1>6, <2>3, <2>4, <2>5, <2>7, <3>1, <3>2, <3>3 DEF cost
  <2> QED
    BY <2>8, <2>9, <2>10
<1>7. op.cat # "memory" => Touched(op) = 0 /\ Added(op) = 0
  BY DEF Touched, Added
<1>8. CASE op.cat = "compute_matmul"
  <2> DEFINE n == op.flops
  <2>1. n \in Nat
    BY <1>1, <1>8 DEF IsOp
  <2>2. cost.ticks = (n * Scale) \div SystolicRate /\ cost.flops = n /\ cost.bytes = 0
    BY <1>8 DEF Estimate, Cost
  <2>3. Peak(UnitOf[op.cat]) = SystolicRate /\ op.cat \in Categories
    BY <1>8, CategoryFacts DEF Peak, UnitOf
  <2> HIDE DEF n
  <2>4. (n * Scale) \div SystolicRate \in Nat
        /\ SystolicRate * ((n * Scale) \div SystolicRate) = n * Scale /\ n * Scale \in Int
    BY <1>2, <1>3, <1>5, <2>1
  <2> HIDE DEF cost
  <2> QED
    BY <1>7, <1>8, <2>1, <2>2, <2>3, <2>4 DEF cost
<1>9. CASE op.cat \in {"compute_float", "compute_int", "compute_transcendental"}
  <2> DEFINE n == op.elems
             each == (n * Scale) \div SimdRate
  <2>1. n \in Nat
    BY <1>1, <1>9 DEF IsOp
  <2>2. Peak(UnitOf[op.cat]) = SimdRate /\ op.cat \in Categories /\ op.cat # "memory"
    BY <1>9, CategoryFacts DEF Peak, UnitOf
  <2>3. \/ cost.ticks = 0 /\ cost.flops = 0 /\ cost.bytes = 0
        \/ cost.ticks = each /\ cost.flops = n /\ cost.bytes = 0
        \/ cost.ticks = each * Penalty /\ cost.flops = n /\ cost.bytes = 0
    BY <1>9 DEF Estimate, Cost
  <2> HIDE DEF n
  <2>4. each \in Nat /\ SimdRate * each = n * Scale
    BY <1>3, <1>5, <2>1
  <2> HIDE DEF each, cost
  <2>5. each <= each * Penalty /\ each * Penalty \in Nat
    <3>1. Penalty - 1 \in Nat /\ each * Penalty = each + each * (Penalty - 1)
      BY <1>2, <2>4
    <3>2. each * (Penalty - 1) \in Nat
      BY <2>4, <3>1
    <3> QED
      BY <2>4, <3>1, <3>2
  <2>6. SimdRate * each <= SimdRate * (each * Penalty)
    BY <1>4, <1>5, <2>4, <2>5, Scaled
  <2>7. 0 * Scale = 0 /\ SimdRate * 0 = 0 /\ n * Scale \in Int
    BY <1>2, <1>4, <1>5, <2>1
  <2>8. cost.flops * Scale <= SimdRate * cost.ticks
    BY <2>3, <2>4, <2>6, <2>7
  <2> QED
    BY <1>7, <2>1, <2>2, <2>3, <2>4, <2>5, <2>8 DEF cost
<1>10. CASE op.cat = "comm"
  <2> DEFINE n == op.bytes
  <2>1. n \in Nat
    BY <1>1, <1>10 DEF IsOp, Unpriced
  <2>2. cost.ticks = (n * Scale) \div RingRate /\ cost.flops = 0 /\ cost.bytes = n
    BY <1>10 DEF Estimate, Cost
  <2>3. op.cat \in Categories /\ op.cat \notin Computes
    BY <1>10, CategoryFacts
  <2> HIDE DEF n
  <2>4. (n * Scale) \div RingRate \in Nat
    BY <1>3, <1>5, <2>1
  <2> HIDE DEF cost
  <2> QED
    BY <1>7, <1>10, <2>1, <2>2, <2>3, <2>4 DEF cost
<1>11. CASE op.cat = "zero"
  <2>1. cost.ticks = 0 /\ cost.flops = 0 /\ cost.bytes = 0
    BY <1>11 DEF Estimate, Cost
  <2>2. op.cat \in Categories /\ op.cat \notin Computes
    BY <1>11, CategoryFacts
  <2> HIDE DEF cost
  <2> QED
    BY <1>7, <1>11, <2>1, <2>2 DEF cost
<1>12. \/ op.cat \in {"memory", "compute_matmul", "comm", "zero"}
       \/ op.cat \in {"compute_float", "compute_int", "compute_transcendental"}
  BY <1>1, CategoryFacts DEF IsOp
<1> HIDE DEF cost
<1> QED
  BY <1>6, <1>8, <1>9, <1>10, <1>11, <1>12 DEF cost

----------------------------------------------------------------------------
(***************************************************************************)
(* The inductive invariant.                                                *)
(***************************************************************************)
Cores == 0 .. NumCores - 1
Object == [ticks : [Categories -> Nat], flops : [Categories -> Nat], bytes : [Categories -> Nat]]
Books == UNION {[D -> Nat] : D \in SUBSET Cores}

(* The counters in reports exist, and those of a run that goes on are in   *)
(* none.                                                                   *)
ReportsAreApart ==
    \A i \in DOMAIN reports : \A c \in DOMAIN reports[i] :
        /\ reports[i][c] \in DOMAIN objects
        /\ running => \A d \in DOMAIN counters : reports[i][c] # counters[d]

(* Time is spent on all that obj counts, on a core that touched sticks in  *)
(* HBM and took lx bytes from views of both spaces, beside active cores.   *)
Accounted(obj, sticks, lx, active) ==
    /\ \A cat \in Computes : obj.flops[cat] * Scale <= Peak(UnitOf[cat]) * obj.ticks[cat]
    /\ obj.bytes["memory"] = sticks * StickBytes + lx
    /\ lx = 0 => obj.bytes["memory"] * active * Scale <= HbmRate * obj.ticks["memory"]

BooksAreKept ==
    \A c \in Cores :
        IF c \in DOMAIN counters
        THEN Accounted(objects[counters[c]], moved[c], mixed[c], coresActive)
        ELSE moved[c] = 0 /\ mixed[c] = 0

LatencyInv ==
    /\ TypeOK
    /\ objects \in Seq(Object) /\ counters \in Books /\ reports \in Seq(Books)
    /\ moved \in [Cores -> Nat] /\ mixed \in [Cores -> Nat]
    /\ ReportsAreApart
    /\ BooksAreKept

LEMMA NewCountersFacts ==
    /\ NewCounters \in Object
    /\ \A active \in Nat : Accounted(NewCounters, 0, 0, active)
<1>1. NewCounters \in Object
  BY DEF NewCounters, Object
<1>2. ASSUME NEW active \in Nat PROVE Accounted(NewCounters, 0, 0, active)
  <2> DEFINE obj == NewCounters
  <2>1. \A cat \in Categories : obj.flops[cat] = 0 /\ obj.ticks[cat] = 0 /\ obj.bytes[cat] = 0
    BY DEF NewCounters
  <2>2. Scale \in Nat /\ HbmRate \in Nat /\ StickBytes \in Nat
    BY LatencyAssumption DEF LatencyAssumption, Rates
  <2>3. 0 * Scale = 0 /\ HbmRate * 0 = 0 /\ 0 * StickBytes = 0 /\ 0 * active * Scale = 0
    BY <2>2
  <2>4. \A cat \in Computes : Peak(UnitOf[cat]) * 0 = 0
    BY CategoryFacts, UnitFacts
  <2>5. "memory" \in Categories /\ Computes \subseteq Categories
    BY CategoryFacts
  <2> HIDE DEF obj
  <2>6. Accounted(obj, 0, 0, active)
    BY <2>1, <2>3, <2>4, <2>5 DEF Accounted
  <2> QED
    BY <2>6 DEF obj
<1> QED
  BY <1>1, <1>2

(* Recording an op keeps the account.                                      *)
LEMMA RecordedFacts ==
    ASSUME NEW obj \in Object, NEW sticks \in Nat, NEW lx \in Nat, coresActive \in 1 .. NumCores,
           Accounted(obj, sticks, lx, coresActive), NEW op \in Ops, ~Unpriced(op)
    PROVE  /\ Recorded(obj, op.cat, Estimate(op)) \in Object
           /\ Accounted(Recorded(obj, op.cat, Estimate(op)),
                        sticks + Touched(op), lx + Added(op), coresActive)
<1> DEFINE cost == Estimate(op)
           cat == op.cat
           new == Recorded(obj, cat, cost)
           touched == Touched(op)
           added == Added(op)
<1>1. /\ cat \in Categories
      /\ cost.ticks \in Nat /\ cost.flops \in Nat /\ cost.bytes \in Nat
      /\ cat \in Computes => cost.flops * Scale <= Peak(UnitOf[cat]) * cost.ticks
      /\ touched \in Nat /\ added \in Nat
      /\ cat = "memory" =>
            /\ cost.bytes = touched * StickBytes + added
            /\ added = 0 => cost.bytes * coresActive * Scale <= HbmRate * cost.ticks
      /\ cat # "memory" => touched = 0 /\ added = 0
  BY EstimateFacts
<1> HIDE DEF cost, cat, touched, added
<1>2. /\ new = [ticks |-> [obj.ticks EXCEPT ![cat] = @ + cost.ticks],
                flops |-> [obj.flops EXCEPT ![cat] = @ + cost.flops],
                bytes |-> [obj.bytes EXCEPT ![cat] = @ + cost.bytes]]
      /\ obj.ticks \in [Categories -> Nat] /\ obj.flops \in [Categories -> Nat]
      /\ obj.bytes \in [Categories -> Nat]
  <2>1. /\ obj.ticks \in [Categories -> Nat] /\ obj.flops \in [Categories -> Nat]
        /\ obj.bytes \in [Categories -> Nat]
    BY DEF Object
  <2> QED
    BY <2>1 DEF Recorded
<1>3. new \in Object
  BY <1>1, <1>2 DEF Object
<1>4. /\ \A k \in Categories \ {cat} : new.ticks[k] = obj.ticks[k] /\ new.flops[k] = obj.flops[k]
                                      /\ new.bytes[k] = obj.bytes[k]
      /\ new.ticks[cat] = obj.ticks[cat] + cost.ticks
      /\ new.flops[cat] = obj.flops[cat] + cost.flops
      /\ new.bytes[cat] = obj.bytes[cat] + cost.bytes
  BY <1>1, <1>2
<1> HIDE DEF new
<1>5. /\ \A k \in Computes : obj.flops[k] * Scale <= Peak(UnitOf[k]) * obj.ticks[k]
      /\ obj.bytes["memory"] = sticks * StickBytes + lx
      /\ lx = 0 => obj.bytes["memory"] * coresActive * Scale <= HbmRate * obj.ticks["memory"]
  BY DEF Accounted
<1>6. /\ Scale \in Nat /\ HbmRate \in Nat /\ StickBytes \in Nat /\ coresActive \in Nat
      /\ "memory" \in Categories /\ Computes \subseteq Categories /\ "memory" \notin Computes
  BY LatencyAssumption, CategoryFacts DEF LatencyAssumption, Rates
<1>7. ASSUME NEW k \in Computes
      PROVE  new.flops[k] * Scale <= Peak(UnitOf[k]) * new.ticks[k]
  <2> DEFINE peak == Peak(UnitOf[k])
             f == obj.flops[k]
             t == obj.ticks[k]
             g == cost.flops
             u == cost.ticks
  <2>1. peak \in Nat /\ f \in Nat /\ t \in Nat /\ f * Scale <= peak * t
    BY <1>2, <1>5, <1>6, CategoryFacts, UnitFacts
  <2>2. CASE k # cat
    BY <1>4, <1>6, <2>1, <2>2
  <2>3. CASE k = cat
    <3>1. new.flops[k] = f + g /\ new.ticks[k] = t + u
      BY <1>4, <2>3
    <3>2. g \in Nat /\ u \in Nat /\ g * Scale <= peak * u
      BY <1>1, <2>3
    <3> HIDE DEF peak, f, t, g, u
    <3>3. (f + g) * Scale = f * Scale + g * Scale /\ peak * (t + u) = peak * t + peak * u
      BY <1>6, <2>1, <3>2
    <3>4. f * Scale \in Int /\ g * Scale \in Int /\ peak * t \in Int /\ peak * u \in Int
      BY <1>6, <2>1, <3>2
    <3>5. (f + g) * Scale <= peak * (t + u)
      BY <2>1, <3>2, <3>3, <3>4
    <3> QED
      BY <3>1, <3>5 DEF peak
  <2> QED
    BY <2>2, <2>3
<1> DEFINE b == obj.bytes["memory"]
           t == obj.ticks["memory"]
           d == cost.bytes
           u == cost.ticks
<1>8. b \in Nat /\ t \in Nat /\ d \in Nat /\ u \in Nat
  BY <1>1, <1>2, <1>6
<1>9. CASE cat = "memory"
  <2>1. new.bytes["memory"] = b + d /\ new.ticks["memory"] = t + u
    BY <1>4, <1>9
  <2>2. /\ d = touched * StickBytes + added /\ b = sticks * StickBytes + lx
        /\ added = 0 => d * coresActive * Scale <= HbmRate * u
        /\ lx = 0 => b * coresActive * Scale <= HbmRate * t
    BY <1>1, <1>5, <1>9
  <2> HIDE DEF b, t, d, u
  <2>3. b + d = (sticks + touched) * StickBytes + (lx + added)
    <3>1. (sticks + touched) * StickBytes = sticks * StickBytes + touched * StickBytes
      BY <1>1, <1>6
    <3>2. sticks * StickBytes \in Int /\ touched * StickBytes \in Int
      BY <1>1, <1>6
    <3> QED
      BY <1>1, <2>2, <3>1, <3>2
  <2>4. lx + added = 0 => (b + d) * coresActive * Scale <= HbmRate * (t + u)
    <3> SUFFICES ASSUME lx + added = 0
                 PROVE  (b + d) * coresActive * Scale <= HbmRate * (t + u)
      OBVIOUS
    <3>1. b * coresActive * Scale <= HbmRate * t /\ d * coresActive * Scale <= HbmRate * u
      BY <1>1, <2>2
    <3> DEFINE k == coresActive * Scale
    <3>2. /\ k \in Nat /\ (b + d) * coresActive * Scale = (b + d) * k
          /\ b * coresActive * Scale = b * k /\ d * coresActive * Scale = d * k
      BY <1>6, <1>8
    <3> HIDE DEF k
    <3>3. (b + d) * k = b * k + d * k /\ HbmRate * (t + u) = HbmRate * t + HbmRate * u
      BY <1>6, <1>8, <3>2
    <3>4. b * k \in Int /\ d * k \in Int /\ HbmRate * t \in Int /\ HbmRate * u \in Int
      BY <1>6, <1>8, <3>2
    <3> QED
      BY <3>1, <3>2, <3>3, <3>4
  <2> QED
    BY <1>3, <1>7, <2>1, <2>3, <2>4 DEF Accounted, cost, cat, new, touched, added
<1>10. CASE cat # "memory"
  <2>1. new.bytes["memory"] = obj.bytes["memory"] /\ new.ticks["memory"] = obj.ticks["memory"]
        /\ sticks + touched = sticks /\ lx + added = lx
    BY <1>1, <1>4, <1>6, <1>10
  <2>2. Accounted(new, sticks + touched, lx + added, coresActive)
    BY <1>5, <1>7, <2>1 DEF Accounted
  <2> QED
    BY <1>3, <2>2 DEF cost, cat, new, touched, added
<1> QED
  BY <1>9, <1>10

----------------------------------------------------------------------------
(***************************************************************************)
(* The steps.                                                              *)
(***************************************************************************)
LEMMA NoBook == <<>> \in Books /\ DOMAIN <<>> = {}
<1>1. DOMAIN <<>> = {} /\ <<>> \in [{} -> Nat]
  OBVIOUS
<1> QED
  BY <1>1 DEF Books

LEMMA BookFacts ==
    ASSUME NEW book \in Books
    PROVE  /\ DOMAIN book \in SUBSET Cores /\ \A c \in DOMAIN book : book[c] \in Nat
           /\ book \in [DOMAIN book -> Nat]
<1>1. PICK D \in SUBSET Cores : book \in [D -> Nat]
  BY DEF Books
<1> QED
  BY <1>1

LEMMA InitLatency == Init => LatencyInv
<1> SUFFICES ASSUME Init PROVE LatencyInv
  OBVIOUS
<1>1. /\ objects = <<>> /\ counters = <<>> /\ coresActive = NumCores /\ runs = 0
      /\ moved = [c \in Cores |-> 0] /\ mixed = moved /\ reports = <<>>
  BY DEF Init, Cores
<1>2. DOMAIN counters = {} /\ counters \in Books
  BY <1>1, NoBook
<1>3. objects \in Seq(Object) /\ reports \in Seq(Books) /\ DOMAIN reports = {}
  BY <1>1
<1>4. TypeOK
  BY <1>1, <1>2, LatencyAssumption DEF TypeOK, LatencyAssumption
<1>5. ReportsAreApart
  BY <1>3 DEF ReportsAreApart
<1>6. BooksAreKept
  BY <1>1, <1>2 DEF BooksAreKept
<1>7. moved \in [Cores -> Nat] /\ mixed \in [Cores -> Nat]
  BY <1>1
<1> QED
  BY <1>2, <1>3, <1>4, <1>5, <1>6, <1>7 DEF LatencyInv

LEMMA ExecuteStep ==
    ASSUME LatencyInv, NEW grid \in Grids, Execute(grid)
    PROVE  LatencyInv'
<1>1. /\ counters' = <<>> /\ UNCHANGED <<objects, reports>>
      /\ coresActive' = grid /\ runs' = runs + 1 /\ runs < MaxRuns
      /\ moved' = [c \in Cores |-> 0] /\ mixed' = [c \in Cores |-> 0]
  BY DEF Execute, Reset, LatencyInv
<1>2. DOMAIN counters' = {} /\ counters' \in Books
  BY <1>1, NoBook
<1>3. TypeOK'
  BY <1>1, <1>2, LatencyAssumption DEF TypeOK, LatencyAssumption, LatencyInv
<1>4. ReportsAreApart'
  BY <1>1, <1>2 DEF LatencyInv, ReportsAreApart
<1>5. BooksAreKept'
  BY <1>1, <1>2 DEF BooksAreKept
<1> QED
  BY <1>1, <1>2, <1>3, <1>4, <1>5 DEF LatencyInv

(* The object an op is recorded on, made now or before, is the core's own  *)
(* and in no report.                                                       *)
RecordsOn(core, op, made, id) ==
    /\ Len(made) >= Len(objects)
    /\ \A k \in 1 .. Len(objects) : made[k] = objects[k]
    /\ IF core \in DOMAIN counters
       THEN id = counters[core] /\ id <= Len(objects)
       ELSE id > Len(objects) /\ made[id] = NewCounters
    /\ counters' = [c \in DOMAIN counters \cup {core} |->
                       IF c = core THEN id ELSE counters[c]]
    /\ \/ Unpriced(op) /\ objects' = made /\ UNCHANGED <<moved, mixed>>
       \/ /\ ~Unpriced(op)
          /\ objects' = [made EXCEPT ![id] = Recorded(@, op.cat, Estimate(op))]
          /\ moved' = [moved EXCEPT ![core] = @ + Touched(op)]
          /\ mixed' = [mixed EXCEPT ![core] = @ + Added(op)]

LEMMA RecordShape ==
    ASSUME LatencyInv, NEW core \in Cores, NEW op \in Ops, RecordOp(core, op)
    PROVE  \E made \in Seq(Object) : \E id \in 1 .. Len(made) : RecordsOn(core, op, made, id)
<1> DEFINE fresh == core \notin DOMAIN counters
           made == IF fresh THEN Append(objects, NewCounters) ELSE objects
           id == IF fresh THEN Len(made) ELSE counters[core]
<1>1. /\ counters' = [c \in DOMAIN counters \cup {core} |-> IF c = core THEN id ELSE counters[c]]
      /\ \/ Unpriced(op) /\ objects' = made /\ UNCHANGED <<moved, mixed>>
         \/ /\ ~Unpriced(op)
            /\ objects' = [made EXCEPT ![id] = Recorded(@, op.cat, Estimate(op))]
            /\ moved' = [moved EXCEPT ![core] = @ + Touched(op)]
            /\ mixed' = [mixed EXCEPT ![core] = @ + Added(op)]
  BY Zenon DEF RecordOp
<1>2. objects \in Seq(Object) /\ NewCounters \in Object
  BY NewCountersFacts DEF LatencyInv
<1>3. core \in DOMAIN counters => counters[core] \in 1 .. Len(objects)
  BY <1>2 DEF LatencyInv, TypeOK
<1>4. /\ made \in Seq(Object) /\ id \in 1 .. Len(made) /\ Len(made) >= Len(objects)
      /\ \A k \in 1 .. Len(objects) : made[k] = objects[k]
      /\ IF core \in DOMAIN counters
         THEN id = counters[core] /\ id <= Len(objects)
         ELSE id > Len(objects) /\ made[id] = NewCounters
  <2>1. CASE fresh
    <3>1. made = Append(objects, NewCounters) /\ id = Len(made)
      BY <2>1
    <3>2. /\ made \in Seq(Object) /\ Len(made) = Len(objects) + 1
          /\ made[Len(objects) + 1] = NewCounters
          /\ \A k \in 1 .. Len(objects) : made[k] = objects[k]
          /\ Len(objects) \in Nat
      BY <1>2, <3>1
    <3> HIDE DEF made, id
    <3> QED
      BY <2>1, <3>1, <3>2
  <2>2. CASE ~fresh
    <3>1. made = objects /\ id = counters[core] /\ Len(objects) \in Nat
      BY <1>2, <2>2
    <3> HIDE DEF made, id
    <3> QED
      BY <1>2, <1>3, <2>2, <3>1
  <2> QED
    BY <2>1, <2>2
<1> HIDE DEF made, id
<1> QED
  BY <1>1, <1>4 DEF RecordsOn

(* Only the object of the core that records changes, if any does.          *)
LEMMA RecordChanges ==
    ASSUME LatencyInv, NEW core \in Cores, NEW op \in Ops, RecordOp(core, op)
    PROVE  /\ objects' \in Seq(Object) /\ Len(objects') >= Len(objects)
           /\ counters' \in Books /\ DOMAIN counters' = DOMAIN counters \cup {core}
           /\ \A c \in DOMAIN counters : counters'[c] = counters[c]
           /\ core \notin DOMAIN counters => counters'[core] > Len(objects)
           /\ counters'[core] \in 1 .. Len(objects')
           /\ \A k \in 1 .. Len(objects) : k # counters'[core] => objects'[k] = objects[k]
           /\ moved' \in [Cores -> Nat] /\ mixed' \in [Cores -> Nat]
           /\ \A c \in Cores : c # core => moved'[c] = moved[c] /\ mixed'[c] = mixed[c]
           /\ Accounted(objects'[counters'[core]], moved'[core], mixed'[core], coresActive)
<1>0. PICK made \in Seq(Object) : \E id \in 1 .. Len(made) : RecordsOn(core, op, made, id)
  BY RecordShape
<1>1. PICK id \in 1 .. Len(made) : RecordsOn(core, op, made, id)
  BY <1>0
<1>2. /\ objects \in Seq(Object) /\ counters \in Books
      /\ moved \in [Cores -> Nat] /\ mixed \in [Cores -> Nat]
      /\ \A c \in DOMAIN counters : counters[c] \in 1 .. Len(objects)
      /\ coresActive \in 1 .. NumCores
  BY LatencyAssumption DEF LatencyInv, TypeOK, LatencyAssumption
<1>3. /\ DOMAIN counters' = DOMAIN counters \cup {core} /\ counters'[core] = id
      /\ \A c \in DOMAIN counters : counters'[c] = counters[c]
  BY <1>1 DEF RecordsOn
<1>4. counters' \in Books
  <2> DEFINE D == DOMAIN counters \cup {core}
  <2>1. D \in SUBSET Cores /\ \A c \in DOMAIN counters : counters[c] \in Nat
    BY <1>2, BookFacts
  <2>2. counters' \in [D -> Nat]
    BY <1>1, <2>1 DEF RecordsOn
  <2> HIDE DEF D
  <2> QED
    BY <2>1, <2>2 DEF Books
<1>5. made[id] \in Object /\ Accounted(made[id], moved[core], mixed[core], coresActive)
  <2>1. made[id] \in Object
    BY <1>1 DEF RecordsOn
  <2>2. CASE core \in DOMAIN counters
    <3>1. Accounted(objects[counters[core]], moved[core], mixed[core], coresActive)
      BY <2>2 DEF LatencyInv, BooksAreKept
    <3>2. made[id] = objects[counters[core]]
      BY <1>1, <1>2, <2>2 DEF RecordsOn
    <3> QED
      BY <2>1, <3>1, <3>2
  <2>3. CASE core \notin DOMAIN counters
    <3>1. moved[core] = 0 /\ mixed[core] = 0
      BY <2>3 DEF LatencyInv, BooksAreKept
    <3>2. Accounted(NewCounters, 0, 0, coresActive)
      BY <1>2, NewCountersFacts
    <3> QED
      BY <1>1, <2>1, <2>3, <3>1, <3>2 DEF RecordsOn
  <2> QED
    BY <2>2, <2>3
<1>6. CASE Unpriced(op)
  <2>1. objects' = made /\ UNCHANGED <<moved, mixed>>
    BY <1>1, <1>6 DEF RecordsOn
  <2> QED
    BY <1>1, <1>2, <1>3, <1>4, <1>5, <2>1 DEF RecordsOn
<1>7. CASE ~Unpriced(op)
  <2> DEFINE new == Recorded(made[id], op.cat, Estimate(op))
  <2>1. /\ objects' = [made EXCEPT ![id] = new]
        /\ moved' = [moved EXCEPT ![core] = @ + Touched(op)]
        /\ mixed' = [mixed EXCEPT ![core] = @ + Added(op)]
    BY <1>1, <1>7 DEF RecordsOn
  <2>2. moved[core] \in Nat /\ mixed[core] \in Nat
    BY <1>2
  <2>3. /\ new \in Object
        /\ Accounted(new, moved[core] + Touched(op), mixed[core] + Added(op), coresActive)
    BY <1>2, <1>5, <1>7, <2>2, RecordedFacts
  <2>4. Touched(op) \in Nat /\ Added(op) \in Nat
    BY <1>2, <1>7, EstimateFacts
  <2> HIDE DEF new
  <2>5. /\ objects' \in Seq(Object) /\ Len(objects') = Len(made) /\ objects'[id] = new
        /\ \A k \in 1 .. Len(made) : k # id => objects'[k] = made[k]
    BY <2>1, <2>3
  <2>6. /\ moved' \in [Cores -> Nat] /\ mixed' \in [Cores -> Nat]
        /\ moved'[core] = moved[core] + Touched(op) /\ mixed'[core] = mixed[core] + Added(op)
        /\ \A c \in Cores : c # core => moved'[c] = moved[c] /\ mixed'[c] = mixed[c]
    BY <1>2, <2>1, <2>2, <2>4
  <2>7. \A k \in 1 .. Len(objects) : k # id => objects'[k] = objects[k]
    BY <1>1, <1>2, <2>5 DEF RecordsOn
  <2>8. Accounted(objects'[counters'[core]], moved'[core], mixed'[core], coresActive)
    BY <1>3, <2>3, <2>5, <2>6
  <2> QED
    BY <1>1, <1>2, <1>3, <1>4, <2>5, <2>6, <2>7, <2>8 DEF RecordsOn
<1> QED
  BY <1>6, <1>7

LEMMA RecordStep ==
    ASSUME LatencyInv, NEW core \in Cores, NEW op \in Ops, RecordOp(core, op)
    PROVE  LatencyInv'
<1>1. /\ core < coresActive /\ running
      /\ UNCHANGED <<coresActive, runs, reports>>
  BY DEF RecordOp
<1>2. /\ objects' \in Seq(Object) /\ Len(objects') >= Len(objects)
      /\ counters' \in Books /\ DOMAIN counters' = DOMAIN counters \cup {core}
      /\ \A c \in DOMAIN counters : counters'[c] = counters[c]
      /\ core \notin DOMAIN counters => counters'[core] > Len(objects)
      /\ counters'[core] \in 1 .. Len(objects')
      /\ \A k \in 1 .. Len(objects) : k # counters'[core] => objects'[k] = objects[k]
      /\ moved' \in [Cores -> Nat] /\ mixed' \in [Cores -> Nat]
      /\ \A c \in Cores : c # core => moved'[c] = moved[c] /\ mixed'[c] = mixed[c]
      /\ Accounted(objects'[counters'[core]], moved'[core], mixed'[core], coresActive)
  BY RecordChanges
<1>3. /\ objects \in Seq(Object) /\ counters \in Books /\ TypeOK
      /\ \A c \in DOMAIN counters : counters[c] \in 1 .. Len(objects)
      /\ Len(objects) \in Nat /\ Len(objects') \in Nat
  BY <1>2 DEF LatencyInv, TypeOK
<1>4. TypeOK'
  <2>1. DOMAIN counters' \subseteq 0 .. coresActive - 1
    <3>1. coresActive \in Nat
      BY LatencyAssumption DEF LatencyInv, TypeOK, LatencyAssumption
    <3> QED
      BY <1>1, <1>2, <1>3, <3>1 DEF TypeOK, Cores
  <2>2. ASSUME NEW c \in DOMAIN counters', NEW d \in DOMAIN counters', counters'[c] = counters'[d]
        PROVE  c = d
    <3>1. CASE c \in DOMAIN counters /\ d \in DOMAIN counters
      BY <1>2, <1>3, <2>2, <3>1 DEF TypeOK
    <3>2. CASE c \notin DOMAIN counters /\ d \in DOMAIN counters
      <4>1. c = core /\ counters'[c] > Len(objects) /\ counters'[d] = counters[d]
        BY <1>2, <3>2
      <4>2. counters[d] \in 1 .. Len(objects)
        BY <1>3, <3>2
      <4> QED
        BY <1>2, <1>3, <2>2, <4>1, <4>2
    <3>3. CASE c \in DOMAIN counters /\ d \notin DOMAIN counters
      <4>1. d = core /\ counters'[d] > Len(objects) /\ counters'[c] = counters[c]
        BY <1>2, <3>3
      <4>2. counters[c] \in 1 .. Len(objects)
        BY <1>3, <3>3
      <4> QED
        BY <1>2, <1>3, <2>2, <4>1, <4>2
    <3>4. CASE c \notin DOMAIN counters /\ d \notin DOMAIN counters
      BY <1>2, <3>4
    <3> QED
      BY <3>1, <3>2, <3>3, <3>4
  <2>3. ASSUME NEW c \in DOMAIN counters' PROVE counters'[c] \in DOMAIN objects'
    <3>1. CASE c = core
      BY <1>2, <3>1
    <3>2. CASE c # core
      <4>1. c \in DOMAIN counters /\ counters'[c] = counters[c]
        BY <1>2, <3>2
      <4>2. counters[c] \in 1 .. Len(objects)
        BY <1>3, <4>1
      <4> QED
        BY <1>2, <1>3, <4>1, <4>2
    <3> QED
      BY <3>1, <3>2
  <2> QED
    BY <1>1, <1>3, <2>1, <2>2, <2>3 DEF TypeOK
<1>5. ReportsAreApart'
  <2> SUFFICES ASSUME NEW i \in DOMAIN reports', NEW c \in DOMAIN reports'[i]
               PROVE  /\ reports'[i][c] \in DOMAIN objects'
                      /\ \A d \in DOMAIN counters' : reports'[i][c] # counters'[d]
    BY DEF ReportsAreApart
  <2> DEFINE id == reports[i][c]
  <2>1. /\ id \in 1 .. Len(objects) /\ reports'[i][c] = id
        /\ \A d \in DOMAIN counters : id # counters[d]
    BY <1>1, <1>3 DEF LatencyInv, ReportsAreApart
  <2> HIDE DEF id
  <2>2. id \in 1 .. Len(objects')
    BY <1>2, <1>3, <2>1
  <2>3. ASSUME NEW d \in DOMAIN counters' PROVE id # counters'[d]
    <3>1. CASE d \in DOMAIN counters
      BY <1>2, <2>1, <3>1
    <3>2. CASE d \notin DOMAIN counters
      BY <1>2, <1>3, <2>1, <3>2
    <3> QED
      BY <3>1, <3>2
  <2> QED
    BY <1>2, <2>1, <2>2, <2>3
<1>6. BooksAreKept'
  <2> SUFFICES ASSUME NEW c \in Cores
               PROVE  IF c \in DOMAIN counters'
                      THEN Accounted(objects'[counters'[c]], moved'[c], mixed'[c], coresActive')
                      ELSE moved'[c] = 0 /\ mixed'[c] = 0
    BY DEF BooksAreKept
  <2>1. CASE c = core
    BY <1>1, <1>2, <2>1
  <2>2. CASE c # core /\ c \in DOMAIN counters
    <3>1. c \in DOMAIN counters' /\ counters'[c] = counters[c] /\ counters[c] \in 1 .. Len(objects)
      BY <1>2, <1>3, <2>2
    <3>2. counters[c] # counters'[core]
      <4>1. CASE core \in DOMAIN counters
        BY <1>2, <1>3, <2>2, <4>1 DEF TypeOK
      <4>2. CASE core \notin DOMAIN counters
        BY <1>2, <1>3, <3>1, <4>2
      <4> QED
        BY <4>1, <4>2
    <3>3. objects'[counters'[c]] = objects[counters[c]]
      BY <1>2, <3>1, <3>2
    <3>4. Accounted(objects[counters[c]], moved[c], mixed[c], coresActive)
      BY <2>2 DEF LatencyInv, BooksAreKept
    <3> QED
      BY <1>1, <1>2, <2>2, <3>1, <3>3, <3>4
  <2>3. CASE c # core /\ c \notin DOMAIN counters
    <3>1. moved[c] = 0 /\ mixed[c] = 0
      BY <2>3 DEF LatencyInv, BooksAreKept
    <3> QED
      BY <1>2, <2>3, <3>1
  <2> QED
    BY <2>1, <2>2, <2>3
<1>7. reports' \in Seq(Books)
  BY <1>1 DEF LatencyInv
<1> QED
  BY <1>2, <1>4, <1>5, <1>6, <1>7 DEF LatencyInv

LEMMA ReturnStep == LatencyInv /\ Return => LatencyInv'
BY DEF LatencyInv, Return, TypeOK, ReportsAreApart, BooksAreKept

LEMMA ReportStep ==
    ASSUME LatencyInv, Report
    PROVE  LatencyInv' /\ \A i \in DOMAIN reports : i \in DOMAIN reports' /\ reports'[i] = reports[i]
<1>1. /\ ~running /\ reports' = Append(reports, counters)
      /\ UNCHANGED <<objects, counters, coresActive, running, runs, moved, mixed>>
  BY DEF Report
<1>2. /\ reports \in Seq(Books) /\ counters \in Books /\ TypeOK
      /\ \A c \in DOMAIN counters : counters[c] \in DOMAIN objects
  BY DEF LatencyInv, TypeOK
<1>3. /\ reports' \in Seq(Books) /\ Len(reports') = Len(reports) + 1
      /\ reports'[Len(reports) + 1] = counters
      /\ \A i \in 1 .. Len(reports) : reports'[i] = reports[i]
      /\ DOMAIN reports = 1 .. Len(reports) /\ DOMAIN reports' = 1 .. Len(reports')
      /\ Len(reports) \in Nat
  BY <1>1, <1>2
<1>4. ReportsAreApart'
  <2> SUFFICES ASSUME NEW i \in DOMAIN reports', NEW c \in DOMAIN reports'[i]
               PROVE  reports'[i][c] \in DOMAIN objects'
    BY <1>1 DEF ReportsAreApart
  <2>1. CASE i \in 1 .. Len(reports)
    BY <1>1, <1>3, <2>1 DEF LatencyInv, ReportsAreApart
  <2>2. CASE i = Len(reports) + 1
    BY <1>1, <1>2, <1>3, <2>2
  <2> QED
    BY <1>3, <2>1, <2>2
<1>5. TypeOK' /\ BooksAreKept'
  BY <1>1 DEF LatencyInv, TypeOK, BooksAreKept
<1>6. \A i \in DOMAIN reports : i \in DOMAIN reports' /\ reports'[i] = reports[i]
  BY <1>3
<1> QED
  BY <1>1, <1>2, <1>3, <1>4, <1>5, <1>6 DEF LatencyInv

LEMMA NextLatency == LatencyInv /\ [Next]_vars => LatencyInv'
<1> SUFFICES ASSUME LatencyInv, [Next]_vars PROVE LatencyInv'
  OBVIOUS
<1>1. ASSUME NEW grid \in Grids, Execute(grid) PROVE LatencyInv'
  BY <1>1, ExecuteStep
<1>2. ASSUME NEW core \in 0 .. NumCores - 1, NEW op \in Ops, RecordOp(core, op) PROVE LatencyInv'
  BY <1>2, RecordStep DEF Cores
<1>3. CASE Return
  BY <1>3, ReturnStep
<1>4. CASE Report
  BY <1>4, ReportStep
<1>5. CASE UNCHANGED vars
  BY <1>5 DEF LatencyInv, vars, TypeOK, ReportsAreApart, BooksAreKept
<1> QED
  BY <1>1, <1>2, <1>3, <1>4, <1>5 DEF Next

(* The invariant holds throughout the runs and reports of one tracker.     *)
THEOREM LatencyInvariant == Spec => []LatencyInv
<1>1. Init => LatencyInv
  BY InitLatency
<1>2. LatencyInv /\ [Next]_vars => LatencyInv'
  BY NextLatency
<1> QED
  BY <1>1, <1>2, PTL DEF Spec

(* The tracker's counters belong to cores of the run, each to one          *)
(* (LatencyTracker.reset and record_op).                                   *)
THEOREM TypeCorrect == Spec => []TypeOK
<1>1. LatencyInv => TypeOK
  BY DEF LatencyInv
<1> QED
  BY <1>1, LatencyInvariant, PTL

(* The memory bytes of a core are the sticks its ops of this run touched,  *)
(* and the LX parts of views of both spaces (LatencyTracker._data_size).   *)
THEOREM MemoryCorrect == Spec => []MemoryIsHbmTraffic
<1>1. LatencyInv => MemoryIsHbmTraffic
  <2> SUFFICES ASSUME LatencyInv, NEW core \in DOMAIN counters
               PROVE  Now[core].bytes["memory"] = moved[core] * StickBytes + mixed[core]
    BY DEF MemoryIsHbmTraffic
  <2>1. core \in Cores
    BY BookFacts DEF LatencyInv
  <2>2. Accounted(objects[counters[core]], moved[core], mixed[core], coresActive)
    BY <2>1 DEF LatencyInv, BooksAreKept
  <2> QED
    BY <2>2 DEF Accounted, Now, Contents
<1> QED
  BY <1>1, LatencyInvariant, PTL

----------------------------------------------------------------------------
(***************************************************************************)
(* Reports do not change.                                                  *)
(***************************************************************************)
Kept == \A i \in DOMAIN reports : Contents(reports[i])' = Contents(reports[i])

LEMMA KeptWhen ==
    ASSUME \A i \in DOMAIN reports :
              /\ reports'[i] = reports[i]
              /\ \A c \in DOMAIN reports[i] : objects'[reports[i][c]] = objects[reports[i][c]]
    PROVE  Kept
BY DEF Kept, Contents

LEMMA RecordKeeps ==
    ASSUME LatencyInv, NEW core \in Cores, NEW op \in Ops, RecordOp(core, op)
    PROVE  Kept
<1>1. running /\ reports' = reports
  BY DEF RecordOp
<1>2. /\ \A c \in DOMAIN counters : counters'[c] = counters[c]
      /\ core \notin DOMAIN counters => counters'[core] > Len(objects)
      /\ counters'[core] \in 1 .. Len(objects')
      /\ \A k \in 1 .. Len(objects) : k # counters'[core] => objects'[k] = objects[k]
      /\ objects' \in Seq(Object)
  BY RecordChanges
<1>3. ASSUME NEW i \in DOMAIN reports, NEW c \in DOMAIN reports[i]
      PROVE  objects'[reports[i][c]] = objects[reports[i][c]]
  <2> DEFINE id == reports[i][c]
  <2>1. id \in 1 .. Len(objects) /\ Len(objects) \in Nat
        /\ \A d \in DOMAIN counters : id # counters[d]
    BY <1>1 DEF LatencyInv, ReportsAreApart
  <2> HIDE DEF id
  <2>2. id # counters'[core]
    <3>1. CASE core \in DOMAIN counters
      BY <1>2, <2>1, <3>1
    <3>2. CASE core \notin DOMAIN counters
      BY <1>2, <2>1, <3>2
    <3> QED
      BY <3>1, <3>2
  <2> QED
    BY <1>2, <2>1, <2>2 DEF id
<1> QED
  BY <1>1, <1>3, KeptWhen

(* A report keeps what it showed, through resets and the ops of later      *)
(* runs, though it holds the counter objects themselves                    *)
(* (LatencyTracker.report and reset).                                      *)
THEOREM ReportsStayFinal == Spec => ReportsAreFinal
<1>1. LatencyInv /\ [Next]_vars => [Kept]_vars
  <2> SUFFICES ASSUME LatencyInv, Next PROVE Kept
    BY DEF Kept
  <2>1. ASSUME NEW grid \in Grids, Execute(grid) PROVE Kept
    BY <2>1, KeptWhen DEF Execute, Reset
  <2>2. ASSUME NEW core \in 0 .. NumCores - 1, NEW op \in Ops, RecordOp(core, op) PROVE Kept
    BY <2>2, RecordKeeps DEF Cores
  <2>3. CASE Return
    BY <2>3, KeptWhen DEF Return
  <2>4. CASE Report
    <3>1. objects' = objects
      BY <2>4 DEF Report
    <3>2. \A i \in DOMAIN reports : reports'[i] = reports[i]
      BY <2>4, ReportStep
    <3> QED
      BY <3>1, <3>2, KeptWhen
  <2> QED
    BY <2>1, <2>2, <2>3, <2>4 DEF Next
<1> QED
  BY <1>1, LatencyInvariant, PTL DEF Spec, ReportsAreFinal, Kept

----------------------------------------------------------------------------
(***************************************************************************)
(* No ratio exceeds one.                                                   *)
(***************************************************************************)

(* One core: what it computed and moved fits in the time of the kernel.    *)
LEMMA UnitFits ==
    ASSUME NEW obj \in Object, NEW sticks \in Nat, NEW lx \in Nat, NEW active \in Nat,
           Accounted(obj, sticks, lx, active), NEW unit \in Units
    PROVE  /\ UnitSum(obj.flops, unit) \in Nat /\ UnitSum(obj.ticks, unit) \in Nat
           /\ ComputeTicks(obj) \in Nat
           /\ Scale * UnitSum(obj.flops, unit) <= Peak(unit) * UnitSum(obj.ticks, unit)
           /\ UnitSum(obj.ticks, unit) <= ComputeTicks(obj)
<1> DEFINE S == CategoriesOf(unit)
           peak == Peak(unit)
           f == obj.flops
           t == obj.ticks
<1>1. /\ S \in SUBSET Computes /\ S \in SUBSET Categories /\ IsFiniteSet(S)
      /\ \A cat \in S : UnitOf[cat] = unit
      /\ peak \in Nat
  BY UnitFacts
<1>2. f \in [Categories -> Nat] /\ t \in [Categories -> Nat]
  BY DEF Object
<1>3. /\ Scale \in Nat /\ Computes \in SUBSET Categories /\ IsFiniteSet(Computes)
  BY LatencyAssumption, CategoryFacts DEF LatencyAssumption
<1>4. \A cat \in S : f[cat] * Scale <= peak * t[cat]
  BY <1>1 DEF Accounted
<1>5. UnitSum(obj.flops, unit) = SumOver(f, S) /\ UnitSum(obj.ticks, unit) = SumOver(t, S)
      /\ ComputeTicks(obj) = SumOver(t, Computes)
  BY SumIs DEF UnitSum, ComputeTicks
<1> HIDE DEF S, peak, f, t
<1>6. \A cat \in S : Scale * f[cat] <= peak * t[cat]
  <2> SUFFICES ASSUME NEW cat \in S PROVE Scale * f[cat] <= peak * t[cat]
    OBVIOUS
  <2>1. f[cat] \in Nat
    BY <1>1, <1>2
  <2>2. f[cat] * Scale = Scale * f[cat]
    BY <1>3, <2>1
  <2> QED
    BY <1>4, <2>2
<1>7. Scale * SumOver(f, S) <= peak * SumOver(t, S)
  BY <1>1, <1>2, <1>3, <1>6, SumScaled
<1>8. SumOver(t, S) <= SumOver(t, Computes)
  BY <1>1, <1>2, <1>3, SumMonotone
<1>9. SumOver(f, S) \in Nat /\ SumOver(t, S) \in Nat /\ SumOver(t, Computes) \in Nat
  <2>1. SumOver(f, S) \in Nat
    BY <1>1, <1>2, SumFacts
  <2>2. SumOver(t, S) \in Nat
    BY <1>1, <1>2, SumFacts
  <2>3. SumOver(t, Computes) \in Nat
    BY <1>2, <1>3, SumFacts
  <2> QED
    BY <2>1, <2>2, <2>3
<1> QED
  BY <1>5, <1>7, <1>8, <1>9 DEF peak

(* Every pipeline takes at least the time of each of its stages.           *)
LEMMA EffectiveFacts ==
    ASSUME NEW pipeline \in Pipelines, NEW obj \in Object, ComputeTicks(obj) \in Nat
    PROVE  /\ EffectiveTicks(pipeline, obj) \in Nat
           /\ ComputeTicks(obj) <= EffectiveTicks(pipeline, obj)
           /\ obj.ticks["memory"] <= EffectiveTicks(pipeline, obj)
<1> DEFINE compute == ComputeTicks(obj)
           memory == obj.ticks["memory"]
           comm == obj.ticks["comm"]
<1>1. compute \in Nat /\ memory \in Nat /\ comm \in Nat
  BY CategoryFacts DEF Object
<1>2. EffectiveTicks(pipeline, obj) =
         CASE pipeline = "serial" -> compute + memory + comm
           [] pipeline = "overlapped" -> Most({compute, memory + comm})
           [] OTHER -> Most({compute, memory, comm})
  BY DEF EffectiveTicks
<1> HIDE DEF compute, memory, comm
<1>3. /\ Most({compute, memory + comm}) \in Nat
      /\ compute <= Most({compute, memory + comm}) /\ memory + comm <= Most({compute, memory + comm})
  BY <1>1, MostOfTwo
<1>4. /\ Most({compute, memory, comm}) \in Nat
      /\ compute <= Most({compute, memory, comm}) /\ memory <= Most({compute, memory, comm})
  BY <1>1, MostOfThree
<1>5. memory <= memory + comm
  BY <1>1
<1>6. memory <= Most({compute, memory + comm})
  BY <1>1, <1>3, <1>5
<1> QED
  BY <1>1, <1>2, <1>3, <1>4, <1>6 DEF Pipelines, compute, memory

(* What is asked of a report, here of the tracker's counters.              *)
Reported(report) ==
    /\ report \in [DOMAIN counters -> Object]
    /\ DOMAIN counters \in SUBSET Cores
    /\ \A c \in DOMAIN counters : Accounted(report[c], moved[c], mixed[c], coresActive)

LEMMA NowIsReported == LatencyInv => Reported(Now)
<1> SUFFICES ASSUME LatencyInv PROVE Reported(Now)
  OBVIOUS
<1>1. DOMAIN counters \in SUBSET Cores /\ objects \in Seq(Object)
      /\ \A c \in DOMAIN counters : counters[c] \in 1 .. Len(objects)
  BY BookFacts DEF LatencyInv, TypeOK
<1>2. Now = [c \in DOMAIN counters |-> objects[counters[c]]]
  BY DEF Now, Contents
<1>3. \A c \in DOMAIN counters : objects[counters[c]] \in Object
  BY <1>1
<1>4. \A c \in DOMAIN counters :
         Accounted(objects[counters[c]], moved[c], mixed[c], coresActive)
  BY <1>1 DEF LatencyInv, BooksAreKept
<1> QED
  BY <1>1, <1>2, <1>3, <1>4 DEF Reported

LEMMA CoresFinite ==
    ASSUME LatencyInv
    PROVE  /\ IsFiniteSet(DOMAIN counters) /\ Cardinality(DOMAIN counters) \in Nat
           /\ Cardinality(DOMAIN counters) <= coresActive /\ coresActive <= NumCores
           /\ coresActive \in Nat \ {0} /\ NumCores \in Nat
<1>1. coresActive \in 1 .. NumCores /\ NumCores \in Nat
      /\ DOMAIN counters \subseteq 0 .. coresActive - 1
  BY LatencyAssumption DEF LatencyInv, TypeOK, LatencyAssumption
<1>2. IsFiniteSet(0 .. coresActive - 1) /\ Cardinality(0 .. coresActive - 1) = coresActive
  <2>1. 0 \in Int /\ coresActive - 1 \in Int
    BY <1>1
  <2> QED
    BY <1>1, <2>1, FS_Interval
<1>3. /\ IsFiniteSet(DOMAIN counters)
      /\ Cardinality(DOMAIN counters) <= Cardinality(0 .. coresActive - 1)
  BY <1>1, <1>2, FS_Subset
<1> QED
  BY <1>1, <1>2, <1>3, FS_CardinalityType

LEMMA KernelFacts ==
    ASSUME LatencyInv, DOMAIN counters # {}, NEW pipeline \in Pipelines
    PROVE  /\ KernelTicks(pipeline, Now) \in Nat
           /\ \A c \in DOMAIN counters :
                 /\ Now[c] \in Object /\ ComputeTicks(Now[c]) \in Nat
                 /\ EffectiveTicks(pipeline, Now[c]) \in Nat
                 /\ EffectiveTicks(pipeline, Now[c]) <= KernelTicks(pipeline, Now)
                 /\ ComputeTicks(Now[c]) <= KernelTicks(pipeline, Now)
                 /\ Now[c].ticks["memory"] <= KernelTicks(pipeline, Now)
<1> DEFINE D == DOMAIN counters
           E == [c \in D |-> EffectiveTicks(pipeline, Now[c])]
           ends == {E[c] : c \in D}
<1>1. Now \in [D -> Object] /\ D \in SUBSET Cores
      /\ \A c \in D : Accounted(Now[c], moved[c], mixed[c], coresActive)
  BY NowIsReported DEF Reported
<1>2. moved \in [Cores -> Nat] /\ mixed \in [Cores -> Nat] /\ IsFiniteSet(D) /\ coresActive \in Nat
  BY CoresFinite DEF LatencyInv
<1>3. ASSUME NEW c \in D
      PROVE  /\ Now[c] \in Object /\ ComputeTicks(Now[c]) \in Nat
             /\ EffectiveTicks(pipeline, Now[c]) \in Nat
             /\ ComputeTicks(Now[c]) <= EffectiveTicks(pipeline, Now[c])
             /\ Now[c].ticks["memory"] <= EffectiveTicks(pipeline, Now[c])
             /\ Now[c].ticks["memory"] \in Nat
  <2>1. Now[c] \in Object /\ moved[c] \in Nat /\ mixed[c] \in Nat
    BY <1>1, <1>2
  <2>2. "simd" \in Units
    BY DEF Units
  <2>3. ComputeTicks(Now[c]) \in Nat
    BY <1>1, <1>2, <2>1, <2>2, UnitFits
  <2>4. Now[c].ticks["memory"] \in Nat
    BY <2>1, CategoryFacts DEF Object
  <2> QED
    BY <2>1, <2>3, <2>4, EffectiveFacts
<1>4. ends \in SUBSET Nat /\ ends # {}
  BY <1>3
<1>5. IsFiniteSet(ends)
  <2>1. E \in Surjection(D, ends)
    <3> HIDE DEF D
    <3>1. E = [c \in D |-> E[c]]
      OBVIOUS
    <3> HIDE DEF E
    <3> QED
      BY <3>1 DEF Surjection
  <2> HIDE DEF D, E, ends
  <2> QED
    BY <1>2, <2>1, FS_Surjection
<1>6. KernelTicks(pipeline, Now) = Most(ends)
  BY <1>1 DEF KernelTicks
<1>7. Most(ends) \in Nat /\ \A b \in ends : b <= Most(ends)
  <2> HIDE DEF ends
  <2> QED
    BY <1>4, <1>5, MostFacts
<1> DEFINE K == Most(ends)
<1>8. ASSUME NEW c \in D
      PROVE  EffectiveTicks(pipeline, Now[c]) <= K /\ ComputeTicks(Now[c]) <= K
             /\ Now[c].ticks["memory"] <= K
  <2>1. EffectiveTicks(pipeline, Now[c]) \in ends
    OBVIOUS
  <2>2. K \in Nat /\ EffectiveTicks(pipeline, Now[c]) <= K
    BY <1>7, <2>1
  <2> HIDE DEF K
  <2> QED
    BY <1>3, <2>2
<1> HIDE DEF K
<1> QED
  BY <1>3, <1>6, <1>7, <1>8 DEF K

(* Sums over the cores of a run, of at most K each.                        *)
LEMMA ChipFits ==
    ASSUME LatencyInv, NEW f \in [DOMAIN counters -> Nat], NEW K \in Nat,
           \A c \in DOMAIN counters : f[c] <= K
    PROVE  /\ ChipSum(f, Now) \in Nat /\ ChipSum(f, Now) = SumOver(f, DOMAIN counters)
           /\ ChipSum(f, Now) <= coresActive * K
           /\ ChipSum(f, Now) <= NumCores * K
<1> DEFINE D == DOMAIN counters
           n == Cardinality(D)
           sum == SumOver(f, D)
<1>1. /\ IsFiniteSet(D) /\ n \in Nat /\ n <= coresActive /\ coresActive <= NumCores
      /\ coresActive \in Nat /\ NumCores \in Nat
  BY CoresFinite
<1>2. DOMAIN Now = D
  BY DEF Now, Contents
<1>3. ChipSum(f, Now) = sum
  <2>1. [c \in D |-> f[c]] = f
    OBVIOUS
  <2> QED
    BY <1>2, <2>1, SumIs DEF ChipSum
<1>4. sum \in Nat /\ sum <= n * K
  <2> HIDE DEF D
  <2>1. D \in SUBSET D /\ f \in [D -> Nat]
    BY DEF D
  <2>2. \A c \in D : f[c] <= K
    BY DEF D
  <2> QED
    BY <1>1, <2>1, <2>2, SumFacts, SumBounded
<1> HIDE DEF D, n, sum
<1>5. n * K <= coresActive * K /\ coresActive * K <= NumCores * K
      /\ n * K \in Nat /\ coresActive * K \in Nat /\ NumCores * K \in Nat
  <2>1. K * n <= K * coresActive /\ K * coresActive <= K * NumCores
        /\ K * n \in Nat /\ K * coresActive \in Nat /\ K * NumCores \in Nat
    BY <1>1, Scaled
  <2>2. K * n = n * K /\ K * coresActive = coresActive * K /\ K * NumCores = NumCores * K
    BY <1>1
  <2> QED
    BY <2>1, <2>2
<1>6. sum <= coresActive * K /\ sum <= NumCores * K
  BY <1>4, <1>5
<1> QED
  BY <1>3, <1>4, <1>6 DEF sum, D

(* The chip computes no faster than its cores' peaks together.             *)
LEMMA ChipComputeFits ==
    ASSUME LatencyInv, DOMAIN counters # {}, NEW pipeline \in Pipelines, NEW unit \in Units
    PROVE  LET flops == ChipSum([c \in DOMAIN Now |-> UnitSum(Now[c].flops, unit)], Now)
           IN  flops * Scale <= (Peak(unit) * NumCores) * KernelTicks(pipeline, Now)
<1> DEFINE D == DOMAIN counters
           K == KernelTicks(pipeline, Now)
           peak == Peak(unit)
           F == [c \in D |-> UnitSum(Now[c].flops, unit)]
           T == [c \in D |-> UnitSum(Now[c].ticks, unit)]
           flops == SumOver(F, D)
           ticks == SumOver(T, D)
<1>1. DOMAIN Now = D
  BY DEF Now, Contents
<1>2. /\ K \in Nat /\ peak \in Nat /\ Scale \in Nat /\ NumCores \in Nat
      /\ IsFiniteSet(D)
  BY KernelFacts, UnitFacts, CoresFinite, LatencyAssumption DEF LatencyAssumption
<1>3. ASSUME NEW c \in D
      PROVE  /\ F[c] \in Nat /\ T[c] \in Nat
             /\ Scale * F[c] <= peak * T[c] /\ T[c] <= K
  <2> DEFINE obj == Now[c]
  <2>1. obj \in Object /\ moved[c] \in Nat /\ mixed[c] \in Nat /\ coresActive \in Nat
        /\ Accounted(obj, moved[c], mixed[c], coresActive)
    BY NowIsReported, CoresFinite DEF Reported, LatencyInv
  <2>2. ComputeTicks(obj) \in Nat /\ ComputeTicks(obj) <= K
    BY KernelFacts
  <2> HIDE DEF obj
  <2>3. /\ UnitSum(obj.flops, unit) \in Nat /\ UnitSum(obj.ticks, unit) \in Nat
        /\ Scale * UnitSum(obj.flops, unit) <= peak * UnitSum(obj.ticks, unit)
        /\ UnitSum(obj.ticks, unit) <= ComputeTicks(obj)
    BY <2>1, UnitFits
  <2>4. F[c] = UnitSum(obj.flops, unit) /\ T[c] = UnitSum(obj.ticks, unit)
    BY DEF obj
  <2> HIDE DEF F, T, K, peak
  <2>5. UnitSum(obj.ticks, unit) <= K
    BY <1>2, <2>2, <2>3
  <2> QED
    BY <2>3, <2>4, <2>5
<1>4. F \in [D -> Nat] /\ T \in [D -> Nat]
  BY <1>3
<1> HIDE DEF F, T, K, peak
<1>5. /\ ChipSum(F, Now) = flops /\ flops \in Nat
  <2>1. flops \in Nat
    <3> HIDE DEF D
    <3> QED
      BY <1>2, <1>4, SumFacts
  <2>2. [c \in D |-> F[c]] = F
    BY <1>4
  <2> QED
    BY <1>1, <2>1, <2>2, SumIs DEF ChipSum
<1>6. ticks \in Nat /\ ticks <= NumCores * K
  <2>1. \A c \in DOMAIN counters : T[c] <= K
    BY <1>3
  <2> QED
    BY <1>2, <1>4, <2>1, ChipFits
<1>7. Scale * flops <= peak * ticks
  <2> HIDE DEF D
  <2>1. \A c \in D : Scale * F[c] <= peak * T[c]
    BY <1>3
  <2> QED
    BY <1>2, <1>4, <2>1, SumScaled
<1> HIDE DEF D, flops, ticks
<1>8. peak * ticks <= peak * (NumCores * K) /\ peak * ticks \in Nat /\ peak * (NumCores * K) \in Nat
  <2>1. NumCores * K \in Nat
    BY <1>2
  <2> QED
    BY <1>2, <1>6, <2>1, Scaled
<1>9. peak * (NumCores * K) = (peak * NumCores) * K /\ Scale * flops = flops * Scale
      /\ Scale * flops \in Nat
  BY <1>2, <1>5
<1>10. flops * Scale <= (peak * NumCores) * K
  BY <1>7, <1>8, <1>9
<1>11. [c \in DOMAIN Now |-> UnitSum(Now[c].flops, unit)] = F
  BY <1>1 DEF F, D
<1> QED
  BY <1>5, <1>10, <1>11 DEF K, peak

(* What the chip moved fits in its bandwidth.                              *)
LEMMA ChipMemoryFits ==
    ASSUME LatencyInv, DOMAIN counters # {}, NEW pipeline \in Pipelines,
           \A c \in DOMAIN counters : mixed[c] = 0
    PROVE  LET bytes == ChipSum([c \in DOMAIN Now |-> Now[c].bytes["memory"]], Now)
           IN  bytes \in Nat /\ bytes * Scale <= HbmRate * KernelTicks(pipeline, Now)
<1> DEFINE D == DOMAIN counters
           K == KernelTicks(pipeline, Now)
           B == [c \in D |-> Now[c].bytes["memory"]]
           M == [c \in D |-> Now[c].ticks["memory"]]
           bytes == SumOver(B, D)
           ticks == SumOver(M, D)
           n == coresActive
<1>1. DOMAIN Now = D
  BY DEF Now, Contents
<1>2. /\ K \in Nat /\ HbmRate \in Nat /\ Scale \in Nat /\ n \in Nat \ {0}
      /\ IsFiniteSet(D)
  BY KernelFacts, CoresFinite, LatencyAssumption DEF LatencyAssumption, Rates
<1>3. ASSUME NEW c \in D
      PROVE  /\ B[c] \in Nat /\ M[c] \in Nat
             /\ B[c] * n * Scale <= HbmRate * M[c] /\ M[c] <= K
  <2> DEFINE obj == Now[c]
  <2>1. obj \in Object /\ Accounted(obj, moved[c], mixed[c], coresActive) /\ mixed[c] = 0
    BY NowIsReported DEF Reported
  <2>2. obj.ticks["memory"] <= K
    BY KernelFacts
  <2> HIDE DEF obj, K
  <2>3. obj.ticks["memory"] \in Nat /\ obj.bytes["memory"] \in Nat
    BY <2>1, CategoryFacts DEF Object
  <2>4. obj.bytes["memory"] * coresActive * Scale <= HbmRate * obj.ticks["memory"]
    BY <2>1 DEF Accounted
  <2>5. B[c] = obj.bytes["memory"] /\ M[c] = obj.ticks["memory"]
    BY DEF obj
  <2> HIDE DEF B, M
  <2> QED
    BY <2>2, <2>3, <2>4, <2>5
<1>4. B \in [D -> Nat] /\ M \in [D -> Nat]
  BY <1>3
<1> HIDE DEF B, M, K
<1>5. ChipSum(B, Now) = bytes /\ bytes \in Nat
  <2>1. bytes \in Nat
    <3> HIDE DEF D
    <3> QED
      BY <1>2, <1>4, SumFacts
  <2>2. [c \in D |-> B[c]] = B
    BY <1>4
  <2> QED
    BY <1>1, <2>1, <2>2, SumIs DEF ChipSum
<1>6. ticks \in Nat /\ ticks <= n * K
  <2>1. \A c \in DOMAIN counters : M[c] <= K
    BY <1>3
  <2> QED
    BY <1>2, <1>4, <2>1, ChipFits
<1> DEFINE p == n * Scale
<1>7. p \in Nat
  BY <1>2
<1>8. ASSUME NEW c \in D PROVE p * B[c] <= HbmRate * M[c]
  <2> DEFINE b == B[c]
  <2>1. b \in Nat
    BY <1>3
  <2> HIDE DEF b
  <2>2. b * n * Scale = p * b
    BY <1>2, <2>1
  <2>3. b * n * Scale <= HbmRate * M[c]
    BY <1>3 DEF b
  <2> QED
    BY <2>2, <2>3 DEF b
<1> HIDE DEF p
<1>9. p * bytes <= HbmRate * ticks
  <2> HIDE DEF D
  <2> QED
    BY <1>2, <1>4, <1>7, <1>8, SumScaled
<1> HIDE DEF D, bytes, ticks, n
<1>10. HbmRate * ticks <= HbmRate * (n * K) /\ HbmRate * ticks \in Nat /\ HbmRate * (n * K) \in Nat
  <2>1. n * K \in Nat
    BY <1>2
  <2> QED
    BY <1>2, <1>6, <2>1, Scaled
<1>11. n * (bytes * Scale) = p * bytes /\ n * (HbmRate * K) = HbmRate * (n * K)
       /\ bytes * Scale \in Nat /\ HbmRate * K \in Nat
  BY <1>2, <1>5 DEF p
<1>12. n * (bytes * Scale) <= n * (HbmRate * K)
  <2>1. n * (bytes * Scale) \in Nat
    BY <1>2, <1>11
  <2> QED
    BY <1>9, <1>10, <1>11, <2>1
<1>13. bytes * Scale <= HbmRate * K
  BY <1>2, <1>11, <1>12, Cancelled
<1>14. [c \in DOMAIN Now |-> Now[c].bytes["memory"]] = B
  BY <1>1 DEF B, D
<1> QED
  BY <1>5, <1>13, <1>14 DEF K

(* A core measured against its share of the bandwidth among busy cores.    *)
LEMMA CoreFits ==
    ASSUME LatencyInv, DOMAIN counters # {}, NEW pipeline \in Pipelines,
           NEW core \in DOMAIN counters, NEW unit \in Units
    PROVE  /\ UnitSum(Now[core].flops, unit) * Scale <= Peak(unit) * KernelTicks(pipeline, Now)
           /\ mixed[core] = 0 =>
                 Now[core].bytes["memory"] * Scale * Cardinality(BusyCores(pipeline, Now))
                    <= HbmRate * KernelTicks(pipeline, Now)
<1> DEFINE obj == Now[core]
           K == KernelTicks(pipeline, Now)
           peak == Peak(unit)
           f == UnitSum(obj.flops, unit)
           t == UnitSum(obj.ticks, unit)
           b == obj.bytes["memory"]
           m == obj.ticks["memory"]
           busy == Cardinality(BusyCores(pipeline, Now))
           n == coresActive
<1>1. obj \in Object /\ moved[core] \in Nat /\ mixed[core] \in Nat /\ n \in Nat
      /\ Accounted(obj, moved[core], mixed[core], n)
  BY NowIsReported, CoresFinite DEF Reported, LatencyInv
<1>2. ComputeTicks(obj) \in Nat /\ ComputeTicks(obj) <= K /\ m <= K /\ K \in Nat
  BY KernelFacts
<1>3. /\ peak \in Nat /\ HbmRate \in Nat /\ Scale \in Nat
  BY UnitFacts, LatencyAssumption DEF LatencyAssumption, Rates
<1>4. busy \in Nat /\ busy <= n
  <2>1. BusyCores(pipeline, Now) \subseteq DOMAIN counters
    BY DEF BusyCores, Now, Contents
  <2>2. /\ IsFiniteSet(DOMAIN counters) /\ Cardinality(DOMAIN counters) <= n
        /\ Cardinality(DOMAIN counters) \in Nat
    BY CoresFinite
  <2>3. /\ IsFiniteSet(BusyCores(pipeline, Now))
        /\ Cardinality(BusyCores(pipeline, Now)) <= Cardinality(DOMAIN counters)
    BY <2>1, <2>2, FS_Subset
  <2>4. busy \in Nat
    BY <2>3, FS_CardinalityType
  <2> QED
    BY <1>1, <2>2, <2>3, <2>4
<1> HIDE DEF obj, K, peak, n, busy
<1>5. /\ f \in Nat /\ t \in Nat /\ Scale * f <= peak * t /\ t <= ComputeTicks(obj)
  BY <1>1, UnitFits DEF peak
<1>6. b \in Nat /\ m \in Nat /\ (mixed[core] = 0 => b * n * Scale <= HbmRate * m)
  <2>1. b \in Nat /\ m \in Nat
    BY <1>1, CategoryFacts DEF Object
  <2> QED
    BY <1>1, <2>1 DEF Accounted
<1> HIDE DEF f, t, b, m
<1>7. f * Scale <= peak * K
  <2>1. t <= K
    BY <1>2, <1>5
  <2>2. peak * t <= peak * K /\ peak * t \in Nat /\ peak * K \in Nat
    BY <1>2, <1>3, <1>5, <2>1, Scaled
  <2>3. f * Scale = Scale * f /\ Scale * f \in Nat
    BY <1>3, <1>5
  <2> QED
    BY <1>5, <2>2, <2>3
<1>8. ASSUME mixed[core] = 0 PROVE b * Scale * busy <= HbmRate * K
  <2> DEFINE u == b * Scale
  <2>1. u \in Nat /\ b * Scale * busy = u * busy /\ b * n * Scale = u * n
    BY <1>1, <1>3, <1>4, <1>6
  <2>2. HbmRate * m <= HbmRate * K /\ HbmRate * m \in Nat /\ HbmRate * K \in Nat
    BY <1>2, <1>3, <1>6, Scaled
  <2>3. b * n * Scale <= HbmRate * m
    BY <1>6, <1>8
  <2> HIDE DEF u
  <2>4. u * busy <= u * n /\ u * busy \in Nat /\ u * n \in Nat
    BY <1>1, <1>4, <2>1, Scaled
  <2> QED
    BY <2>1, <2>2, <2>3, <2>4
<1> QED
  BY <1>7, <1>8 DEF f, b, obj, K, peak, busy

LEMMA AttainmentFits ==
    ASSUME NEW flops, NEW bytes, NEW peak, NEW shares, NEW elapsed,
           flops * Scale <= peak * elapsed, bytes * Scale * shares <= HbmRate * elapsed
    PROVE  \A r \in RooflineAt(flops, bytes, peak, shares, elapsed).attainment : AtMostOne(r)
<1>1. AtMostOne(<<0, 1>>)
  BY DEF AtMostOne
<1>2. AtMostOne(<<flops * Scale, peak * elapsed>>)
  BY DEF AtMostOne
<1>3. AtMostOne(<<bytes * Scale * shares, HbmRate * elapsed>>)
  BY DEF AtMostOne
<1> QED
  BY <1>1, <1>2, <1>3 DEF RooflineAt

(* The chip as a whole.                                                    *)
LEMMA ChipRatios ==
    ASSUME LatencyInv, DOMAIN counters # {}, NEW pipeline \in Pipelines
    PROVE  LET chip == ChipRoofline(pipeline, Now)
           IN  /\ AtMostOne(chip.compute)
               /\ (\A c \in DOMAIN counters : mixed[c] = 0) =>
                     \A r \in chip.attainment \cup {chip.dram} : AtMostOne(r)
<1> DEFINE dom == Dominant(Now)
           K == KernelTicks(pipeline, Now)
           flops == ChipSum([c \in DOMAIN Now |-> UnitSum(Now[c].flops, dom)], Now)
           bytes == ChipSum([c \in DOMAIN Now |-> Now[c].bytes["memory"]], Now)
           peak == Peak(dom) * NumCores
           chip == RooflineAt(flops, bytes, peak, 1, K)
<1>1. ChipRoofline(pipeline, Now) = chip
  BY DEF ChipRoofline
<1>2. flops * Scale <= peak * K
  <2>1. dom \in Units
    BY DEF Dominant, Units
  <2> QED
    BY <2>1, ChipComputeFits
<1>3. (\A c \in DOMAIN counters : mixed[c] = 0) => bytes * Scale * 1 <= HbmRate * K
  <2> SUFFICES ASSUME \A c \in DOMAIN counters : mixed[c] = 0
               PROVE  bytes * Scale * 1 <= HbmRate * K
    OBVIOUS
  <2>1. bytes \in Nat /\ bytes * Scale <= HbmRate * K
    BY ChipMemoryFits
  <2>2. Scale \in Nat
    BY LatencyAssumption DEF LatencyAssumption
  <2> HIDE DEF bytes, K
  <2>3. bytes * Scale * 1 = bytes * Scale
    BY <2>1, <2>2
  <2> QED
    BY <2>1, <2>3
<1> HIDE DEF flops, bytes, peak, K
<1>4. AtMostOne(chip.compute)
  <2>1. chip.compute = <<flops * Scale, peak * K>>
    BY DEF RooflineAt
  <2> QED
    BY <1>2, <2>1 DEF AtMostOne
<1>5. ASSUME \A c \in DOMAIN counters : mixed[c] = 0
      PROVE  \A r \in chip.attainment \cup {chip.dram} : AtMostOne(r)
  <2>1. bytes * Scale * 1 <= HbmRate * K
    BY <1>3, <1>5
  <2>2. chip.dram = <<bytes * Scale * 1, HbmRate * K>>
    BY DEF RooflineAt
  <2>3. AtMostOne(chip.dram)
    BY <2>1, <2>2 DEF AtMostOne
  <2>4. \A r \in chip.attainment : AtMostOne(r)
    BY <1>2, <2>1, AttainmentFits
  <2> QED
    BY <2>3, <2>4
<1> HIDE DEF chip
<1> QED
  BY <1>1, <1>4, <1>5

LEMMA MeanFits ==
    ASSUME LatencyInv, DOMAIN counters # {}, NEW pipeline \in Pipelines
    PROVE  AtMostOne(MeanActive(pipeline, Now))
<1> DEFINE E == [c \in DOMAIN counters |-> EffectiveTicks(pipeline, Now[c])]
           K == KernelTicks(pipeline, Now)
<1>1. K \in Nat /\ E \in [DOMAIN counters -> Nat] /\ \A c \in DOMAIN counters : E[c] <= K
  BY KernelFacts
<1>2. MeanActive(pipeline, Now) = <<ChipSum(E, Now), NumCores * K>>
  BY DEF MeanActive, Now, Contents
<1> HIDE DEF E, K
<1>3. ChipSum(E, Now) <= NumCores * K
  BY <1>1, ChipFits
<1> QED
  BY <1>2, <1>3 DEF AtMostOne

(* No ratio of a report exceeds one, under any pipeline model              *)
(* (LatencyReport.chip_roofline and core_roofline).                        *)
THEOREM RatiosCorrect == Spec => []RatiosAreFractions
<1>1. LatencyInv => RatiosAreFractions
  <2> SUFFICES ASSUME LatencyInv, NEW pipeline \in Pipelines, DOMAIN counters # {}
               PROVE  LET chip == ChipRoofline(pipeline, Now)
                      IN  /\ AtMostOne(chip.compute)
                          /\ AtMostOne(MeanActive(pipeline, Now))
                          /\ (\A core \in DOMAIN counters : mixed[core] = 0) =>
                                /\ \A r \in chip.attainment \cup {chip.dram} : AtMostOne(r)
                                /\ \A core \in CriticalCores(pipeline, Now), unit \in Units :
                                      \A r \in CoreRoofline(pipeline, Now, core, unit).attainment :
                                         AtMostOne(r)
    BY DEF RatiosAreFractions
  <2>1. ASSUME \A core \in DOMAIN counters : mixed[core] = 0,
               NEW core \in CriticalCores(pipeline, Now), NEW unit \in Units
        PROVE  \A r \in CoreRoofline(pipeline, Now, core, unit).attainment : AtMostOne(r)
    <3> DEFINE flops == UnitSum(Now[core].flops, unit)
               bytes == Now[core].bytes["memory"]
               busy == Cardinality(BusyCores(pipeline, Now))
               K == KernelTicks(pipeline, Now)
    <3>1. core \in DOMAIN counters
      BY DEF CriticalCores, Now, Contents
    <3>2. flops * Scale <= Peak(unit) * K /\ bytes * Scale * busy <= HbmRate * K
      BY <2>1, <3>1, CoreFits
    <3>3. CoreRoofline(pipeline, Now, core, unit) = RooflineAt(flops, bytes, Peak(unit), busy, K)
      BY DEF CoreRoofline
    <3> HIDE DEF flops, bytes, busy, K
    <3> QED
      BY <3>2, <3>3, AttainmentFits
  <2>2. LET chip == ChipRoofline(pipeline, Now)
        IN  /\ AtMostOne(chip.compute)
            /\ (\A c \in DOMAIN counters : mixed[c] = 0) =>
                  \A r \in chip.attainment \cup {chip.dram} : AtMostOne(r)
    BY ChipRatios
  <2>3. AtMostOne(MeanActive(pipeline, Now))
    BY MeanFits
  <2> QED
    BY <2>1, <2>2, <2>3
<1> QED
  BY <1>1, LatencyInvariant, PTL
=============================================================================
