-------------------------- MODULE RingReduce_proof --------------------------
(***************************************************************************)
(* Proofs about RingReduce, for every number of cores, of reduces and of   *)
(* groups, and every way the reduces declare their groups.                 *)
(*                                                                         *)
(* A core sends N - 1 tiles in each reduce and takes N - 1 from its queue. *)
(* The argument numbers them: the k-th of the r-th reduce is               *)
(* Number(r, k), and a queue holds the tiles whose numbers lie between     *)
(* what its reader took and what its writer sent.                          *)
(***************************************************************************)
EXTENDS RingReduce, CommonLemmas, SequenceTheorems

Number(r, k) == (r - 1) * (N - 1) + k - 1

(* The number of the next tile core c takes, and of the next it sends. *)
NextIn(c) == Number(op[c], IF at[c] = "ring" THEN round[c] ELSE 1)
NextOut(c) == IF waits[c] THEN NextIn(c) + 1 ELSE NextIn(c)

(* A core past produce has its one group; only a core in a round waits.    *)
PhaseIsNested(c) ==
    /\ at[c] # "produce" => op[c] <= Ops /\ Memberships(c, op[c]) = {gid[c]}
    /\ waits[c] => at[c] = "ring" /\ round[c] < N

PhasesAreNested == \A c \in Core : PhaseIsNested(c)

(* What a core in the ring holds. *)
RingState(c) ==
    /\ bytes[c] = IF waits[c] THEN round[c] ELSE round[c] - 1
    /\ fwd[c] = Seed(Origin(c, round[c] - 1), op[c], TRUE)
    /\ acc[c] = Fold(c, op[c])[round[c] - 1]

RingStates == \A c \in Core : at[c] = "ring" => RingState(c)

(* The tile with the given number among those core c takes. *)
IsTileNo(c, tile, n) ==
    \E r \in 1 .. Ops, k \in 1 .. N - 1 :
        n = Number(r, k) /\ tile = Seed(Origin(c, k), r, TRUE)

QueueIsNumbered(c) ==
    /\ Len(chan[c]) = NextOut(PrevCore(c)) - NextIn(c)
    /\ \A i \in DOMAIN chan[c] : IsTileNo(c, chan[c][i], NextIn(c) + i - 1)

QueuesAreNumbered == \A c \in Core : QueueIsNumbered(c)

OutsAreCounted == \A c \in Core : Len(out[c]) = op[c] - 1

RingInv ==
    /\ TypeOK
    /\ PhasesAreNested
    /\ RingStates
    /\ QueuesAreNumbered
    /\ OutsAreCounted
    /\ ResultsAreGroupFolds

----------------------------------------------------------------------------
(***************************************************************************)
(* Numbers and origins.                                                    *)
(***************************************************************************)
LEMMA NumberType ==
    ASSUME NEW r \in Nat \ {0}, NEW k \in 1 .. N
    PROVE  Number(r, k) \in Nat
<1>1. (r - 1) * (N - 1) \in Nat
  BY NAssumption
<1> QED
  BY <1>1 DEF Number

LEMMA NumberSucc ==
    ASSUME NEW r \in Nat \ {0}, NEW k \in 1 .. N - 1
    PROVE  Number(r, k + 1) = Number(r, k) + 1
<1>1. (r - 1) * (N - 1) \in Int
  BY NAssumption
<1> QED
  BY <1>1 DEF Number

(* The last tile of a reduce is followed by the first of the next. *)
LEMMA NumberWraps ==
    ASSUME NEW r \in Nat \ {0}
    PROVE  Number(r, N) = Number(r + 1, 1)
BY NAssumption DEF Number

LEMMA NumberOfEarlier ==
    ASSUME NEW r \in Nat \ {0}, NEW s \in Nat \ {0}, r < s, NEW k \in 1 .. N - 1
    PROVE  Number(r, k) < Number(s, 1)
<1>1. N - 1 \in Nat /\ 1 \in 1 .. N - 1
  BY NAssumption
<1> QED
  BY <1>1, PlaceOrder DEF Number, PlaceNo

LEMMA NumberInjective ==
    ASSUME NEW r \in Nat \ {0}, NEW s \in Nat \ {0}, NEW j \in 1 .. N - 1, NEW k \in 1 .. N - 1,
           Number(r, j) = Number(s, k)
    PROVE  r = s /\ j = k
<1>1. N - 1 \in Nat
  BY NAssumption
<1> QED
  BY <1>1, PlaceInjective DEF Number, PlaceNo


(* A core's origin k + 1 rounds back is its predecessor's k rounds back. *)
LEMMA OriginFacts ==
    ASSUME NEW c \in Core
    PROVE  /\ NextCore(c) \in Core /\ PrevCore(c) \in Core
           /\ PrevCore(NextCore(c)) = c /\ NextCore(PrevCore(c)) = c
           /\ Origin(c, 0) = c
           /\ \A k \in 0 .. N - 1 : Origin(c, k) \in Core
           /\ \A k \in 1 .. N - 1 : Origin(NextCore(c), k) = Origin(c, k - 1)
<1>1. c \in 0 .. N - 1
  BY DEF Core
<1>2. NextCore(c) = IF c = N - 1 THEN 0 ELSE c + 1
  BY <1>1, NAssumption DEF NextCore
<1>3. PrevCore(c) = IF c = 0 THEN N - 1 ELSE c - 1
  BY <1>1, NAssumption DEF PrevCore
<1>4. NextCore(c) \in Core /\ PrevCore(c) \in Core
  BY <1>1, <1>2, <1>3, NAssumption DEF Core
<1>5. \A d \in 0 .. N - 1, k \in 0 .. N - 1 :
          (d - k) % N = IF d >= k THEN d - k ELSE d - k + N
  BY NAssumption
<1>6. \A d \in Core, k \in 0 .. N - 1 :
          Origin(d, k) = IF d >= k THEN d - k ELSE d - k + N
  BY <1>5 DEF Origin, Core
<1>7. Origin(c, 0) = c /\ \A k \in 0 .. N - 1 : Origin(c, k) \in Core
  BY <1>1, <1>6, NAssumption DEF Core
<1>8. ASSUME NEW k \in 1 .. N - 1 PROVE Origin(NextCore(c), k) = Origin(c, k - 1)
  BY <1>1, <1>2, <1>4, <1>6, NAssumption DEF Core
<1>9. PrevCore(NextCore(c)) = c
  <2>1. \A d \in 0 .. N - 1 : (d - 1) % N = IF d = 0 THEN N - 1 ELSE d - 1
    BY NAssumption
  <2> QED
    BY <1>1, <1>2, <1>4, <2>1, NAssumption DEF PrevCore, Core
<1>10. NextCore(PrevCore(c)) = c
  <2>1. \A d \in 0 .. N - 1 : (d + 1) % N = IF d = N - 1 THEN 0 ELSE d + 1
    BY NAssumption
  <2>2. PrevCore(c) \in 0 .. N - 1
    BY <1>4 DEF Core
  <2>3. NextCore(PrevCore(c)) = IF PrevCore(c) = N - 1 THEN 0 ELSE PrevCore(c) + 1
    BY <2>1, <2>2 DEF NextCore
  <2> QED
    BY <1>1, <1>3, <2>3, NAssumption
<1> QED
  BY <1>4, <1>7, <1>8, <1>9, <1>10

----------------------------------------------------------------------------
(***************************************************************************)
(* The fold.                                                               *)
(***************************************************************************)
LEMMA ContributionType ==
    ASSUME NEW c \in Core, NEW r \in 1 .. Ops, NEW k \in 0 .. N - 1
    PROVE  Contribution(c, r, k) \in Seq(Tile)
<1>1. Origin(c, k) \in Core
  BY OriginFacts
<1>2. Seed(Origin(c, k), r, TRUE) \in Tile
  BY <1>1 DEF Seed, Tile
<1>3. <<Seed(Origin(c, k), r, TRUE)>> \in Seq(Tile) /\ <<>> \in Seq(Tile)
  BY <1>2, ShortSeqs
<1> QED
  BY <1>3, Zenon DEF Contribution

LEMMA FoldEquation ==
    ASSUME NEW c, NEW r
    PROVE  Fold(c, r) = [k \in 0 .. N - 1 |->
               IF k = 0 THEN Contribution(c, r, 0) ELSE Fold(c, r)[k - 1] \o Contribution(c, r, k)]
<1> DEFINE g == [k \in 0 .. N - 1 |-> Contribution(c, r, k)]
           Eqn(f) == f = [k \in 0 .. N - 1 |->
               IF k = 0 THEN Contribution(c, r, 0) ELSE f[k - 1] \o Contribution(c, r, k)]
<1>1. \E f : Eqn(f)
  <2>1. N - 1 \in Nat
    BY NAssumption
  <2>2. PICK f : IsFold(f, g, N - 1)
    BY <2>1, FoldExists
  <2>3. g[0] = Contribution(c, r, 0)
    BY <2>1
  <2>4. Eqn(f)
    BY <2>2, <2>3 DEF IsFold
  <2> QED
    BY <2>4
<1>2. Fold(c, r) = CHOOSE f : Eqn(f)
  BY DEF Fold
<1> HIDE DEF Eqn
<1>3. Eqn(Fold(c, r))
  BY <1>1, <1>2
<1> QED
  BY <1>3 DEF Eqn

LEMMA FoldFacts ==
    ASSUME NEW c \in Core, NEW r \in 1 .. Ops
    PROVE  /\ Fold(c, r)[0] = Contribution(c, r, 0)
           /\ \A k \in 1 .. N - 1 : Fold(c, r)[k] = Fold(c, r)[k - 1] \o Contribution(c, r, k)
           /\ \A k \in 0 .. N - 1 : Fold(c, r)[k] \in Seq(Tile)
<1> DEFINE f == Fold(c, r)
           con(k) == Contribution(c, r, k)
<1>1. f = [k \in 0 .. N - 1 |-> IF k = 0 THEN con(0) ELSE f[k - 1] \o con(k)]
  BY FoldEquation
<1>2. \A k \in 0 .. N - 1 : con(k) \in Seq(Tile)
  BY ContributionType
<1> HIDE DEF f, con
<1>3. f[0] = con(0) /\ \A k \in 1 .. N - 1 : f[k] = f[k - 1] \o con(k)
  BY <1>1, NAssumption
<1> DEFINE T == {k \in 0 .. N - 1 : f[k] \notin Seq(Tile)}
<1>4. ASSUME NEW k \in T PROVE \E j \in T : j < k
  <2>0. k \in 0 .. N - 1 /\ f[k] \notin Seq(Tile)
    OBVIOUS
  <2>1. k # 0
    BY <1>2, <1>3, <2>0
  <2>2. k - 1 \in 0 .. N - 1 /\ k \in 1 .. N - 1 /\ k - 1 < k
    BY <2>0, <2>1, NAssumption
  <2>3. f[k - 1] \notin Seq(Tile)
    <3>1. f[k] = f[k - 1] \o con(k)
      BY <1>3, <2>2
    <3>2. con(k) \in Seq(Tile)
      BY <1>2, <2>2
    <3> QED
      BY <2>0, <3>1, <3>2, ConcatProperties
  <2> QED
    BY <2>2, <2>3
<1>5. T = {}
  <2>1. T \subseteq Nat
    OBVIOUS
  <2> HIDE DEF T
  <2> QED
    BY <1>4, <2>1, NoDescent
<1> QED
  BY <1>3, <1>5 DEF f, con

(* A fold depends on the kernel alone, and the kernel is fixed. *)
LEMMA KernelFixesFolds ==
    ASSUME kernel' = kernel, NEW c, NEW r
    PROVE  /\ Memberships(c, r)' = Memberships(c, r)
           /\ Producers(c, r)' = Producers(c, r)
           /\ Consumers(c, r)' = Consumers(c, r)
           /\ Fold(c, r)' = Fold(c, r)
           /\ Folded(c, r)' = Folded(c, r)
BY DEF Memberships, Producers, Consumers, Contribution, Fold, Folded

----------------------------------------------------------------------------
(***************************************************************************)
(* The inductive invariant.                                                *)
(***************************************************************************)
LEMMA SeedType ==
    ASSUME NEW c \in Core, NEW r \in 1 .. Ops, NEW b \in BOOLEAN
    PROVE  Seed(c, r, b) \in Tile
BY DEF Seed, Tile

(* The sets of the one group of a core. *)
LEMMA OwnGroup ==
    ASSUME TypeOK, NEW c \in Core, op[c] \in 1 .. Ops, Memberships(c, op[c]) = {gid[c]}
    PROVE  /\ Producers(c, op[c]) = kernel[op[c]].producers[gid[c]]
           /\ Consumers(c, op[c]) = kernel[op[c]].consumers[gid[c]]
           /\ c \in kernel[op[c]].producers[gid[c]]
           /\ \A q : IsProducer(c, q) <=> q \in Producers(c, op[c])
           /\ IsConsumer(c) <=> c \in Consumers(c, op[c])
<1>1. gid[c] \in Memberships(c, op[c])
  OBVIOUS
<1>2. c \in kernel[op[c]].producers[gid[c]]
  BY <1>1 DEF Memberships
<1>3. Producers(c, op[c]) = kernel[op[c]].producers[gid[c]]
  BY DEF Producers
<1>4. Consumers(c, op[c]) = kernel[op[c]].consumers[gid[c]]
  BY DEF Consumers
<1> QED
  BY <1>2, <1>3, <1>4 DEF IsProducer, IsConsumer

LEMMA InitRing == Init => RingInv
<1> SUFFICES ASSUME Init PROVE RingInv
  OBVIOUS
<1>1. TypeOK
  <2>1. kernel \in [1 .. Ops -> Family] /\ tracked \in BOOLEAN
    BY KernelsAssumption, TrackersAssumption DEF Init
  <2>2. op \in [Core -> 1 .. Ops + 1] /\ round \in [Core -> 1 .. N] /\ bytes \in [Core -> 0 .. N - 1]
    BY NAssumption, OpsAssumption DEF Init
  <2>3. acc \in [Core -> Seq(Tile)] /\ chan \in [Core -> Seq(Tile)] /\ out \in [Core -> Seq(Result)]
    BY DEF Init
  <2> QED
    BY <2>1, <2>2, <2>3 DEF Init, TypeOK
<1>2. PhasesAreNested /\ RingStates
  BY DEF Init, PhasesAreNested, PhaseIsNested, RingStates
<1>3. QueuesAreNumbered
  <2> SUFFICES ASSUME NEW c \in Core PROVE QueueIsNumbered(c)
    BY DEF QueuesAreNumbered
  <2>1. PrevCore(c) \in Core
    BY OriginFacts
  <2>2. NextIn(c) = Number(1, 1) /\ NextOut(PrevCore(c)) = Number(1, 1)
    BY <2>1 DEF Init, NextIn, NextOut
  <2>3. Number(1, 1) \in Int
    BY NumberType, NAssumption
  <2>4. chan[c] = <<>>
    BY DEF Init
  <2> QED
    BY <2>2, <2>3, <2>4 DEF QueueIsNumbered
<1>4. OutsAreCounted /\ ResultsAreGroupFolds
  BY DEF Init, OutsAreCounted, ResultsAreGroupFolds
<1> QED
  BY <1>1, <1>2, <1>3, <1>4 DEF RingInv

LEMMA TypeStep ==
    ASSUME RingInv, [Next]_vars
    PROVE  TypeOK'
<1>0. TypeOK /\ PhasesAreNested /\ RingStates
  BY DEF RingInv
<1> USE DEF TypeOK, run, ring
<1>1. ASSUME NEW c \in Core, Produce(c) PROVE TypeOK'
  BY <1>0, <1>1 DEF Produce
<1>2. ASSUME NEW c \in Core, ProduceRaises(c) PROVE TypeOK'
  BY <1>0, <1>2 DEF ProduceRaises
<1>3. ASSUME NEW c \in Core, Enter(c) PROVE TypeOK'
  <2> DEFINE seed == Seed(c, op[c], IsProducer(c, c))
  <2>1. op[c] \in 1 .. Ops
    BY <1>0, <1>3, OpsAssumption DEF Enter, Live
  <2>2. seed \in Tile /\ <<seed>> \in Seq(Tile)
    <3>1. IsProducer(c, c) \in BOOLEAN
      BY DEF IsProducer
    <3>2. seed \in Tile
      BY <2>1, <3>1, SeedType
    <3> QED
      BY <3>2, ShortSeqs
  <2> HIDE DEF seed
  <2>3. acc' = [acc EXCEPT ![c] = <<seed>>] /\ fwd' = [fwd EXCEPT ![c] = seed]
    BY <1>3 DEF Enter, seed
  <2>4. acc' \in [Core -> Seq(Tile)] /\ fwd' \in [Core -> Tile \cup {None}]
    BY <1>0, <2>2, <2>3
  <2> QED
    BY <1>0, <1>3, <2>4, NAssumption DEF Enter
<1>4. ASSUME NEW c \in Core, SendOn(c) PROVE TypeOK'
  <2>1. op[c] \in 1 .. Ops /\ at[c] = "ring" /\ ~waits[c] /\ round[c] \in 1 .. N - 1
    BY <1>0, <1>4, OpsAssumption, NAssumption DEF SendOn, Live
  <2>2. bytes[c] = round[c] - 1 /\ fwd[c] = Seed(Origin(c, round[c] - 1), op[c], TRUE)
    BY <1>0, <2>1 DEF RingStates, RingState
  <2>3. Origin(c, round[c] - 1) \in Core /\ NextCore(c) \in Core
    BY <2>1, OriginFacts, NAssumption
  <2>4. fwd[c] \in Tile
    BY <2>1, <2>2, <2>3, SeedType
  <2>5. chan' \in [Core -> Seq(Tile)]
    BY <1>0, <1>4, <2>3, <2>4 DEF SendOn
  <2>6. bytes' \in [Core -> 0 .. N - 1]
    BY <1>0, <1>4, <2>1, <2>2 DEF SendOn
  <2> QED
    BY <1>0, <1>4, <2>5, <2>6 DEF SendOn
<1>5. ASSUME NEW c \in Core, Receive(c) PROVE TypeOK'
  <2>1. round[c] \in 1 .. N - 1
    BY <1>0, <1>5, NAssumption DEF Receive, PhasesAreNested, PhaseIsNested
  <2>2. chan[c] \in Seq(Tile) /\ chan[c] # <<>> /\ acc[c] \in Seq(Tile)
    BY <1>0, <1>5 DEF Receive
  <2>3. Head(chan[c]) \in Tile /\ Tail(chan[c]) \in Seq(Tile)
    BY <2>2
  <2>4. chan' \in [Core -> Seq(Tile)] /\ fwd' \in [Core -> Tile \cup {None}]
    BY <1>0, <1>5, <2>3 DEF Receive
  <2>5. acc' \in [Core -> Seq(Tile)]
    <3> DEFINE folded == IF IsProducer(c, Origin(c, round[c]))
                         THEN Append(acc[c], Head(chan[c])) ELSE acc[c]
    <3>1. Append(acc[c], Head(chan[c])) \in Seq(Tile)
      BY <2>2, <2>3
    <3>2. folded \in Seq(Tile)
      BY <2>2, <3>1
    <3>3. acc' = [acc EXCEPT ![c] = folded]
      BY <1>5, Zenon DEF Receive
    <3> HIDE DEF folded
    <3> QED
      BY <1>0, <3>2, <3>3
  <2>6. round' \in [Core -> 1 .. N]
    <3>1. round' = [round EXCEPT ![c] = round[c] + 1]
      BY <1>5 DEF Receive
    <3> QED
      BY <1>0, <2>1, <3>1, NAssumption
  <2>7. waits' \in [Core -> BOOLEAN]
    BY <1>0, <1>5 DEF Receive
  <2>8. UNCHANGED <<kernel, tracked, op, at, gid, bytes, out, failed>>
    BY <1>5 DEF Receive
  <2> QED
    BY <1>0, <2>4, <2>5, <2>6, <2>7, <2>8
<1>6. ASSUME NEW c \in Core, Leave(c) PROVE TypeOK'
  <2> DEFINE value == IF IsConsumer(c) THEN [value |-> acc[c], bytes |-> bytes[c]] ELSE None
  <2>1. value \in Result
    BY <1>0 DEF Result
  <2> HIDE DEF value
  <2>2. out' = [out EXCEPT ![c] = Append(@, value)]
    BY <1>6 DEF Leave, value
  <2>3. out' \in [Core -> Seq(Result)]
    BY <1>0, <2>1, <2>2
  <2>4. op' \in [Core -> 1 .. Ops + 1]
    BY <1>0, <1>6, OpsAssumption DEF Leave, Live
  <2> QED
    BY <1>0, <1>6, <2>3, <2>4 DEF Leave
<1>7. ASSUME NEW c \in Core, LeaveRaises(c) PROVE TypeOK'
  BY <1>0, <1>7 DEF LeaveRaises
<1>8. CASE UNCHANGED vars
  BY <1>0, <1>8 DEF vars
<1> QED
  BY <1>1, <1>2, <1>3, <1>4, <1>5, <1>6, <1>7, <1>8 DEF Next, Step

LEMMA PhasesStep ==
    ASSUME RingInv, [Next]_vars
    PROVE  PhasesAreNested'
<1>0. TypeOK /\ PhasesAreNested
  BY DEF RingInv
<1> USE DEF TypeOK, run, ring
<1>k. kernel' = kernel
  BY DEF Next, Step, vars, Produce, ProduceRaises, Enter, SendOn, Receive, Leave, LeaveRaises
<1> SUFFICES ASSUME NEW d \in Core PROVE PhaseIsNested(d)'
  BY DEF PhasesAreNested
<1> USE DEF PhaseIsNested
<1>d. PhaseIsNested(d)
  BY <1>0 DEF PhasesAreNested
<1>m. op'[d] = op[d] => Memberships(d, op[d])' = Memberships(d, op[d])
  BY <1>k DEF Memberships
<1>1. ASSUME NEW c \in Core, Produce(c) PROVE PhaseIsNested(d)'
  BY <1>0, <1>1, <1>d, <1>m DEF Produce, Live
<1>2. ASSUME NEW c \in Core, ProduceRaises(c) \/ LeaveRaises(c) PROVE PhaseIsNested(d)'
  BY <1>0, <1>2, <1>d, <1>m DEF ProduceRaises, LeaveRaises
<1>3. ASSUME NEW c \in Core, Enter(c) PROVE PhaseIsNested(d)'
  BY <1>0, <1>3, <1>d, <1>m DEF Enter, Live
<1>4. ASSUME NEW c \in Core, SendOn(c) PROVE PhaseIsNested(d)'
  BY <1>0, <1>4, <1>d, <1>m DEF SendOn, Live
<1>5. ASSUME NEW c \in Core, Receive(c) PROVE PhaseIsNested(d)'
  <2>1. /\ waits' = [waits EXCEPT ![c] = FALSE]
        /\ round' = [round EXCEPT ![c] = @ + 1]
        /\ UNCHANGED <<op, at, gid>>
    BY <1>5 DEF Receive
  <2> QED
    BY <1>0, <1>d, <1>m, <2>1
<1>6. ASSUME NEW c \in Core, Leave(c) PROVE PhaseIsNested(d)'
  <2>1. /\ at[c] = "ring" /\ round[c] = N
        /\ op' = [op EXCEPT ![c] = @ + 1] /\ at' = [at EXCEPT ![c] = "produce"]
        /\ UNCHANGED <<gid, round, waits>>
    BY <1>6 DEF Leave
  <2> QED
    BY <1>0, <1>d, <1>m, <2>1, NAssumption
<1>7. CASE UNCHANGED vars
  BY <1>7, <1>d, <1>m DEF vars
<1> QED
  BY <1>1, <1>2, <1>3, <1>4, <1>5, <1>6, <1>7 DEF Next, Step

(* What a suspended core finds at the head of its queue. *)
LEMMA HeadIsFromOrigin ==
    ASSUME RingInv, NEW c \in Core, at[c] = "ring", waits[c], chan[c] # <<>>
    PROVE  /\ op[c] \in 1 .. Ops /\ round[c] \in 1 .. N - 1
           /\ Head(chan[c]) = Seed(Origin(c, round[c]), op[c], TRUE)
<1>0. TypeOK /\ PhasesAreNested /\ QueuesAreNumbered
  BY DEF RingInv
<1>1. op[c] \in 1 .. Ops /\ round[c] \in 1 .. N - 1
  BY <1>0, OpsAssumption, NAssumption DEF TypeOK, PhasesAreNested, PhaseIsNested
<1>2. chan[c] \in Seq(Tile) /\ Head(chan[c]) = chan[c][1] /\ 1 \in DOMAIN chan[c]
  BY <1>0 DEF TypeOK
<1>3. NextIn(c) = Number(op[c], round[c])
  BY DEF NextIn
<1>4. NextIn(c) + 1 - 1 = Number(op[c], round[c])
  <2>1. op[c] \in Nat \ {0} /\ round[c] \in 1 .. N
    BY <1>1, OpsAssumption, NAssumption
  <2>2. Number(op[c], round[c]) \in Nat
    BY <2>1, NumberType
  <2> QED
    BY <1>3, <2>2
<1>5. IsTileNo(c, chan[c][1], Number(op[c], round[c]))
  <2>1. IsTileNo(c, chan[c][1], NextIn(c) + 1 - 1)
    BY <1>0, <1>2 DEF QueuesAreNumbered, QueueIsNumbered
  <2> QED
    BY <1>4, <2>1
<1>6. PICK r \in 1 .. Ops, k \in 1 .. N - 1 :
          Number(op[c], round[c]) = Number(r, k) /\ chan[c][1] = Seed(Origin(c, k), r, TRUE)
  BY <1>5 DEF IsTileNo
<1>7. r = op[c] /\ k = round[c]
  <2>1. r \in Nat \ {0} /\ op[c] \in Nat \ {0}
    BY <1>1, OpsAssumption
  <2> QED
    BY <1>1, <1>6, <2>1, NumberInjective
<1> QED
  BY <1>1, <1>2, <1>6, <1>7

LEMMA RingStatesStep ==
    ASSUME RingInv, [Next]_vars
    PROVE  RingStates'
<1>0. TypeOK /\ PhasesAreNested /\ RingStates
  BY DEF RingInv
<1> USE DEF run, ring
<1>k. kernel' = kernel
  BY DEF Next, Step, vars, Produce, ProduceRaises, Enter, SendOn, Receive, Leave, LeaveRaises
<1> SUFFICES ASSUME NEW d \in Core, at'[d] = "ring" PROVE RingState(d)'
  BY DEF RingStates
<1> USE DEF RingState
<1>d. at[d] = "ring" => RingState(d)
  BY <1>0 DEF RingStates
<1>f. op'[d] = op[d] => Fold(d, op[d])' = Fold(d, op[d])
  BY <1>k DEF Fold, Contribution, Producers, Memberships
<1>t. /\ op \in [Core -> 1 .. Ops + 1] /\ at \in [Core -> {"produce", "reduce", "ring"}]
      /\ round \in [Core -> 1 .. N] /\ waits \in [Core -> BOOLEAN]
      /\ acc \in [Core -> Seq(Tile)] /\ fwd \in [Core -> Tile \cup {None}]
      /\ bytes \in [Core -> 0 .. N - 1] /\ chan \in [Core -> Seq(Tile)]
  BY <1>0 DEF TypeOK
<1>u. \/ UNCHANGED <<op, at, round, waits, acc, fwd, bytes>>
      \/ \E c \in Core : Produce(c) \/ Enter(c) \/ SendOn(c) \/ Receive(c) \/ Leave(c)
  BY DEF Next, Step, vars, ProduceRaises, LeaveRaises
<1>1. CASE UNCHANGED <<op, at, round, waits, acc, fwd, bytes>>
  BY <1>1, <1>d, <1>f
<1>2. ASSUME NEW c \in Core, Produce(c) PROVE RingState(d)'
  BY <1>2, <1>d, <1>f, <1>t DEF Produce
<1>3. ASSUME NEW c \in Core, Enter(c) PROVE RingState(d)'
  <2> DEFINE seed == Seed(c, op[c], IsProducer(c, c))
  <2>1. op[c] \in 1 .. Ops /\ Memberships(c, op[c]) = {gid[c]}
    <3>1. at[c] = "reduce" /\ PhaseIsNested(c)
      BY <1>0, <1>3 DEF Enter, PhasesAreNested
    <3> QED
      BY <1>t, <3>1, OpsAssumption DEF PhaseIsNested
  <2>2. IsProducer(c, c) /\ c \in Producers(c, op[c]) /\ IsProducer(c, c) \in BOOLEAN
    BY <1>0, <2>1, OwnGroup DEF IsProducer
  <2>3. seed = Seed(c, op[c], TRUE)
    BY <2>2
  <2>4. Fold(c, op[c])[0] = <<Seed(c, op[c], TRUE)>>
    <3>1. Origin(c, 0) = c
      BY OriginFacts
    <3>2. Fold(c, op[c])[0] = Contribution(c, op[c], 0)
      BY <2>1, FoldFacts
    <3> QED
      BY <2>2, <3>1, <3>2 DEF Contribution
  <2>5. Origin(c, 0) = c
    BY OriginFacts
  <2> HIDE DEF seed
  <2>6. /\ acc' = [acc EXCEPT ![c] = <<seed>>] /\ fwd' = [fwd EXCEPT ![c] = seed]
        /\ round' = [round EXCEPT ![c] = 1] /\ waits' = [waits EXCEPT ![c] = FALSE]
        /\ bytes' = [bytes EXCEPT ![c] = 0] /\ at' = [at EXCEPT ![c] = "ring"] /\ op' = op
    BY <1>3 DEF Enter, seed
  <2>7. CASE d = c
    <3>1. /\ acc'[d] = Fold(d, op[d])[0] /\ fwd'[d] = Seed(Origin(d, 0), op[d], TRUE)
          /\ round'[d] = 1 /\ waits'[d] = FALSE /\ bytes'[d] = 0 /\ op'[d] = op[d]
      BY <1>t, <2>3, <2>4, <2>5, <2>6, <2>7
    <3> QED
      BY <1>f, <3>1
  <2>8. CASE d # c
    BY <1>t, <1>d, <1>f, <2>6, <2>8
  <2> QED
    BY <2>7, <2>8
<1>4. ASSUME NEW c \in Core, SendOn(c) PROVE RingState(d)'
  BY <1>4, <1>d, <1>f, <1>t DEF SendOn
<1>5. ASSUME NEW c \in Core, Receive(c) PROVE RingState(d)'
  <2>0. at[c] = "ring" /\ waits[c] /\ chan[c] # <<>>
    BY <1>5 DEF Receive
  <2>1. /\ op[c] \in 1 .. Ops /\ round[c] \in 1 .. N - 1
        /\ Head(chan[c]) = Seed(Origin(c, round[c]), op[c], TRUE)
    BY <2>0, HeadIsFromOrigin
  <2> DEFINE folded == IF IsProducer(c, Origin(c, round[c]))
                       THEN Append(acc[c], Head(chan[c])) ELSE acc[c]
  <2>2. acc[c] = Fold(c, op[c])[round[c] - 1] /\ bytes[c] = round[c]
    BY <1>0, <2>0 DEF RingStates
  <2>3. folded = Fold(c, op[c])[round[c]]
    <3>1. Fold(c, op[c])[round[c]] = acc[c] \o Contribution(c, op[c], round[c])
      BY <2>1, <2>2, FoldFacts
    <3>2. Memberships(c, op[c]) = {gid[c]}
      BY <1>0, <2>0 DEF PhasesAreNested, PhaseIsNested
    <3>3. IsProducer(c, Origin(c, round[c])) <=> Origin(c, round[c]) \in Producers(c, op[c])
      BY <1>0, <2>1, <3>2, OwnGroup
    <3>4. acc[c] \in Seq(Tile) /\ Head(chan[c]) \in Tile
      BY <1>t, <2>0
    <3>5. CASE Origin(c, round[c]) \in Producers(c, op[c])
      <4>1. Contribution(c, op[c], round[c]) = <<Head(chan[c])>>
        BY <2>1, <3>5, Zenon DEF Contribution
      <4>2. Append(acc[c], Head(chan[c])) = acc[c] \o <<Head(chan[c])>>
        BY <3>4, AppendIsConcat
      <4> QED
        BY <3>1, <3>3, <3>5, <4>1, <4>2
    <3>6. CASE Origin(c, round[c]) \notin Producers(c, op[c])
      <4>1. Contribution(c, op[c], round[c]) = <<>>
        BY <3>6 DEF Contribution
      <4>2. acc[c] \o <<>> = acc[c]
        BY <3>4
      <4> QED
        BY <3>1, <3>3, <3>6, <4>1, <4>2
    <3> QED
      BY <3>5, <3>6
  <2>4. acc' = [acc EXCEPT ![c] = folded]
    BY <1>5, Zenon DEF Receive
  <2> HIDE DEF folded
  <2>5. /\ fwd' = [fwd EXCEPT ![c] = Head(chan[c])]
        /\ round' = [round EXCEPT ![c] = @ + 1] /\ waits' = [waits EXCEPT ![c] = FALSE]
        /\ bytes' = bytes /\ at' = at /\ op' = op
    BY <1>5, Zenon DEF Receive
  <2>7. CASE d = c
    <3>1. /\ acc'[d] = Fold(d, op[d])[round[d]] /\ round'[d] = round[d] + 1
          /\ fwd'[d] = Seed(Origin(d, round[d]), op[d], TRUE)
          /\ waits'[d] = FALSE /\ bytes'[d] = round[d] /\ op'[d] = op[d]
      BY <1>t, <2>1, <2>2, <2>3, <2>4, <2>5, <2>7
    <3>2. round'[d] - 1 = round[d]
      BY <2>1, <2>7, <3>1
    <3> QED
      BY <1>f, <3>1, <3>2
  <2>8. CASE d # c
    BY <1>t, <1>d, <1>f, <2>4, <2>5, <2>8
  <2> QED
    BY <2>7, <2>8
<1>6. ASSUME NEW c \in Core, Leave(c) PROVE RingState(d)'
  <2>1. /\ op' = [op EXCEPT ![c] = @ + 1] /\ at' = [at EXCEPT ![c] = "produce"]
        /\ UNCHANGED <<round, waits, acc, fwd, bytes>>
    BY <1>6 DEF Leave
  <2> QED
    BY <1>d, <1>f, <1>t, <2>1
<1> QED
  BY <1>u, <1>1, <1>2, <1>3, <1>4, <1>5, <1>6

LEMMA NextType ==
    ASSUME TypeOK, NEW c \in Core
    PROVE  NextIn(c) \in Nat /\ NextOut(c) \in Nat
<1>1. op[c] \in Nat \ {0} /\ round[c] \in 1 .. N /\ 1 \in 1 .. N
  BY OpsAssumption, NAssumption DEF TypeOK
<1>2. Number(op[c], round[c]) \in Nat /\ Number(op[c], 1) \in Nat
  BY <1>1, NumberType
<1>3. NextIn(c) \in Nat
  BY <1>2 DEF NextIn
<1> QED
  BY <1>3 DEF NextOut

(* Entering and leaving the ring does not change what a core has sent and  *)
(* taken.                                                                  *)
LEMMA NumbersAreKept ==
    ASSUME RingInv, NEW c \in Core,
           \/ Produce(c) \/ ProduceRaises(c) \/ Enter(c) \/ Leave(c) \/ LeaveRaises(c),
           NEW d \in Core
    PROVE  NextIn(d)' = NextIn(d) /\ NextOut(d)' = NextOut(d) /\ chan' = chan
<1> USE DEF run, ring
<1>1. /\ op \in [Core -> 1 .. Ops + 1] /\ at \in [Core -> {"produce", "reduce", "ring"}]
      /\ round \in [Core -> 1 .. N] /\ waits \in [Core -> BOOLEAN]
      /\ waits[c] => at[c] = "ring" /\ round[c] < N
  BY DEF RingInv, TypeOK, PhasesAreNested, PhaseIsNested
<1>2. chan' = chan
  BY DEF Produce, ProduceRaises, Enter, Leave, LeaveRaises
<1>3. CASE Produce(c)
  <2>1. /\ at[c] = "produce" /\ at' = [at EXCEPT ![c] = "reduce"]
        /\ op' = op /\ round' = round /\ waits' = waits
    BY <1>3 DEF Produce
  <2>2. NextIn(d)' = NextIn(d) /\ waits'[d] = waits[d]
    BY <1>1, <2>1 DEF NextIn
  <2> QED
    BY <1>2, <2>2 DEF NextOut
<1>4. CASE ProduceRaises(c) \/ LeaveRaises(c)
  <2>1. at' = at /\ op' = op /\ round' = round /\ waits' = waits
    BY <1>4 DEF ProduceRaises, LeaveRaises
  <2>2. NextIn(d)' = NextIn(d) /\ waits'[d] = waits[d]
    BY <1>1, <2>1 DEF NextIn
  <2> QED
    BY <1>2, <2>2 DEF NextOut
<1>5. CASE Enter(c)
  <2>1. /\ at[c] = "reduce" /\ at' = [at EXCEPT ![c] = "ring"]
        /\ op' = op /\ round' = [round EXCEPT ![c] = 1] /\ waits' = [waits EXCEPT ![c] = FALSE]
    BY <1>5 DEF Enter
  <2>2. NextIn(d)' = NextIn(d) /\ waits'[d] = waits[d]
    BY <1>1, <2>1 DEF NextIn
  <2> QED
    BY <1>2, <2>2 DEF NextOut
<1>6. CASE Leave(c)
  <2>1. /\ at[c] = "ring" /\ round[c] = N
        /\ op' = [op EXCEPT ![c] = @ + 1] /\ at' = [at EXCEPT ![c] = "produce"]
        /\ round' = round /\ waits' = waits
    BY <1>6 DEF Leave
  <2>2. Number(op[c], N) = Number(op[c] + 1, 1)
    <3>1. op[c] \in Nat \ {0}
      BY <1>1, OpsAssumption
    <3> QED
      BY <3>1, NumberWraps
  <2>3. NextIn(d)' = NextIn(d) /\ waits'[d] = waits[d]
    <3>1. CASE d = c
      <4>1. NextIn(d) = Number(op[c], N)
        BY <2>1, <3>1 DEF NextIn
      <4>2. NextIn(d)' = Number(op[c] + 1, 1)
        BY <1>1, <2>1, <3>1 DEF NextIn
      <4> QED
        BY <2>1, <2>2, <4>1, <4>2
    <3>2. CASE d # c
      BY <1>1, <2>1, <3>2 DEF NextIn
    <3> QED
      BY <3>1, <3>2
  <2> QED
    BY <1>2, <2>3 DEF NextOut
<1> QED
  BY <1>3, <1>4, <1>5, <1>6

(* A send is counted when it is made, a receipt when it is taken.          *)
LEMMA NumbersOfSend ==
    ASSUME RingInv, NEW c \in Core, SendOn(c), NEW d \in Core
    PROVE  /\ NextIn(d)' = NextIn(d)
           /\ NextOut(d)' = IF d = c THEN NextOut(d) + 1 ELSE NextOut(d)
           /\ NextOut(c) = Number(op[c], round[c])
<1> USE DEF run
<1>1. waits \in [Core -> BOOLEAN] /\ NextIn(c) \in Nat
  BY NextType DEF RingInv, TypeOK
<1>2. /\ at[c] = "ring" /\ ~waits[c] /\ op' = op /\ at' = at /\ round' = round
      /\ waits' = [waits EXCEPT ![c] = TRUE]
  BY DEF SendOn
<1>3. NextIn(d)' = NextIn(d)
  BY <1>2 DEF NextIn
<1>4. NextOut(d)' = IF d = c THEN NextOut(d) + 1 ELSE NextOut(d)
  BY <1>1, <1>2, <1>3 DEF NextOut
<1>5. NextOut(c) = Number(op[c], round[c])
  BY <1>2 DEF NextOut, NextIn
<1> QED
  BY <1>3, <1>4, <1>5

LEMMA NumbersOfReceive ==
    ASSUME RingInv, NEW c \in Core, Receive(c), NEW d \in Core
    PROVE  /\ NextIn(d)' = IF d = c THEN NextIn(d) + 1 ELSE NextIn(d)
           /\ NextOut(d)' = NextOut(d)
<1> USE DEF run
<1>1. waits \in [Core -> BOOLEAN] /\ round \in [Core -> 1 .. N]
  BY DEF RingInv, TypeOK
<1>2. /\ at[c] = "ring" /\ waits[c] /\ chan[c] # <<>>
      /\ op' = op /\ at' = at /\ round' = [round EXCEPT ![c] = @ + 1]
      /\ waits' = [waits EXCEPT ![c] = FALSE]
  BY Zenon DEF Receive
<1>3. op[c] \in 1 .. Ops /\ round[c] \in 1 .. N - 1
  BY <1>2, HeadIsFromOrigin
<1>4. Number(op[c], round[c] + 1) = Number(op[c], round[c]) + 1
  <2>1. op[c] \in Nat \ {0}
    BY <1>3, OpsAssumption
  <2> QED
    BY <1>3, <2>1, NumberSucc
<1>5. CASE d = c
  <2>1. NextIn(d) = Number(op[c], round[c]) /\ NextIn(d)' = Number(op[c], round[c] + 1)
    BY <1>1, <1>2, <1>5 DEF NextIn
  <2> QED
    BY <1>1, <1>2, <1>4, <1>5, <2>1 DEF NextOut
<1>6. CASE d # c
  <2>1. NextIn(d)' = NextIn(d) /\ waits'[d] = waits[d]
    BY <1>1, <1>2, <1>6 DEF NextIn
  <2> QED
    BY <1>6, <2>1 DEF NextOut
<1> QED
  BY <1>5, <1>6

LEMMA QueuesStep ==
    ASSUME RingInv, [Next]_vars
    PROVE  QueuesAreNumbered'
<1> SUFFICES ASSUME NEW d \in Core PROVE QueueIsNumbered(d)'
  BY DEF QueuesAreNumbered
<1>0. TypeOK /\ QueueIsNumbered(d) /\ PrevCore(d) \in Core
  BY OriginFacts DEF RingInv, QueuesAreNumbered
<1>t. /\ NextIn(d) \in Nat /\ NextOut(PrevCore(d)) \in Nat
      /\ chan \in [Core -> Seq(Tile)]
  BY <1>0, NextType DEF TypeOK
<1>1. ASSUME NextIn(d)' = NextIn(d), NextOut(PrevCore(d))' = NextOut(PrevCore(d)),
             chan'[d] = chan[d]
      PROVE  QueueIsNumbered(d)'
  BY <1>0, <1>1 DEF QueueIsNumbered
<1>2. ASSUME NEW c \in Core, SendOn(c), d = NextCore(c) PROVE QueueIsNumbered(d)'
  <2>1. PrevCore(d) = c
    BY <1>2, OriginFacts
  <2>2. NextIn(d)' = NextIn(d) /\ NextOut(c)' = NextOut(c) + 1
    BY <1>2, NumbersOfSend
  <2>3. chan' = [chan EXCEPT ![d] = Append(@, fwd[c])]
    BY <1>2 DEF SendOn
  <2>4. at[c] = "ring" /\ op[c] \in 1 .. Ops /\ round[c] \in 1 .. N - 1
    BY <1>0, <1>2, OpsAssumption, NAssumption DEF SendOn, Live, TypeOK
  <2>5. fwd[c] = Seed(Origin(d, round[c]), op[c], TRUE)
    <3>1. fwd[c] = Seed(Origin(c, round[c] - 1), op[c], TRUE)
      BY <2>4 DEF RingInv, RingStates, RingState
    <3>2. Origin(d, round[c]) = Origin(c, round[c] - 1)
      BY <1>2, <2>4, OriginFacts
    <3> QED
      BY <3>1, <3>2
  <2>6. IsTileNo(d, fwd[c], NextOut(c))
    <3>1. NextOut(c) = Number(op[c], round[c])
      BY <1>2, NumbersOfSend
    <3> QED
      BY <2>4, <2>5, <3>1 DEF IsTileNo
  <2> DEFINE q == chan[d]
             len == Len(chan[d])
             tile == fwd[c]
             low == NextIn(d)
             high == NextOut(c)
  <2>7. len = high - low /\ \A i \in 1 .. len : IsTileNo(d, q[i], low + i - 1)
    BY <1>0, <1>t, <2>1 DEF QueueIsNumbered
  <2>8. tile \in Tile
    <3>1. Origin(d, round[c]) \in Core
      BY <2>4, OriginFacts, NAssumption
    <3> QED
      BY <2>4, <2>5, <3>1, SeedType
  <2>9. /\ chan'[d] \in Seq(Tile)
        /\ Len(chan'[d]) = len + 1
        /\ \A i \in 1 .. len : chan'[d][i] = q[i]
        /\ chan'[d][len + 1] = tile
    BY <1>t, <2>3, <2>8
  <2>10. len \in Nat /\ low \in Nat /\ high \in Nat
    BY <1>t, <2>1
  <2>11. NextOut(PrevCore(d))' = high + 1 /\ NextIn(d)' = low
    BY <2>1, <2>2
  <2> HIDE DEF q, len, tile, low, high
  <2>12. Len(chan'[d]) = NextOut(PrevCore(d))' - NextIn(d)'
    BY <2>7, <2>9, <2>10, <2>11
  <2>13. ASSUME NEW i \in DOMAIN chan'[d] PROVE IsTileNo(d, chan'[d][i], NextIn(d)' + i - 1)
    <3>1. i \in 1 .. len + 1
      BY <2>9
    <3>2. CASE i \in 1 .. len
      BY <2>7, <2>9, <2>11, <3>2
    <3>3. CASE i = len + 1
      <4>1. low + i - 1 = high
        BY <2>7, <2>10, <3>3
      <4>2. IsTileNo(d, tile, high)
        BY <2>6 DEF tile, high
      <4> QED
        BY <2>9, <2>11, <3>3, <4>1, <4>2
    <3> QED
      BY <2>10, <3>1, <3>2, <3>3
  <2> QED
    BY <2>12, <2>13 DEF QueueIsNumbered
<1>3. ASSUME NEW c \in Core, SendOn(c), d # NextCore(c) PROVE QueueIsNumbered(d)'
  <2>1. PrevCore(d) # c
    BY <1>3, OriginFacts
  <2>2. NextIn(d)' = NextIn(d) /\ NextOut(PrevCore(d))' = NextOut(PrevCore(d))
    BY <1>0, <1>3, <2>1, NumbersOfSend
  <2>3. chan'[d] = chan[d]
    BY <1>t, <1>3 DEF SendOn
  <2> QED
    BY <1>1, <2>2, <2>3
<1>4. ASSUME NEW c \in Core, Receive(c), d = c PROVE QueueIsNumbered(d)'
  <2>1. NextIn(d)' = NextIn(d) + 1 /\ NextOut(PrevCore(d))' = NextOut(PrevCore(d))
    BY <1>0, <1>4, NumbersOfReceive
  <2>2. chan[d] # <<>> /\ chan' = [chan EXCEPT ![d] = Tail(@)]
    BY <1>4, Zenon DEF Receive
  <2> DEFINE q == chan[d]
             low == NextIn(d)
             high == NextOut(PrevCore(d))
  <2>3. /\ Len(q) = high - low /\ low \in Nat /\ high \in Nat
        /\ \A i \in 1 .. Len(q) : IsTileNo(d, q[i], low + i - 1)
    <3>1. DOMAIN q = 1 .. Len(q)
      BY <1>t
    <3> QED
      BY <1>0, <1>t, <3>1, Zenon DEF QueueIsNumbered
  <2>4. chan'[d] = Tail(q) /\ q \in Seq(Tile) /\ q # <<>>
    BY <1>t, <2>2
  <2>5. NextOut(PrevCore(d))' = high /\ NextIn(d)' = low + 1
    BY <2>1
  <2> HIDE DEF q, low, high
  <2>6. Len(Tail(q)) = Len(q) - 1 /\ \A i \in 1 .. Len(q) - 1 : Tail(q)[i] = q[i + 1]
    BY <2>4
  <2>7. Len(chan'[d]) = NextOut(PrevCore(d))' - NextIn(d)'
    BY <2>3, <2>4, <2>5, <2>6
  <2>8. ASSUME NEW i \in DOMAIN chan'[d] PROVE IsTileNo(d, chan'[d][i], NextIn(d)' + i - 1)
    <3>1. i \in 1 .. Len(q) - 1 /\ Len(q) \in Nat
      BY <2>4, <2>6
    <3>2. chan'[d][i] = q[i + 1] /\ i + 1 \in 1 .. Len(q)
      BY <2>4, <2>6, <3>1
    <3>3. IsTileNo(d, q[i + 1], low + (i + 1) - 1)
      BY <2>3, <3>2
    <3>4. low + (i + 1) - 1 = NextIn(d)' + i - 1
      BY <2>3, <2>5, <3>1
    <3> QED
      BY <3>2, <3>3, <3>4
  <2> QED
    BY <2>7, <2>8 DEF QueueIsNumbered
<1>5. ASSUME NEW c \in Core, Receive(c), d # c PROVE QueueIsNumbered(d)'
  <2>1. NextIn(d)' = NextIn(d) /\ NextOut(PrevCore(d))' = NextOut(PrevCore(d))
    BY <1>0, <1>5, NumbersOfReceive
  <2>2. chan'[d] = chan[d]
    <3>1. chan' = [chan EXCEPT ![c] = Tail(@)]
      BY <1>5, Zenon DEF Receive
    <3> QED
      BY <1>t, <1>5, <3>1
  <2> QED
    BY <1>1, <2>1, <2>2
<1>6. ASSUME NEW c \in Core,
             \/ Produce(c) \/ ProduceRaises(c) \/ Enter(c) \/ Leave(c) \/ LeaveRaises(c)
      PROVE  QueueIsNumbered(d)'
  BY <1>0, <1>1, <1>6, NumbersAreKept
<1>7. CASE UNCHANGED vars
  <2>1. chan' = chan /\ \A e : NextIn(e)' = NextIn(e) /\ NextOut(e)' = NextOut(e)
    BY <1>7 DEF vars, NextIn, NextOut
  <2> QED
    BY <1>1, <2>1
<1> QED
  BY <1>2, <1>3, <1>4, <1>5, <1>6, <1>7 DEF Next, Step

(* A reduce's result is complete once its last round is.                   *)
LEMMA OutsStep ==
    ASSUME RingInv, [Next]_vars
    PROVE  OutsAreCounted' /\ ResultsAreGroupFolds'
<1>0. TypeOK /\ PhasesAreNested /\ RingStates /\ OutsAreCounted /\ ResultsAreGroupFolds
  BY DEF RingInv
<1> USE DEF run, ring
<1>k. kernel' = kernel
  BY DEF Next, Step, vars, Produce, ProduceRaises, Enter, SendOn, Receive, Leave, LeaveRaises
<1> DEFINE result(d, r) == IF d \in Consumers(d, r)
                           THEN [value |-> Folded(d, r), bytes |-> N - 1] ELSE None
<1>f. ASSUME NEW d, NEW r PROVE result(d, r)' = result(d, r)
  BY <1>k, KernelFixesFolds
<1>t. /\ op \in [Core -> 1 .. Ops + 1] /\ round \in [Core -> 1 .. N]
      /\ waits \in [Core -> BOOLEAN] /\ out \in [Core -> Seq(Result)]
  BY <1>0 DEF TypeOK
<1>i. \A d \in Core : /\ Len(out[d]) = op[d] - 1
                     /\ \A r \in 1 .. Len(out[d]) : out[d][r] = result(d, r)
  <2> SUFFICES ASSUME NEW d \in Core
               PROVE  /\ Len(out[d]) = op[d] - 1
                      /\ \A r \in 1 .. Len(out[d]) : out[d][r] = result(d, r)
    OBVIOUS
  <2>1. DOMAIN out[d] = 1 .. Len(out[d])
    BY <1>t
  <2> QED
    BY <1>0, <2>1, Zenon DEF OutsAreCounted, ResultsAreGroupFolds
<1> SUFFICES ASSUME NEW d \in Core
             PROVE  /\ Len(out'[d]) = op'[d] - 1
                    /\ \A r \in DOMAIN out'[d] : out'[d][r] = result(d, r)
  BY <1>f, Zenon DEF OutsAreCounted, ResultsAreGroupFolds
<1>1. ASSUME out'[d] = out[d], op'[d] = op[d]
      PROVE  /\ Len(out'[d]) = op'[d] - 1
             /\ \A r \in DOMAIN out'[d] : out'[d][r] = result(d, r)
  <2>1. DOMAIN out[d] = 1 .. Len(out[d])
    BY <1>t
  <2> QED
    BY <1>1, <1>i, <2>1, Zenon
<1>2. ASSUME NEW c \in Core, Leave(c)
      PROVE  /\ Len(out'[d]) = op'[d] - 1
             /\ \A r \in DOMAIN out'[d] : out'[d][r] = result(d, r)
  <2> DEFINE value == IF IsConsumer(c) THEN [value |-> acc[c], bytes |-> bytes[c]] ELSE None
  <2>1. /\ at[c] = "ring" /\ round[c] = N /\ op[c] <= Ops
        /\ op' = [op EXCEPT ![c] = @ + 1]
    BY <1>2 DEF Leave, Live
  <2>2. op[c] \in 1 .. Ops
    BY <1>t, <2>1, OpsAssumption
  <2>3. value = result(c, op[c])
    <3>1. IsConsumer(c) <=> c \in Consumers(c, op[c])
      <4>1. Memberships(c, op[c]) = {gid[c]}
        BY <1>0, <2>1 DEF PhasesAreNested, PhaseIsNested
      <4> QED
        BY <1>0, <2>2, <4>1, OwnGroup
    <3>2. acc[c] = Folded(c, op[c]) /\ bytes[c] = N - 1
      <4>1. waits[c] = FALSE
        BY <1>0, <1>t, <2>1, NAssumption DEF PhasesAreNested, PhaseIsNested
      <4>2. RingState(c)
        BY <1>0, <2>1 DEF RingStates
      <4> QED
        BY <2>1, <4>1, <4>2, Zenon DEF RingState, Folded
    <3> QED
      BY <3>1, <3>2
  <2>4. out' = [out EXCEPT ![c] = Append(@, value)]
    BY <1>2 DEF Leave
  <2>5. value \in Result
    BY <1>0 DEF TypeOK, Result
  <2> HIDE DEF value, result
  <2>6. CASE d = c
    <3>1. out'[d] = Append(out[d], value) /\ op'[d] = op[d] + 1
      BY <1>t, <2>1, <2>4, <2>6
    <3>2. /\ Len(out'[d]) = Len(out[d]) + 1 /\ out'[d] \in Seq(Result)
          /\ \A r \in 1 .. Len(out[d]) : out'[d][r] = out[d][r]
          /\ out'[d][Len(out[d]) + 1] = value
      BY <1>t, <2>5, <3>1
    <3>3. Len(out[d]) = op[d] - 1 /\ op[d] \in Int
      BY <1>i, <2>2, <2>6
    <3>4. ASSUME NEW r \in DOMAIN out'[d] PROVE out'[d][r] = result(d, r)
      <4>1. r \in 1 .. Len(out[d]) + 1 /\ Len(out[d]) \in Nat
        BY <1>t, <3>2
      <4>2. CASE r \in 1 .. Len(out[d])
        BY <1>i, <3>2, <4>2
      <4>3. CASE r = Len(out[d]) + 1
        <5>1. r = op[d]
          BY <3>3, <4>3
        <5> QED
          BY <2>3, <2>6, <3>2, <4>3, <5>1
      <4> QED
        BY <4>1, <4>2, <4>3
    <3> QED
      BY <3>1, <3>2, <3>3, <3>4
  <2>7. CASE d # c
    <3>1. out'[d] = out[d] /\ op'[d] = op[d]
      BY <1>t, <2>1, <2>4, <2>7
    <3> QED
      BY <1>1, <3>1
  <2> QED
    BY <2>6, <2>7
<1>3. CASE out' = out /\ op' = op
  BY <1>1, <1>3
<1>4. (out' = out /\ op' = op) \/ \E c \in Core : Leave(c)
  BY DEF Next, Step, vars, Produce, ProduceRaises, Enter, SendOn, Receive, LeaveRaises
<1> QED
  BY <1>2, <1>3, <1>4

(***************************************************************************)
(* Results.                                                                *)
(***************************************************************************)
(* In every run the queue of each core holds exactly the tiles between     *)
(* what it took and what its neighbour sent, and every core in the ring    *)
(* holds the fold of the tiles it has seen: the loop invariant of          *)
(* RingReduceBackend.reduce, for all cores at once.                        *)
THEOREM RingInvariant == Spec => []RingInv
<1>1. RingInv /\ [Next]_vars => RingInv'
  BY TypeStep, PhasesStep, RingStatesStep, QueuesStep, OutsStep DEF RingInv
<1> QED
  BY InitRing, <1>1, PTL DEF Spec

(* Every variable keeps its type; bytes_moved never exceeds N - 1 tiles.   *)
THEOREM TypeCorrect == Spec => []TypeOK
<1>1. RingInv => TypeOK
  BY DEF RingInv
<1> QED
  BY <1>1, RingInvariant, PTL

(* What a core receives in round k of its r-th reduce is what core         *)
(* (c - k) % N produced for the r-th reduce, though messages have no tag.  *)
THEOREM ArrivalsCorrect == Spec => []ArrivalIsFromItsOrigin
<1>1. RingInv => ArrivalIsFromItsOrigin
  <2> SUFFICES ASSUME RingInv, NEW c \in Core, at[c] = "ring", waits[c], chan[c] # <<>>
               PROVE  Head(chan[c]).op = op[c] /\ Head(chan[c]).core = Origin(c, round[c])
    BY DEF ArrivalIsFromItsOrigin
  <2>1. Head(chan[c]) = Seed(Origin(c, round[c]), op[c], TRUE)
    BY HeadIsFromOrigin
  <2> QED
    BY <2>1 DEF Seed
<1> QED
  BY <1>1, RingInvariant, PTL

(* Every reduce returns to each consumer the partials of its group, each   *)
(* once and in ring order, and to every other core nothing.                *)
THEOREM ResultsCorrect == Spec => []ResultsAreGroupFolds
<1>1. RingInv => ResultsAreGroupFolds
  BY DEF RingInv
<1> QED
  BY <1>1, RingInvariant, PTL

LEMMA PastTheEnd ==
    ASSUME RingInv, NEW c \in Core, op[c] = Ops + 1
    PROVE  NextIn(c) = Number(Ops + 1, 1) /\ ~waits[c]
<1>1. ~ (op[c] <= Ops)
  BY OpsAssumption
<1> QED
  BY <1>1 DEF RingInv, PhasesAreNested, PhaseIsNested, NextIn

(* A core that waits has a number below those past the last reduce.        *)
LEMMA BeforeTheEnd ==
    ASSUME RingInv, NEW c \in Core, waits[c]
    PROVE  NextIn(c) < Number(Ops + 1, 1)
<1>1. at[c] = "ring" /\ op[c] \in 1 .. Ops /\ round[c] \in 1 .. N - 1
  BY OpsAssumption, NAssumption DEF RingInv, TypeOK, PhasesAreNested, PhaseIsNested
<1>2. op[c] \in Nat \ {0} /\ Ops + 1 \in Nat \ {0} /\ op[c] < Ops + 1
  BY <1>1, OpsAssumption
<1>3. Number(op[c], round[c]) < Number(Ops + 1, 1)
  BY <1>1, <1>2, NumberOfEarlier
<1> QED
  BY <1>1, <1>3 DEF NextIn

(* Of the cores that have received least, one can go on: the ring has no   *)
(* cycle of cores each waiting for the one before it.                      *)
THEOREM DeadlockFree == Spec => []RingIsDeadlockFree
<1>1. RingInv => RingIsDeadlockFree
  <2> SUFFICES ASSUME RingInv, NEW e \in Core, op[e] <= Ops,
                      \A c \in Core : op[c] <= Ops =>
                          at[c] = "ring" /\ waits[c] /\ chan[c] = <<>>
               PROVE  FALSE
    BY DEF RingIsDeadlockFree
  <2>0. TypeOK /\ QueuesAreNumbered
    BY DEF RingInv
  <2>n. ASSUME NEW c \in Core PROVE NextIn(c) \in Nat /\ NextOut(c) \in Nat
    BY <2>0, NextType
  <2>o. ASSUME NEW c \in Core PROVE op[c] <= Ops \/ op[c] = Ops + 1
    BY <2>0, OpsAssumption DEF TypeOK
  <2>e. Number(Ops + 1, 1) \in Nat
    BY NumberType, OpsAssumption, NAssumption
  <2> DEFINE taken == {NextIn(c) : c \in Core}
  <2>1. PICK n \in taken : \A m \in taken : n <= m
    <3>1. taken \subseteq Nat
      BY <2>n
    <3>2. NextIn(e) \in taken
      OBVIOUS
    <3> HIDE DEF taken
    <3> QED
      BY <3>1, <3>2, LeastOf
  <2>2. PICK c \in Core : NextIn(c) = n
    BY DEF taken
  <2>3. ASSUME NEW d \in Core PROVE NextIn(c) <= NextIn(d)
    BY <2>1, <2>2
  <2>4. NextIn(c) < Number(Ops + 1, 1)
    <3>1. NextIn(e) < Number(Ops + 1, 1)
      BY BeforeTheEnd
    <3>2. NextIn(c) <= NextIn(e)
      BY <2>3
    <3>3. NextIn(c) \in Nat /\ NextIn(e) \in Nat
      BY <2>n
    <3> QED
      BY <2>e, <3>1, <3>2, <3>3
  <2>5. op[c] <= Ops
    <3>1. NextIn(c) \in Nat
      BY <2>n
    <3>2. op[c] # Ops + 1
      BY <2>e, <2>4, <3>1, PastTheEnd
    <3> QED
      BY <2>o, <3>2
  <2> DEFINE p == PrevCore(c)
  <2>6. p \in Core
    BY OriginFacts
  <2> HIDE DEF taken
  <2>7. /\ NextIn(c) \in Nat /\ NextIn(p) \in Nat /\ NextOut(p) \in Nat
        /\ NextIn(c) <= NextIn(p)
    BY <2>n, <2>3, <2>6
  <2>8. NextOut(p) = NextIn(c)
    <3>1. chan[c] = <<>>
      BY <2>5
    <3>2. Len(chan[c]) = NextOut(p) - NextIn(c)
      BY <2>0 DEF QueuesAreNumbered, QueueIsNumbered
    <3>3. Len(chan[c]) = 0
      BY <3>1
    <3> QED
      BY <2>7, <3>2, <3>3
  <2> HIDE DEF p
  <2>9. ~waits[p] /\ NextIn(p) = NextIn(c)
    BY <2>7, <2>8 DEF NextOut
  <2>10. op[p] = Ops + 1
    BY <2>o, <2>6, <2>9
  <2>11. NextIn(p) = Number(Ops + 1, 1)
    BY <2>6, <2>10, PastTheEnd
  <2> QED
    BY <2>e, <2>4, <2>7, <2>9, <2>11
<1> QED
  BY <1>1, RingInvariant, PTL

(* Once every core is past its last reduce, messages is empty: nothing is  *)
(* left for a later operation to take for its own.                         *)
THEOREM QueuesDrained == Spec => []QueuesDrain
<1>1. RingInv => QueuesDrain
  <2> SUFFICES ASSUME RingInv, \A c \in Core : op[c] = Ops + 1, NEW c \in Core
               PROVE  chan[c] = <<>>
    BY DEF QueuesDrain
  <2>1. PrevCore(c) \in Core
    BY OriginFacts
  <2>2. NextIn(c) = Number(Ops + 1, 1) /\ NextOut(PrevCore(c)) = Number(Ops + 1, 1)
    BY <2>1, PastTheEnd DEF NextOut
  <2>3. NextIn(c) \in Nat
    BY NextType DEF RingInv
  <2>4. chan[c] \in Seq(Tile) /\ Len(chan[c]) = NextOut(PrevCore(c)) - NextIn(c)
    BY DEF RingInv, TypeOK, QueuesAreNumbered, QueueIsNumbered
  <2> QED
    BY <2>2, <2>3, <2>4
<1> QED
  BY <1>1, RingInvariant, PTL
=============================================================================
