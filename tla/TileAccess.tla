----------------------------- MODULE TileAccess -----------------------------
(***************************************************************************)
(* Memory views, access tiles, loads and stores: ktdp.construct_*, load    *)
(* and store down to the memory cells.  A view is a MemRef, or distributed *)
(* over several, each a strided rectangle in HBM or in the LX of a core    *)
(* (core 0: the executing one's).  An access is a tile of local points     *)
(* placed by an affine map, or an indirect tile whose coordinates come     *)
(* from index views in memory.  Every construct handler is a pure          *)
(* function of its operands; a load or a store is one action, since no     *)
(* handler of this family ever yields to the scheduler.                    *)
(*                                                                         *)
(* Addresses are counted in elements, of one width, and a stick in         *)
(* elements too; the memories hold whole allocations (AllocStore has what  *)
(* happens at their ends).  All views have two dimensions.                 *)
(***************************************************************************)
EXTENDS AffineSets, TLC

CONSTANTS
    NumCores,   \* the cores, 1 .. NumCores
    Views,      \* the views kernels construct
    Accesses,   \* the accesses
    Seed,       \* initial contents: memory -> address -> value; 0 is HBM
    Staging,    \* LX.next_ptr of every core at the start
    Stick,      \* STICK_BYTES, in elements
    MaxOps      \* bound on the loads and stores of a run

VARIABLES
    mem,        \* the memories
    lxNext,     \* LX.next_ptr of each core
    tensors,    \* what each view means: the array it stands for
    out,        \* the last load or store
    ops         \* how many there were

vars == <<mem, lxNext, tensors, out, ops>>

Cores == 1 .. NumCores
Dims == 1 .. 2

(***************************************************************************)
(* ktdp.construct_memory_view and construct_distributed_memory_view        *)
(***************************************************************************)
MemRef(p) == [space |-> p.space, core |-> p.core, base |-> p.base, shape |-> p.shape,
              strides |-> p.strides, set |-> ParseSet(p.aset, 2, p.symbols)]
IsDistributed(v) == Len(v.parts) > 1
MemRefs(v) == [i \in DOMAIN v.parts |-> MemRef(v.parts[i])]

(* _infer_partition_extent: the highest bound of the boxes. *)
Bounds(refs, d) == {refs[i].set.hi[d] : i \in {i \in DOMAIN refs : refs[i].set.kind = "box"}}

(* _assemble_dist_extent; 0 stands for a dynamic dimension. *)
Extent(v, d) == IF v.shape[d] = 0 THEN Max(Bounds(MemRefs(v), d)) ELSE v.shape[d]
Shape(v) == [d \in Dims |-> Extent(v, d)]

(* What _assemble_dist_extent and _validate_dist_extent refuse. *)
BadExtent(v) ==
    LET refs == MemRefs(v)
    IN  /\ IsDistributed(v)
        /\ \/ /\ \E d \in Dims : v.shape[d] = 0
              /\ \E i \in DOMAIN refs : refs[i].set.kind # "box"
           \/ \E d \in Dims :
                 IF v.shape[d] = 0
                 THEN Bounds(refs, d) = {} \/ Max(Bounds(refs, d)) <= 0
                 ELSE Bounds(refs, d) # {} /\ v.shape[d] # Max(Bounds(refs, d))

(***************************************************************************)
(* Tile references: a strided rectangle in one memory.                     *)
(***************************************************************************)
(* _MemAccessor and get_lx: the memory a reference is in. *)
Memory(c, ref) == IF ref.space = "HBM" THEN 0 ELSE IF ref.core = 0 THEN c ELSE ref.core

TileRef(ref, base, shape) == [ref EXCEPT !.base = base, !.shape = shape]
Address(ref, coord) == ref.base + Dot(coord, ref.strides)
Addresses(ref, coords) == [i \in DOMAIN coords |-> Address(ref, coords[i])]

(* _subtile_ref *)
SubTile(ref, origin, box) ==
    TileRef(ref, Address(ref, Relative(box.lo, origin)), Relative(box.hi, box.lo))

IsContiguous(ref) == ref.strides[2] = 1 /\ ref.strides[1] = ref.shape[2]

(* count_sticks and _flat_memory_offsets: the distinct sticks; 0 in LX. *)
SticksAt(ref, addresses) ==
    IF ref.space = "HBM" THEN Cardinality({a \div Stick : a \in Range(addresses)}) ELSE 0

(* A faulty count that takes the tile to start on a stick. *)
RunSticks_Aligned(ref, n) == IF ref.space = "HBM" THEN (n + Stick - 1) \div Stick ELSE 0

(* The fast path's count for n elements in a row. *)
RunSticks(ref, n) ==
    IF ref.space = "HBM"
    THEN ((ref.base + n + Stick - 1) \div Stick) - (ref.base \div Stick)
    ELSE 0

(* MemoryOps.load, without its staging: the values and the sticks. *)
Loaded(c, ref, coords) ==
    LET at == Addresses(ref, coords)
    IN  [data |-> [i \in DOMAIN at |-> mem[Memory(c, ref)][at[i]]],
         sticks |-> SticksAt(ref, at)]

LoadedRun(c, ref) ==
    LET n == ref.shape[1] * ref.shape[2]
    IN  [data |-> [i \in 1 .. n |-> mem[Memory(c, ref)][ref.base + i - 1]],
         sticks |-> RunSticks(ref, n)]

LoadedTile(c, ref) ==
    IF IsContiguous(ref) THEN LoadedRun(c, ref)
    ELSE Loaded(c, ref, Grid(Origin(ref.shape), ref.shape))

(* A faulty scatter that does not read the span it writes back. *)
Scattered_Blind(m, ref, at, data) ==
    LET span == ref.base .. Max(Range(at))
        last(a) == Max({i \in DOMAIN at : at[i] = a})
    IN  [a \in DOMAIN m |-> IF a \in Range(at) THEN data[last(a)]
                            ELSE IF a \in span THEN 0 ELSE m[a]]

(* Read the span, patch it, write it back; the last of equal ones wins. *)
Scattered(m, ref, at, data) ==
    LET last(a) == Max({i \in DOMAIN at : at[i] = a})
    IN  [a \in DOMAIN m |-> IF a \in Range(at) THEN data[last(a)] ELSE m[a]]

(* MemoryOps.store: the memories afterwards and the sticks. *)
Stored(ms, c, ref, coords, data) ==
    LET at == Addresses(ref, coords)
    IN  [mem |-> [ms EXCEPT ![Memory(c, ref)] = Scattered(@, ref, at, data)],
         sticks |-> SticksAt(ref, at)]

StoredTile(ms, c, ref, data) ==
    IF IsContiguous(ref)
    THEN [mem |-> [ms EXCEPT ![Memory(c, ref)] =
                      [a \in DOMAIN @ |-> IF a - ref.base + 1 \in DOMAIN data
                                          THEN data[a - ref.base + 1] ELSE @[a]]],
          sticks |-> RunSticks(ref, Len(data))]
    ELSE Stored(ms, c, ref, Grid(Origin(ref.shape), ref.shape), data)

(***************************************************************************)
(* An access tile of a view with one MemRef.                               *)
(***************************************************************************)
Base(a) == EvalMap(a.map, a.indices)
ASet(a) == ParseSet(a.aset, 2, <<>>)
AtOnce(a) == ASet(a).kind = "box" /\ IsIdentity(a.order, 2)

Parent(v, a) == TileRef(MemRefs(v)[1], Address(MemRefs(v)[1], Base(a)), a.shape)
LocalCoords(a) ==
    LET pts == Points(ASet(a), a.shape) IN [i \in DOMAIN pts |-> EvalMap(a.order, pts[i])]

PlainLoad(c, v, a) ==
    IF AtOnce(a) THEN LoadedTile(c, SubTile(Parent(v, a), <<0, 0>>, ASet(a)))
    ELSE Loaded(c, Parent(v, a), LocalCoords(a))

PlainStore(c, v, a, data) ==
    IF AtOnce(a) THEN StoredTile(mem, c, SubTile(Parent(v, a), <<0, 0>>, ASet(a)), data)
    ELSE Stored(mem, c, Parent(v, a), LocalCoords(a), data)

(***************************************************************************)
(* An access tile of a distributed view.                                   *)
(***************************************************************************)
InTile(a, p) == SetContains(ASet(a), Relative(p, Base(a)))

Minimum(pts) == [d \in Dims |-> Min({pts[i][d] : i \in DOMAIN pts})]

(* What distributed_tile_access keeps of one partition: C_i and p_i. *)
Survivor(v, a, ref) ==
    LET whole == Points(ref.set, Shape(v))
    IN  IF ref.set.kind = "box" /\ ASet(a).kind = "box"
        THEN LET ci == Intersect(ref.set, Translate(ASet(a), Base(a)))
             IN  [ref |-> ref, ci |-> ci, origin |-> ref.set.lo, none |-> IsEmpty(ci)]
        ELSE LET ci == SelectSeq(whole, LAMBDA p : InTile(a, p))
             IN  [ref |-> ref, ci |-> [kind |-> "list", pts |-> ci],
                  origin |-> IF ci = <<>> THEN <<0, 0>> ELSE Minimum(whole),
                  none |-> ci = <<>>]

Survivors(v, a) ==
    LET all == [i \in DOMAIN v.parts |-> Survivor(v, a, MemRefs(v)[i])]
    IN  SelectSeq(all, LAMBDA s : ~s.none)

SurvivorPoints(s) == IF s.ci.kind = "list" THEN s.ci.pts ELSE Grid(s.ci.lo, s.ci.hi)

(* One partition's part of distributed_load. *)
SurvivorLoad(c, s) ==
    IF s.ci.kind = "box" THEN LoadedTile(c, SubTile(s.ref, s.origin, s.ci))
    ELSE Loaded(c, s.ref, [i \in DOMAIN s.ci.pts |-> Relative(s.ci.pts[i], s.origin)])

(* The element of a tile at global coordinate p, in the order of its data; *)
(* NumPy counts negative indices from the end and refuses the others.      *)
Position(a, p) ==
    LET l == Relative(p, Base(a))
    IN  (l[1] % a.shape[1]) * a.shape[2] + (l[2] % a.shape[2]) + 1
OffTile(a, pts) ==
    \E k \in DOMAIN pts : \E d \in Dims :
        Relative(pts[k], Base(a))[d] \notin (-a.shape[d]) .. (a.shape[d] - 1)

(* The survivors before the first that does not fit the tile. *)
Fitting(a, ss) ==
    LET bad == {i \in DOMAIN ss : OffTile(a, SurvivorPoints(ss[i]))}
    IN  IF bad = {} THEN ss ELSE SubSeq(ss, 1, Min(bad) - 1)

DistRefused(v, a, ss) ==
    \/ BadExtent(v)
    \/ ss = <<>>
    \/ Len(Fitting(a, ss)) < Len(ss)

SumOf(f) ==
    LET sum[i \in 0 .. Len(f)] == IF i = 0 THEN 0 ELSE sum[i - 1] + f[i] IN sum[Len(f)]

(* The elements of one partition's part that belong at n in the tile. *)
Landing(a, s, got, n) == {k \in DOMAIN got.data : Position(a, SurvivorPoints(s)[k]) = n}

(* The tile, zero where no part has an element; the last part wins. *)
Assembled(a, ss, got) ==
    LET from(n) == {i \in DOMAIN ss : Landing(a, ss[i], got[i], n) # {}}
    IN  [n \in 1 .. (a.shape[1] * a.shape[2]) |->
            IF from(n) = {} THEN 0
            ELSE LET i == Max(from(n)) IN got[i].data[Max(Landing(a, ss[i], got[i], n))]]

(* Parts read as boxes are staged one by one, and the tile after them. *)
BoxedParts(ss) == SelectSeq([i \in DOMAIN ss |-> i], LAMBDA i : ss[i].ci.kind = "box")
DistLoaded(ss, got, data, refused) ==
    [data |-> data, refused |-> refused, sticks |-> SumOf([i \in DOMAIN ss |-> got[i].sticks]),
     staged |-> [j \in DOMAIN BoxedParts(ss) |-> got[BoxedParts(ss)[j]].data]
                    \o (IF refused THEN <<>> ELSE <<data>>)]

FromParts(a, ss, got, refused) == DistLoaded(ss, got, Assembled(a, ss, got), refused)
FromSurvivors(c, a, ss, refused) ==
    FromParts(a, ss, [i \in DOMAIN ss |-> SurvivorLoad(c, ss[i])], refused)

DistLoad(c, v, a, ss) ==
    FromSurvivors(c, a, IF BadExtent(v) THEN <<>> ELSE Fitting(a, ss), DistRefused(v, a, ss))

(* Each part that fits is stored in turn. *)
StoredParts(c, a, ss, data) ==
    LET slice(s) == LET pts == SurvivorPoints(s)
                    IN  [k \in DOMAIN pts |-> data[Position(a, pts[k])]]
        one(ms, s) ==
            IF s.ci.kind = "box" THEN StoredTile(ms, c, SubTile(s.ref, s.origin, s.ci), slice(s))
            ELSE Stored(ms, c, s.ref, [k \in DOMAIN s.ci.pts |-> Relative(s.ci.pts[k], s.origin)],
                        slice(s))
        run[i \in 0 .. Len(ss)] ==
            IF i = 0 THEN [mem |-> mem, sticks |-> 0]
            ELSE LET next == one(run[i - 1].mem, ss[i])
                 IN  [mem |-> next.mem, sticks |-> run[i - 1].sticks + next.sticks]
    IN  run[Len(ss)]

DistStore(c, v, a, ss, data) ==
    StoredParts(c, a, IF BadExtent(v) THEN <<>> ELSE Fitting(a, ss), data)
        @@ [refused |-> DistRefused(v, a, ss)]

(***************************************************************************)
(* An indirect access tile: a coordinate is an expression over the point   *)
(* of the variable space, or an element of an index view.                  *)
(***************************************************************************)
(* Points in the order of their image under a permutation. *)
Before(p, q) == p[1] < q[1] \/ (p[1] = q[1] /\ p[2] < q[2])
InOrder(pts, map) ==
    LET rank(k) == Cardinality({j \in DOMAIN pts : Before(EvalMap(map, pts[j]), EvalMap(map, pts[k]))})
    IN  [n \in DOMAIN pts |-> pts[CHOOSE k \in DOMAIN pts : rank(k) = n - 1]]

(* _enumerate_in_vso_order *)
VariablePoints(a) == InOrder(Points(ASet(a), a.shape), a.order)

Indirect(a) == {d \in Dims : a.subs[d].kind = "ind"}
IndexViews(a) == {a.subs[d].index : d \in Indirect(a)}
Sharing(a, iv) == {d \in Indirect(a) : a.subs[d].index = iv}

(* _resolve_idx_reads: one read per index view, point by point and then    *)
(* dimension by dimension.                                                 *)
IndexReads(c, a, iv, pts) ==
    LET m == Cardinality(Sharing(a, iv))
        dim(k) == CHOOSE d \in Sharing(a, iv) :
                     Cardinality({e \in Sharing(a, iv) : e < d}) = (k - 1) % m
    IN  Loaded(c, MemRefs(Views[iv])[1],
               [k \in 1 .. (Len(pts) * m) |->
                   EvalMap(a.subs[dim(k)].es, pts[((k - 1) \div m) + 1])])

(* _build_indirect_coords: it consumes the values in the same order. *)
IndirectCoords(c, a, pts) ==
    LET reads == [iv \in IndexViews(a) |-> IndexReads(c, a, iv, pts).data]
        nth(k, d) == LET iv == a.subs[d].index
                     IN  (k - 1) * Cardinality(Sharing(a, iv))
                            + Cardinality({e \in Sharing(a, iv) : e <= d})
    IN  [k \in DOMAIN pts |-> [d \in Dims |->
            IF d \in Indirect(a) THEN reads[a.subs[d].index][nth(k, d)]
            ELSE Value(a.subs[d].e, pts[k], <<>>)]]

IndexSticks(c, a) ==
    LET n[ivs \in SUBSET IndexViews(a)] ==
            IF ivs = {} THEN 0
            ELSE LET iv == CHOOSE iv \in ivs : TRUE
                 IN  n[ivs \ {iv}] + IndexReads(c, a, iv, VariablePoints(a)).sticks
    IN  n[IndexViews(a)]

IndirectRefused(a, coords) ==
    \/ ~IsPermutation(a.order, 2)
    \/ \E k \in DOMAIN coords : \E d \in Indirect(a) : coords[k][d] < 0
    \/ Len(coords) # a.size

(***************************************************************************)
(* ktdp.load and ktdp.store                                                *)
(***************************************************************************)
Whole(view) == LET ref == MemRefs(view)[1] IN TileRef(ref, ref.base, ref.shape)

(* BoxSet.enumerate, and the reshape to the type of the result. *)
PlainRefused(a) ==
    /\ ~AtOnce(a)
    /\ \/ ASet(a).kind = "box" /\ \E d \in Dims : ASet(a).hi[d] > a.shape[d]
       \/ Len(Points(ASet(a), a.shape)) # a.size

NoTile == [refused |-> TRUE, data |-> <<>>, sticks |-> 0, staged |-> <<>>]
TileOf(got) == [refused |-> FALSE, staged |-> <<got.data>>] @@ got

IndirectLoad(c, v, a, coords) ==
    IF IndirectRefused(a, coords) THEN NoTile
    ELSE LET tile == TileOf(Loaded(c, Whole(v), coords))
         IN  [tile EXCEPT !.sticks = @ + IndexSticks(c, a)]

LoadOf(c, v, a) ==
    IF a.kind = "indirect" THEN IndirectLoad(c, v, a, IndirectCoords(c, a, VariablePoints(a)))
    ELSE IF IsDistributed(v) THEN DistLoad(c, v, a, Survivors(v, a))
    ELSE IF PlainRefused(a) THEN NoTile
    ELSE TileOf(PlainLoad(c, v, a))

Unchanged == [refused |-> TRUE, mem |-> mem, sticks |-> 0]
Done(put) == [refused |-> FALSE] @@ put

IndirectStore(c, v, a, coords, data) ==
    IF IndirectRefused(a, coords) THEN Unchanged
    ELSE LET put == Done(Stored(mem, c, Whole(v), coords, data))
         IN  [put EXCEPT !.sticks = @ + IndexSticks(c, a)]

StoreOf(c, v, a, data) ==
    IF a.kind = "indirect" THEN IndirectStore(c, v, a, IndirectCoords(c, a, VariablePoints(a)), data)
    ELSE IF IsDistributed(v) THEN DistStore(c, v, a, Survivors(v, a), data)
    ELSE IF PlainRefused(a) THEN Unchanged
    ELSE Done(PlainStore(c, v, a, data))

(* A faulty staging that packs the copies. *)
Stage_Packed(m, next, datas) == [lx |-> m, next |-> next + SumOf([i \in DOMAIN datas |-> Len(datas[i])])]

(* _write_to_lx: a copy of what was loaded at the staging pointer, which   *)
(* then moves on to the next stick.                                        *)
Stage(m, next, datas) ==
    LET ends[i \in 0 .. Len(datas)] ==
            IF i = 0 THEN next
            ELSE ((ends[i - 1] + Len(datas[i]) + Stick - 1) \div Stick) * Stick
        piece(x) == {i \in DOMAIN datas : x - ends[i - 1] + 1 \in DOMAIN datas[i]}
    IN  [lx |-> [x \in DOMAIN m |-> IF piece(x) = {} THEN m[x]
                                   ELSE LET i == Max(piece(x)) IN datas[i][x - ends[i - 1] + 1]],
         next |-> ends[Len(datas)]]

(***************************************************************************)
(* What the views stand for: written with the sets as the kernel gives     *)
(* them, element by element.                                               *)
(***************************************************************************)
Plane == (0 .. 4) \X (0 .. 4)
InShape(shape, p) == \A d \in Dims : p[d] \in 0 .. shape[d] - 1
InPart(part, p) == InSet(part.aset, p, part.symbols)

Holders(v, p) ==
    IF IsDistributed(v) THEN {i \in DOMAIN v.parts : InPart(v.parts[i], p)}
    ELSE IF InShape(v.parts[1].shape, p) THEN {1} ELSE {}
Coordinates(v) == {p \in Plane : Holders(v, p) # {}}

Corner(v, i) ==
    IF ~IsDistributed(v) THEN <<0, 0>>
    ELSE [d \in Dims |-> Min({p[d] : p \in {p \in Plane : InPart(v.parts[i], p)}})]
Cell(v, i, p) == v.parts[i].base + Dot(Relative(p, Corner(v, i)), v.parts[i].strides)
Place(c, v, i) ==
    IF v.parts[i].space = "HBM" THEN 0
    ELSE IF v.parts[i].core = 0 THEN c ELSE v.parts[i].core

(* A view of the executing core's LX is a tensor of each core. *)
IsPrivate(v) == \E i \in DOMAIN v.parts : v.parts[i].space = "LX" /\ v.parts[i].core = 0
KeyOf(c, i) == <<i, IF IsPrivate(Views[i]) THEN c ELSE 0>>
Keys == {KeyOf(c, i) : c \in Cores, i \in DOMAIN Views}

(* The coordinates an access names, in the order of the tile's elements. *)
IndexAt(c, a, d, l) == tensors[KeyOf(c, a.subs[d].index)][EvalMap(a.subs[d].es, l)]
Named(c, a) ==
    LET local == SelectSeq(Grid(Origin(a.shape), a.shape), LAMBDA l : InSet(a.aset, l, <<>>))
    IN  IF a.kind = "indirect"
        THEN LET pts == InOrder(local, a.order)
             IN  [k \in DOMAIN pts |-> [d \in Dims |->
                     IF d \in Indirect(a) THEN IndexAt(c, a, d, pts[k])
                     ELSE Value(a.subs[d].e, pts[k], <<>>)]]
        ELSE [k \in DOMAIN local |-> Shifted(Base(a), EvalMap(a.order, local[k]))]

(* A tile of a distributed view keeps its shape: an element no access set  *)
(* or no partition has is zero, and is dropped by a store.                 *)
Slots(c, i, a) ==
    IF ~IsDistributed(Views[i]) THEN Named(c, a)
    ELSE LET all == Grid(Origin(a.shape), a.shape)
         IN  [k \in DOMAIN all |->
                 IF InSet(a.aset, all[k], <<>>) THEN Shifted(Base(a), EvalMap(a.order, all[k]))
                 ELSE <<>>]

Expected(c, i, a) ==
    LET t == tensors[KeyOf(c, i)]
    IN  [k \in DOMAIN Slots(c, i, a) |->
            IF Slots(c, i, a)[k] \in DOMAIN t THEN t[Slots(c, i, a)[k]] ELSE 0]

Assigned(c, i, a, data) ==
    LET at == Slots(c, i, a)
    IN  [tensors EXCEPT ![KeyOf(c, i)] =
            [p \in DOMAIN @ |-> IF p \in Range(at)
                                THEN data[Max({k \in DOMAIN at : at[k] = p})] ELSE @[p]]]

(***************************************************************************)
(* The state machine.                                                      *)
(***************************************************************************)
NoAccess == [kind |-> "none", access |-> 0, core |-> 0, refused |-> FALSE, data |-> <<>>, sticks |-> 0]

Init ==
    /\ mem = [m \in 0 .. NumCores |-> Seed[m]]
    /\ lxNext = [c \in Cores |-> Staging]
    /\ tensors = [key \in Keys |->
                     [p \in Coordinates(Views[key[1]]) |->
                         LET v == Views[key[1]]
                             i == Min(Holders(v, p))
                         IN  Seed[Place(key[2], v, i)][Cell(v, i, p)]]]
    /\ out = NoAccess
    /\ ops = 0

(* A refusal ends the kernel. *)
Running == ops < MaxOps /\ ~out.refused

(* ktdp__load, with the construct ops it takes its tile from *)
Load(c, n) ==
    LET a == Accesses[n] IN
    /\ Running
    /\ \E got \in {LoadOf(c, Views[a.view], a)} :
       \E lx \in {Stage(mem[c], lxNext[c], got.staged)} :
         /\ mem' = [mem EXCEPT ![c] = lx.lx]
         /\ lxNext' = [lxNext EXCEPT ![c] = lx.next]
         /\ out' = [kind |-> "load", access |-> n, core |-> c, refused |-> got.refused,
                    data |-> IF got.refused THEN <<>> ELSE got.data, sticks |-> got.sticks]
    /\ ops' = ops + 1
    /\ UNCHANGED tensors

(* ktdp__store of a tile made by the kernel: its elements are all new. *)
Fresh(a) == [k \in 1 .. a.size |-> 100 * (ops + 1) + k]

Store(c, n) ==
    LET a == Accesses[n] IN
    /\ Running
    /\ \E put \in {StoreOf(c, Views[a.view], a, Fresh(a))} :
         /\ mem' = put.mem
         /\ tensors' = IF put.refused THEN tensors ELSE Assigned(c, a.view, a, Fresh(a))
         /\ out' = [kind |-> "store", access |-> n, core |-> c, refused |-> put.refused,
                    data |-> <<>>, sticks |-> put.sticks]
    /\ ops' = ops + 1
    /\ UNCHANGED lxNext

Next == \E c \in Cores, n \in DOMAIN Accesses : Load(c, n) \/ Store(c, n)

Spec == Init /\ [][Next]_vars

(***************************************************************************)
(* Properties.                                                             *)
(***************************************************************************)
(* The memories keep their extent, the staging pointer of a core never     *)
(* moves back and, once used, is at the start of a stick.                  *)
TypeOK ==
    /\ DOMAIN mem = 0 .. NumCores
    /\ \A m \in 0 .. NumCores : DOMAIN mem[m] = DOMAIN Seed[m]
    /\ \A c \in Cores : lxNext[c] >= Staging /\ (lxNext[c] # Staging => lxNext[c] % Stick = 0)
    /\ out.access \in 0 .. Len(Accesses) /\ ops \in 0 .. MaxOps
    /\ out.sticks \in Nat

(* Every element of every view is in the cell its partition, strides and   *)
(* origin give it, whatever loads staged in LX and stores wrote around it: *)
(* no access disturbs an element it does not name, in its own view or in   *)
(* one that shares the span it rewrites (memory_ops.py, store).            *)
MemoryHoldsTensors ==
    \A key \in DOMAIN tensors : \A p \in DOMAIN tensors[key] :
        LET v == Views[key[1]]
        IN  (~out.refused \/ out.kind = "load") =>
                \A i \in Holders(v, p) :
                    mem[Place(key[2], v, i)][Cell(v, i, p)] = tensors[key][p]

(* Why an access may be refused: an index is negative, the order of an     *)
(* indirect tile is no permutation, or no element of the tile is held by a *)
(* partition.                                                              *)
Justified(c, n) ==
    LET a == Accesses[n] IN
    \/ a.kind = "indirect" /\ ~IsPermutation(a.order, 2)
    \/ /\ a.kind = "indirect"
       /\ \E l \in Range(Grid(Origin(a.shape), a.shape)) : \E d \in Indirect(a) : IndexAt(c, a, d, l) < 0
    \/ /\ IsDistributed(Views[a.view])
       /\ \A k \in DOMAIN Slots(c, a.view, a) :
             Slots(c, a.view, a)[k] \notin Coordinates(Views[a.view])

(* A load returns the elements the tile names, in the order the kernel     *)
(* gave, through whichever of the contiguous, strided, coordinate,         *)
(* distributed and indirect paths the handler takes, as left by the last   *)
(* access of any core to them (ktdp_ops.py, ktdp__load).                   *)
LoadsReturnTensors ==
    out.kind = "load" =>
        IF out.refused THEN Justified(out.core, out.access)
        ELSE out.data = Expected(out.core, Accesses[out.access].view, Accesses[out.access])

(* The sticks of one partition that hold elements the tile names. *)
TouchedSticks(c, v, i, coords) ==
    {Cell(v, i, p) \div Stick : p \in {p \in coords : i \in Holders(v, p) /\ Place(c, v, i) = 0}}
IndexTouched(c, a, iv) ==
    UNION {TouchedSticks(c, Views[iv], 1, {EvalMap(a.subs[d].es, l) :
               l \in Range(Grid(Origin(a.shape), a.shape))}) : d \in Sharing(a, iv)}

(* The number of sticks an access reports is the number of HBM sticks that *)
(* hold elements it reads or writes, once each per partition and per index *)
(* view (memory_ops.py, count_sticks and the fast paths).                  *)
SticksAreThoseTouched ==
    out.kind \in {"load", "store"} /\ ~out.refused =>
        LET a == Accesses[out.access]
            v == Views[a.view]
            coords == Range(Slots(out.core, a.view, a)) \ {<<>>}
        IN  out.sticks =
                SumOf([i \in DOMAIN v.parts |-> Cardinality(TouchedSticks(out.core, v, i, coords))])
                  + IF a.kind = "indirect"
                    THEN SumOf([iv \in DOMAIN Views |-> IF iv \in IndexViews(a)
                             THEN Cardinality(IndexTouched(out.core, a, iv)) ELSE 0])
                    ELSE 0
=============================================================================
