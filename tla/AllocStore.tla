----------------------------- MODULE AllocStore -----------------------------
(***************************************************************************)
(* memory.py's _AllocStore: a simulated memory kept as a dictionary from   *)
(* base addresses to arrays, with the sorted-key cache of _find_allocation.*)
(* HbmMemory is its user; TileAccess adds views that cut across arrays.  A *)
(* store is a value here, and an operation maps a store to the next one.   *)
(*                                                                         *)
(* Addresses count elements: every access has the element size of the      *)
(* array it falls in.                                                      *)
(***************************************************************************)
EXTENDS Integers, Sequences, FiniteSets, FiniteSetsExt, Functions

CONSTANTS
    Zero,       \* the value of padding
    NoCache     \* no entry in _FIND_ALLOC_CACHE; no allocation found

ASSUME NoCacheAssumption ==
    NoCache \notin [base : Nat, offset : Nat] \cup [len : Nat, keys : SUBSET Nat]

EmptyStore == [memory |-> [a \in {} |-> <<>>], cache |-> NoCache]

Bases(s) == DOMAIN s.memory

(* A faulty cache that is filled once. *)
Keys_Once(s) == IF s.cache = NoCache THEN Bases(s) ELSE s.cache.keys

(* The cache entry is rebuilt when its length is not that of the store. *)
Keys(s) ==
    IF s.cache = NoCache \/ s.cache.len # Cardinality(Bases(s))
    THEN Bases(s) ELSE s.cache.keys

(* A faulty lookup that does not look at where the array ends. *)
Find_OpenEnded(s, ptr) ==
    LET below == {k \in Keys(s) : k <= ptr}
    IN  IF below = {} THEN NoCache
        ELSE [base |-> Max(below), offset |-> ptr - Max(below)]

(* _find_allocation: an exact base, or the largest base at or below ptr if *)
(* its array reaches beyond ptr.                                           *)
Find(s, ptr) ==
    LET below == {k \in Keys(s) : k <= ptr}
    IN  IF ptr \in Bases(s) THEN [base |-> ptr, offset |-> 0]
        ELSE IF Bases(s) = {} \/ below = {} THEN NoCache
        ELSE LET base == Max(below)
             IN  IF ptr < base + Len(s.memory[base])
                 THEN [base |-> base, offset |-> ptr - base]
                 ELSE NoCache

(* The store after a lookup: the bisect path leaves a cache entry. *)
Searched(s, ptr) ==
    IF ptr \in Bases(s) \/ Bases(s) = {} THEN s
    ELSE [s EXCEPT !.cache = [len |-> Cardinality(Bases(s)), keys |-> Keys(s)]]

Mapped(s, ptr) == Find(s, ptr) # NoCache

(* _read_flat: n elements from ptr on, zeros beyond the end of the array.  *)
Read(s, ptr, n) ==
    LET found == Find(s, ptr)
        array == s.memory[found.base]
    IN  [i \in 1 .. n |-> IF found.offset + i <= Len(array)
                          THEN array[found.offset + i] ELSE Zero]

(* The array with the elements of data put in from offset on, as far as    *)
(* the array reaches.                                                      *)
Patched(array, offset, data) ==
    [i \in 1 .. Len(array) |->
        IF i - offset \in 1 .. Len(data) THEN data[i - offset] ELSE array[i]]

(* _write_flat patches the array that holds ptr, or adds one at ptr.       *)
Write(s, ptr, data) ==
    LET found == Find(s, ptr)
        after == Searched(s, ptr)
    IN  IF found = NoCache
        THEN [after EXCEPT !.memory =
                 [a \in Bases(s) \cup {ptr} |-> IF a = ptr THEN data ELSE @[a]]]
        ELSE [after EXCEPT !.memory[found.base] = Patched(@, found.offset, data)]

(* A faulty strided store that does not read the span first. *)
Scatter_ZeroesGaps(s, ptr, put) ==
    LET block == [i \in 1 .. Max(DOMAIN put) |-> IF i \in DOMAIN put THEN put[i] ELSE Zero]
    IN  Write(Searched(s, ptr), ptr, block)

(* The strided and coordinate-set paths of MemoryOps.store: read the span, *)
(* put the tile's elements at their offsets, write the span back.          *)
Scatter(s, ptr, put) ==
    LET span == Max(DOMAIN put)
        flat == Read(s, ptr, span)
        block == [i \in 1 .. span |-> IF i \in DOMAIN put THEN put[i] ELSE flat[i]]
    IN  Write(Searched(s, ptr), ptr, block)

----------------------------------------------------------------------------
(* The cache lists the bases of the store whenever its length matches, so  *)
(* a lookup never follows a base that is gone or misses one that was added:*)
(* the comment at memory.py lines 188-190.                                 *)
SoundCache(s) ==
    s.cache # NoCache /\ s.cache.len = Cardinality(Bases(s)) => s.cache.keys = Bases(s)

(* No address belongs to two arrays: memory.py line 186. *)
Apart(s) ==
    \A a, b \in Bases(s) : a < b => a + Len(s.memory[a]) <= b
=============================================================================
