-------------------------- MODULE HbmMemory_proof --------------------------
(***************************************************************************)
(* Proofs about HbmMemory, for every set of values, every alignment, every *)
(* number of arguments and every length.                                   *)
(*                                                                         *)
(* The argument rests on one fact: the bases of the store are those of the *)
(* arguments, which lie apart, so the largest base at or below a pointer   *)
(* into an argument is the base of that argument.  Lookups find it whether *)
(* or not they follow the cached keys, because the store only grows and a  *)
(* cache entry of its present length is of its present keys.               *)
(***************************************************************************)
EXTENDS HbmMemory, CommonLemmas

(* Arguments in the order in which allocate placed them.                   *)
Placed(slots) ==
    /\ slots \in Seq([base : Nat, n : 1 .. MaxLen])
    /\ \A j, k \in 1 .. Len(slots) : j < k => slots[j].base + slots[j].n <= slots[k].base

(* A store that holds an array for each argument and nothing else. *)
Holds(s, slots) ==
    /\ s = [memory |-> [a \in Bases(s) |-> s.memory[a]], cache |-> s.cache]
    /\ IsFiniteSet(Bases(s))
    /\ Bases(s) = {slots[k].base : k \in 1 .. Len(slots)}
    /\ \A k \in 1 .. Len(slots) : s.memory[slots[k].base] \in [1 .. slots[k].n -> Val]
    /\ s.cache # NoCache =>
          /\ s.cache.len \in Nat /\ s.cache.len <= Cardinality(Bases(s))
          /\ s.cache.len = Cardinality(Bases(s)) => s.cache.keys = Bases(s)

HbmInv ==
    /\ Placed(args)
    /\ Holds(store, args)
    /\ nextPtr \in Nat
    /\ \A k \in 1 .. Len(args) : args[k].base + args[k].n <= nextPtr

----------------------------------------------------------------------------
LEMMA ArrayFacts ==
    ASSUME NEW S, NEW n \in Nat, NEW a \in [1 .. n -> S]
    PROVE  a \in Seq(S) /\ Len(a) = n
OBVIOUS

LEMMA SeqFacts ==
    ASSUME NEW S, NEW s \in Seq(S)
    PROVE  Len(s) \in Nat /\ DOMAIN s = 1 .. Len(s) /\ \A k \in 1 .. Len(s) : s[k] \in S
OBVIOUS

LEMMA PlacedFacts ==
    ASSUME NEW slots, Placed(slots)
    PROVE  /\ Len(slots) \in Nat /\ DOMAIN slots = 1 .. Len(slots)
           /\ \A k \in 1 .. Len(slots) : /\ slots[k].base \in Nat
                                     /\ slots[k].n \in Nat /\ slots[k].n > 0 /\ slots[k].n <= MaxLen
           /\ \A j, k \in 1 .. Len(slots) : slots[j].base <= slots[k].base =>
                 j = k \/ slots[j].base + slots[j].n <= slots[k].base
<1>1. slots \in Seq([base : Nat, n : 1 .. MaxLen])
  BY DEF Placed
<1>2. Len(slots) \in Nat /\ DOMAIN slots = 1 .. Len(slots)
      /\ \A k \in 1 .. Len(slots) : slots[k] \in [base : Nat, n : 1 .. MaxLen]
  BY <1>1, SeqFacts
<1>3. ASSUME NEW k \in 1 .. Len(slots)
      PROVE  slots[k].base \in Nat /\ slots[k].n \in Nat /\ slots[k].n > 0 /\ slots[k].n <= MaxLen
  <2> DEFINE n == slots[k].n
  <2>1. slots[k].base \in Nat /\ n \in 1 .. MaxLen
    BY <1>2
  <2> HIDE DEF n
  <2>2. n \in Nat /\ n > 0 /\ n <= MaxLen
    BY <2>1, BoundsAssumption
  <2> QED
    BY <2>1, <2>2 DEF n
<1>4. ASSUME NEW j \in 1 .. Len(slots), NEW k \in 1 .. Len(slots), slots[j].base <= slots[k].base, j # k
      PROVE  slots[j].base + slots[j].n <= slots[k].base
  <2> DEFINE p == slots[j].base
             q == slots[k].base
             m == slots[j].n
             n == slots[k].n
  <2>1. j < k => p + m <= q
    BY DEF Placed
  <2>2. k < j => q + n <= p
    BY DEF Placed
  <2>3. p \in Nat /\ q \in Nat /\ m \in Nat /\ n \in Nat /\ n > 0
    BY <1>3
  <2>4. p <= q
    BY <1>4
  <2> HIDE DEF p, q, m, n
  <2>5. j < k \/ k < j
    BY <1>2, <1>4
  <2>6. p + m <= q
    BY <2>1, <2>2, <2>3, <2>4, <2>5
  <2> QED
    BY <2>6 DEF p, q, m
<1> QED
  BY <1>2, <1>3, <1>4

(* The cached keys, when a lookup follows them, are the bases. *)
LEMMA KeysAreBases ==
    ASSUME NEW s, NEW slots, Holds(s, slots)
    PROVE  Keys(s) = Bases(s) /\ SoundCache(s)
BY DEF Keys, Holds, SoundCache

(* A lookup leaves the arrays alone and a cache entry that is right.       *)
LEMMA SearchedFacts ==
    ASSUME NEW s, NEW slots, Placed(slots), Holds(s, slots), NEW ptr
    PROVE  /\ Searched(s, ptr).memory = s.memory
           /\ Holds(Searched(s, ptr), slots)
<1> DEFINE new == Searched(s, ptr)
<1>1. Keys(s) = Bases(s)
  BY KeysAreBases
<1>2. CASE ptr \in Bases(s) \/ Bases(s) = {}
  BY <1>2 DEF Searched
<1>3. CASE ~ (ptr \in Bases(s) \/ Bases(s) = {})
  <2> DEFINE cache == [len |-> Cardinality(Bases(s)), keys |-> Bases(s)]
  <2>1. new = [s EXCEPT !.cache = cache]
    BY <1>1, <1>3 DEF Searched
  <2>2. s = [memory |-> [a \in Bases(s) |-> s.memory[a]], cache |-> s.cache]
    BY DEF Holds
  <2>3. new.memory = s.memory /\ new.cache = cache
        /\ new = [memory |-> s.memory, cache |-> cache]
    BY <2>1, <2>2
  <2>4. Bases(new) = Bases(s)
    BY <2>3 DEF Bases
  <2>5. Cardinality(Bases(s)) \in Nat
    BY FS_CardinalityType DEF Holds
  <2>6. s.memory = [a \in Bases(s) |-> s.memory[a]]
    BY <2>2
  <2>7. cache.len = Cardinality(Bases(s)) /\ cache.keys = Bases(s)
    OBVIOUS
  <2> HIDE DEF new, cache
  <2>8. new.cache.len \in Nat /\ new.cache.len <= Cardinality(Bases(new))
        /\ new.cache.keys = Bases(new)
    BY <2>3, <2>4, <2>5, <2>7
  <2>9. new = [memory |-> [a \in Bases(new) |-> new.memory[a]], cache |-> new.cache]
    BY <2>3, <2>4, <2>6
  <2>10. \A k \in 1 .. Len(slots) : new.memory[slots[k].base] \in [1 .. slots[k].n -> Val]
    BY <2>3 DEF Holds
  <2>11. IsFiniteSet(Bases(new)) /\ Bases(new) = {slots[k].base : k \in 1 .. Len(slots)}
    BY <2>4 DEF Holds
  <2>12. Holds(new, slots)
    BY <2>8, <2>9, <2>10, <2>11, Zenon DEF Holds
  <2> QED
    BY <2>3, <2>12 DEF new
<1> QED
  BY <1>2, <1>3

(* A pointer into an argument is found there, at its offset.               *)
LEMMA FindArgument ==
    ASSUME NEW s, NEW slots, Placed(slots), Holds(s, slots), NEW k \in 1 .. Len(slots),
           NEW offset \in Nat, offset < slots[k].n
    PROVE  Find(s, slots[k].base + offset) = [base |-> slots[k].base, offset |-> offset]
<1> DEFINE base == slots[k].base
           size == slots[k].n
           ptr == base + offset
           below == {b \in Keys(s) : b <= ptr}
<1>a. ptr = base + offset /\ offset < size /\ offset \in Nat
  OBVIOUS
<1>b. /\ \A j \in 1 .. Len(slots) : slots[j].base \in Nat /\ slots[j].n \in Nat
      /\ \A j, i \in 1 .. Len(slots) : slots[j].base <= slots[i].base =>
                 j = i \/ slots[j].base + slots[j].n <= slots[i].base
  BY PlacedFacts
<1>c. \A j \in 1 .. Len(slots) : base <= slots[j].base => j = k \/ base + size <= slots[j].base
  BY <1>b
<1>d. base \in Nat /\ size \in Nat
  BY <1>b
<1>2. Keys(s) = Bases(s) /\ Bases(s) = {slots[j].base : j \in 1 .. Len(slots)} /\ base \in Bases(s)
  BY KeysAreBases DEF Holds
<1>3. Len(s.memory[base]) = size
  <2>1. s.memory[base] \in [1 .. size -> Val]
    BY DEF Holds
  <2> QED
    BY <1>d, <2>1, ArrayFacts
<1>e. slots[k].base = base /\ slots[k].base + offset = ptr
  OBVIOUS
<1> HIDE DEF base, size, ptr
<1>1. base \in Nat /\ size \in Nat /\ ptr \in Nat /\ base <= ptr
  BY <1>a, <1>d
<1>4. ASSUME NEW b \in Bases(s), b <= ptr PROVE b \in Nat /\ b <= base
  <2>1. PICK j \in 1 .. Len(slots) : b = slots[j].base
    BY <1>2
  <2>2. b \in Nat /\ (base <= b => j = k \/ base + size <= b)
    BY <1>b, <1>c, <2>1
  <2>3. j = k => b = base
    BY <1>e, <2>1
  <2> QED
    BY <1>1, <1>a, <1>4, <2>2, <2>3
<1>5. ASSUME ptr \in Bases(s) PROVE Find(s, ptr) = [base |-> base, offset |-> offset]
  <2>1. ptr <= ptr
    BY <1>1
  <2>2. ptr <= base
    BY <1>4, <1>5, <2>1
  <2>3. ptr = base /\ offset = 0
    BY <1>1, <1>a, <2>2
  <2>4. Find(s, ptr) = [base |-> ptr, offset |-> 0]
    BY <1>5 DEF Find
  <2> QED
    BY <2>3, <2>4
<1>6. ASSUME ptr \notin Bases(s) PROVE Find(s, ptr) = [base |-> base, offset |-> offset]
  <2> DEFINE m == Max(below)
  <2>1. base \in below
    BY <1>1, <1>2
  <2>2. below \subseteq 0 .. ptr
    <3>1. ASSUME NEW b \in below PROVE b \in Nat /\ b <= ptr
      BY <1>2, <1>4, <3>1
    <3> HIDE DEF below
    <3> QED
      BY <1>1, <3>1
  <2>3. m \in below /\ base <= m
    BY <1>1, <2>1, <2>2, MaxFacts
  <2>4. m \in Bases(s) /\ m <= ptr
    BY <1>2, <2>3
  <2> HIDE DEF m
  <2>5. m \in Nat /\ m <= base /\ base <= m
    BY <1>4, <2>3, <2>4
  <2>6. m = base
    BY <1>1, <2>5
  <2>7. ptr < base + Len(s.memory[base]) /\ ptr - base = offset
    BY <1>1, <1>3, <1>a
  <2>8. ~ (Bases(s) = {} \/ below = {})
    BY <1>2, <2>1
  <2> DEFINE found == [base |-> m, offset |-> ptr - m]
  <2>9. Find(s, ptr) = IF ptr < m + Len(s.memory[m]) THEN found ELSE NoCache
    BY <1>6, <2>8, Zenon DEF Find, m
  <2> QED
    BY <2>6, <2>7, <2>9
<1>7. Find(s, ptr) = [base |-> base, offset |-> offset]
  BY <1>5, <1>6
<1> QED
  BY <1>7, <1>e

(* What _read_flat returns from a pointer into an argument on.             *)
LEMMA ReadArgument ==
    ASSUME NEW s, NEW slots, Placed(slots), Holds(s, slots), NEW k \in 1 .. Len(slots),
           NEW offset \in Nat, offset < slots[k].n, NEW n
    PROVE  Read(s, slots[k].base + offset, n) =
              [i \in 1 .. n |-> IF offset + i <= slots[k].n
                                THEN s.memory[slots[k].base][offset + i] ELSE Zero]
<1> DEFINE found == Find(s, slots[k].base + offset)
<1>0. found = [base |-> slots[k].base, offset |-> offset]
  BY FindArgument
<1>1. found.base = slots[k].base /\ found.offset = offset
  <2> HIDE DEF found
  <2> QED
    BY <1>0
<1>2. Len(s.memory[slots[k].base]) = slots[k].n
  <2>1. s.memory[slots[k].base] \in [1 .. slots[k].n -> Val]
    BY DEF Holds
  <2>2. slots[k].n \in Nat
    BY PlacedFacts
  <2> QED
    BY <2>1, <2>2, ArrayFacts
<1>3. Read(s, slots[k].base + offset, n) =
         [i \in 1 .. n |-> IF found.offset + i <= Len(s.memory[found.base])
                           THEN s.memory[found.base][found.offset + i] ELSE Zero]
  BY DEF Read
<1> HIDE DEF found
<1> QED
  BY <1>1, <1>2, <1>3

LEMMA ReadBack ==
    ASSUME NEW s, NEW slots, Placed(slots), Holds(s, slots), NEW k \in 1 .. Len(slots)
    PROVE  Read(s, slots[k].base, slots[k].n) = s.memory[slots[k].base]
<1> DEFINE base == slots[k].base
           n == slots[k].n
           array == s.memory[base]
<1>1. base \in Nat /\ n \in Nat /\ 0 < n
  BY PlacedFacts
<1>2. array \in [1 .. n -> Val]
  BY DEF Holds
<1>b. 0 \in Nat /\ 0 < slots[k].n
  BY <1>1
<1>3. Read(s, base + 0, n) = [i \in 1 .. n |-> IF 0 + i <= n THEN array[0 + i] ELSE Zero]
  BY <1>b, ReadArgument
<1> HIDE DEF base, n, array
<1>4. base + 0 = base
  BY <1>1
<1>5. \A i \in 1 .. n : 0 + i = i /\ i <= n
  BY <1>1
<1>6. [i \in 1 .. n |-> IF 0 + i <= n THEN array[0 + i] ELSE Zero] = [i \in 1 .. n |-> array[i]]
  BY <1>5
<1>7. array = [i \in 1 .. n |-> array[i]]
  BY <1>2
<1>8. Read(s, base, n) = array
  BY <1>3, <1>4, <1>6, <1>7
<1> QED
  BY <1>8 DEF base, n, array

(* A write through a pointer into an argument patches its array and leaves *)
(* the others alone: the values beyond the end do not matter.              *)
LEMMA WriteArgument ==
    ASSUME NEW s, NEW slots, Placed(slots), Holds(s, slots), NEW k \in 1 .. Len(slots),
           NEW offset \in Nat, offset < slots[k].n, NEW data, NEW m \in Nat,
           Len(data) = m,
           \A i \in 1 .. m : offset + i <= slots[k].n => data[i] \in Val
    PROVE  LET new == Write(s, slots[k].base + offset, data) IN
           /\ Holds(new, slots)
           /\ \A j \in 1 .. Len(slots) : new.memory[slots[j].base] =
                 IF j = k THEN Patched(s.memory[slots[k].base], offset, data)
                 ELSE s.memory[slots[j].base]
<1>0. Find(s, slots[k].base + offset) = [base |-> slots[k].base, offset |-> offset]
  BY FindArgument
<1> DEFINE base == slots[k].base
           size == slots[k].n
           ptr == base + offset
           found == Find(s, ptr)
           after == Searched(s, ptr)
           old == s.memory[base]
           patch == Patched(old, offset, data)
           new == Write(s, ptr, data)
           memory == [s.memory EXCEPT ![base] = patch]
<1>1. base \in Nat /\ size \in Nat /\ \A j \in 1 .. Len(slots) : slots[j].base = base => j = k
  <2>1. /\ base \in Nat /\ size \in Nat /\ size > 0
        /\ \A j \in 1 .. Len(slots) : slots[j].base <= base => j = k \/ slots[j].base + slots[j].n <= base
        /\ \A j \in 1 .. Len(slots) : slots[j].n \in Nat /\ slots[j].n > 0
    BY PlacedFacts
  <2>2. ASSUME NEW j \in 1 .. Len(slots), slots[j].base = base PROVE j = k
    <3> DEFINE n == slots[j].n
    <3>1. n \in Nat /\ n > 0 /\ (base <= base => j = k \/ base + n <= base)
      BY <2>1, <2>2
    <3> HIDE DEF base, n
    <3> QED
      BY <2>1, <3>1
  <2> QED
    BY <2>1, <2>2
<1>2. found = [base |-> base, offset |-> offset]
  BY <1>0
<1>3. found # NoCache
  <2>1. [base |-> base, offset |-> offset] \in [base : Nat, offset : Nat]
    BY <1>1
  <2> QED
    BY <1>2, <2>1, NoCacheAssumption
<1>4. after.memory = s.memory /\ Holds(after, slots)
  BY SearchedFacts
<1>5. old \in [1 .. size -> Val] /\ base \in Bases(s)
  BY DEF Holds
<1>6. Len(old) = size
  BY <1>1, <1>5, ArrayFacts
<1>7. patch \in [1 .. size -> Val]
  <2>1. patch = [i \in 1 .. size |-> IF i - offset \in 1 .. m THEN data[i - offset] ELSE old[i]]
    BY <1>6 DEF Patched
  <2>2. ASSUME NEW i \in 1 .. size, i - offset \in 1 .. m PROVE data[i - offset] \in Val
    <3>1. offset + (i - offset) <= size
      <4> HIDE DEF size
      <4> QED
        BY <1>1
    <3> QED
      BY <2>2, <3>1
  <2> HIDE DEF patch, old, size
  <2> QED
    BY <1>5, <2>1, <2>2
<1>8. new = [after EXCEPT !.memory[base] = patch]
  <2>1. found.base = base /\ found.offset = offset
    <3> HIDE DEF found
    <3> QED
      BY <1>2
  <2>2. new = [after EXCEPT !.memory[found.base] = Patched(@, found.offset, data)]
    BY <1>3 DEF Write
  <2> HIDE DEF found, after, new
  <2> QED
    BY <1>4, <2>1, <2>2
<1>9. after = [memory |-> [a \in Bases(after) |-> after.memory[a]], cache |-> after.cache]
      /\ Bases(after) = Bases(s)
  BY <1>4 DEF Holds, Bases
<1> HIDE DEF patch, new, after, found
<1>10. new = [memory |-> memory, cache |-> after.cache]
  BY <1>4, <1>8, <1>9
<1>11. s.memory = [a \in Bases(s) |-> s.memory[a]]
  BY <1>4, <1>9
<1>12. /\ memory = [a \in Bases(s) |-> memory[a]]
       /\ \A a \in Bases(s) : memory[a] = IF a = base THEN patch ELSE s.memory[a]
       /\ DOMAIN memory = Bases(s)
  <2> HIDE DEF base
  <2> QED
    BY <1>5, <1>11 DEF old
<1> HIDE DEF memory
<1>13. new.memory = memory /\ new.cache = after.cache /\ Bases(new) = Bases(s)
  BY <1>10, <1>12 DEF Bases
<1>14. \A j \in 1 .. Len(slots) : slots[j].base \in Bases(s)
  BY DEF Holds
<1>15. ASSUME NEW j \in 1 .. Len(slots)
       PROVE  new.memory[slots[j].base] = IF j = k THEN patch ELSE s.memory[slots[j].base]
  <2>1. memory[slots[j].base] = IF slots[j].base = base THEN patch ELSE s.memory[slots[j].base]
    BY <1>12, <1>14
  <2>2. slots[j].base = base <=> j = k
    BY <1>1
  <2> QED
    BY <1>13, <2>1, <2>2
<1>16. Holds(new, slots)
  <2>1. new = [memory |-> [a \in Bases(new) |-> new.memory[a]], cache |-> new.cache]
    BY <1>10, <1>12, <1>13
  <2>2. IsFiniteSet(Bases(new)) /\ Bases(new) = {slots[j].base : j \in 1 .. Len(slots)}
    BY <1>13 DEF Holds
  <2>3. \A j \in 1 .. Len(slots) : new.memory[slots[j].base] \in [1 .. slots[j].n -> Val]
    BY <1>7, <1>15 DEF Holds
  <2>4. new.cache # NoCache =>
          /\ new.cache.len \in Nat /\ new.cache.len <= Cardinality(Bases(new))
          /\ new.cache.len = Cardinality(Bases(new)) => new.cache.keys = Bases(new)
    BY <1>4, <1>9, <1>13 DEF Holds
  <2> QED
    BY <2>1, <2>2, <2>3, <2>4, Zenon DEF Holds
<1> QED
  BY <1>15, <1>16 DEF new, patch, old, ptr, base

(* allocate and hbm_write add an array above all the others.               *)
LEMMA AddArgument ==
    ASSUME NEW s, NEW slots, Placed(slots), Holds(s, slots), NEW ptr \in Nat,
           \A k \in 1 .. Len(slots) : slots[k].base + slots[k].n <= ptr,
           NEW n \in 1 .. MaxLen, NEW data \in [1 .. n -> Val]
    PROVE  LET more == Append(slots, [base |-> ptr, n |-> n])
               new == Write(s, ptr, data)
           IN  /\ Placed(more) /\ Holds(new, more)
               /\ Len(more) = Len(slots) + 1 /\ more[Len(slots) + 1] = [base |-> ptr, n |-> n]
               /\ \A k \in 1 .. Len(slots) : more[k] = slots[k]
               /\ new.memory[ptr] = data
               /\ \A k \in 1 .. Len(slots) : new.memory[slots[k].base] = s.memory[slots[k].base]
<1> DEFINE len == Len(slots)
           slot == [base |-> ptr, n |-> n]
           more == Append(slots, slot)
           after == Searched(s, ptr)
           memory == [a \in Bases(s) \cup {ptr} |-> IF a = ptr THEN data ELSE s.memory[a]]
           new == Write(s, ptr, data)
<1>0. /\ len \in Nat
      /\ \A k \in 1 .. len : slots[k].base \in Nat /\ slots[k].n \in Nat /\ slots[k].n > 0
      /\ \A k \in 1 .. len : slots[k].base + slots[k].n <= ptr
  BY PlacedFacts
<1>1. /\ Keys(s) = Bases(s) /\ Bases(s) = {slots[k].base : k \in 1 .. len}
      /\ IsFiniteSet(Bases(s))
  BY KeysAreBases DEF Holds
<1>2. ASSUME NEW b \in Bases(s) PROVE b \in Nat /\ b < ptr /\ b + Len(s.memory[b]) <= ptr
  <2>1. PICK k \in 1 .. len : b = slots[k].base
    BY <1>1
  <2> DEFINE size == slots[k].n
  <2>2. size \in Nat /\ size > 0 /\ b \in Nat /\ b + size <= ptr
    BY <1>0, <2>1
  <2>3. s.memory[b] \in [1 .. size -> Val]
    BY <2>1 DEF Holds
  <2> HIDE DEF size
  <2>4. Len(s.memory[b]) = size
    BY <2>2, <2>3, ArrayFacts
  <2> QED
    BY <2>2, <2>4
<1>3. ptr \notin Bases(s)
  BY <1>2
<1>4. Find(s, ptr) = NoCache
  <2> DEFINE below == {b \in Keys(s) : b <= ptr}
             m == Max(below)
  <2>1. CASE Bases(s) = {} \/ below = {}
    BY <1>3, <2>1 DEF Find
  <2>2. CASE ~ (Bases(s) = {} \/ below = {})
    <3>1. below \subseteq 0 .. ptr
      <4>1. ASSUME NEW b \in below PROVE b \in Nat /\ b <= ptr
        BY <1>1, <1>2, <4>1
      <4> HIDE DEF below
      <4> QED
        BY <4>1
    <3>2. m \in below
      BY <2>2, <3>1, MaxFacts
    <3>3. m \in Bases(s)
      BY <1>1, <3>2
    <3> DEFINE top == m + Len(s.memory[m])
    <3>4. m \in Nat /\ top <= ptr /\ top \in Nat
      <4>1. PICK k \in 1 .. len : m = slots[k].base
        BY <1>1, <3>3
      <4> DEFINE size == slots[k].n
      <4>2. s.memory[m] \in [1 .. size -> Val] /\ size \in Nat
        BY <1>0, <4>1 DEF Holds
      <4> HIDE DEF size
      <4>3. Len(s.memory[m]) = size
        BY <4>2, ArrayFacts
      <4> HIDE DEF m
      <4> QED
        BY <1>2, <3>3, <4>2, <4>3
    <3> HIDE DEF m
    <3>5. ~ (ptr < top)
      <4> HIDE DEF top
      <4> QED
        BY <3>4
    <3>6. Find(s, ptr) = IF ptr < top THEN [base |-> m, offset |-> ptr - m] ELSE NoCache
      BY <1>3, <2>2, Zenon DEF Find, m
    <3> QED
      BY <3>5, <3>6
  <2> QED
    BY <2>1, <2>2
<1>5. after.memory = s.memory /\ Holds(after, slots)
  BY SearchedFacts
<1>6. new = [after EXCEPT !.memory = memory]
  BY <1>4, <1>5 DEF Write
<1>7. after = [memory |-> [a \in Bases(after) |-> after.memory[a]], cache |-> after.cache]
      /\ Bases(after) = Bases(s)
  BY <1>5 DEF Holds, Bases
<1>8. /\ DOMAIN memory = Bases(s) \cup {ptr}
      /\ memory = [a \in Bases(s) \cup {ptr} |-> memory[a]]
      /\ memory[ptr] = data /\ \A a \in Bases(s) : memory[a] = s.memory[a]
  BY <1>3
<1> HIDE DEF memory, after, new
<1>9. new = [memory |-> memory, cache |-> after.cache]
  BY <1>6, <1>7
<1>10. new.memory = memory /\ new.cache = after.cache /\ Bases(new) = Bases(s) \cup {ptr}
  BY <1>8, <1>9 DEF Bases
<1>11. slot.base = ptr /\ slot.n = n /\ slot \in [base : Nat, n : 1 .. MaxLen]
  OBVIOUS
<1> HIDE DEF slot
<1>12. /\ more \in Seq([base : Nat, n : 1 .. MaxLen])
       /\ Len(more) = len + 1 /\ more[len + 1] = slot
       /\ \A k \in 1 .. len : more[k] = slots[k]
  <2>1. slots \in Seq([base : Nat, n : 1 .. MaxLen])
    BY DEF Placed
  <2> DEFINE S == [base : Nat, n : 1 .. MaxLen]
  <2>2. slots \in Seq(S) /\ slot \in S
    BY <1>11, <2>1
  <2> HIDE DEF S
  <2>3. Append(slots, slot) \in Seq(S)
    BY <2>2
  <2>4. /\ Len(Append(slots, slot)) = Len(slots) + 1 /\ Append(slots, slot)[Len(slots) + 1] = slot
        /\ \A k \in 1 .. Len(slots) : Append(slots, slot)[k] = slots[k]
    BY <2>2
  <2> QED
    BY <2>3, <2>4 DEF S
<1> HIDE DEF more, len
<1>13. ASSUME NEW k \in 1 .. len + 1 PROVE k = len + 1 \/ k \in 1 .. len
  BY <1>0
<1>14. Placed(more)
  <2>1. ASSUME NEW j \in 1 .. Len(more), NEW k \in 1 .. Len(more), j < k
        PROVE  more[j].base + more[j].n <= more[k].base
    <3>1. j \in 1 .. len
      BY <1>0, <1>12, <2>1
    <3>2. CASE k = len + 1
      BY <1>0, <1>11, <1>12, <3>1, <3>2
    <3>3. CASE k # len + 1
      <4>1. k \in 1 .. len
        BY <1>12, <1>13, <3>3
      <4>2. slots[j].base + slots[j].n <= slots[k].base
        BY <2>1, <3>1, <4>1 DEF Placed, len
      <4> QED
        BY <1>12, <3>1, <4>1, <4>2
    <3> QED
      BY <3>2, <3>3
  <2> QED
    BY <1>12, <2>1 DEF Placed
<1>15. \A k \in 1 .. len : new.memory[slots[k].base] = s.memory[slots[k].base]
  BY <1>1, <1>8, <1>10
<1>16. Holds(new, more)
  <2>1. new = [memory |-> [a \in Bases(new) |-> new.memory[a]], cache |-> new.cache]
    BY <1>8, <1>9, <1>10
  <2>2. IsFiniteSet(Bases(new)) /\ Cardinality(Bases(new)) = Cardinality(Bases(s)) + 1
        /\ Cardinality(Bases(s)) \in Nat
    <3> DEFINE B == Bases(s)
    <3>1. IsFiniteSet(B) /\ ptr \notin B /\ Bases(new) = B \cup {ptr}
      BY <1>1, <1>3, <1>10
    <3> HIDE DEF B
    <3>2. Cardinality(B \cup {ptr}) = Cardinality(B) + 1 /\ IsFiniteSet(B \cup {ptr})
      BY <3>1, FS_AddElement
    <3>3. Cardinality(B) \in Nat
      BY <3>1, FS_CardinalityType
    <3> QED
      BY <3>1, <3>2, <3>3 DEF B
  <2>3. Bases(new) = {more[k].base : k \in 1 .. Len(more)}
    <3>1. ASSUME NEW b \in Bases(s) PROVE \E k \in 1 .. len + 1 : b = more[k].base
      <4>1. PICK k \in 1 .. len : b = slots[k].base
        BY <1>1
      <4>2. k \in 1 .. len + 1 /\ more[k] = slots[k]
        BY <1>0, <1>12
      <4> QED
        BY <4>1, <4>2
    <3>2. more[len + 1].base = ptr /\ len + 1 \in 1 .. len + 1
      BY <1>0, <1>11, <1>12
    <3>3. \A k \in 1 .. len + 1 : more[k].base \in Bases(new)
      BY <1>1, <1>10, <1>12, <1>13, <3>2
    <3> QED
      BY <1>10, <1>12, <3>1, <3>2, <3>3
  <2>4. ASSUME NEW k \in 1 .. Len(more) PROVE new.memory[more[k].base] \in [1 .. more[k].n -> Val]
    <3>1. CASE k = len + 1
      BY <1>8, <1>10, <1>11, <1>12, <3>1
    <3>2. CASE k # len + 1
      <4>1. k \in 1 .. len /\ more[k] = slots[k]
        BY <1>12, <1>13, <3>2
      <4>2. s.memory[slots[k].base] \in [1 .. slots[k].n -> Val]
        BY <4>1 DEF Holds, len
      <4> QED
        BY <1>15, <4>1, <4>2
    <3> QED
      BY <3>1, <3>2
  <2>5. new.cache # NoCache =>
          /\ new.cache.len \in Nat /\ new.cache.len <= Cardinality(Bases(new))
          /\ new.cache.len = Cardinality(Bases(new)) => new.cache.keys = Bases(new)
    <3> SUFFICES ASSUME new.cache # NoCache
                 PROVE  /\ new.cache.len \in Nat /\ new.cache.len <= Cardinality(Bases(new))
                        /\ new.cache.len # Cardinality(Bases(new))
      OBVIOUS
    <3> DEFINE old == new.cache.len
               card == Cardinality(Bases(new))
    <3>1. old \in Nat /\ old <= Cardinality(Bases(s))
      BY <1>5, <1>7, <1>10 DEF Holds
    <3> HIDE DEF old, card
    <3>2. old <= card /\ old # card
      BY <2>2, <3>1 DEF card
    <3> QED
      BY <3>1, <3>2 DEF old, card
  <2> QED
    BY <2>1, <2>2, <2>3, <2>4, <2>5, Zenon DEF Holds
<1>17. new.memory[ptr] = data
  BY <1>8, <1>10
<1> QED
  BY <1>12, <1>14, <1>15, <1>16, <1>17 DEF new, more, slot, len

(* The elements of a tensor after a store of put. *)
Stored(tensor, offset, put) ==
    [i \in DOMAIN tensor |-> IF i - offset \in DOMAIN put THEN put[i - offset] ELSE tensor[i]]

(* A strided store writes back what it read between the elements it puts,  *)
(* and its zeros fall beyond the end of the array.                         *)
LEMMA ScatterArgument ==
    ASSUME NEW s, NEW slots, Placed(slots), Holds(s, slots), NEW k \in 1 .. Len(slots),
           NEW offset \in Nat, offset < slots[k].n,
           NEW P \in SUBSET (1 .. MaxLen), P # {}, NEW put \in [P -> Val]
    PROVE  LET new == Scatter(s, slots[k].base + offset, put) IN
           /\ Holds(new, slots)
           /\ \A j \in 1 .. Len(slots) : new.memory[slots[j].base] =
                 IF j = k THEN Stored(s.memory[slots[k].base], offset, put)
                 ELSE s.memory[slots[j].base]
<1> DEFINE base == slots[k].base
           size == slots[k].n
           ptr == base + offset
           span == Max(P)
           old == s.memory[base]
           flat == [i \in 1 .. span |-> IF offset + i <= size THEN old[offset + i] ELSE Zero]
           block == [i \in 1 .. span |-> IF i \in P THEN put[i] ELSE flat[i]]
           after == Searched(s, ptr)
           new == Scatter(s, ptr, put)
           want == [i \in 1 .. size |-> IF i - offset \in P THEN put[i - offset] ELSE old[i]]
<1>1. base \in Nat /\ size \in Nat
  BY PlacedFacts
<1>2. span \in P /\ span \in Nat /\ \A i \in P : i \in Nat /\ i >= 1 /\ i <= span
  <2>1. P \subseteq 0 .. MaxLen
    BY BoundsAssumption
  <2>2. span \in P /\ \A i \in P : i <= span
    BY <2>1, BoundsAssumption, MaxFacts
  <2> HIDE DEF span
  <2> QED
    BY <2>2
<1>3. Read(s, ptr, span) = flat
  BY ReadArgument
<1>4. after.memory = s.memory /\ Holds(after, slots)
  BY SearchedFacts
<1>5. new = Write(after, ptr, block)
  BY <1>3 DEF Scatter
<1>6. old \in [1 .. size -> Val]
  BY DEF Holds
<1> HIDE DEF span, old, new, after
<1>7. Len(block) = span
  BY <1>2
<1>8. ASSUME NEW i \in 1 .. span, offset + i <= size PROVE block[i] \in Val
  <2>1. CASE i \in P
    BY <2>1
  <2>2. CASE i \notin P
    <3>1. block[i] = old[offset + i]
      BY <1>8, <2>2
    <3>2. offset + i \in 1 .. size
      <4> HIDE DEF size
      <4> QED
        BY <1>1, <1>2, <1>8
    <3> QED
      BY <1>6, <3>1, <3>2
  <2> QED
    BY <2>1, <2>2
<1>9. /\ Holds(Write(after, ptr, block), slots)
      /\ \A j \in 1 .. Len(slots) : Write(after, ptr, block).memory[slots[j].base] =
            IF j = k THEN Patched(after.memory[base], offset, block) ELSE after.memory[slots[j].base]
  <2> HIDE DEF block
  <2> QED
    BY <1>2, <1>4, <1>7, <1>8, WriteArgument
<1>10. Patched(old, offset, block) = want
  <2>1. Len(old) = size
    <3> HIDE DEF size
    <3> QED
      BY <1>1, <1>6, ArrayFacts
  <2> DEFINE Elem(i) == IF i - offset \in 1 .. span THEN block[i - offset] ELSE old[i]
  <2>2. Patched(old, offset, block) = [i \in 1 .. size |-> Elem(i)]
    BY <1>7, <2>1 DEF Patched
  <2>3. ASSUME NEW i \in 1 .. size
        PROVE  Elem(i) = IF i - offset \in P THEN put[i - offset] ELSE old[i]
    <3>1. CASE i - offset \in P
      <4>1. i - offset \in 1 .. span
        BY <1>2, <3>1
      <4> QED
        BY <3>1, <4>1
    <3>2. CASE i - offset \notin P /\ i - offset \in 1 .. span
      <4> DEFINE e == i - offset
      <4>1. offset + e = i /\ i <= size
        <5> HIDE DEF size
        <5> QED
          BY <1>1
      <4>2. block[e] = flat[e] /\ flat[e] = old[i]
        <5>1. e \in 1 .. span /\ e \notin P
          BY <3>2
        <5> HIDE DEF e, size
        <5> QED
          BY <4>1, <5>1
      <4> QED
        BY <3>2, <4>2
    <3>3. CASE i - offset \notin P /\ i - offset \notin 1 .. span
      BY <3>3
    <3> QED
      BY <3>1, <3>2, <3>3
  <2> HIDE DEF Elem
  <2> QED
    BY <2>2, <2>3
<1>11. \A j \in 1 .. Len(slots) : new.memory[slots[j].base] = IF j = k THEN want ELSE s.memory[slots[j].base]
  <2> HIDE DEF want, block, flat, base
  <2> QED
    BY <1>4, <1>5, <1>9, <1>10 DEF old
<1>12. want = Stored(old, offset, put)
  <2>1. DOMAIN old = 1 .. size /\ DOMAIN put = P
    BY <1>6
  <2> HIDE DEF size
  <2> QED
    BY <2>1 DEF Stored
<1> HIDE DEF want
<1> QED
  BY <1>5, <1>9, <1>11, <1>12 DEF new, old

----------------------------------------------------------------------------
(***************************************************************************)
(* The invariant, and the refinement of TensorMemory.                      *)
(***************************************************************************)
LEMMA InitHbm == Init => HbmInv
<1> SUFFICES ASSUME Init PROVE HbmInv
  OBVIOUS
<1>1. store = EmptyStore /\ nextPtr = Stick /\ args = <<>>
  BY DEF Init
<1>2. Len(args) = 0 /\ args \in Seq([base : Nat, n : 1 .. MaxLen]) /\ 1 .. 0 = {}
  BY <1>1
<1>3. /\ store.memory = [a \in {} |-> <<>>] /\ store.cache = NoCache
      /\ store = [memory |-> store.memory, cache |-> store.cache]
      /\ Bases(store) = {}
  BY <1>1 DEF EmptyStore, Bases
<1>4. store.memory = [a \in Bases(store) |-> store.memory[a]]
  BY <1>3
<1>5. Holds(store, args)
  BY <1>2, <1>3, <1>4, FS_EmptySet DEF Holds
<1>6. nextPtr \in Nat
  BY <1>1, BoundsAssumption
<1> QED
  BY <1>2, <1>5, <1>6 DEF HbmInv, Placed

(* The tensors TensorMemory sees are the arrays of the arguments.          *)
Contents(s, slots) == [k \in 1 .. Len(slots) |-> s.memory[slots[k].base]]

LEMMA TensorsAreArrays ==
    ASSUME NEW s, NEW slots, Placed(slots), Holds(s, slots)
    PROVE  [k \in DOMAIN slots |-> Read(s, slots[k].base, slots[k].n)] = Contents(s, slots)
<1>1. DOMAIN slots = 1 .. Len(slots)
  BY PlacedFacts
<1>2. \A k \in 1 .. Len(slots) : Read(s, slots[k].base, slots[k].n) = s.memory[slots[k].base]
  BY ReadBack
<1> QED
  BY <1>1, <1>2 DEF Contents

(* What a step does to the invariant and to the tensors.                   *)
LEMMA PlaceStep ==
    ASSUME HbmInv, NEW data \in Arrays(Lengths), Place(data)
    PROVE  /\ HbmInv'
           /\ data \in Tensor!Arrays
           /\ Len(Contents(store, args)) < MaxTensors
           /\ Contents(store', args') = Append(Contents(store, args), data)
<1>1. PICK n \in Lengths : data \in [1 .. n -> Val]
  BY DEF Arrays
<1>2. n \in 1 .. MaxLen /\ n \in Nat
  BY LengthsAssumption, BoundsAssumption
<1>3. Len(data) = n
  BY <1>1, <1>2, ArrayFacts
<1> DEFINE slot == [base |-> nextPtr, n |-> n]
           more == Append(args, slot)
           new == Write(store, nextPtr, data)
           len == Len(args)
<1>4. /\ Len(args) < MaxTensors
      /\ nextPtr' = Align(nextPtr + n) /\ store' = new /\ args' = more
  BY <1>3 DEF Place
<1>5. /\ Placed(args) /\ Holds(store, args) /\ nextPtr \in Nat
      /\ \A k \in 1 .. len : args[k].base + args[k].n <= nextPtr
  BY DEF HbmInv
<1>6. /\ Placed(more) /\ Holds(new, more)
      /\ Len(more) = len + 1 /\ more[len + 1] = slot
      /\ \A k \in 1 .. len : more[k] = args[k]
      /\ new.memory[nextPtr] = data
      /\ \A k \in 1 .. len : new.memory[args[k].base] = store.memory[args[k].base]
  BY <1>1, <1>2, <1>5, AddArgument
<1>7. slot.base = nextPtr /\ slot.n = n
  OBVIOUS
<1>8. nextPtr' \in Nat /\ nextPtr' >= nextPtr + n
  <2>1. nextPtr' = RoundedUp(nextPtr + n, Stick) /\ nextPtr + n \in Nat
    BY <1>2, <1>4, <1>5 DEF Align, RoundedUp
  <2> QED
    BY <2>1, BoundsAssumption, RoundedUpFacts
<1>9. /\ len \in Nat
      /\ \A k \in 1 .. len : args[k].base \in Nat /\ args[k].n \in Nat
  BY <1>5, PlacedFacts
<1> HIDE DEF slot, more, new, len
<1>10. ASSUME NEW k \in 1 .. len + 1 PROVE k = len + 1 \/ k \in 1 .. len
  BY <1>9
<1>11. ASSUME NEW k \in 1 .. len + 1 PROVE more[k].base + more[k].n <= nextPtr'
  <2>1. CASE k = len + 1
    BY <1>6, <1>7, <1>8, <2>1
  <2>2. CASE k \in 1 .. len
    <3> DEFINE top == args[k].base + args[k].n
    <3>1. top \in Nat /\ top <= nextPtr
      BY <1>5, <1>9, <2>2
    <3>2. more[k] = args[k]
      BY <1>6, <2>2
    <3> HIDE DEF top
    <3>3. top <= nextPtr'
      BY <1>2, <1>5, <1>8, <3>1
    <3> QED
      BY <3>2, <3>3 DEF top
  <2> QED
    BY <1>10, <2>1, <2>2
<1>12. HbmInv'
  BY <1>4, <1>6, <1>8, <1>11 DEF HbmInv
<1>13. data \in Tensor!Arrays
  BY <1>1, <1>2 DEF Tensor!Arrays
<1>14. Contents(new, more) = Append(Contents(store, args), data)
  <2> DEFINE was == Contents(store, args)
             now == Contents(new, more)
             S == {now[k] : k \in 1 .. len + 1}
  <2>1. now = [k \in 1 .. len + 1 |-> new.memory[more[k].base]]
    BY <1>6 DEF Contents
  <2>2. was = [k \in 1 .. len |-> store.memory[args[k].base]]
    BY DEF Contents, len
  <2>3. \A k \in 1 .. len : now[k] = was[k]
    <3> SUFFICES ASSUME NEW k \in 1 .. len PROVE now[k] = was[k]
      OBVIOUS
    <3>1. k \in 1 .. len + 1
      BY <1>9
    <3> HIDE DEF now, was
    <3> QED
      BY <1>6, <2>1, <2>2, <3>1
  <2>4. now[len + 1] = data
    <3>1. len + 1 \in 1 .. len + 1
      BY <1>9
    <3> HIDE DEF now
    <3> QED
      BY <1>6, <1>7, <2>1, <3>1
  <2>5. now = [k \in 1 .. len + 1 |-> now[k]]
    BY <2>1
  <2>6. was = [k \in 1 .. len |-> was[k]]
    BY <2>2
  <2> HIDE DEF now, was
  <2>7. was \in Seq(S) /\ Len(was) = len /\ data \in S
    <3>1. \A k \in 1 .. len : was[k] \in S
      <4>1. \A k \in 1 .. len : k \in 1 .. len + 1
        BY <1>9
      <4> QED
        BY <2>3, <4>1
    <3>2. data \in S
      <4>1. len + 1 \in 1 .. len + 1
        BY <1>9
      <4> QED
        BY <2>4, <4>1
    <3> HIDE DEF S
    <3> QED
      BY <1>9, <2>6, <3>1, <3>2
  <2> HIDE DEF S
  <2>8. Append(was, data) = [k \in 1 .. len + 1 |-> IF k = len + 1 THEN data ELSE was[k]]
    <3> DEFINE long == Append(was, data)
    <3>1. long \in Seq(S) /\ Len(long) = len + 1 /\ long[len + 1] = data
          /\ \A k \in 1 .. len : long[k] = was[k]
      BY <2>7
    <3> HIDE DEF long
    <3>2. long = [k \in 1 .. len + 1 |-> long[k]]
      BY <3>1
    <3>3. \A k \in 1 .. len + 1 : long[k] = IF k = len + 1 THEN data ELSE was[k]
      BY <1>10, <3>1
    <3> QED
      BY <3>2, <3>3 DEF long
  <2>9. \A k \in 1 .. len + 1 : now[k] = IF k = len + 1 THEN data ELSE was[k]
    BY <1>10, <2>3, <2>4
  <2> QED
    BY <2>5, <2>8, <2>9 DEF now, was
<1>15. Len(Contents(store, args)) = len
  BY <1>9 DEF Contents, len
<1> QED
  BY <1>4, <1>12, <1>13, <1>14, <1>15 DEF len

(* A step of a kernel, which allocates nothing.                            *)
LEMMA KernelInv ==
    ASSUME HbmInv, Holds(store', args), UNCHANGED <<nextPtr, args>>
    PROVE  HbmInv'
BY DEF HbmInv

LEMMA ContiguousStep ==
    ASSUME HbmInv, NEW k \in 1 .. Len(args), NEW offset \in 0 .. args[k].n - 1,
           NEW data \in Arrays(1 .. MaxLen), StoreContiguous(k, offset, data)
    PROVE  /\ HbmInv'
           /\ data \in Tensor!Puts
           /\ Contents(store', args') =
                 [Contents(store, args) EXCEPT ![k] = Stored(@, offset, data)]
<1>1. /\ Placed(args) /\ Holds(store, args)
      /\ store' = Write(store, args[k].base + offset, data)
      /\ UNCHANGED <<nextPtr, args>>
  BY DEF HbmInv, StoreContiguous, Pointer
<1>2. PICK m \in 1 .. MaxLen : data \in [1 .. m -> Val]
  BY DEF Arrays
<1> DEFINE size == args[k].n
           old == store.memory[args[k].base]
<1>3. size \in Nat /\ old \in [1 .. size -> Val] /\ m \in Nat
  BY <1>1, BoundsAssumption, PlacedFacts DEF Holds
<1>4. offset \in Nat /\ offset < size
  <2>1. offset \in 0 .. size - 1
    OBVIOUS
  <2> HIDE DEF size
  <2> QED
    BY <1>3, <2>1
<1>5. Len(data) = m /\ Len(old) = size
  <2> HIDE DEF size, old
  <2> QED
    BY <1>2, <1>3, ArrayFacts
<1>6. \A i \in 1 .. m : offset + i <= size => data[i] \in Val
  BY <1>2
<1> DEFINE after == Write(store, args[k].base + offset, data)
<1>7. /\ Holds(after, args)
      /\ \A j \in 1 .. Len(args) : after.memory[args[j].base] =
            IF j = k THEN Patched(old, offset, data) ELSE store.memory[args[j].base]
  <2>1. /\ m \in Nat /\ offset \in Nat /\ offset < args[k].n /\ Len(data) = m
        /\ \A i \in 1 .. m : offset + i <= args[k].n => data[i] \in Val
    BY <1>3, <1>4, <1>5, <1>6
  <2>2. /\ Holds(Write(store, args[k].base + offset, data), args)
        /\ \A j \in 1 .. Len(args) : Write(store, args[k].base + offset, data).memory[args[j].base] =
              IF j = k THEN Patched(store.memory[args[k].base], offset, data)
              ELSE store.memory[args[j].base]
    <3> HIDE DEF size, old, after
    <3> QED
      BY <1>1, <2>1, WriteArgument
  <2> QED
    BY <2>2
<1> HIDE DEF after
<1>8. Patched(old, offset, data) = Stored(old, offset, data)
  <2> HIDE DEF old, size
  <2>1. DOMAIN old = 1 .. Len(old) /\ DOMAIN data = 1 .. Len(data)
    BY <1>2, <1>3, <1>5
  <2> QED
    BY <2>1 DEF Patched, Stored
<1>9. Contents(store, args)[k] = old
  BY DEF Contents
<1>10. Contents(after, args) = [Contents(store, args) EXCEPT ![k] = Patched(old, offset, data)]
  <2> DEFINE new == Patched(old, offset, data)
  <2>1. \A j \in 1 .. Len(args) : after.memory[args[j].base] =
            IF j = k THEN new ELSE store.memory[args[j].base]
    BY <1>7
  <2> HIDE DEF old, new
  <2>2. Contents(after, args) = [Contents(store, args) EXCEPT ![k] = new]
    BY <2>1 DEF Contents
  <2> QED
    BY <2>2 DEF new
<1>11. data \in Tensor!Puts
  <2>1. 1 .. m \in (SUBSET (1 .. MaxLen)) \ {{}}
    <3>1. 1 \in 1 .. m /\ \A i \in 1 .. m : i \in 1 .. MaxLen
      BY <1>3, BoundsAssumption
    <3> QED
      BY <3>1
  <2> QED
    BY <1>2, <2>1 DEF Tensor!Puts
<1>12. HbmInv' /\ store' = after
  BY <1>1, <1>7, KernelInv DEF after
<1> HIDE DEF old
<1> QED
  BY <1>1, <1>8, <1>9, <1>10, <1>11, <1>12

LEMMA ScatteredStep ==
    ASSUME HbmInv, NEW k \in 1 .. Len(args), NEW offset \in 0 .. args[k].n - 1,
           NEW put \in Puts, StoreScattered(k, offset, put)
    PROVE  /\ HbmInv'
           /\ put \in Tensor!Puts
           /\ Contents(store', args') =
                 [Contents(store, args) EXCEPT ![k] = Stored(@, offset, put)]
<1>1. /\ Placed(args) /\ Holds(store, args)
      /\ store' = Scatter(store, args[k].base + offset, put)
      /\ UNCHANGED <<nextPtr, args>>
  BY DEF HbmInv, StoreScattered, Pointer
<1>2. PICK P \in (SUBSET (1 .. MaxLen)) \ {{}} : put \in [P -> Val]
  BY DEF Puts
<1> DEFINE size == args[k].n
           old == store.memory[args[k].base]
<1>3. size \in Nat /\ old \in [1 .. size -> Val]
  BY <1>1, PlacedFacts DEF Holds
<1>4. offset \in Nat /\ offset < size
  <2>1. offset \in 0 .. size - 1
    OBVIOUS
  <2> HIDE DEF size
  <2> QED
    BY <1>3, <2>1
<1> DEFINE after == Scatter(store, args[k].base + offset, put)
           new == Stored(old, offset, put)
<1>5. /\ Holds(after, args)
      /\ \A j \in 1 .. Len(args) : after.memory[args[j].base] =
            IF j = k THEN new ELSE store.memory[args[j].base]
  BY <1>1, <1>2, <1>4, ScatterArgument
<1> HIDE DEF after, new
<1>7. Contents(store, args)[k] = old
  BY DEF Contents
<1>8. Contents(after, args) = [Contents(store, args) EXCEPT ![k] = new]
  <2>1. \A j \in 1 .. Len(args) : after.memory[args[j].base] =
            IF j = k THEN new ELSE store.memory[args[j].base]
    BY <1>5
  <2> HIDE DEF new
  <2> QED
    BY <2>1 DEF Contents
<1>9. put \in Tensor!Puts
  BY <1>2 DEF Tensor!Puts
<1>10. HbmInv' /\ store' = after
  BY <1>1, <1>5, KernelInv DEF after
<1> HIDE DEF old
<1> QED
  BY <1>1, <1>7, <1>8, <1>9, <1>10 DEF new

LEMMA LoadStep ==
    ASSUME HbmInv, NEW k \in 1 .. Len(args), NEW offset, Load(k, offset)
    PROVE  HbmInv' /\ Contents(store', args') = Contents(store, args)
<1>1. /\ Placed(args) /\ Holds(store, args)
      /\ store' = Searched(store, args[k].base + offset)
      /\ UNCHANGED <<nextPtr, args>>
  BY DEF HbmInv, Load, Pointer
<1>2. store'.memory = store.memory /\ Holds(store', args)
  BY <1>1, SearchedFacts
<1>3. Contents(store', args) = Contents(store, args)
  BY <1>2 DEF Contents
<1> QED
  BY <1>1, <1>2, <1>3, KernelInv

LEMMA NextHbm == HbmInv /\ [Next]_vars => HbmInv'
<1> SUFFICES ASSUME HbmInv, [Next]_vars PROVE HbmInv'
  OBVIOUS
<1>1. ASSUME NEW data \in Arrays(Lengths), Place(data) PROVE HbmInv'
  BY <1>1, PlaceStep
<1>2. CASE Launch
  BY <1>2 DEF Launch, HbmInv
<1>3. ASSUME NEW k \in DOMAIN args, NEW offset \in 0 .. args[k].n - 1, Kernel(k, offset)
      PROVE  HbmInv'
  <2>1. k \in 1 .. Len(args)
    BY <1>3, PlacedFacts DEF HbmInv
  <2>2. CASE Load(k, offset)
    BY <2>1, <2>2, LoadStep
  <2>3. ASSUME NEW data \in Arrays(1 .. MaxLen), StoreContiguous(k, offset, data) PROVE HbmInv'
    BY <2>1, <2>3, ContiguousStep
  <2>4. ASSUME NEW put \in Puts, StoreScattered(k, offset, put) PROVE HbmInv'
    BY <2>1, <2>4, ScatteredStep
  <2> QED
    BY <1>3, <2>2, <2>3, <2>4 DEF Kernel
<1>4. CASE UNCHANGED vars
  BY <1>4 DEF vars, HbmInv
<1> QED
  BY <1>1, <1>2, <1>3, <1>4 DEF Next

(* The inductive invariant of HBM over one execute_function. *)
THEOREM HbmInvariant == Spec => []HbmInv
<1> QED
  BY InitHbm, NextHbm, PTL DEF Spec

(* The cached sorted keys of _find_allocation are never used when stale:   *)
(* an entry of the store's length lists the store's bases.                 *)
THEOREM CacheNeverStale == Spec => []CacheIsSound
<1>1. HbmInv => CacheIsSound
  BY KeysAreBases DEF HbmInv, CacheIsSound
<1> QED
  BY <1>1, HbmInvariant, PTL

(* The allocations of allocate never share an address, the kernels' stores *)
(* keep every argument's array and its length, and a load that runs past   *)
(* the end of an argument reads zeros.                                     *)
THEOREM ArgumentsStayApart == Spec => []ArgumentsAreApart
<1>1. ASSUME HbmInv PROVE ArgumentsAreApart
  <2>1. Placed(args) /\ Holds(store, args)
    BY <1>1 DEF HbmInv
  <2>2. DOMAIN args = 1 .. Len(args)
        /\ \A k \in 1 .. Len(args) : args[k].base \in Nat /\ args[k].n \in Nat
    BY <2>1, PlacedFacts
  <2>3. Bases(store) = {args[k].base : k \in 1 .. Len(args)}
    BY <2>1 DEF Holds
  <2>4. ASSUME NEW k \in 1 .. Len(args) PROVE Len(store.memory[args[k].base]) = args[k].n
    <3>1. store.memory[args[k].base] \in [1 .. args[k].n -> Val] /\ args[k].n \in Nat
      BY <2>1, <2>2 DEF Holds
    <3> QED
      BY <3>1, ArrayFacts
  <2>5. Apart(store)
    <3>1. ASSUME NEW a \in Bases(store), NEW b \in Bases(store), a < b
          PROVE  a + Len(store.memory[a]) <= b
      <4>1. PICK j \in 1 .. Len(args) : a = args[j].base
        BY <2>3
      <4>2. PICK k \in 1 .. Len(args) : b = args[k].base
        BY <2>3
      <4>3. a \in Nat /\ b \in Nat
        BY <2>2, <4>1, <4>2
      <4>4. a <= b /\ j # k
        BY <3>1, <4>1, <4>2, <4>3
      <4>5. a + args[j].n <= b
        BY <2>1, <4>1, <4>2, <4>4, PlacedFacts
      <4> QED
        BY <2>4, <4>1, <4>5
    <3> QED
      BY <3>1 DEF Apart
  <2>6. OverreadsAreZero
    <3>1. ASSUME NEW k \in 1 .. Len(args), NEW offset \in 0 .. args[k].n - 1, NEW i \in 1 .. MaxLen
          PROVE  Read(store, Pointer(k, offset), MaxLen)[i] =
                    IF offset + i <= args[k].n
                    THEN store.memory[args[k].base][offset + i] ELSE Zero
      <4> DEFINE size == args[k].n
      <4>1. offset \in Nat /\ offset < args[k].n
        <5>1. size \in Nat /\ offset \in 0 .. size - 1
          BY <2>2
        <5> HIDE DEF size
        <5>2. offset \in Nat /\ offset < size
          BY <5>1
        <5> QED
          BY <5>2 DEF size
      <4>2. Read(store, Pointer(k, offset), MaxLen) =
               [e \in 1 .. MaxLen |-> IF offset + e <= args[k].n
                                      THEN store.memory[args[k].base][offset + e] ELSE Zero]
        BY <2>1, <4>1, ReadArgument DEF Pointer
      <4> QED
        BY <4>2
    <3> QED
      BY <2>2, <3>1 DEF OverreadsAreZero
  <2> QED
    BY <2>2, <2>3, <2>4, <2>5, <2>6 DEF ArgumentsAreApart
<1> QED
  BY <1>1, HbmInvariant, PTL

(* Whatever the host places and the kernels load and store, the arrays the *)
(* read-back returns behave as the tensors of TensorMemory.                *)
THEOREM ImplementsTensorMemory == Spec => ImplementsTensors
<1> DEFINE bar == [k \in DOMAIN args |-> Read(store, args[k].base, args[k].n)]
<1>1. HbmInv => bar = Contents(store, args)
  BY TensorsAreArrays DEF HbmInv
<1>2. ASSUME Init PROVE Tensor!Init
  <2>1. args = <<>> /\ DOMAIN args = {}
    BY <1>2 DEF Init
  <2>2. bar = <<>>
    BY <2>1
  <2> QED
    BY <2>2 DEF Tensor!Init
<1>3. ASSUME HbmInv, HbmInv', [Next]_vars PROVE [Tensor!Next]_bar
  <2>1. bar = Contents(store, args)
    BY <1>1, <1>3
  <2>2. bar' = Contents(store', args')
    BY <1>3, TensorsAreArrays DEF HbmInv
  <2>3. Placed(args) /\ Holds(store, args)
    BY <1>3 DEF HbmInv
  <2>4. DOMAIN args = 1 .. Len(args) /\ \A k \in 1 .. Len(args) : args[k].n \in Nat
    BY <2>3, PlacedFacts
  <2>5. DOMAIN bar = 1 .. Len(args)
        /\ \A k \in 1 .. Len(args) : bar[k] \in [1 .. args[k].n -> Val]
    BY <2>1, <2>3 DEF Contents, Holds
  <2>6. \A k \in 1 .. Len(args) : Len(bar[k]) = args[k].n
    BY <2>4, <2>5, ArrayFacts
  <2>7. ASSUME NEW data \in Arrays(Lengths), Place(data) PROVE Tensor!Next
    <3>1. data \in Tensor!Arrays /\ Len(bar) < MaxTensors /\ bar' = Append(bar, data)
      BY <1>3, <2>1, <2>2, <2>7, PlaceStep
    <3> QED
      BY <3>1 DEF Tensor!Next, Tensor!Place
  <2>8. ASSUME NEW k \in 1 .. Len(args), NEW offset \in 0 .. args[k].n - 1, NEW put \in Tensor!Puts,
               bar' = [bar EXCEPT ![k] = Stored(@, offset, put)]
        PROVE  Tensor!Next
    <3>1. Tensor!Store(k, offset, put)
      BY <2>8 DEF Tensor!Store, Stored
    <3>2. offset \in 0 .. Len(bar[k]) - 1 /\ k \in DOMAIN bar
      BY <2>5, <2>6
    <3> QED
      BY <3>1, <3>2 DEF Tensor!Next
  <2>9. ASSUME NEW k \in DOMAIN args, NEW offset \in 0 .. args[k].n - 1, Kernel(k, offset)
        PROVE  [Tensor!Next]_bar
    <3>1. k \in 1 .. Len(args)
      BY <2>4
    <3>2. CASE Load(k, offset)
      BY <1>3, <2>1, <2>2, <3>1, <3>2, LoadStep
    <3>3. ASSUME NEW data \in Arrays(1 .. MaxLen), StoreContiguous(k, offset, data)
          PROVE  Tensor!Next
      BY <1>3, <2>1, <2>2, <2>8, <3>1, <3>3, ContiguousStep
    <3>4. ASSUME NEW put \in Puts, StoreScattered(k, offset, put) PROVE Tensor!Next
      BY <1>3, <2>1, <2>2, <2>8, <3>1, <3>4, ScatteredStep
    <3> QED
      BY <2>9, <3>2, <3>3, <3>4 DEF Kernel
  <2>10. CASE Launch \/ UNCHANGED vars
    BY <2>10 DEF Launch, vars
  <2> QED
    BY <1>3, <2>7, <2>9, <2>10 DEF Next
<1> QED
  BY <1>2, <1>3, HbmInvariant, PTL DEF Spec, ImplementsTensors, Tensor!Spec
=============================================================================
