----------------------------- MODULE HbmMemory -----------------------------
(***************************************************************************)
(* The shared HBM over one execute_function: the host places the tensor    *)
(* arguments with allocate and hbm_write, the kernels load and store       *)
(* through pointers into them, and the host reads each argument back.      *)
(* A kernel access starts inside a tensor; it may run past its end.        *)
(***************************************************************************)
EXTENDS AllocStore

CONSTANTS
    Val,        \* element values
    Lengths,    \* the lengths of tensor arguments
    MaxLen,     \* longest array of a kernel access
    MaxTensors, \* bound on the tensor arguments
    Stick       \* STICK_BYTES, in elements

ASSUME BoundsAssumption == MaxLen \in Nat /\ MaxTensors \in Nat /\ Stick \in Nat \ {0}
(* allocate gives an argument of no elements the base of the next one.     *)
ASSUME LengthsAssumption == Lengths \subseteq 1 .. MaxLen

VARIABLES
    store,      \* HBMSimulator.memory and its cache entry
    nextPtr,    \* HBMSimulator.next_ptr
    args,       \* input_byte_ptrs and the shape of each argument
    placed      \* the host is done placing arguments

vars == <<store, nextPtr, args, placed>>

Align(ptr) == ((ptr + Stick - 1) \div Stick) * Stick

Init ==
    /\ store = EmptyStore
    /\ nextPtr = Stick
    /\ args = <<>>
    /\ placed = FALSE

(* One round of the argument loop: allocate, then write the tensor. *)
Place(data) ==
    /\ ~placed /\ Len(args) < MaxTensors
    /\ nextPtr' = Align(nextPtr + Len(data))
    /\ store' = Write(store, nextPtr, data)
    /\ args' = Append(args, [base |-> nextPtr, n |-> Len(data)])
    /\ UNCHANGED placed

Launch ==
    /\ ~placed
    /\ placed' = TRUE
    /\ UNCHANGED <<store, nextPtr, args>>

(* A pointer into the k-th argument. *)
Pointer(k, offset) == args[k].base + offset

Load(k, offset) ==
    /\ placed
    /\ store' = Searched(store, Pointer(k, offset))
    /\ UNCHANGED <<nextPtr, args, placed>>

(* The fast path of MemoryOps.store: a contiguous tile. *)
StoreContiguous(k, offset, data) ==
    /\ placed
    /\ store' = Write(store, Pointer(k, offset), data)
    /\ UNCHANGED <<nextPtr, args, placed>>

StoreScattered(k, offset, put) ==
    /\ placed
    /\ store' = Scatter(store, Pointer(k, offset), put)
    /\ UNCHANGED <<nextPtr, args, placed>>

Arrays(lengths) == UNION {[1 .. n -> Val] : n \in lengths}
Puts == UNION {[P -> Val] : P \in (SUBSET (1 .. MaxLen)) \ {{}}}

Kernel(k, offset) ==
    \/ Load(k, offset)
    \/ \E data \in Arrays(1 .. MaxLen) : StoreContiguous(k, offset, data)
    \/ \E put \in Puts : StoreScattered(k, offset, put)

Next ==
    \/ \E data \in Arrays(Lengths) : Place(data)
    \/ Launch
    \/ \E k \in DOMAIN args : \E offset \in 0 .. args[k].n - 1 : Kernel(k, offset)

Spec == Init /\ [][Next]_vars

----------------------------------------------------------------------------
(* Whenever the length of the key cache is that of the store, it lists the *)
(* store's bases, whatever lookups and stores came between.                *)
CacheIsSound == SoundCache(store)

(* A load that starts in a tensor gets the elements of that tensor, and    *)
(* zeros beyond its end, never the elements of the next tensor.            *)
OverreadsAreZero ==
    \A k \in DOMAIN args : \A offset \in 0 .. args[k].n - 1 :
        LET got == Read(store, Pointer(k, offset), MaxLen)
        IN  \A i \in 1 .. MaxLen :
               got[i] = IF offset + i <= args[k].n
                        THEN store.memory[args[k].base][offset + i] ELSE Zero

(* Every argument keeps an array of its own, of its own length, no two     *)
(* share an address (memory.py line 186), and no load sees two of them,    *)
(* whatever the kernels store.                                             *)
ArgumentsAreApart ==
    /\ Apart(store)
    /\ \A k \in DOMAIN args :
         /\ args[k].base \in Bases(store)
         /\ Len(store.memory[args[k].base]) = args[k].n
    /\ OverreadsAreZero

(* What the read-back at the end of execute_function returns for each      *)
(* argument is what TensorMemory promises.                                 *)
Tensor == INSTANCE TensorMemory WITH
    tensors <- [k \in DOMAIN args |-> Read(store, args[k].base, args[k].n)]

ImplementsTensors == Tensor!Spec
=============================================================================
