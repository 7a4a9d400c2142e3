---------------------------- MODULE TensorMemory ----------------------------
(***************************************************************************)
(* What execute_function promises its caller about HBM: each tensor        *)
(* argument is an array of its own, a kernel store through a pointer into  *)
(* it changes the elements it names and no other argument's, elements      *)
(* outside the array are not stored, and the read-back returns the array.  *)
(***************************************************************************)
EXTENDS Integers, Sequences

CONSTANTS
    Val,        \* element values
    MaxLen,     \* longest tensor
    MaxTensors  \* bound on the tensor arguments

VARIABLE
    tensors     \* tensors[k]: the elements of the k-th tensor argument

Arrays == UNION {[1 .. n -> Val] : n \in 1 .. MaxLen}
Puts == UNION {[P -> Val] : P \in (SUBSET (1 .. MaxLen)) \ {{}}}

Init == tensors = <<>>

Place(data) ==
    /\ Len(tensors) < MaxTensors
    /\ tensors' = Append(tensors, data)

(* The elements at offset + DOMAIN put, those that exist. *)
Store(k, offset, put) ==
    tensors' = [tensors EXCEPT ![k] =
        [i \in DOMAIN @ |-> IF i - offset \in DOMAIN put THEN put[i - offset] ELSE @[i]]]

Next ==
    \/ \E data \in Arrays : Place(data)
    \/ \E k \in DOMAIN tensors, put \in Puts :
          \E offset \in 0 .. Len(tensors[k]) - 1 : Store(k, offset, put)

Spec == Init /\ [][Next]_tensors
=============================================================================
