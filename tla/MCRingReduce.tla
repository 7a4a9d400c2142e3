---------------------------- MODULE MCRingReduce ----------------------------
(* Small instances of RingReduce. *)
EXTENDS RingReduce

(* Every way to declare the groups' producers; all-reduce within them, or  *)
(* one consumer per group, which may be outside the group.                 *)
MCFamilies ==
    {f \in Family :
        \/ f.consumers = f.producers
        \/ \A g \in Group : Cardinality(f.consumers[g]) = 1}

(* The families that put every core in exactly one group. *)
MCPartitions ==
    {f \in MCFamilies : \A c \in Core : Cardinality({g \in Group : c \in f.producers[g]}) = 1}

AllReduces(families) == {f \in families : f.consumers = f.producers}

(* One produce and reduce repeated by a loop, whatever sets it declares;   *)
(* or different ones in a row, the later with other groups than the first. *)
MCKernels ==
    {[r \in 1 .. Ops |-> f] : f \in MCFamilies}
      \cup [1 .. Ops -> AllReduces(MCPartitions)]
=============================================================================
