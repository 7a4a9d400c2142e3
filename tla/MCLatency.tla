----------------------------- MODULE MCLatency -----------------------------
(* Ops of every category; one core more than the smaller grid. *)
EXTENDS Latency

Part(space, sticks, bytes) == [space |-> space, sticks |-> sticks, bytes |-> bytes]
Access(load, parts, index) == [cat |-> "memory", load |-> load, parts |-> parts, index |-> index]
Elementwise(cat, elems) == [cat |-> cat, elems |-> elems]

MCOps ==
    {Access(TRUE, <<Part("HBM", 1, 4)>>, <<>>), Access(FALSE, <<Part("HBM", 3, 12)>>, <<>>),
     Access(TRUE, <<Part("LX", 0, 4)>>, <<>>), Access(TRUE, <<Part("HBM", 1, 4), Part("LX", 0, 8)>>, <<>>),
     Access(TRUE, <<Part("HBM", 2, 2)>>, <<Part("HBM", 1, 4), Part("LX", 0, 4)>>),
     Access(FALSE, <<Part("LX", 0, 4)>>, <<Part("HBM", 1, 4)>>),
     Elementwise("compute_float", 4), Elementwise("compute_transcendental", 2),
     Elementwise("compute_int", 1), [cat |-> "compute_matmul", flops |-> 16],
     [cat |-> "comm", bytes |-> 4], [cat |-> "comm", bytes |-> -1], [cat |-> "zero"]}
=============================================================================
