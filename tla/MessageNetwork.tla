-------------------------- MODULE MessageNetwork --------------------------
(***************************************************************************)
(* What the cross-core scheduler promises its clients, whatever order it   *)
(* steps the cores in: send_to never blocks, a RecvRequest(src) is answered*)
(* with the oldest undelivered tile of src, and a run ends with a result   *)
(* for every core, with "Deadlock detected", or with the exception a core  *)
(* raised.  GridScheduler is the deterministic loop that implements it.    *)
(*                                                                         *)
(* A client is a program: the sequence of the sends, receives, plain       *)
(* computations ("work") and raises that one core's generator performs.    *)
(***************************************************************************)
EXTENDS Integers, Sequences, FiniteSets

CONSTANTS
    N,          \* number of cores of the grid, at least 1
    Programs    \* the assignments of a program, in Seq(Step), to each core

Core == 0 .. N - 1
Step == [op : {"send", "recv", "work", "fail"}, peer : Core]

(* A tile is named by the send step that put it on the wire. *)
Tile == [src : Core, step : Nat \ {0}]
Channel == Core \X Core

VARIABLES
    prog,       \* prog[c]: what core c's generator does
    pc,         \* pc[c]: the step core c executes next
    channel,    \* channel[<<s, d>>]: tiles sent by s and not yet received by d
    got,        \* got[c]: the tiles core c's receives returned, in order
    verdict     \* how the last call ended, "idle" or "running"

vars == <<prog, pc, channel, got, verdict>>

AtEnd(c) == pc[c] = Len(prog[c]) + 1
At(c, o) == ~AtEnd(c) /\ prog[c][pc[c]].op = o
Peer(c) == prog[c][pc[c]].peer
Stuck(c) == At(c, "recv") /\ channel[<<Peer(c), c>>] = <<>>

NoTiles == [ch \in Channel |-> <<>>]

Init ==
    /\ prog \in Programs
    /\ pc = [c \in Core |-> 1]
    /\ channel = NoTiles
    /\ got = [c \in Core |-> <<>>]
    /\ verdict = "idle"

Call ==
    /\ verdict # "running"
    /\ pc' = [c \in Core |-> 1]
    /\ channel' = NoTiles
    /\ got' = [c \in Core |-> <<>>]
    /\ verdict' = "running"
    /\ UNCHANGED prog

Refuse ==
    /\ verdict # "running"
    /\ verdict' \in {"empty", "rejected"}
    /\ UNCHANGED <<prog, pc, channel, got>>

Send(c) ==
    /\ verdict = "running" /\ At(c, "send")
    /\ channel' = [channel EXCEPT ![<<c, Peer(c)>>] =
                      Append(@, [src |-> c, step |-> pc[c]])]
    /\ pc' = [pc EXCEPT ![c] = @ + 1]
    /\ UNCHANGED <<prog, got, verdict>>

Recv(c) ==
    /\ verdict = "running" /\ At(c, "recv") /\ ~Stuck(c)
    /\ got' = [got EXCEPT ![c] = Append(@, Head(channel[<<Peer(c), c>>]))]
    /\ channel' = [channel EXCEPT ![<<Peer(c), c>>] = Tail(@)]
    /\ pc' = [pc EXCEPT ![c] = @ + 1]
    /\ UNCHANGED <<prog, verdict>>

Work(c) ==
    /\ verdict = "running" /\ At(c, "work")
    /\ pc' = [pc EXCEPT ![c] = @ + 1]
    /\ UNCHANGED <<prog, channel, got, verdict>>

Conclude ==
    /\ verdict = "running"
    /\ verdict' = CASE \E c \in Core : At(c, "fail") -> "failed"
                    [] \A c \in Core : AtEnd(c) -> "done"
                    [] OTHER -> "deadlock"
    /\ \/ \E c \in Core : At(c, "fail")
       \/ \A c \in Core : AtEnd(c) \/ Stuck(c)
    /\ UNCHANGED <<prog, pc, channel, got>>

Next == Call \/ Refuse \/ Conclude \/ \E c \in Core : Send(c) \/ Recv(c) \/ Work(c)

Spec == Init /\ [][Next]_vars

----------------------------------------------------------------------------
(***************************************************************************)
(* The outcome computed from the programs alone.  Count(c, o, q, i) is the *)
(* number of o-steps towards q among the first i - 1 steps of c.  A vector *)
(* of positions is Closed when no core standing there can move; the run    *)
(* ends in the least such vector, whatever the order of its steps.         *)
(***************************************************************************)
Count(c, o, q, i) ==
    Cardinality({k \in 1 .. i - 1 : prog[c][k] = [op |-> o, peer |-> q]})

Positions == {at \in [Core -> 1 .. 1 + Cardinality(UNION {DOMAIN prog[c] : c \in Core})] :
                 \A c \in Core : at[c] <= Len(prog[c]) + 1}

Closed(at) ==
    \A c \in Core : at[c] <= Len(prog[c]) =>
        LET step == prog[c][at[c]]
        IN  \/ step.op = "fail"
            \/ /\ step.op = "recv"
               /\ Count(step.peer, "send", c, at[step.peer])
                     <= Count(c, "recv", step.peer, at[c])

Outcome ==
    LET closed == {at \in Positions : Closed(at)}
    IN  CHOOSE at \in closed :
           \A other \in closed : \A c \in Core : at[c] <= other[c]

(* The n-th receive of c from q returns the n-th send of q to c. *)
Answer(c, i) ==
    LET q == prog[c][i].peer
    IN  [src |-> q,
         step |-> CHOOSE j \in DOMAIN prog[q] :
                     /\ prog[q][j] = [op |-> "send", peer |-> c]
                     /\ Count(q, "send", c, j) = Count(c, "recv", q, i)]

(* A kernel's outcome does not depend on the order in which the scheduler  *)
(* steps the cores: every tile a receive has returned is the one the       *)
(* programs alone determine, and a call ends in a deadlock report, a       *)
(* result, or an exception exactly when the programs alone do, with every  *)
(* core where the programs alone leave it.                                 *)
OutcomeIsScheduleIndependent ==
    /\ \A c \in Core : LET recvs == {i \in 1 .. pc[c] - 1 : prog[c][i].op = "recv"}
                     IN  /\ Len(got[c]) = Cardinality(recvs)
                         /\ \A i \in recvs :
                               got[c][Cardinality(recvs \cap 1 .. i)] = Answer(c, i)
    /\ verdict \in {"done", "deadlock", "failed"} =>
         LET end == Outcome
             failing == {c \in Core : /\ end[c] <= Len(prog[c])
                                      /\ prog[c][end[c]].op = "fail"}
         IN  /\ (verdict = "failed") = (failing # {})
             /\ verdict # "failed" =>
                  /\ pc = end
                  /\ (verdict = "done") = \A c \in Core : AtEnd(c)
============================================================================
