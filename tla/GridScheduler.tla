--------------------------- MODULE GridScheduler ---------------------------
(***************************************************************************)
(* GridExecutor.execute_with_communication: the single-threaded loop that  *)
(* drives one generator per core.  The set-up loop attaches the scheduler  *)
(* to the cores in id order and runs each to its first blocking receive;   *)
(* the delivery loop then repeatedly resumes the lowest core whose awaited *)
(* tile is queued, and raises when no parked core can be resumed.          *)
(*                                                                         *)
(* The steps of the core that holds the thread are actions of their own    *)
(* (RunSend, RunWork, Park, Complete, Raise), so that the state between two sends   *)
(* of one resume is visible.                                               *)
(***************************************************************************)
EXTENDS Integers, Sequences, FiniteSets

CONSTANTS
    N,          \* number of cores of the grid
    Programs,   \* the assignments of a program to each core
    MaxCalls    \* bound on execute_with_communication calls of one executor

Core == 0 .. N - 1
NoCore == -1
Step == [op : {"send", "recv", "work", "fail"}, peer : Core]
Tile == [src : Core, step : Nat \ {0}]
Channel == Core \X Core

ASSUME NAssumption == N \in Nat \ {0}
ASSUME ProgramsAssumption == Programs \subseteq [Core -> Seq(Step)]
ASSUME MaxCallsAssumption == MaxCalls \in Nat

VARIABLES
    prog,       \* the operation list, as the comm steps each core makes of it
    pc,         \* pc[c]: where core c's generator is suspended or running
    got,        \* got[c]: tiles its receives returned (the generator's locals)
    phase,      \* idle, setup, loop, or how the last call ended
    call,       \* calls that reached the set-up loop; names their queues
    calls,      \* calls made at all, bounded by MaxCalls
    bound,      \* bound[c]: the call whose send_fn core c holds, 0 for none
    nextCore,   \* the core the set-up loop attaches next
    messages,   \* messages[<<s, d>>], <<>> for an absent dictionary key
    stacks,     \* cores with a live CoreExecutionStack
    waiting,    \* waiting[c]: the source core c is parked on, or NoCore
    results,    \* cores whose final value is recorded
    running     \* the core holding the thread, or NoCore

vars == <<prog, pc, got, phase, call, calls, bound, nextCore, messages,
          stacks, waiting, results, running>>
client == <<prog, pc, got>>
table == <<stacks, waiting, results>>

Ended == {"done", "deadlock", "failed", "empty", "rejected"}
Phase == {"idle", "setup", "loop"} \cup Ended

AtEnd(c) == pc[c] = Len(prog[c]) + 1
At(c, o) == ~AtEnd(c) /\ prog[c][pc[c]].op = o
Peer(c) == prog[c][pc[c]].peer

NoTiles == [ch \in Channel |-> <<>>]

Init ==
    /\ prog \in Programs
    /\ pc = [c \in Core |-> 1]
    /\ got = [c \in Core |-> <<>>]
    /\ phase = "idle"
    /\ call = 0
    /\ calls = 0
    /\ bound = [c \in Core |-> 0]
    /\ nextCore = 0
    /\ messages = NoTiles
    /\ stacks = {}
    /\ waiting = [c \in Core |-> NoCore]
    /\ results = {}
    /\ running = NoCore

Callable == phase \in {"idle"} \cup Ended /\ calls < MaxCalls

(* An empty operation list returns [None] * num_cores before anything is   *)
(* set up; a handler that is not callable raises ValueError.               *)
CallRefused ==
    /\ Callable
    /\ phase' \in {"empty", "rejected"}
    /\ calls' = calls + 1
    /\ running' = NoCore
    /\ UNCHANGED <<client, call, bound, nextCore, messages, table>>

(* A faulty Call that shares the queues of the executor's earlier calls.   *)
Call_KeepsQueues ==
    /\ Callable
    /\ phase' = "setup"
    /\ call' = call + 1
    /\ calls' = calls + 1
    /\ nextCore' = 0
    /\ stacks' = {}
    /\ waiting' = [c \in Core |-> NoCore]
    /\ results' = {}
    /\ running' = NoCore
    /\ pc' = [c \in Core |-> 1]
    /\ got' = [c \in Core |-> <<>>]
    /\ UNCHANGED <<prog, bound, messages>>

(* The queues and tables are locals of the call.  The generators of an     *)
(* earlier call are unreachable, so the clients' state starts afresh.      *)
Call ==
    /\ Callable
    /\ phase' = "setup"
    /\ call' = call + 1
    /\ calls' = calls + 1
    /\ nextCore' = 0
    /\ messages' = NoTiles
    /\ stacks' = {}
    /\ waiting' = [c \in Core |-> NoCore]
    /\ results' = {}
    /\ running' = NoCore
    /\ pc' = [c \in Core |-> 1]
    /\ got' = [c \in Core |-> <<>>]
    /\ UNCHANGED <<prog, bound>>

(* A faulty Attach: one core too many. *)
Attach_OneTooMany ==
    /\ phase = "setup" /\ running = NoCore /\ nextCore <= N
    /\ bound' = [bound EXCEPT ![nextCore % N] = call]
    /\ stacks' = stacks \cup {nextCore}
    /\ running' = nextCore
    /\ nextCore' = nextCore + 1
    /\ UNCHANGED <<client, phase, call, calls, messages, waiting, results>>

(* A faulty Attach that keeps a send_fn the core has from an earlier call. *)
Attach_KeepsBinding ==
    /\ phase = "setup" /\ running = NoCore /\ nextCore < N
    /\ bound' = [bound EXCEPT ![nextCore] = IF @ = 0 THEN call ELSE @]
    /\ stacks' = stacks \cup {nextCore}
    /\ running' = nextCore
    /\ nextCore' = nextCore + 1
    /\ UNCHANGED <<client, phase, call, calls, messages, waiting, results>>

(* One round of the set-up loop, up to the call of _advance. *)
Attach ==
    /\ phase = "setup" /\ running = NoCore /\ nextCore < N
    /\ bound' = [bound EXCEPT ![nextCore] = call]
    /\ stacks' = stacks \cup {nextCore}
    /\ running' = nextCore
    /\ nextCore' = nextCore + 1
    /\ UNCHANGED <<client, phase, call, calls, messages, waiting, results>>

EnterLoop ==
    /\ phase = "setup" /\ running = NoCore /\ nextCore = N
    /\ phase' = "loop"
    /\ UNCHANGED <<client, call, calls, bound, nextCore, messages, table,
                   running>>

(* A faulty send that puts the tile at the head of the queue. *)
RunSend_Prepends(c) ==
    /\ running = c /\ At(c, "send") /\ bound[c] # 0
    /\ messages' = IF bound[c] = call
                   THEN [messages EXCEPT ![<<c, Peer(c)>>] =
                            <<[src |-> c, step |-> pc[c]]>> \o @]
                   ELSE messages
    /\ pc' = [pc EXCEPT ![c] = @ + 1]
    /\ UNCHANGED <<prog, got, phase, call, calls, bound, nextCore, table,
                   running>>

(* ctx.send_to: the tile goes to the queue of the call whose send_fn the   *)
(* core holds; the queues of an earlier call have no reader left.          *)
RunSend(c) ==
    /\ running = c /\ At(c, "send") /\ bound[c] # 0
    /\ messages' = IF bound[c] = call
                   THEN [messages EXCEPT ![<<c, Peer(c)>>] =
                            Append(@, [src |-> c, step |-> pc[c]])]
                   ELSE messages
    /\ pc' = [pc EXCEPT ![c] = @ + 1]
    /\ UNCHANGED <<prog, got, phase, call, calls, bound, nextCore, table,
                   running>>

(* An operation, or a part of one, that concerns this core alone. *)
RunWork(c) ==
    /\ running = c /\ At(c, "work")
    /\ pc' = [pc EXCEPT ![c] = @ + 1]
    /\ UNCHANGED <<prog, got, phase, call, calls, bound, nextCore, messages,
                   table, running>>

(* The generator yields RecvRequest(src): _advance parks the core. *)
Park(c) ==
    /\ running = c /\ At(c, "recv")
    /\ waiting' = [waiting EXCEPT ![c] = Peer(c)]
    /\ running' = NoCore
    /\ UNCHANGED <<client, phase, call, calls, bound, nextCore, messages,
                   stacks, results>>

(* A faulty return that leaves the stack in the table. *)
Complete_KeepsStack(c) ==
    /\ running = c /\ AtEnd(c)
    /\ results' = results \cup {c}
    /\ running' = NoCore
    /\ UNCHANGED <<client, phase, call, calls, bound, nextCore, messages,
                   stacks, waiting>>

(* The generator returns: _advance records the value and drops the stack. *)
Complete(c) ==
    /\ running = c /\ AtEnd(c)
    /\ results' = results \cup {c}
    /\ stacks' = stacks \ {c}
    /\ running' = NoCore
    /\ UNCHANGED <<client, phase, call, calls, bound, nextCore, messages,
                   waiting>>

(* A handler raises, send_to before any attach_scheduler included, or the  *)
(* generator yields something that is not a RecvRequest: the exception     *)
(* leaves the call.                                                        *)
Raises(c) == At(c, "fail") \/ (At(c, "send") /\ bound[c] = 0)

Raise(c) ==
    /\ running = c /\ Raises(c)
    /\ phase' = "failed"
    /\ running' = NoCore
    /\ UNCHANGED <<client, call, calls, bound, nextCore, messages, table>>

(* A faulty delivery loop that only ever looks at the first stack. *)
Deliverable_FirstStack ==
    {c \in stacks : /\ \A d \in stacks : c <= d
                    /\ waiting[c] # NoCore /\ messages[<<waiting[c], c>>] # <<>>}

(* The parked cores _try_deliver would resume. *)
Deliverable ==
    {c \in stacks : waiting[c] # NoCore /\ messages[<<waiting[c], c>>] # <<>>}

(* any() stops at the first success over tuple(stacks), which is in id     *)
(* order, and the next pass starts over.                                   *)
Deliver(c) ==
    /\ phase = "loop" /\ running = NoCore
    /\ c \in Deliverable
    /\ \A d \in Deliverable : c <= d
    /\ LET ch == <<waiting[c], c>> IN
         /\ got' = [got EXCEPT ![c] = Append(@, Head(messages[ch]))]
         /\ messages' = [messages EXCEPT ![ch] = Tail(@)]
    /\ waiting' = [waiting EXCEPT ![c] = NoCore]
    /\ pc' = [pc EXCEPT ![c] = @ + 1]
    /\ running' = c
    /\ UNCHANGED <<prog, phase, call, calls, bound, nextCore, stacks, results>>

(* while stacks: ... falls through, or finds nothing to deliver. *)
Return ==
    /\ phase = "loop" /\ running = NoCore /\ stacks = {}
    /\ phase' = "done"
    /\ UNCHANGED <<client, call, calls, bound, nextCore, messages, table,
                   running>>

(* A faulty delivery loop that polls on when nothing can be delivered. *)
RaiseDeadlock_Polls ==
    /\ phase = "loop" /\ running = NoCore /\ stacks # {} /\ Deliverable = {}
    /\ UNCHANGED vars

RaiseDeadlock ==
    /\ phase = "loop" /\ running = NoCore /\ stacks # {} /\ Deliverable = {}
    /\ phase' = "deadlock"
    /\ UNCHANGED <<client, call, calls, bound, nextCore, messages, table,
                   running>>

Advance(c) == RunSend(c) \/ RunWork(c) \/ Park(c) \/ Complete(c) \/ Raise(c)

(* What the thread does once a call is under way. *)
Drive ==
    \/ Attach
    \/ EnterLoop
    \/ Return
    \/ RaiseDeadlock
    \/ \E c \in Core : Advance(c) \/ Deliver(c)

Next == CallRefused \/ Call \/ Drive

(* The loop is one Python thread: it keeps running while it has a step. *)
Spec == Init /\ [][Next]_vars /\ WF_vars(Drive)

----------------------------------------------------------------------------
TypeOK ==
    /\ prog \in Programs
    /\ pc \in [Core -> Nat]
    /\ \A c \in Core : pc[c] \in 1 .. Len(prog[c]) + 1
    /\ got \in [Core -> Seq(Tile)]
    /\ phase \in Phase
    /\ calls \in 0 .. MaxCalls
    /\ call \in 0 .. calls
    /\ bound \in [Core -> 0 .. call]
    /\ nextCore \in 0 .. N
    /\ messages \in [Channel -> Seq(Tile)]
    /\ stacks \subseteq Core
    /\ waiting \in [Core -> Core \cup {NoCore}]
    /\ results \subseteq Core
    /\ running \in Core \cup {NoCore}

Active == phase \in {"setup", "loop"}

(* The three tables agree with the cores: while a call drives them, every  *)
(* attached core holds the thread, or is parked on exactly the source its  *)
(* generator asked for, or has returned and recorded its result -- never   *)
(* two of these, never none -- and it sends to the queues of this call.    *)
SchedulerBookkeeping ==
    Active =>
      /\ stacks \cap results = {}
      /\ stacks \cup results = 0 .. nextCore - 1
      /\ running = NoCore \/ running \in stacks
      /\ \A c \in stacks \ {running} : At(c, "recv") /\ waiting[c] = Peer(c)
      /\ \A c \in Core : c \notin stacks \ {running} => waiting[c] = NoCore
      /\ \A c \in results : AtEnd(c)
      /\ \A c \in stacks : bound[c] = call
      /\ phase = "loop" => nextCore = N

(* send_to loses nothing: a tile this call's cores have sent is in the     *)
(* queue of its destination or has been returned by a receive there.       *)
NothingLost ==
    \A s \in Core : \A i \in 1 .. pc[s] - 1 :
        prog[s][i].op = "send" =>
          LET d == prog[s][i].peer
              tile == [src |-> s, step |-> i]
          IN  \/ \E j \in DOMAIN got[d] : got[d][j] = tile
              \/ \E j \in DOMAIN messages[<<s, d>>] : messages[<<s, d>>][j] = tile

(* Per channel, tiles are received in the order they were sent and never   *)
(* twice: what a receive returned was sent before everything still queued, *)
(* and both lists are in program order of the sender.                      *)
InOrder ==
    \A d \in Core :
      /\ \A i, j \in DOMAIN got[d] :
           i < j /\ got[d][i].src = got[d][j].src => got[d][i].step < got[d][j].step
      /\ \A s \in Core : LET q == messages[<<s, d>>] IN
           /\ \A i, j \in DOMAIN q : i < j => q[i].step < q[j].step
           /\ \A i \in DOMAIN got[d], j \in DOMAIN q :
                got[d][i].src = s => got[d][i].step < q[j].step

(* "Deadlock detected" is raised only when it is one: no core holds the    *)
(* thread, some core has not returned, and every such core waits for a     *)
(* tile that is not queued and that only another waiting core could send.  *)
DeadlockIsReal ==
    phase = "deadlock" =>
      /\ stacks # {} /\ running = NoCore
      /\ \A c \in stacks : At(c, "recv") /\ messages[<<Peer(c), c>>] = <<>>
      /\ \A c \in Core \ stacks : AtEnd(c)

(* Every call ends: with results, with a deadlock report or with the       *)
(* exception of a core.                                                    *)
EveryCallEnds == Active ~> (phase \in Ended)

(* The promise of MessageNetwork, with the scheduler's tables hidden. *)
Net == INSTANCE MessageNetwork WITH
          channel <- messages,
          verdict <- IF Active THEN "running" ELSE phase

NetSpec == Net!Spec
OutcomeIsScheduleIndependent == Net!OutcomeIsScheduleIndependent
============================================================================
