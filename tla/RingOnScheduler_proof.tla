----------------------- MODULE RingOnScheduler_proof -----------------------
(***************************************************************************)
(* Proofs about GridScheduler, and about the ring reduce as its client.    *)
(*                                                                         *)
(* The first part is for every grid size, every assignment of programs and *)
(* every number of calls.  Its inductive invariant is                      *)
(* TypeOK /\ SchedulerBookkeeping with one fact about the idle scheduler.  *)
(*                                                                         *)
(* The second part is for one call of a kernel of any number of reduces    *)
(* (RunsTheRing), on a grid of any size: the scheduler running it          *)
(* implements RingReduce.  A reduce is a row of OpLength steps and of      *)
(* N - 1 tiles.  Where a core stands tells how many tiles it has sent and  *)
(* taken, and the tile number n of a channel is the same, whoever looks:   *)
(* the one the receiver got n-th, or finds in the queue, is the one its    *)
(* neighbour sent n-th.                                                    *)
(***************************************************************************)
EXTENDS RingOnScheduler, CommonLemmas

(* No core holds the thread between two calls, and a call has a number. *)
ThreadIsFree == IF Active THEN call # 0 ELSE running = NoCore

IndInv == TypeOK /\ SchedulerBookkeeping /\ ThreadIsFree

(* A program's steps are steps, so a peer is a core. *)
LEMMA StepType ==
    ASSUME TypeOK, NEW c \in Core, ~AtEnd(c)
    PROVE  /\ prog[c] \in Seq(Step)
           /\ pc[c] \in 1 .. Len(prog[c])
           /\ Peer(c) \in Core
           /\ pc[c] + 1 \in 1 .. Len(prog[c]) + 1
<1>1. prog[c] \in Seq(Step)
  BY ProgramsAssumption DEF TypeOK
<1>2. pc[c] \in 1 .. Len(prog[c]) + 1 /\ Len(prog[c]) \in Nat
  BY <1>1 DEF TypeOK
<1>3. pc[c] \in 1 .. Len(prog[c])
  BY <1>2 DEF AtEnd
<1>4. prog[c][pc[c]] \in Step
  BY <1>1, <1>3
<1> QED
  BY <1>1, <1>2, <1>3, <1>4 DEF Peer, Step

LEMMA InitInd == Init => IndInv
<1> SUFFICES ASSUME Init PROVE IndInv
  OBVIOUS
<1>1. prog \in [Core -> Seq(Step)]
  BY ProgramsAssumption DEF Init
<1>2. \A c \in Core : Len(prog[c]) \in Nat
  BY <1>1
<1>3. TypeOK
  BY <1>1, <1>2, NAssumption, MaxCallsAssumption DEF Init, TypeOK, NoTiles, Phase, Tile
<1>4. SchedulerBookkeeping /\ ThreadIsFree
  BY DEF Init, SchedulerBookkeeping, ThreadIsFree, Active
<1> QED
  BY <1>3, <1>4 DEF IndInv

(* What the types and the bookkeeping say of a core that can be resumed. *)
LEMMA DeliverableType ==
    ASSUME IndInv, phase = "loop", running = NoCore, NEW c \in Deliverable
    PROVE  /\ c \in Core /\ c \in stacks
           /\ ~AtEnd(c) /\ At(c, "recv")
           /\ waiting[c] = Peer(c) /\ waiting[c] \in Core
           /\ <<waiting[c], c>> \in Channel
           /\ messages[<<waiting[c], c>>] \in Seq(Tile)
           /\ messages[<<waiting[c], c>>] # <<>>
<1>1. c \in Core /\ c \in stacks /\ waiting[c] # NoCore
      /\ messages[<<waiting[c], c>>] # <<>>
  BY DEF IndInv, TypeOK, Deliverable
<1>2. waiting[c] \in Core
  BY <1>1 DEF IndInv, TypeOK
<1>3. c \in stacks \ {running}
  BY <1>1 DEF Core, NoCore
<1>4. At(c, "recv") /\ waiting[c] = Peer(c)
  BY <1>3 DEF IndInv, SchedulerBookkeeping, Active
<1>5. <<waiting[c], c>> \in Channel
  BY <1>1, <1>2 DEF Channel
<1> QED
  BY <1>1, <1>2, <1>4, <1>5 DEF At, IndInv, TypeOK

LEMMA TypeStep == IndInv /\ [Next]_vars => TypeOK'
<1> SUFFICES ASSUME IndInv, [Next]_vars PROVE TypeOK'
  OBVIOUS
<1>0. TypeOK
  BY DEF IndInv
<1> USE DEF TypeOK, client, table
<1>1. CASE CallRefused
  BY <1>0, <1>1, MaxCallsAssumption DEF CallRefused, Callable, Ended, Phase
<1>2. CASE Call
  <2>1. \A c \in Core : prog[c] \in Seq(Step) /\ Len(prog[c]) \in Nat
    BY <1>0, ProgramsAssumption
  <2>2. pc' \in [Core -> Nat] /\ \A c \in Core : pc'[c] \in 1 .. Len(prog'[c]) + 1
    BY <2>1, <1>2 DEF Call
  <2>3. calls' \in 0 .. MaxCalls /\ call' \in 0 .. calls' /\ bound' \in [Core -> 0 .. call']
    BY <1>0, <1>2, MaxCallsAssumption DEF Call, Callable
  <2> QED
    BY <1>0, <1>2, <2>2, <2>3, NAssumption DEF Call, Phase, NoTiles
<1>3. CASE Attach
  <2>1. nextCore \in Core /\ nextCore + 1 \in 0 .. N
    BY <1>0, <1>3, NAssumption DEF Attach, Core
  <2>2. call \in 0 .. call
    BY <1>0, MaxCallsAssumption
  <2>3. bound' \in [Core -> 0 .. call']
    BY <1>0, <1>3, <2>1, <2>2 DEF Attach
  <2> QED
    BY <1>0, <1>3, <2>1, <2>3 DEF Attach
<1>4. CASE EnterLoop
  BY <1>0, <1>4 DEF EnterLoop, Phase
<1>5. ASSUME NEW c \in Core, RunSend(c) PROVE TypeOK'
  <2>1. ~AtEnd(c)
    BY <1>5 DEF RunSend, At
  <2>2. Peer(c) \in Core /\ pc[c] \in Nat \ {0} /\ pc[c] + 1 \in 1 .. Len(prog[c]) + 1
    BY <1>0, <2>1, StepType
  <2>3. [src |-> c, step |-> pc[c]] \in Tile /\ <<c, Peer(c)>> \in Channel
    BY <2>2 DEF Tile, Channel
  <2>4. messages' \in [Channel -> Seq(Tile)]
    BY <1>0, <1>5, <2>3 DEF RunSend
  <2>5. pc' \in [Core -> Nat] /\ \A d \in Core : pc'[d] \in 1 .. Len(prog'[d]) + 1
    BY <1>0, <1>5, <2>2, SMTT(20) DEF RunSend
  <2> QED
    BY <1>0, <1>5, <2>4, <2>5 DEF RunSend
<1>6. ASSUME NEW c \in Core, RunWork(c) PROVE TypeOK'
  <2>1. pc[c] + 1 \in 1 .. Len(prog[c]) + 1 /\ pc[c] \in Nat
    BY <1>0, <1>6, StepType DEF RunWork, At
  <2>2. pc' \in [Core -> Nat] /\ \A d \in Core : pc'[d] \in 1 .. Len(prog'[d]) + 1
    BY <1>0, <1>6, <2>1 DEF RunWork
  <2> QED
    BY <1>0, <1>6, <2>2 DEF RunWork
<1>7. ASSUME NEW c \in Core, Park(c) PROVE TypeOK'
  <2>1. Peer(c) \in Core
    BY <1>0, <1>7, StepType DEF Park, At
  <2> QED
    BY <1>0, <1>7, <2>1 DEF Park
<1>8. ASSUME NEW c \in Core, Complete(c) PROVE TypeOK'
  BY <1>0, <1>8 DEF Complete
<1>9. ASSUME NEW c \in Core, Raise(c) PROVE TypeOK'
  BY <1>0, <1>9 DEF Raise, Phase, Ended
<1>10. ASSUME NEW c \in Core, Deliver(c) PROVE TypeOK'
  <2>1. phase = "loop" /\ running = NoCore /\ c \in Deliverable
    BY <1>10 DEF Deliver
  <2> DEFINE ch == <<waiting[c], c>>
  <2>2. ch \in Channel /\ messages[ch] \in Seq(Tile) /\ messages[ch] # <<>> /\ ~AtEnd(c)
    BY <2>1, DeliverableType
  <2>3. Head(messages[ch]) \in Tile /\ Tail(messages[ch]) \in Seq(Tile)
    BY <2>2
  <2>4. pc[c] + 1 \in 1 .. Len(prog[c]) + 1 /\ pc[c] \in Nat
    BY <1>0, <2>2, StepType
  <2>5. pc' \in [Core -> Nat] /\ \A d \in Core : pc'[d] \in 1 .. Len(prog'[d]) + 1
    BY <1>0, <1>10, <2>4, SMTT(20) DEF Deliver
  <2>6. got' \in [Core -> Seq(Tile)] /\ messages' \in [Channel -> Seq(Tile)]
    BY <1>0, <1>10, <2>2, <2>3 DEF Deliver
  <2> QED
    BY <1>0, <1>10, <2>5, <2>6 DEF Deliver
<1>11. CASE Return
  BY <1>0, <1>11 DEF Return, Phase, Ended
<1>12. CASE RaiseDeadlock
  BY <1>0, <1>12 DEF RaiseDeadlock, Phase, Ended
<1>13. CASE UNCHANGED vars
  BY <1>0, <1>13 DEF vars
<1> QED
  BY <1>1, <1>2, <1>3, <1>4, <1>5, <1>6, <1>7, <1>8, <1>9, <1>10, <1>11, <1>12, <1>13
     DEF Next, Drive, Advance
LEMMA BookkeepingStep == IndInv /\ [Next]_vars => SchedulerBookkeeping'
<1> SUFFICES ASSUME IndInv, [Next]_vars PROVE SchedulerBookkeeping'
  OBVIOUS
<1>0. TypeOK /\ SchedulerBookkeeping /\ ThreadIsFree
  BY DEF IndInv
<1> USE DEF SchedulerBookkeeping, Active, client, table, At, AtEnd, Peer
<1>1. CASE CallRefused
  BY <1>1 DEF CallRefused
<1>2. CASE Call
  BY <1>2 DEF Call, NoCore
<1>3. CASE Attach
  <2>1. nextCore \in Core /\ nextCore \notin stacks \cup results
    BY <1>0, <1>3, NAssumption DEF Attach, Core, TypeOK
  <2>2. stacks' \cup results' = 0 .. nextCore' - 1
    BY <1>0, <1>3, NAssumption DEF Attach, TypeOK
  <2>3. stacks' \cap results' = {}
    BY <1>0, <1>3, <2>1 DEF Attach
  <2>4. stacks' \ {running'} = stacks \ {running}
    BY <1>0, <1>3, <2>1 DEF Attach, TypeOK, NoCore, Core
  <2>5. \A c \in stacks' : bound'[c] = call'
    BY <1>0, <1>3, <2>1 DEF Attach, TypeOK
  <2> QED
    BY <1>0, <1>3, <2>1, <2>2, <2>3, <2>4, <2>5 DEF Attach
<1>4. CASE EnterLoop
  BY <1>0, <1>4 DEF EnterLoop
<1>5. ASSUME NEW c \in Core, RunSend(c) \/ RunWork(c) PROVE SchedulerBookkeeping'
  <2>1. Active /\ Active' /\ c \in stacks
    BY <1>0, <1>5 DEF RunSend, RunWork, ThreadIsFree, NoCore, Core
  <2>2. \A d \in Core \ {c} : pc'[d] = pc[d]
    BY <1>0, <1>5 DEF RunSend, RunWork, TypeOK
  <2>3. UNCHANGED <<prog, phase, call, bound, nextCore, stacks, waiting, results, running>>
    BY <1>5 DEF RunSend, RunWork
  <2>4. running = c
    BY <1>5 DEF RunSend, RunWork
  <2> QED
    BY <1>0, <2>1, <2>2, <2>3, <2>4 DEF TypeOK
<1>6. ASSUME NEW c \in Core, Park(c) PROVE SchedulerBookkeeping'
  <2>1. Active /\ c \in stacks
    BY <1>0, <1>6 DEF Park, ThreadIsFree, NoCore, Core
  <2>2. waiting'[c] = Peer(c) /\ \A d \in Core \ {c} : waiting'[d] = waiting[d]
    BY <1>0, <1>6 DEF Park, TypeOK
  <2>3. UNCHANGED <<prog, pc, phase, call, bound, nextCore, stacks, results>>
    BY <1>6 DEF Park
  <2>4. running = c /\ At(c, "recv") /\ running' = NoCore /\ NoCore \notin Core
    BY <1>6 DEF Park, NoCore, Core
  <2>5. \A d \in stacks' \ {running'} : At(d, "recv")' /\ waiting'[d] = Peer(d)'
    BY <1>0, <2>1, <2>2, <2>3, <2>4 DEF TypeOK
  <2>6. \A d \in Core : d \notin stacks' \ {running'} => waiting'[d] = NoCore
    BY <1>0, <2>1, <2>2, <2>3, <2>4
  <2> QED
    BY <1>0, <2>1, <2>3, <2>4, <2>5, <2>6
<1>7. ASSUME NEW c \in Core, Complete(c) PROVE SchedulerBookkeeping'
  <2>1. Active /\ c \in stacks
    BY <1>0, <1>7 DEF Complete, ThreadIsFree, NoCore, Core
  <2>2. stacks' \ {running'} = stacks \ {running}
    BY <1>0, <1>7, <2>1 DEF Complete, TypeOK, NoCore, Core
  <2> QED
    BY <1>0, <1>7, <2>1, <2>2 DEF Complete, TypeOK
<1>8. ASSUME NEW c \in Core, Raise(c) PROVE SchedulerBookkeeping'
  BY <1>8 DEF Raise
<1>9. ASSUME NEW c \in Core, Deliver(c) PROVE SchedulerBookkeeping'
  <2>1. phase = "loop" /\ running = NoCore /\ c \in Deliverable /\ c \in stacks
    BY <1>9, DeliverableType DEF Deliver
  <2>2. \A d \in Core \ {c} : pc'[d] = pc[d] /\ waiting'[d] = waiting[d]
    BY <1>0, <1>9 DEF Deliver, TypeOK
  <2>3. \A d \in results : d \in Core \ {c}
    BY <1>0, <2>1 DEF TypeOK
  <2>4. waiting'[c] = NoCore /\ running' = c
    BY <1>0, <1>9 DEF Deliver, TypeOK
  <2>5. UNCHANGED <<prog, phase, call, bound, nextCore, stacks, results>>
    BY <1>9 DEF Deliver
  <2>6. NoCore \notin Core /\ stacks \subseteq Core
    BY <1>0 DEF TypeOK, NoCore, Core
  <2>7. \A d \in stacks' \ {running'} : At(d, "recv")' /\ waiting'[d] = Peer(d)'
    BY <1>0, <2>1, <2>2, <2>4, <2>5, <2>6
  <2>8. \A d \in Core : d \notin stacks' \ {running'} => waiting'[d] = NoCore
    BY <1>0, <2>1, <2>2, <2>4, <2>5, <2>6
  <2> QED
    BY <1>0, <2>1, <2>2, <2>3, <2>4, <2>5, <2>7, <2>8
<1>10. CASE Return \/ RaiseDeadlock
  BY <1>10 DEF Return, RaiseDeadlock
<1>11. CASE UNCHANGED vars
  BY <1>0, <1>11 DEF vars
<1> QED
  BY <1>1, <1>2, <1>3, <1>4, <1>5, <1>6, <1>7, <1>8, <1>9, <1>10, <1>11
     DEF Next, Drive, Advance

LEMMA ThreadStep == IndInv /\ [Next]_vars => ThreadIsFree'
<1> SUFFICES ASSUME IndInv, [Next]_vars PROVE ThreadIsFree'
  OBVIOUS
<1>0. ThreadIsFree /\ TypeOK
  BY DEF IndInv
<1> USE DEF ThreadIsFree, Active, client, table
<1>1. CASE CallRefused \/ Call \/ Attach \/ EnterLoop \/ Return \/ RaiseDeadlock
  <2>1. call \in Nat
    BY <1>0, MaxCallsAssumption DEF TypeOK
  <2>2. CASE Call
    BY <2>1, <2>2 DEF Call
  <2>3. CASE CallRefused \/ Return \/ RaiseDeadlock
    BY <1>0, <2>3 DEF CallRefused, Return, RaiseDeadlock
  <2>4. CASE Attach \/ EnterLoop
    BY <1>0, <2>4 DEF Attach, EnterLoop
  <2> QED
    BY <1>1, <2>2, <2>3, <2>4
<1>2. ASSUME NEW c \in Core, Advance(c) PROVE ThreadIsFree'
  <2>1. Active
    BY <1>0, <1>2 DEF Advance, RunSend, RunWork, Park, Complete, Raise, NoCore, Core
  <2>2. UNCHANGED <<phase, call>> \/ (phase' = "failed" /\ running' = NoCore)
    BY <1>2 DEF Advance, RunSend, RunWork, Park, Complete, Raise
  <2> QED
    BY <1>0, <2>1, <2>2
<1>3. ASSUME NEW c \in Core, Deliver(c) PROVE ThreadIsFree'
  BY <1>0, <1>3 DEF Deliver
<1>4. CASE UNCHANGED vars
  BY <1>0, <1>4 DEF vars
<1> QED
  BY <1>1, <1>2, <1>3, <1>4 DEF Next, Drive

LEMMA IndStep == IndInv /\ [Next]_vars => IndInv'
BY TypeStep, BookkeepingStep, ThreadStep DEF IndInv

(* The invariant the other theorems rest on. *)
LEMMA Inductive == Spec => []IndInv
BY InitInd, IndStep, PTL DEF Spec

(* The scheduler's variables have their types in every reachable state: in *)
(* particular no generator is resumed past its end and every queue that    *)
(* send_to and _try_deliver touch is one of a pair of cores.               *)
THEOREM TypeCorrect == Spec => []TypeOK
<1>1. IndInv => TypeOK
  BY DEF IndInv
<1> QED
  BY <1>1, Inductive, PTL

(* stacks, waiting and results always agree with where the cores are.      *)
THEOREM BookkeepingCorrect == Spec => []SchedulerBookkeeping
<1>1. IndInv => SchedulerBookkeeping
  BY DEF IndInv
<1> QED
  BY <1>1, Inductive, PTL

----------------------------------------------------------------------------
(* A deadlock report needs only the bookkeeping of the state before it.    *)
LEMMA DeadlockStep ==
    IndInv /\ DeadlockIsReal /\ [Next]_vars => DeadlockIsReal'
<1> SUFFICES ASSUME IndInv, DeadlockIsReal, [Next]_vars, phase' = "deadlock"
             PROVE  DeadlockIsReal'
  BY DEF DeadlockIsReal
<1>0. TypeOK /\ SchedulerBookkeeping /\ ThreadIsFree
  BY DEF IndInv
<1> USE DEF client, table
<1>1. CASE RaiseDeadlock
  <2>1. phase = "loop" /\ running = NoCore /\ stacks # {} /\ Deliverable = {}
    BY <1>1 DEF RaiseDeadlock
  <2>2. \A c \in stacks : c \in Core /\ At(c, "recv") /\ waiting[c] = Peer(c)
    BY <1>0, <2>1 DEF SchedulerBookkeeping, Active, TypeOK, NoCore, Core
  <2>3. \A c \in stacks : Peer(c) \in Core /\ Peer(c) # NoCore
    BY <1>0, <2>2, StepType DEF At, NoCore, Core
  <2>4. \A c \in stacks : messages[<<Peer(c), c>>] = <<>>
    BY <2>1, <2>2, <2>3 DEF Deliverable
  <2>5. \A c \in Core \ stacks : AtEnd(c)
    BY <1>0, <2>1, NAssumption DEF SchedulerBookkeeping, Active, Core
  <2> QED
    BY <1>1, <2>1, <2>2, <2>4, <2>5 DEF RaiseDeadlock, DeadlockIsReal, At, AtEnd, Peer
<1>2. CASE CallRefused \/ Call \/ Attach \/ EnterLoop \/ Return
  BY <1>2 DEF CallRefused, Call, Attach, EnterLoop, Return
<1>3. ASSUME NEW c \in Core, Advance(c) PROVE DeadlockIsReal'
  <2>1. phase # "deadlock"
    BY <1>0, <1>3 DEF Advance, RunSend, RunWork, Park, Complete, Raise, ThreadIsFree,
                      Active, NoCore, Core
  <2> QED
    BY <1>3, <2>1 DEF Advance, RunSend, RunWork, Park, Complete, Raise
<1>4. ASSUME NEW c \in Core, Deliver(c) PROVE DeadlockIsReal'
  BY <1>4 DEF Deliver
<1>5. CASE UNCHANGED vars
  BY <1>5 DEF vars, DeadlockIsReal, At, AtEnd, Peer
<1> QED
  BY <1>1, <1>2, <1>3, <1>4, <1>5 DEF Next, Drive

(* "Deadlock detected" is never a false alarm: when it is raised every     *)
(* core that has not returned waits on an empty queue, so no order of the  *)
(* remaining steps could have continued the run.                           *)
THEOREM NoFalseDeadlock == Spec => []DeadlockIsReal
<1>1. Init => DeadlockIsReal
  BY DEF Init, DeadlockIsReal
<1> QED
  BY <1>1, Inductive, DeadlockStep, PTL DEF Spec

----------------------------------------------------------------------------
(* Every tile in a queue or in a core's hands is of a step its sender has  *)
(* already taken, and the queues hold tiles of their own source only.      *)
QueuedIsSent ==
    /\ \A s, d \in Core : \A i \in DOMAIN messages[<<s, d>>] :
          /\ messages[<<s, d>>][i].src = s
          /\ messages[<<s, d>>][i].step < pc[s]
    /\ \A d \in Core : \A i \in DOMAIN got[d] : got[d][i].step < pc[got[d][i].src]

FifoInv == QueuedIsSent /\ InOrder

(* What a queue holds after an append. *)
LEMMA AppendFacts ==
    ASSUME NEW q \in Seq(Tile), NEW t \in Tile
    PROVE  /\ DOMAIN Append(q, t) = 1 .. Len(q) + 1 /\ DOMAIN q = 1 .. Len(q) /\ Len(q) \in Nat
           /\ \A i \in DOMAIN q : i \in DOMAIN Append(q, t) /\ Append(q, t)[i] = q[i]
           /\ Append(q, t)[Len(q) + 1] = t
<1>1. DOMAIN Append(q, t) = 1 .. Len(q) + 1 /\ DOMAIN q = 1 .. Len(q) /\ Len(q) \in Nat
  OBVIOUS
<1>2. \A i \in 1 .. Len(q) : Append(q, t)[i] = q[i]
  OBVIOUS
<1>3. Append(q, t)[Len(q) + 1] = t
  OBVIOUS
<1> QED
  BY <1>1, <1>2, <1>3

(* Appending a later tile to a queue in order leaves it in order. *)
LEMMA AppendLater ==
    ASSUME NEW q \in Seq(Tile), NEW t \in Tile,
           \A i, j \in DOMAIN q : i < j => q[i].step < q[j].step,
           \A i \in DOMAIN q : q[i].step < t.step
    PROVE  \A i, j \in DOMAIN Append(q, t) : i < j => Append(q, t)[i].step < Append(q, t)[j].step
  BY AppendFacts

(* What the head and the tail of a queue are. *)
LEMMA HeadTail ==
    ASSUME NEW q \in Seq(Tile), q # <<>>
    PROVE  /\ 1 \in DOMAIN q /\ Head(q) = q[1] /\ Tail(q) \in Seq(Tile)
           /\ \A j \in DOMAIN Tail(q) : /\ j \in Nat /\ j + 1 \in DOMAIN q
                                       /\ j + 1 > 1 /\ Tail(q)[j] = q[j + 1]
           /\ \A j \in DOMAIN q : j = 1 \/ (/\ j - 1 \in DOMAIN Tail(q)
                                          /\ Tail(q)[j - 1] = q[j])
  OBVIOUS

(* The tiles in the queues and in the cores' hands are tiles. *)
LEMMA TileType ==
    ASSUME TypeOK
    PROVE  /\ \A s, d \in Core : \A i \in DOMAIN messages[<<s, d>>] :
                  messages[<<s, d>>][i].step \in Nat
           /\ \A d \in Core : \A i \in DOMAIN got[d] :
                  got[d][i].step \in Nat /\ got[d][i].src \in Core
<1>1. \A q \in Seq(Tile) : \A i \in DOMAIN q : q[i] \in Tile
  OBVIOUS
<1>2. \A s, d \in Core : messages[<<s, d>>] \in Seq(Tile)
  BY DEF TypeOK, Channel
<1>3. \A d \in Core : got[d] \in Seq(Tile)
  BY DEF TypeOK
<1>4. \A t \in Tile : t.step \in Nat /\ t.src \in Core
  BY DEF Tile
<1>5. \A s, d \in Core : \A i \in DOMAIN messages[<<s, d>>] : messages[<<s, d>>][i] \in Tile
  BY <1>1, <1>2
<1>6. \A d \in Core : \A i \in DOMAIN got[d] : got[d][i] \in Tile
  BY <1>1, <1>3
<1> QED
  BY <1>4, <1>5, <1>6

LEMMA SendKeepsFifo ==
    ASSUME IndInv, FifoInv, NEW c \in Core, RunSend(c)
    PROVE  FifoInv'
<1>0. TypeOK
  BY DEF IndInv
<1>1. ~AtEnd(c) /\ Peer(c) \in Core /\ pc[c] \in Nat \ {0}
  BY <1>0, StepType DEF RunSend, At
<1>2. \A d \in Core : pc[d] \in Nat /\ pc'[d] \in Nat /\ pc[d] <= pc'[d]
  <2>1. pc \in [Core -> Nat] /\ pc' = [pc EXCEPT ![c] = @ + 1]
    BY <1>0 DEF TypeOK, RunSend
  <2> QED
    BY <2>1
<1>3. pc'[c] = pc[c] + 1 /\ got' = got
  BY <1>0 DEF TypeOK, RunSend
<1> DEFINE p == Peer(c)
           q == messages[<<c, p>>]
           t == [src |-> c, step |-> pc[c]]
<1>4. q \in Seq(Tile) /\ t \in Tile
  BY <1>0, <1>1 DEF TypeOK, Tile, Channel
<1>5. \A s, d \in Core : messages'[<<s, d>>] = messages[<<s, d>>]
                          \/ (s = c /\ d = p /\ messages'[<<s, d>>] = Append(q, t))
  BY <1>0, <1>1 DEF TypeOK, RunSend, Channel
<1>6. \A i \in DOMAIN q : q[i].src = c /\ q[i].step < t.step
  BY <1>1 DEF FifoInv, QueuedIsSent
<1>7. \A i \in DOMAIN Append(q, t) : (i \in DOMAIN q /\ Append(q, t)[i] = q[i])
                                    \/ Append(q, t)[i] = t
  BY <1>4
<1>8. \A s, d \in Core : \A i \in DOMAIN messages[<<s, d>>] :
         messages[<<s, d>>][i].step \in Nat
  BY <1>0, TileType
<1>9. \A d \in Core : \A i \in DOMAIN got[d] :
         got[d][i].step \in Nat /\ got[d][i].src \in Core
  BY <1>0, TileType
<1>10. QueuedIsSent'
  <2>1. ASSUME NEW s \in Core, NEW d \in Core, NEW i \in DOMAIN messages'[<<s, d>>]
        PROVE  messages'[<<s, d>>][i].src = s /\ messages'[<<s, d>>][i].step < pc'[s]
    <3>1. CASE messages'[<<s, d>>] = messages[<<s, d>>]
      BY <3>1, <1>2, <1>8 DEF FifoInv, QueuedIsSent
    <3>2. CASE s = c /\ d = p /\ messages'[<<s, d>>] = Append(q, t)
      BY <3>2, <1>1, <1>2, <1>3, <1>6, <1>7, <1>8, SMTT(20)
    <3> QED
      BY <3>1, <3>2, <1>5
  <2>2. ASSUME NEW d \in Core, NEW i \in DOMAIN got'[d]
        PROVE  got'[d][i].step < pc'[got'[d][i].src]
    BY <1>2, <1>3, <1>9 DEF FifoInv, QueuedIsSent
  <2> QED
    BY <2>1, <2>2 DEF QueuedIsSent
<1>11. InOrder'
  <2>1. ASSUME NEW d \in Core, NEW i \in DOMAIN got'[d], NEW j \in DOMAIN got'[d],
               i < j, got'[d][i].src = got'[d][j].src
        PROVE  got'[d][i].step < got'[d][j].step
    BY <2>1, <1>3 DEF FifoInv, InOrder
  <2>2. ASSUME NEW d \in Core, NEW s \in Core, NEW i \in DOMAIN messages'[<<s, d>>],
               NEW j \in DOMAIN messages'[<<s, d>>], i < j
        PROVE  messages'[<<s, d>>][i].step < messages'[<<s, d>>][j].step
    <3>1. CASE messages'[<<s, d>>] = messages[<<s, d>>]
      BY <2>2, <3>1 DEF FifoInv, InOrder
    <3>2. CASE s = c /\ d = p /\ messages'[<<s, d>>] = Append(q, t)
      <4>1. \A k, l \in DOMAIN q : k < l => q[k].step < q[l].step
        BY <1>1 DEF FifoInv, InOrder
      <4> QED
        BY <2>2, <3>2, <4>1, <1>4, <1>6, AppendLater
    <3> QED
      BY <3>1, <3>2, <1>5
  <2>3. ASSUME NEW d \in Core, NEW s \in Core, NEW i \in DOMAIN got'[d],
               NEW j \in DOMAIN messages'[<<s, d>>], got'[d][i].src = s
        PROVE  got'[d][i].step < messages'[<<s, d>>][j].step
    <3>1. CASE messages'[<<s, d>>] = messages[<<s, d>>]
      BY <2>3, <3>1, <1>3 DEF FifoInv, InOrder
    <3>2. CASE s = c /\ d = p /\ messages'[<<s, d>>] = Append(q, t)
      <4>1. got[d][i].step < t.step
        BY <2>3, <3>2, <1>3 DEF FifoInv, QueuedIsSent
      <4>2. \A l \in DOMAIN q : got[d][i].step < q[l].step
        BY <2>3, <3>2, <1>3 DEF FifoInv, InOrder
      <4> QED
        BY <3>2, <4>1, <4>2, <1>3, <1>7
    <3> QED
      BY <3>1, <3>2, <1>5
  <2> QED
    BY <2>1, <2>2, <2>3 DEF InOrder
<1> QED
  BY <1>10, <1>11 DEF FifoInv

LEMMA DeliverKeepsFifo ==
    ASSUME IndInv, FifoInv, NEW c \in Core, Deliver(c)
    PROVE  FifoInv'
<1>0. TypeOK
  BY DEF IndInv
<1> DEFINE w == waiting[c]
           q == messages[<<w, c>>]
<1>1. w \in Core /\ <<w, c>> \in Channel /\ q \in Seq(Tile) /\ q # <<>>
  BY DeliverableType DEF Deliver
<1>2. /\ 1 \in DOMAIN q /\ Head(q) = q[1] /\ Tail(q) \in Seq(Tile)
      /\ \A j \in DOMAIN Tail(q) : /\ j \in Nat /\ j + 1 \in DOMAIN q
                                  /\ j + 1 > 1 /\ Tail(q)[j] = q[j + 1]
  BY <1>1, HeadTail
<1>3. \A d \in Core : pc[d] \in Nat /\ pc'[d] \in Nat /\ pc[d] <= pc'[d]
  <2>1. pc \in [Core -> Nat] /\ pc' = [pc EXCEPT ![c] = @ + 1]
    BY <1>0 DEF TypeOK, Deliver
  <2> QED
    BY <2>1
<1>4. \A s, d \in Core : messages'[<<s, d>>] = messages[<<s, d>>]
                          \/ (s = w /\ d = c /\ messages'[<<s, d>>] = Tail(q))
  BY <1>0, <1>1 DEF TypeOK, Deliver, Channel
<1>5. \A d \in Core : d # c => got'[d] = got[d] /\ messages'[<<w, d>>] = messages[<<w, d>>]
  BY <1>0, <1>1 DEF TypeOK, Deliver, Channel
<1>6. got'[c] = Append(got[c], q[1]) /\ got[c] \in Seq(Tile) /\ q[1] \in Tile
  BY <1>0, <1>1, <1>2 DEF TypeOK, Deliver
<1>7. \A i \in DOMAIN got'[c] : (i \in DOMAIN got[c] /\ got'[c][i] = got[c][i])
                             \/ (i = Len(got[c]) + 1 /\ got'[c][i] = q[1])
  BY <1>6
<1>8. messages'[<<w, c>>] = Tail(q)
  BY <1>0, <1>1 DEF TypeOK, Deliver
<1>9. q[1].src = w /\ q[1].step < pc[w]
  BY <1>1, <1>2 DEF FifoInv, QueuedIsSent
<1>10. \A s, d \in Core : \A i \in DOMAIN messages[<<s, d>>] : messages[<<s, d>>][i].step \in Nat
  BY <1>0, TileType
<1>11. \A d \in Core : \A i \in DOMAIN got[d] :
         got[d][i].step \in Nat /\ got[d][i].src \in Core
  BY <1>0, TileType
<1>12. QueuedIsSent'
  <2>1. ASSUME NEW s \in Core, NEW d \in Core, NEW i \in DOMAIN messages'[<<s, d>>]
        PROVE  messages'[<<s, d>>][i].src = s /\ messages'[<<s, d>>][i].step < pc'[s]
    <3>1. CASE messages'[<<s, d>>] = messages[<<s, d>>]
      BY <3>1, <1>3, <1>10 DEF FifoInv, QueuedIsSent
    <3>2. CASE s = w /\ d = c /\ messages'[<<s, d>>] = Tail(q)
      <4>1. i + 1 \in DOMAIN q /\ Tail(q)[i] = q[i + 1]
        BY <3>2, <1>2
      <4> QED
        BY <3>2, <4>1, <1>1, <1>3, <1>10, SMTT(20) DEF FifoInv, QueuedIsSent
    <3> QED
      BY <3>1, <3>2, <1>4
  <2>2. ASSUME NEW d \in Core, NEW i \in DOMAIN got'[d]
        PROVE  got'[d][i].step < pc'[got'[d][i].src]
    <3>1. CASE d # c
      <4>1. got'[d] = got[d] /\ i \in DOMAIN got[d]
        BY <3>1, <1>5
      <4>2. got[d][i].src \in Core /\ got[d][i].step \in Nat
        BY <4>1, <1>11
      <4>3. got[d][i].step < pc[got[d][i].src]
        BY <4>1 DEF FifoInv, QueuedIsSent
      <4> QED
        BY <4>1, <4>2, <4>3, <1>3
    <3>2. CASE d = c /\ i \in DOMAIN got[c] /\ got'[c][i] = got[c][i]
      BY <3>2, <1>3, <1>11 DEF FifoInv, QueuedIsSent
    <3>3. CASE d = c /\ got'[c][i] = q[1]
      BY <3>3, <1>1, <1>2, <1>3, <1>9, <1>10
    <3> QED
      BY <3>1, <3>2, <3>3, <1>7
  <2> QED
    BY <2>1, <2>2 DEF QueuedIsSent
<1>13. InOrder'
  <2>1. ASSUME NEW d \in Core, NEW i \in DOMAIN got'[d], NEW j \in DOMAIN got'[d],
               i < j, got'[d][i].src = got'[d][j].src
        PROVE  got'[d][i].step < got'[d][j].step
    <3>1. CASE d # c
      BY <2>1, <3>1, <1>5 DEF FifoInv, InOrder
    <3>2. CASE d = c /\ i \in DOMAIN got[c] /\ j \in DOMAIN got[c]
      BY <2>1, <3>2, <1>6, <1>7 DEF FifoInv, InOrder
    <3>3. CASE d = c /\ i \in DOMAIN got[c] /\ j = Len(got[c]) + 1
      <4>1. got'[c][j] = q[1] /\ got'[c][i] = got[c][i]
        BY <3>3, <1>6, <1>7
      <4> QED
        BY <2>1, <3>3, <4>1, <1>1, <1>2, <1>9 DEF FifoInv, InOrder
    <3>4. CASE d = c /\ i = Len(got[c]) + 1
      BY <2>1, <3>4, <1>6
    <3> QED
      BY <3>1, <3>2, <3>3, <3>4, <1>7
  <2>2. ASSUME NEW d \in Core, NEW s \in Core, NEW i \in DOMAIN messages'[<<s, d>>],
               NEW j \in DOMAIN messages'[<<s, d>>], i < j
        PROVE  messages'[<<s, d>>][i].step < messages'[<<s, d>>][j].step
    <3>1. CASE messages'[<<s, d>>] = messages[<<s, d>>]
      BY <2>2, <3>1 DEF FifoInv, InOrder
    <3>2. CASE s = w /\ d = c /\ messages'[<<s, d>>] = Tail(q)
      <4>1. /\ i + 1 \in DOMAIN q /\ j + 1 \in DOMAIN q /\ i + 1 < j + 1
            /\ Tail(q)[i] = q[i + 1] /\ Tail(q)[j] = q[j + 1]
        BY <2>2, <3>2, <1>2
      <4> QED
        BY <3>2, <4>1, <1>1 DEF FifoInv, InOrder
    <3> QED
      BY <3>1, <3>2, <1>4
  <2>3. ASSUME NEW d \in Core, NEW s \in Core, NEW i \in DOMAIN got'[d],
               NEW j \in DOMAIN messages'[<<s, d>>], got'[d][i].src = s
        PROVE  got'[d][i].step < messages'[<<s, d>>][j].step
    <3>1. CASE d # c
      <4>1. messages'[<<s, d>>] = messages[<<s, d>>] /\ got'[d] = got[d]
        BY <3>1, <1>4, <1>5
      <4>2. \A k \in DOMAIN got[d], l \in DOMAIN messages[<<s, d>>] :
               got[d][k].src = s => got[d][k].step < messages[<<s, d>>][l].step
        BY DEF FifoInv, InOrder
      <4> QED
        BY <2>3, <4>1, <4>2
    <3>2. CASE d = c /\ s # w
      <4>1. messages'[<<s, d>>] = messages[<<s, d>>]
        BY <3>2, <1>4
      <4>2. i \in DOMAIN got[c] /\ got'[c][i] = got[c][i]
        BY <2>3, <3>2, <1>7, <1>9
      <4> QED
        BY <2>3, <3>2, <4>1, <4>2 DEF FifoInv, InOrder
    <3>3. CASE d = c /\ s = w
      <4>1. j + 1 \in DOMAIN q /\ 1 < j + 1 /\ messages'[<<s, d>>][j] = q[j + 1]
        BY <2>3, <3>3, <1>2, <1>8
      <4>2. CASE i \in DOMAIN got[c] /\ got'[c][i] = got[c][i]
        BY <2>3, <3>3, <4>1, <4>2, <1>1 DEF FifoInv, InOrder
      <4>3. CASE got'[c][i] = q[1]
        BY <3>3, <4>1, <4>3, <1>1, <1>2 DEF FifoInv, InOrder
      <4> QED
        BY <3>3, <4>2, <4>3, <1>7
    <3> QED
      BY <3>1, <3>2, <3>3
  <2> QED
    BY <2>1, <2>2, <2>3 DEF InOrder
<1> QED
  BY <1>12, <1>13 DEF FifoInv

LEMMA FifoStep == IndInv /\ FifoInv /\ [Next]_vars => FifoInv'
<1> SUFFICES ASSUME IndInv, FifoInv, [Next]_vars PROVE FifoInv'
  OBVIOUS
<1>0. TypeOK
  BY DEF IndInv
<1> USE DEF client, table
<1>1. CASE Call
  <2>1. \A s, d \in Core : messages'[<<s, d>>] = <<>>
    BY <1>1 DEF Call, NoTiles, Channel
  <2>2. \A d \in Core : got'[d] = <<>>
    BY <1>1 DEF Call
  <2>3. DOMAIN <<>> = {}
    OBVIOUS
  <2> QED
    BY <2>1, <2>2, <2>3 DEF FifoInv, QueuedIsSent, InOrder
<1>2. ASSUME NEW c \in Core, RunSend(c) PROVE FifoInv'
  BY <1>2, SendKeepsFifo
<1>3. ASSUME NEW c \in Core, Deliver(c) PROVE FifoInv'
  BY <1>3, DeliverKeepsFifo
<1>4. ASSUME NEW c \in Core, RunWork(c) PROVE FifoInv'
  <2>1. messages' = messages /\ got' = got
    BY <1>4 DEF RunWork
  <2>2. \A d \in Core : pc[d] \in Nat /\ pc'[d] \in Nat /\ pc[d] <= pc'[d]
    <3>1. pc \in [Core -> Nat] /\ pc' = [pc EXCEPT ![c] = @ + 1]
      BY <1>0, <1>4 DEF TypeOK, RunWork
    <3> QED
      BY <3>1
  <2>3. QueuedIsSent'
    BY <1>0, <2>1, <2>2, TileType DEF FifoInv, QueuedIsSent
  <2>4. InOrder'
    BY <2>1 DEF FifoInv, InOrder
  <2> QED
    BY <2>3, <2>4 DEF FifoInv
<1>5. CASE UNCHANGED <<pc, got, messages>>
  BY <1>5 DEF FifoInv, QueuedIsSent, InOrder
<1>6. ASSUME NEW c \in Core, Park(c) \/ Complete(c) \/ Raise(c)
      PROVE  UNCHANGED <<pc, got, messages>>
  BY <1>6 DEF Park, Complete, Raise
<1>7. CASE CallRefused \/ Attach \/ EnterLoop \/ Return \/ RaiseDeadlock \/ UNCHANGED vars
  <2>1. UNCHANGED <<pc, got, messages>>
    BY <1>7 DEF CallRefused, Attach, EnterLoop, Return, RaiseDeadlock, vars
  <2> QED
    BY <2>1, <1>5
<1> QED
  BY <1>1, <1>2, <1>3, <1>4, <1>5, <1>6, <1>7 DEF Next, Drive, Advance

(* Per channel, receives return the tiles in the order they were sent and  *)
(* each at most once, whatever the programs and the scheduler's choices.   *)
THEOREM ChannelsAreFifo == Spec => []InOrder
<1>1. Init => FifoInv
  <2>1. DOMAIN <<>> = {}
    OBVIOUS
  <2> QED
    BY <2>1 DEF Init, FifoInv, QueuedIsSent, InOrder, NoTiles, Channel
<1>2. FifoInv => InOrder
  BY DEF FifoInv
<1> QED
  BY <1>1, <1>2, Inductive, FifoStep, PTL DEF Spec

----------------------------------------------------------------------------
(* A step that sends nothing and takes nothing from a queue loses nothing. *)
LEMMA LostStep == IndInv /\ NothingLost /\ [Next]_vars => NothingLost'
<1> SUFFICES ASSUME IndInv, NothingLost, [Next]_vars,
                    NEW s \in Core, NEW i \in (1 .. pc[s] - 1)', (prog[s][i].op = "send")'
             PROVE  LET d == prog[s][i].peer
                        tile == [src |-> s, step |-> i]
                    IN  (\/ \E j \in DOMAIN got[d] : got[d][j] = tile
                         \/ \E j \in DOMAIN messages[<<s, d>>] : messages[<<s, d>>][j] = tile)'
  BY DEF NothingLost
<1>0. TypeOK
  BY DEF IndInv
<1> DEFINE d == prog[s][i].peer
           tile == [src |-> s, step |-> i]
           Received(g) == \E j \in DOMAIN g[d] : g[d][j] = tile
           Queued(m) == \E j \in DOMAIN m[<<s, d>>] : m[<<s, d>>][j] = tile
<1> SUFFICES Received(got') \/ Queued(messages')
  <2>1. prog' = prog
    BY DEF Next, Drive, Advance, CallRefused, Call, Attach, EnterLoop, RunSend, RunWork, Park,
           Complete, Raise, Deliver, Return, RaiseDeadlock, vars, client
  <2> QED
    BY <2>1
<1>1. prog' = prog
  BY DEF Next, Drive, Advance, CallRefused, Call, Attach, EnterLoop, RunSend, RunWork, Park,
         Complete, Raise, Deliver, Return, RaiseDeadlock, vars, client
<1>2. i \in 1 .. pc'[s] - 1 /\ prog[s][i].op = "send"
  BY <1>1
<1>3. ASSUME i \in 1 .. pc[s] - 1 PROVE Received(got) \/ Queued(messages)
  BY <1>2, <1>3 DEF NothingLost
<1>4. pc[s] \in Nat
  BY <1>0 DEF TypeOK
<1>12. <<s, d>> \in Channel
  <2>1. i \in 1 .. Len(prog[s])
    BY <1>1, <1>2, TypeStep DEF TypeOK
  <2>2. prog[s] \in Seq(Step)
    BY <1>0, ProgramsAssumption DEF TypeOK
  <2>3. prog[s][i] \in Step
    BY <2>1, <2>2
  <2> QED
    BY <2>3 DEF Step, Channel
<1> HIDE DEF Received, Queued
<1>5. CASE Call
  BY <1>2, <1>5 DEF Call
<1>6. ASSUME NEW c \in Core, RunSend(c) PROVE Received(got') \/ Queued(messages')
  <2>1. bound[c] = call
    BY <1>0, <1>6 DEF IndInv, SchedulerBookkeeping, ThreadIsFree, Active, RunSend, NoCore, Core
  <2>2. ~AtEnd(c) /\ Peer(c) \in Core /\ <<c, Peer(c)>> \in Channel
    BY <1>0, <1>6, StepType DEF RunSend, At, Channel
  <2> DEFINE t == [src |-> c, step |-> pc[c]]
             q == messages[<<c, Peer(c)>>]
  <2>3. messages' = [messages EXCEPT ![<<c, Peer(c)>>] = Append(q, t)] /\ got' = got
    BY <1>6, <2>1 DEF RunSend
  <2>4. q \in Seq(Tile) /\ t \in Tile
    <3>1. pc[c] \in Nat \ {0}
      BY <1>0 DEF TypeOK
    <3> QED
      BY <1>0, <2>2, <3>1 DEF TypeOK, Tile
  <2>5. /\ DOMAIN Append(q, t) = 1 .. Len(q) + 1 /\ DOMAIN q = 1 .. Len(q) /\ Len(q) \in Nat
        /\ \A j \in DOMAIN q : Append(q, t)[j] = q[j]
        /\ Append(q, t)[Len(q) + 1] = t
    BY <2>4, AppendFacts
  <2>6. \A ch \in Channel : messages'[ch] = messages[ch]
                          \/ (ch = <<c, Peer(c)>> /\ messages'[ch] = Append(q, t))
    BY <1>0, <2>3 DEF TypeOK
  <2>7. CASE i \in 1 .. pc[s] - 1
    <3>1. CASE Received(got)
      BY <3>1, <2>3 DEF Received
    <3>2. CASE Queued(messages)
      <4>1. PICK j \in DOMAIN messages[<<s, d>>] : messages[<<s, d>>][j] = tile
        BY <3>2 DEF Queued
      <4>2. CASE messages'[<<s, d>>] = messages[<<s, d>>]
        BY <4>1, <4>2 DEF Queued
      <4>3. CASE <<s, d>> = <<c, Peer(c)>> /\ messages'[<<s, d>>] = Append(q, t)
        <5>1. j \in DOMAIN q /\ q[j] = tile
          BY <4>1, <4>3
        <5>2. j \in DOMAIN Append(q, t) /\ Append(q, t)[j] = tile
          BY <5>1, <2>5
        <5> QED
          BY <4>3, <5>2 DEF Queued
      <4> QED
        BY <4>2, <4>3, <2>6, <1>12
    <3> QED
      BY <2>7, <3>1, <3>2, <1>3
  <2>8. CASE i \notin 1 .. pc[s] - 1
    <3>1. s = c /\ i = pc[c]
      <4>1. pc' = [pc EXCEPT ![c] = @ + 1] /\ pc \in [Core -> Nat]
        BY <1>0, <1>6 DEF RunSend, TypeOK
      <4> QED
        BY <2>8, <4>1, <1>2, <1>4
    <3>2. d = Peer(c) /\ tile = t
      BY <3>1 DEF Peer
    <3>3. messages'[<<s, d>>] = Append(q, t)
      BY <3>1, <3>2, <2>2, <2>3, <1>0 DEF TypeOK
    <3>4. Len(q) + 1 \in DOMAIN messages'[<<s, d>>] /\ messages'[<<s, d>>][Len(q) + 1] = tile
      BY <3>2, <3>3, <2>5
    <3> QED
      BY <3>4 DEF Queued
  <2> QED
    BY <2>7, <2>8
<1>7. ASSUME NEW c \in Core, Deliver(c) PROVE Received(got') \/ Queued(messages')
  <2> DEFINE w == waiting[c]
             q == messages[<<w, c>>]
  <2>1. /\ w \in Core /\ <<w, c>> \in Channel /\ q \in Seq(Tile) /\ q # <<>>
        /\ At(c, "recv")
    BY <1>7, DeliverableType DEF Deliver
  <2>2. Head(q) = q[1] /\ \A j \in DOMAIN q : j = 1 \/ (/\ j - 1 \in DOMAIN Tail(q)
                                                     /\ Tail(q)[j - 1] = q[j])
    BY <2>1, HeadTail
  <2>3. i \in 1 .. pc[s] - 1
    <3>1. pc' = [pc EXCEPT ![c] = @ + 1] /\ pc \in [Core -> Nat]
      BY <1>0, <1>7 DEF Deliver, TypeOK
    <3>2. s = c => i # pc[c]
      BY <1>2, <2>1 DEF At
    <3> QED
      BY <3>1, <3>2, <1>2, <1>4
  <2>4. got' = [got EXCEPT ![c] = Append(@, Head(q))] /\ got \in [Core -> Seq(Tile)]
    BY <1>0, <1>7 DEF Deliver, TypeOK
  <2>5. messages' = [messages EXCEPT ![<<w, c>>] = Tail(q)] /\ messages \in [Channel -> Seq(Tile)]
    BY <1>0, <1>7 DEF Deliver, TypeOK
  <2>6. got[c] \in Seq(Tile) /\ Head(q) \in Tile
    BY <2>1, <2>4
  <2>7. /\ \A j \in DOMAIN got[c] : j \in DOMAIN got'[c] /\ got'[c][j] = got[c][j]
        /\ Len(got[c]) + 1 \in DOMAIN got'[c] /\ got'[c][Len(got[c]) + 1] = q[1]
    BY <2>2, <2>4, <2>6
  <2>8. CASE Received(got)
    <3>1. d # c => got'[d] = got[d]
      BY <2>4
    <3> QED
      BY <2>8, <2>7, <3>1 DEF Received
  <2>9. CASE Queued(messages)
    <3>1. CASE <<s, d>> # <<w, c>>
      <4>1. messages'[<<s, d>>] = messages[<<s, d>>]
        BY <3>1, <2>5
      <4> QED
        BY <2>9, <4>1 DEF Queued
    <3>2. CASE <<s, d>> = <<w, c>>
      <4>1. s = w /\ d = c /\ messages'[<<s, d>>] = Tail(q)
        BY <3>2, <2>1, <2>5
      <4>2. PICK j \in DOMAIN q : q[j] = tile
        BY <2>9, <4>1 DEF Queued
      <4>3. CASE j = 1
        BY <4>1, <4>2, <4>3, <2>7 DEF Received
      <4>4. CASE j # 1
        BY <4>1, <4>2, <4>4, <2>2 DEF Queued
      <4> QED
        BY <4>3, <4>4
    <3> QED
      BY <3>1, <3>2
  <2> QED
    BY <2>3, <2>8, <2>9, <1>3
<1>8. ASSUME NEW c \in Core, RunWork(c) PROVE Received(got') \/ Queued(messages')
  <2>1. pc' = [pc EXCEPT ![c] = @ + 1] /\ pc \in [Core -> Nat]
    BY <1>0, <1>8 DEF RunWork, TypeOK
  <2>2. s = c => i # pc[c]
    BY <1>2, <1>8 DEF RunWork, At
  <2>3. i \in 1 .. pc[s] - 1 /\ got' = got /\ messages' = messages
    BY <2>1, <2>2, <1>2, <1>4, <1>8 DEF RunWork
  <2> QED
    BY <2>3, <1>3
<1>9. CASE UNCHANGED <<pc, got, messages>>
  BY <1>2, <1>3, <1>9
<1>10. ASSUME NEW c \in Core, Park(c) \/ Complete(c) \/ Raise(c)
       PROVE  UNCHANGED <<pc, got, messages>>
  BY <1>10 DEF Park, Complete, Raise, client
<1>11. CASE CallRefused \/ Attach \/ EnterLoop \/ Return \/ RaiseDeadlock \/ UNCHANGED vars
  <2>1. UNCHANGED <<pc, got, messages>>
    BY <1>11 DEF CallRefused, Attach, EnterLoop, Return, RaiseDeadlock, vars, client
  <2> QED
    BY <2>1, <1>9
<1> QED
  BY <1>5, <1>6, <1>7, <1>8, <1>9, <1>10, <1>11 DEF Next, Drive, Advance

(* No tile a core has sent in the current call disappears: it is queued    *)
(* for its destination or a receive there has returned it, a stale send_fn *)
(* of an earlier call notwithstanding.                                     *)
THEOREM NoTileIsLost == Spec => []NothingLost
<1>1. Init => NothingLost
  BY DEF Init, NothingLost
<1> QED
  BY <1>1, Inductive, LostStep, PTL DEF Spec

----------------------------------------------------------------------------
LEMMA NetStep == IndInv /\ [Next]_vars => [Net!Next]_(Net!vars)
<1> SUFFICES ASSUME IndInv, [Next]_vars PROVE [Net!Next]_(Net!vars)
  OBVIOUS
<1>0. TypeOK /\ SchedulerBookkeeping /\ ThreadIsFree
  BY DEF IndInv
<1> USE DEF client, table, Active, Net!AtEnd, Net!At, Net!Peer, Net!Stuck, AtEnd, At, Peer
<1>1. CASE CallRefused
  <2>1. Net!Refuse
    BY <1>1 DEF CallRefused, Callable, Ended, Net!Refuse
  <2> QED
    BY <2>1 DEF Net!Next
<1>2. CASE Call
  <2>1. Net!Call
    BY <1>2 DEF Call, Callable, Ended, NoTiles, Channel, Core, Net!Call, Net!NoTiles,
                Net!Channel, Net!Core
  <2> QED
    BY <2>1 DEF Net!Next
<1>3. CASE Attach \/ EnterLoop
  BY <1>3 DEF Attach, EnterLoop, Net!vars
<1>4. ASSUME NEW c \in Core, Advance(c) PROVE [Net!Next]_(Net!vars)
  <2>1. c \in Net!Core /\ Active /\ running = c
    BY <1>0, <1>4 DEF Advance, RunSend, RunWork, Park, Complete, Raise, ThreadIsFree,
                      NoCore, Core, Net!Core
  <2>2. c \in stacks /\ bound[c] = call
    BY <1>0, <2>1 DEF SchedulerBookkeeping, NoCore, Core, Net!Core
  <2>3. CASE RunSend(c)
    <3>1. Net!Send(c)
      BY <2>1, <2>2, <2>3 DEF RunSend, Net!Send
    <3> QED
      BY <2>1, <3>1 DEF Net!Next
  <2>4. CASE RunWork(c)
    <3>1. Net!Work(c)
      BY <2>1, <2>4 DEF RunWork, Net!Work
    <3> QED
      BY <2>1, <3>1 DEF Net!Next
  <2>5. CASE Park(c) \/ Complete(c)
    BY <2>5 DEF Park, Complete, Net!vars
  <2>6. CASE Raise(c)
    <3>1. call # 0
      BY <1>0, <2>1 DEF ThreadIsFree
    <3>2. At(c, "fail")
      BY <2>2, <2>6, <3>1 DEF Raise, Raises
    <3>3. Net!Conclude
      BY <2>1, <2>6, <3>2 DEF Raise, Net!Conclude
    <3> QED
      BY <3>3 DEF Net!Next
  <2> QED
    BY <1>4, <2>3, <2>4, <2>5, <2>6 DEF Advance
<1>5. ASSUME NEW c \in Core, Deliver(c) PROVE [Net!Next]_(Net!vars)
  <2>1. At(c, "recv") /\ waiting[c] = Peer(c) /\ messages[<<waiting[c], c>>] # <<>>
    BY <1>5, DeliverableType DEF Deliver
  <2>2. Net!Recv(c)
    BY <1>5, <2>1 DEF Deliver, Net!Recv
  <2>3. c \in Net!Core
    BY DEF Core, Net!Core
  <2> QED
    BY <2>2, <2>3 DEF Net!Next
<1>6. CASE Return
  <2>1. \A c \in Core : AtEnd(c)
    BY <1>0, <1>6, NAssumption DEF Return, SchedulerBookkeeping, Core
  <2>2. Net!Conclude
    BY <1>6, <2>1 DEF Return, Net!Conclude, Core, Net!Core
  <2> QED
    BY <2>2 DEF Net!Next
<1>7. CASE RaiseDeadlock
  <2>1. phase = "loop" /\ running = NoCore /\ stacks # {} /\ phase' = "deadlock"
    BY <1>7 DEF RaiseDeadlock
  <2>2. DeadlockIsReal'
    BY <1>7, DeadlockStep, <2>1 DEF DeadlockIsReal
  <2>3. Net!Conclude
    <3>1. UNCHANGED <<prog, pc, got, messages, stacks>>
      BY <1>7 DEF RaiseDeadlock
    <3>2. \A c \in stacks : At(c, "recv") /\ messages[<<Peer(c), c>>] = <<>>
      BY <2>1, <2>2, <3>1 DEF DeadlockIsReal
    <3>3. \A c \in Core \ stacks : AtEnd(c)
      BY <2>1, <2>2, <3>1 DEF DeadlockIsReal
    <3>4. stacks \subseteq Core /\ Core = Net!Core
      BY <1>0 DEF TypeOK, Core, Net!Core
    <3> QED
      BY <2>1, <3>1, <3>2, <3>3, <3>4 DEF Net!Conclude
  <2> QED
    BY <2>3 DEF Net!Next
<1>8. CASE UNCHANGED vars
  BY <1>8 DEF vars, Net!vars
<1> QED
  BY <1>1, <1>2, <1>3, <1>4, <1>5, <1>6, <1>7, <1>8 DEF Next, Drive

(* The scheduler is one of the orders MessageNetwork allows: each of its   *)
(* steps is a send, a receive, a piece of work or the verdict of the       *)
(* network, or invisible there.  In particular the verdict it reaches is   *)
(* the one the network's guards justify.                                   *)
THEOREM ImplementsNetwork == Spec => NetSpec
<1>1. Init => Net!Init
  BY DEF Init, Active, NoTiles, Channel, Core, Net!Init, Net!NoTiles, Net!Channel, Net!Core
<1> QED
  BY <1>1, Inductive, NetStep, PTL DEF Spec, NetSpec, Net!Spec

(***************************************************************************)
(* The outcome of a call does not depend on the order in which the cores   *)
(* are stepped.  The argument is that of a deterministic dataflow network. *)
(* Positions where no core can move are closed, the pointwise least of the *)
(* closed ones is closed, and no step leads past it: a core that stands    *)
(* where it would leave it waits on an empty queue.  A call that ends      *)
(* stands at closed positions itself, so it stands at the least.           *)
(***************************************************************************)
Sent(s, d) == Net!Count(s, "send", d, pc[s])
Taken(d, s) == Net!Count(d, "recv", s, pc[d])

(* Step i of c is an o-step towards q. *)
Does(c, i, o, q) == prog[c][i] = [op |-> o, peer |-> q]

(* The step at which s sends its tile number n, counted from 0, to d. *)
IsSend(s, d, n, j) ==
    /\ j \in DOMAIN prog[s]
    /\ Does(s, j, "send", d)
    /\ Net!Count(s, "send", d, j) = n

(* A queue holds the tiles from s to d that were sent and are not taken. *)
Between(q, s, d, first, next) ==
    /\ Len(q) = next - first
    /\ \A k \in DOMAIN q : \E j : IsSend(s, d, first + k - 1, j) /\ q[k] = [src |-> s, step |-> j]

QueueIsCounted(s, d) == Between(messages[<<s, d>>], s, d, Taken(d, s), Sent(s, d))
QueuesAreCounted == \A s, d \in Core : QueueIsCounted(s, d)

(* What the receives of a core have returned. *)
Recvs(c) == {i \in 1 .. pc[c] - 1 : prog[c][i].op = "recv"}

AnswersAreDetermined ==
    \A c \in Core :
        /\ Len(got[c]) = Cardinality(Recvs(c))
        /\ \A i \in Recvs(c) : got[c][Cardinality(Recvs(c) \cap 1 .. i)] = Net!Answer(c, i)

(* No core passes a place where nothing could move. *)
WithinClosed ==
    \A at \in Net!Positions : Net!Closed(at) => \A c \in Core : pc[c] <= at[c]

(* What the verdict says of the cores. *)
VerdictIsRight ==
    /\ phase = "failed" => \E c \in Core : At(c, "fail")
    /\ phase = "done" => \A c \in Core : AtEnd(c)
    /\ phase = "deadlock" => /\ \A c \in Core : AtEnd(c) \/ Net!Stuck(c)
                             /\ \E c \in Core : ~AtEnd(c)

OutcomeInv == QueuesAreCounted /\ AnswersAreDetermined /\ WithinClosed /\ VerdictIsRight

----------------------------------------------------------------------------
(***************************************************************************)
(* Counting the steps of a program.                                        *)
(***************************************************************************)
LEMMA SameCardinality == \A S : Net!Cardinality(S) = Cardinality(S)
BY DEF Net!Cardinality, Cardinality

LEMMA CountFacts ==
    ASSUME NEW c, NEW o, NEW q, NEW i \in Nat
    PROVE  /\ Net!Count(c, o, q, i) \in Nat
           /\ \A j \in Nat : j <= i => Net!Count(c, o, q, j) <= Net!Count(c, o, q, i)
           /\ i > 0 => Net!Count(c, o, q, i + 1) =
                          Net!Count(c, o, q, i) + (IF Does(c, i, o, q) THEN 1 ELSE 0)
<1> DEFINE is(k) == Does(c, k, o, q)
           upto(n) == {k \in 1 .. n - 1 : is(k)}
<1>1. \A n : Net!Count(c, o, q, n) = Cardinality(upto(n))
  BY SameCardinality DEF Net!Count, Does
<1> HIDE DEF is
<1>2. ASSUME NEW n \in Nat PROVE IsFiniteSet(upto(n)) /\ Cardinality(upto(n)) \in Nat
  <2>1. IsFiniteSet(1 .. n - 1)
    BY FS_Interval
  <2>2. upto(n) \subseteq 1 .. n - 1
    OBVIOUS
  <2> QED
    BY <2>1, <2>2, FS_Subset, FS_CardinalityType
<1>3. ASSUME NEW j \in Nat, j <= i PROVE Cardinality(upto(j)) <= Cardinality(upto(i))
  <2>1. upto(j) \subseteq upto(i)
    BY <1>3
  <2> QED
    BY <1>2, <2>1, FS_Subset
<1>4. ASSUME i > 0, is(i) PROVE Cardinality(upto(i + 1)) = Cardinality(upto(i)) + 1
  <2>1. upto(i + 1) = upto(i) \cup {i} /\ i \notin upto(i)
    BY <1>4
  <2> QED
    BY <1>2, <2>1, FS_AddElement
<1>5. ASSUME i > 0, ~is(i) PROVE upto(i + 1) = upto(i)
  BY <1>5
<1> HIDE DEF upto
<1>6. i > 0 => Cardinality(upto(i + 1)) = Cardinality(upto(i)) + (IF is(i) THEN 1 ELSE 0)
  BY <1>2, <1>4, <1>5
<1> QED
  BY <1>1, <1>2, <1>3, <1>6 DEF is

(* The n-th send is at one step. *)
LEMMA SendIsUnique ==
    ASSUME NEW s, NEW d, NEW n, NEW i \in Nat \ {0}, NEW j \in Nat \ {0},
           IsSend(s, d, n, i), IsSend(s, d, n, j)
    PROVE  i = j
<1>1. ASSUME NEW a \in Nat \ {0}, NEW b \in Nat \ {0}, IsSend(s, d, n, a), IsSend(s, d, n, b), a < b
      PROVE  FALSE
  <2>0. a \in Nat /\ a + 1 \in Nat /\ a + 1 <= b /\ a > 0 /\ b \in Nat
    BY <1>1
  <2>1. Net!Count(s, "send", d, a + 1) = n + 1 /\ n \in Nat
    <3>1. Does(s, a, "send", d) /\ Net!Count(s, "send", d, a) = n
      BY <1>1 DEF IsSend
    <3> QED
      BY <2>0, <3>1, CountFacts
  <2>2. Net!Count(s, "send", d, a + 1) <= Net!Count(s, "send", d, b)
    BY <2>0, CountFacts
  <2> QED
    BY <1>1, <2>1, <2>2 DEF IsSend
<1> QED
  BY <1>1

LEMMA ProgType ==
    ASSUME TypeOK
    PROVE  /\ \A c \in Core : /\ prog[c] \in Seq(Step) /\ Len(prog[c]) \in Nat
                              /\ DOMAIN prog[c] = 1 .. Len(prog[c])
                              /\ \A i \in 1 .. Len(prog[c]) : prog[c][i] \in Step
                              /\ pc[c] \in 1 .. Len(prog[c]) + 1 /\ pc[c] \in Nat \ {0}
           /\ Net!Core = Core
<1>1. \A c \in Core : prog[c] \in Seq(Step)
  BY ProgramsAssumption DEF TypeOK
<1>2. \A c \in Core : Len(prog[c]) \in Nat /\ DOMAIN prog[c] = 1 .. Len(prog[c])
                      /\ \A i \in 1 .. Len(prog[c]) : prog[c][i] \in Step
  BY <1>1
<1>3. \A c \in Core : pc[c] \in 1 .. Len(prog[c]) + 1 /\ pc[c] \in Nat \ {0}
  BY <1>2 DEF TypeOK
<1> QED
  BY <1>1, <1>2, <1>3 DEF Core, Net!Core

(* The answer to a receive is the tile of the send it is the turn of. *)
LEMMA AnswerIs ==
    ASSUME TypeOK, NEW c \in Core, NEW i, prog[c][i].peer \in Core, NEW j,
           IsSend(prog[c][i].peer, c, Net!Count(c, "recv", prog[c][i].peer, i), j)
    PROVE  Net!Answer(c, i) = [src |-> prog[c][i].peer, step |-> j]
<1> DEFINE q == prog[c][i].peer
           n == Net!Count(c, "recv", q, i)
           P(k) == /\ Does(q, k, "send", c)
                   /\ Net!Count(q, "send", c, k) = n
<1>1. DOMAIN prog[q] \subseteq Nat \ {0}
  BY ProgType
<1>2. j \in DOMAIN prog[q] /\ P(j)
  BY DEF IsSend
<1>3. \A k \in DOMAIN prog[q] : P(k) => k = j
  BY <1>1, <1>2, SendIsUnique DEF IsSend
<1>4. (CHOOSE k \in DOMAIN prog[q] : P(k)) = j
  BY <1>2, <1>3
<1> QED
  BY <1>4 DEF Net!Answer, Does

(* What a core counts as it moves on. *)
LEMMA CountsMove ==
    ASSUME TypeOK, NEW c \in Core, NEW p \in Core, NEW o, NEW q,
           ~AtEnd(c), pc' = [pc EXCEPT ![c] = @ + 1], UNCHANGED prog
    PROVE  Net!Count(p, o, q, pc[p])' = Net!Count(p, o, q, pc[p])
              + IF p = c /\ Does(c, pc[c], o, q) THEN 1 ELSE 0
<1>1. /\ pc'[p] = IF p = c THEN pc[p] + 1 ELSE pc[p]
      /\ pc[p] \in Nat /\ pc[p] > 0
  BY ProgType DEF TypeOK
<1>2. Net!Count(p, o, q, pc[p])' = Net!Count(p, o, q, pc'[p])
  BY DEF Net!Count
<1>3. Net!Count(p, o, q, pc[p]) \in Nat
  BY <1>1, CountFacts
<1>4. CASE p = c
  BY <1>1, <1>2, <1>3, <1>4, CountFacts
<1>5. CASE p # c
  BY <1>1, <1>2, <1>3, <1>5
<1> QED
  BY <1>4, <1>5

----------------------------------------------------------------------------
(***************************************************************************)
(* Closed positions.                                                       *)
(***************************************************************************)
LEMMA PositionType ==
    ASSUME TypeOK
    PROVE  \A at : at \in Net!Positions <=>
              at \in [Core -> Nat] /\ \A c \in Core : at[c] \in 1 .. Len(prog[c]) + 1
<1> DEFINE steps == UNION {DOMAIN prog[c] : c \in Core}
           most == Cardinality(steps)
<1>1. IsFiniteSet(steps)
  <2>1. IsFiniteSet(Core)
    BY NAssumption, FS_Interval DEF Core
  <2>2. IsFiniteSet({DOMAIN prog[c] : c \in Core})
    <3> DEFINE dom == [c \in Core |-> DOMAIN prog[c]]
               doms == {DOMAIN prog[c] : c \in Core}
    <3>1. dom \in Surjection(Core, doms)
      BY DEF Surjection
    <3> QED
      BY <2>1, <3>1, FS_Surjection
  <2>3. \A S \in {DOMAIN prog[c] : c \in Core} : IsFiniteSet(S)
    BY ProgType, FS_Interval
  <2> QED
    BY <2>2, <2>3, FS_UNION
<1>2. most \in Nat
  BY <1>1, FS_CardinalityType
<1>3. ASSUME NEW c \in Core PROVE Len(prog[c]) \in Nat /\ Len(prog[c]) <= most
  <2>1. Len(prog[c]) \in Nat /\ 1 .. Len(prog[c]) \subseteq steps
    BY ProgType
  <2>2. Cardinality(1 .. Len(prog[c])) <= most
    BY <1>1, <2>1, FS_Subset
  <2>3. Cardinality(1 .. Len(prog[c])) = Len(prog[c])
    BY <2>1, FS_Interval
  <2> QED
    BY <2>1, <2>2, <2>3
<1>4. \A at : at \in Net!Positions <=>
          at \in [Core -> 1 .. 1 + most] /\ \A c \in Core : at[c] <= Len(prog[c]) + 1
  BY ProgType, SameCardinality DEF Net!Positions
<1> HIDE DEF most
<1> QED
  BY <1>2, <1>3, <1>4

(* A closed position of a core, and the tiles it has no more of. *)
Halts(c, i, at) ==
    \/ prog[c][i].op = "fail"
    \/ /\ prog[c][i].op = "recv"
       /\ Net!Count(prog[c][i].peer, "send", c, at[prog[c][i].peer])
             <= Net!Count(c, "recv", prog[c][i].peer, i)

LEMMA ClosedIs ==
    ASSUME TypeOK
    PROVE  \A at : Net!Closed(at) <=> \A c \in Core : at[c] <= Len(prog[c]) => Halts(c, at[c], at)
BY ProgType DEF Net!Closed, Halts

(* Cores halt where they did when others are not as far. *)
LEMMA HaltsBefore ==
    ASSUME TypeOK, NEW c \in Core, NEW at \in Net!Positions, NEW less \in Net!Positions,
           \A d \in Core : less[d] <= at[d], at[c] <= Len(prog[c]), Halts(c, at[c], at)
    PROVE  Halts(c, at[c], less)
<1> DEFINE p == prog[c][at[c]].peer
<1>1. p \in Core
  <2>1. at[c] \in 1 .. Len(prog[c])
    BY PositionType, ProgType
  <2>2. prog[c][at[c]] \in Step
    BY <2>1, ProgType
  <2> QED
    BY <2>2 DEF Step
<1>2. at[p] \in Nat /\ less[p] \in Nat /\ less[p] <= at[p] /\ at[c] \in Nat
  BY <1>1, PositionType
<1>3. Net!Count(p, "send", c, less[p]) <= Net!Count(p, "send", c, at[p])
  BY <1>2, CountFacts
<1>4. /\ Net!Count(p, "send", c, less[p]) \in Nat /\ Net!Count(p, "send", c, at[p]) \in Nat
      /\ Net!Count(c, "recv", p, at[c]) \in Nat
  BY <1>2, CountFacts
<1> QED
  BY <1>3, <1>4 DEF Halts

(* There is a least closed vector of positions, and Outcome is it. *)
LEMMA OutcomeIsLeast ==
    ASSUME TypeOK
    PROVE  /\ Net!Outcome \in Net!Positions /\ Net!Closed(Net!Outcome)
           /\ \A at \in Net!Positions : Net!Closed(at) => \A c \in Core : Net!Outcome[c] <= at[c]
<1> DEFINE closed == {at \in Net!Positions : Net!Closed(at)}
           places(c) == {at[c] : at \in closed}
           least == [c \in Core |-> CHOOSE i \in places(c) : \A j \in places(c) : i <= j]
           top == [c \in Core |-> Len(prog[c]) + 1]
<1>1. top \in closed
  <2>1. top \in Net!Positions
    BY PositionType, ProgType
  <2>2. \A c \in Core : ~ (top[c] <= Len(prog[c]))
    BY ProgType
  <2> QED
    BY <2>1, <2>2, ClosedIs
<1>2. ASSUME NEW c \in Core
      PROVE  /\ least[c] \in places(c) /\ least[c] \in Nat
             /\ \A at \in closed : least[c] <= at[c]
  <2>1. places(c) \subseteq Nat /\ places(c) # {}
    BY <1>1, PositionType
  <2>2. \E i \in places(c) : \A j \in places(c) : i <= j
    BY <2>1, LeastOf
  <2>3. least[c] \in places(c) /\ \A j \in places(c) : least[c] <= j
    BY <2>2
  <2> QED
    BY <2>1, <2>3
<1> HIDE DEF least, top
<1>3. least \in Net!Positions
  <2>1. least \in [Core -> Nat]
    <3>1. least = [c \in Core |-> least[c]]
      BY DEF least
    <3> QED
      BY <1>2, <3>1
  <2>2. \A c \in Core : least[c] \in 1 .. Len(prog[c]) + 1
    BY <1>2, PositionType
  <2> QED
    BY <2>1, <2>2, PositionType
<1>4. ASSUME NEW c \in Core, least[c] <= Len(prog[c]) PROVE Halts(c, least[c], least)
  <2>1. PICK at \in closed : least[c] = at[c]
    BY <1>2
  <2>2. Halts(c, at[c], at) /\ at[c] <= Len(prog[c])
    BY <1>4, <2>1, ClosedIs
  <2>3. \A d \in Core : least[d] <= at[d]
    BY <1>2
  <2> QED
    BY <1>3, <2>1, <2>2, <2>3, HaltsBefore
<1>5. least \in closed
  BY <1>3, <1>4, ClosedIs
<1>6. \A at \in closed : \A c \in Core : least[c] <= at[c]
  BY <1>2
<1> DEFINE IsLeast(at) == \A other \in closed : \A c \in Core : at[c] <= other[c]
<1>7. Net!Outcome = CHOOSE at \in closed : IsLeast(at)
  BY ProgType DEF Net!Outcome
<1>8. \E at \in closed : IsLeast(at)
  BY <1>5, <1>6
<1> HIDE DEF IsLeast
<1>9. Net!Outcome \in closed /\ IsLeast(Net!Outcome)
  BY <1>7, <1>8
<1> QED
  BY <1>9 DEF IsLeast

----------------------------------------------------------------------------
(***************************************************************************)
(* The steps.                                                              *)
(***************************************************************************)
LEMMA CoreStep ==
    ASSUME IndInv, NEW c \in Core, ~AtEnd(c)
    PROVE  /\ Peer(c) \in Core /\ pc[c] \in 1 .. Len(prog[c]) /\ pc[c] \in Nat \ {0}
           /\ prog[c][pc[c]] \in Step
           /\ \A o, q : Does(c, pc[c], o, q) <=> At(c, o) /\ Peer(c) = q
<1>1. TypeOK
  BY DEF IndInv
<1>2. Peer(c) \in Core /\ pc[c] \in 1 .. Len(prog[c])
  BY <1>1, StepType
<1>3. prog[c][pc[c]] \in Step
  BY <1>1, <1>2, ProgType
<1>4. ASSUME NEW st \in Step, NEW o, NEW q PROVE st = [op |-> o, peer |-> q] <=> st.op = o /\ st.peer = q
  BY DEF Step
<1>5. ASSUME NEW o, NEW q PROVE Does(c, pc[c], o, q) <=> At(c, o) /\ Peer(c) = q
  <2> DEFINE st == prog[c][pc[c]]
  <2>1. st \in Step
    BY <1>3
  <2>2. Does(c, pc[c], o, q) <=> st = [op |-> o, peer |-> q]
    BY DEF Does
  <2>3. At(c, o) <=> st.op = o
    BY DEF At
  <2>4. Peer(c) = st.peer
    BY DEF Peer
  <2> HIDE DEF st
  <2> QED
    BY <1>4, <2>1, <2>2, <2>3, <2>4
<1>6. pc[c] \in Nat \ {0}
  BY <1>1, ProgType
<1> QED
  BY <1>2, <1>3, <1>5, <1>6

(* Sends and receives of one step, from one to the other core. *)
LEMMA TalliesMove ==
    ASSUME IndInv, NEW c \in Core, ~AtEnd(c), pc' = [pc EXCEPT ![c] = @ + 1], prog' = prog,
           NEW s \in Core, NEW d \in Core
    PROVE  /\ Sent(s, d)' = IF s = c /\ At(c, "send") /\ Peer(c) = d THEN Sent(s, d) + 1 ELSE Sent(s, d)
           /\ Taken(d, s)' = IF d = c /\ At(c, "recv") /\ Peer(c) = s THEN Taken(d, s) + 1 ELSE Taken(d, s)
<1>1. TypeOK
  BY DEF IndInv
<1>2. Sent(s, d) \in Nat /\ Taken(d, s) \in Nat
  BY <1>1, ProgType, CountFacts DEF Sent, Taken
<1>3. Sent(s, d)' = Sent(s, d) + (IF s = c /\ Does(c, pc[c], "send", d) THEN 1 ELSE 0)
  BY <1>1, CountsMove DEF Sent
<1>4. Taken(d, s)' = Taken(d, s) + (IF d = c /\ Does(c, pc[c], "recv", s) THEN 1 ELSE 0)
  BY <1>1, CountsMove DEF Taken
<1>5. /\ Does(c, pc[c], "send", d) <=> At(c, "send") /\ Peer(c) = d
      /\ Does(c, pc[c], "recv", s) <=> At(c, "recv") /\ Peer(c) = s
  BY CoreStep
<1> QED
  BY <1>2, <1>3, <1>4, <1>5

LEMMA TallyType ==
    ASSUME TypeOK, NEW s \in Core, NEW d \in Core
    PROVE  Sent(s, d) \in Nat /\ Taken(d, s) \in Nat
BY ProgType, CountFacts DEF Sent, Taken

LEMMA BetweenFixed ==
    ASSUME prog' = prog
    PROVE  \A q, s, d, first, next : Between(q, s, d, first, next)' <=> Between(q, s, d, first, next)
<1>1. \A s, d, n, j : IsSend(s, d, n, j)' <=> IsSend(s, d, n, j)
  BY DEF IsSend, Does, Net!Count
<1> QED
  BY <1>1 DEF Between

LEMMA BetweenAppend ==
    ASSUME NEW s \in Core, NEW d, NEW first \in Nat, NEW next \in Nat, NEW j \in Nat \ {0},
           NEW q \in Seq(Tile), Between(q, s, d, first, next), IsSend(s, d, next, j)
    PROVE  Between(Append(q, [src |-> s, step |-> j]), s, d, first, next + 1)
<1> DEFINE t == [src |-> s, step |-> j]
           new == Append(q, t)
<1>1. t \in Tile
  BY DEF Tile
<1>2. /\ DOMAIN new = 1 .. Len(q) + 1 /\ DOMAIN q = 1 .. Len(q) /\ Len(q) \in Nat
      /\ \A i \in DOMAIN q : new[i] = q[i]
      /\ new[Len(q) + 1] = t
  BY <1>1, AppendFacts
<1>3. Len(new) = Len(q) + 1 /\ Len(q) = next - first
  <2>1. Len(q) = next - first
    BY DEF Between
  <2>2. \A e \in Tile : Len(Append(q, e)) = Len(q) + 1
    OBVIOUS
  <2> QED
    BY <1>1, <2>1, <2>2
<1> HIDE DEF new
<1>4. ASSUME NEW k \in DOMAIN new
      PROVE  \E i : IsSend(s, d, first + k - 1, i) /\ new[k] = [src |-> s, step |-> i]
  <2>1. CASE k \in DOMAIN q
    <3>1. PICK i : IsSend(s, d, first + k - 1, i) /\ q[k] = [src |-> s, step |-> i]
      BY <2>1 DEF Between
    <3>2. new[k] = [src |-> s, step |-> i]
      BY <1>2, <2>1, <3>1
    <3> QED
      BY <3>1, <3>2
  <2>2. CASE k = Len(q) + 1
    <3>1. first + k - 1 = next
      BY <1>2, <1>3, <2>2
    <3>2. new[k] = [src |-> s, step |-> j] /\ IsSend(s, d, first + k - 1, j)
      BY <1>2, <2>2, <3>1
    <3> QED
      BY <3>2
  <2> QED
    BY <1>2, <2>1, <2>2
<1>5. Len(new) = (next + 1) - first
  BY <1>2, <1>3
<1> QED
  BY <1>4, <1>5 DEF Between, new

LEMMA BetweenTail ==
    ASSUME NEW s, NEW d, NEW first \in Nat, NEW next \in Nat,
           NEW q \in Seq(Tile), q # <<>>, Between(q, s, d, first, next)
    PROVE  Between(Tail(q), s, d, first + 1, next)
<1> DEFINE new == Tail(q)
<1>1. /\ Len(new) = Len(q) - 1 /\ Len(q) \in Nat /\ Len(q) = next - first
      /\ \A k \in DOMAIN new : k \in Nat /\ k + 1 \in DOMAIN q /\ new[k] = q[k + 1]
  <2>1. Len(new) = Len(q) - 1 /\ Len(q) \in Nat
    OBVIOUS
  <2> QED
    BY <2>1, HeadTail DEF Between
<1> HIDE DEF new
<1>2. ASSUME NEW k \in DOMAIN new
      PROVE  \E i : IsSend(s, d, (first + 1) + k - 1, i) /\ new[k] = [src |-> s, step |-> i]
  <2>1. (first + 1) + k - 1 = first + (k + 1) - 1
    BY <1>1
  <2>2. PICK i : IsSend(s, d, first + (k + 1) - 1, i) /\ q[k + 1] = [src |-> s, step |-> i]
    BY <1>1 DEF Between
  <2>3. new[k] = [src |-> s, step |-> i] /\ IsSend(s, d, (first + 1) + k - 1, i)
    BY <1>1, <2>1, <2>2
  <2> QED
    BY <2>3
<1>3. Len(new) = next - (first + 1)
  BY <1>1
<1> QED
  BY <1>2, <1>3 DEF Between, new

LEMMA QueuesStep ==
    ASSUME IndInv, QueuesAreCounted, [Net!Next]_(Net!vars)
    PROVE  QueuesAreCounted'
<1>1. TypeOK /\ Net!Core = Core /\ Net!Channel = Channel
  BY ProgType DEF IndInv, Channel, Net!Channel
<1>0. ASSUME NEW s \in Core, NEW d \in Core
      PROVE  /\ <<s, d>> \in Channel /\ messages[<<s, d>>] \in Seq(Tile)
             /\ Sent(s, d) \in Nat /\ Taken(d, s) \in Nat
             /\ Between(messages[<<s, d>>], s, d, Taken(d, s), Sent(s, d))
  BY <1>1, TallyType DEF Channel, TypeOK, QueuesAreCounted, QueueIsCounted
<1>2. CASE Net!Call
  <2>1. ASSUME NEW s \in Core, NEW d \in Core PROVE QueueIsCounted(s, d)'
    <3>1. messages'[<<s, d>>] = <<>> /\ pc'[s] = 1 /\ pc'[d] = 1
      BY <1>0, <1>1, <1>2 DEF Net!Call, Net!NoTiles
    <3>2. \A c, o, q : Net!Count(c, o, q, 1)' = 0
      <4>1. \A c, o, q : Net!Count(c, o, q, 1)' = Cardinality({})
        BY SameCardinality DEF Net!Count
      <4> QED
        BY <4>1, FS_EmptySet
    <3>3. Sent(s, d)' = 0 /\ Taken(d, s)' = 0
      BY <3>1, <3>2 DEF Sent, Taken, Net!Count
    <3> QED
      BY <3>1, <3>3 DEF QueueIsCounted, Between
  <2> QED
    BY <2>1 DEF QueuesAreCounted
<1>3. CASE UNCHANGED <<prog, pc, messages>>
  <2>1. \A s, d : Sent(s, d)' = Sent(s, d) /\ Taken(d, s)' = Taken(d, s)
    BY <1>3 DEF Sent, Taken, Net!Count
  <2> QED
    BY <1>0, <1>3, <2>1, BetweenFixed DEF QueuesAreCounted, QueueIsCounted
<1>4. ASSUME NEW c \in Core, Net!Work(c) PROVE QueuesAreCounted'
  <2>1. /\ ~AtEnd(c) /\ pc' = [pc EXCEPT ![c] = @ + 1] /\ prog' = prog /\ messages' = messages
        /\ ~At(c, "send") /\ ~At(c, "recv")
    BY <1>4 DEF Net!Work, Net!At, Net!AtEnd, At, AtEnd
  <2>2. ASSUME NEW s \in Core, NEW d \in Core PROVE QueueIsCounted(s, d)'
    <3>1. Sent(s, d)' = Sent(s, d) /\ Taken(d, s)' = Taken(d, s)
      BY <2>1, TalliesMove
    <3> QED
      BY <1>0, <2>1, <3>1, BetweenFixed DEF QueueIsCounted
  <2> QED
    BY <2>2 DEF QueuesAreCounted
<1>5. ASSUME NEW c \in Core, Net!Send(c) PROVE QueuesAreCounted'
  <2> DEFINE t == [src |-> c, step |-> pc[c]]
             ch == <<c, Peer(c)>>
  <2>1. /\ ~AtEnd(c) /\ pc' = [pc EXCEPT ![c] = @ + 1] /\ prog' = prog
        /\ At(c, "send") /\ ~At(c, "recv") /\ messages' = [messages EXCEPT ![ch] = Append(@, t)]
    BY <1>5 DEF Net!Send, Net!At, Net!AtEnd, Net!Peer, At, AtEnd, Peer
  <2>2. /\ Peer(c) \in Core /\ ch \in Channel /\ pc[c] \in Nat \ {0}
        /\ IsSend(c, Peer(c), Sent(c, Peer(c)), pc[c])
    <3>1. Does(c, pc[c], "send", Peer(c)) /\ Peer(c) \in Core /\ pc[c] \in DOMAIN prog[c]
          /\ pc[c] \in Nat \ {0}
      BY <1>1, <2>1, CoreStep, ProgType
    <3> QED
      BY <3>1 DEF Channel, IsSend, Sent
  <2>3. ASSUME NEW s \in Core, NEW d \in Core PROVE QueueIsCounted(s, d)'
    <3> DEFINE q == messages[<<s, d>>]
    <3>1. /\ Taken(d, s)' = Taken(d, s)
          /\ Sent(s, d)' = IF s = c /\ Peer(c) = d THEN Sent(s, d) + 1 ELSE Sent(s, d)
      BY <2>1, TalliesMove
    <3>2. messages \in [Channel -> Seq(Tile)]
      BY <1>1 DEF TypeOK
    <3>3. CASE s = c /\ Peer(c) = d
      <4>1. messages'[<<s, d>>] = Append(q, [src |-> s, step |-> pc[c]])
        BY <1>0, <2>1, <3>2, <3>3
      <4>2. Between(messages'[<<s, d>>], s, d, Taken(d, s), Sent(s, d) + 1)
        BY <1>0, <2>2, <3>3, <4>1, BetweenAppend
      <4> QED
        BY <2>1, <3>1, <3>3, <4>2, BetweenFixed DEF QueueIsCounted
    <3>4. CASE ~(s = c /\ Peer(c) = d)
      <4>1. messages'[<<s, d>>] = q
        BY <1>0, <2>1, <2>2, <3>2, <3>4
      <4> QED
        BY <1>0, <2>1, <3>1, <3>4, <4>1, BetweenFixed DEF QueueIsCounted
    <3> QED
      BY <3>3, <3>4
  <2> QED
    BY <2>3 DEF QueuesAreCounted
<1>6. ASSUME NEW c \in Core, Net!Recv(c) PROVE QueuesAreCounted'
  <2> DEFINE ch == <<Peer(c), c>>
  <2>1. /\ ~AtEnd(c) /\ pc' = [pc EXCEPT ![c] = @ + 1] /\ prog' = prog
        /\ At(c, "recv") /\ ~At(c, "send") /\ messages' = [messages EXCEPT ![ch] = Tail(@)]
        /\ messages[ch] # <<>>
    BY <1>6 DEF Net!Recv, Net!At, Net!AtEnd, Net!Peer, Net!Stuck, At, AtEnd, Peer
  <2>2. Peer(c) \in Core /\ ch \in Channel
    BY <2>1, CoreStep DEF Channel
  <2>3. ASSUME NEW s \in Core, NEW d \in Core PROVE QueueIsCounted(s, d)'
    <3> DEFINE q == messages[<<s, d>>]
    <3>1. /\ Sent(s, d)' = Sent(s, d)
          /\ Taken(d, s)' = IF d = c /\ Peer(c) = s THEN Taken(d, s) + 1 ELSE Taken(d, s)
      BY <2>1, TalliesMove
    <3>2. messages \in [Channel -> Seq(Tile)]
      BY <1>1 DEF TypeOK
    <3>3. CASE d = c /\ Peer(c) = s
      <4>1. messages'[<<s, d>>] = Tail(q) /\ q # <<>>
        BY <1>0, <2>1, <3>2, <3>3
      <4>2. Between(messages'[<<s, d>>], s, d, Taken(d, s) + 1, Sent(s, d))
        BY <1>0, <4>1, BetweenTail
      <4> QED
        BY <2>1, <3>1, <3>3, <4>2, BetweenFixed DEF QueueIsCounted
    <3>4. CASE ~(d = c /\ Peer(c) = s)
      <4>1. messages'[<<s, d>>] = q
        BY <1>0, <2>1, <2>2, <3>2, <3>4
      <4> QED
        BY <1>0, <2>1, <3>1, <3>4, <4>1, BetweenFixed DEF QueueIsCounted
    <3> QED
      BY <3>3, <3>4
  <2> QED
    BY <2>3 DEF QueuesAreCounted
<1> QED
  BY <1>1, <1>2, <1>3, <1>4, <1>5, <1>6 DEF Net!Next, Net!vars, Net!Refuse, Net!Conclude

LEMMA AnswerFixed ==
    ASSUME prog' = prog
    PROVE  \A c, i : Net!Answer(c, i)' = Net!Answer(c, i)
BY DEF Net!Answer, Net!Count

LEMMA RecvsType ==
    ASSUME TypeOK, NEW c \in Core
    PROVE  IsFiniteSet(Recvs(c)) /\ Cardinality(Recvs(c)) \in Nat
<1>1. pc[c] \in Nat /\ IsFiniteSet(1 .. pc[c] - 1) /\ Recvs(c) \subseteq 1 .. pc[c] - 1
  BY ProgType, FS_Interval DEF Recvs
<1> QED
  BY <1>1, FS_Subset, FS_CardinalityType

(* A receive returns the answer the programs determine. *)
LEMMA RecvIsAnswer ==
    ASSUME IndInv, QueuesAreCounted, NEW c \in Core, ~AtEnd(c), At(c, "recv"),
           messages[<<Peer(c), c>>] # <<>>
    PROVE  Head(messages[<<Peer(c), c>>]) = Net!Answer(c, pc[c])
<1> DEFINE p == Peer(c)
           q == messages[<<p, c>>]
<1>1. TypeOK /\ p \in Core
  BY CoreStep DEF IndInv
<1>2. q \in Seq(Tile) /\ Taken(c, p) \in Nat /\ Between(q, p, c, Taken(c, p), Sent(p, c))
  BY <1>1, TallyType DEF Channel, TypeOK, QueuesAreCounted, QueueIsCounted
<1>3. Head(q) = q[1] /\ 1 \in DOMAIN q
  BY <1>2, HeadTail
<1>4. PICK j : IsSend(p, c, Taken(c, p) + 1 - 1, j) /\ q[1] = [src |-> p, step |-> j]
  BY <1>2, <1>3 DEF Between
<1>5. Taken(c, p) + 1 - 1 = Net!Count(c, "recv", p, pc[c]) /\ p = prog[c][pc[c]].peer
  BY <1>2 DEF Taken, Peer
<1>6. Net!Answer(c, pc[c]) = [src |-> p, step |-> j]
  <2> DEFINE w == prog[c][pc[c]].peer
  <2>1. w \in Core /\ IsSend(w, c, Net!Count(c, "recv", w, pc[c]), j)
    BY <1>1, <1>4, <1>5
  <2>2. Net!Answer(c, pc[c]) = [src |-> w, step |-> j]
    BY <1>1, <2>1, AnswerIs
  <2> QED
    BY <1>5, <2>2
<1> QED
  BY <1>3, <1>4, <1>6

LEMMA AnswersStep ==
    ASSUME IndInv, QueuesAreCounted, AnswersAreDetermined, [Net!Next]_(Net!vars)
    PROVE  AnswersAreDetermined'
<1> DEFINE Answered(c) ==
             /\ Len(got[c]) = Cardinality(Recvs(c))
             /\ \A i \in Recvs(c) : got[c][Cardinality(Recvs(c) \cap 1 .. i)] = Net!Answer(c, i)
<1>1. TypeOK /\ Net!Core = Core
  BY ProgType DEF IndInv
<1>2. CASE Net!Call
  <2>1. ASSUME NEW c \in Core PROVE Answered(c)'
    <3>1. pc'[c] = 1 /\ got'[c] = <<>>
      BY <1>1, <1>2 DEF Net!Call
    <3>2. Recvs(c)' = {}
      BY <3>1 DEF Recvs
    <3> QED
      BY <3>1, <3>2, FS_EmptySet
  <2> QED
    BY <2>1 DEF AnswersAreDetermined
<1>3. ASSUME NEW c \in Core, Answered(c), prog' = prog, got'[c] = got[c], Recvs(c)' = Recvs(c)
      PROVE  Answered(c)'
  BY <1>3, AnswerFixed
<1>4. CASE UNCHANGED <<prog, pc, got>>
  <2>1. \A c : Recvs(c)' = Recvs(c)
    BY <1>4 DEF Recvs
  <2> QED
    BY <1>3, <1>4, <2>1 DEF AnswersAreDetermined
<1>5. ASSUME NEW c \in Core, NEW d \in Core, ~AtEnd(c), pc' = [pc EXCEPT ![c] = @ + 1], prog' = prog
      PROVE  Recvs(d)' = IF d = c /\ At(c, "recv") THEN Recvs(d) \cup {pc[c]} ELSE Recvs(d)
  <2>1. pc[d] \in Nat \ {0} /\ pc'[d] = IF d = c THEN pc[d] + 1 ELSE pc[d]
    BY <1>1, <1>5, ProgType DEF TypeOK
  <2>2. Recvs(d)' = {i \in 1 .. pc'[d] - 1 : prog[d][i].op = "recv"}
    BY <1>5 DEF Recvs
  <2>3. CASE d = c
    <3>1. pc'[d] - 1 = pc[c] /\ At(c, "recv") <=> prog[d][pc[c]].op = "recv"
      BY <1>5, <2>1, <2>3 DEF At
    <3> QED
      BY <1>5, <2>1, <2>2, <2>3, <3>1 DEF Recvs, At
  <2> QED
    BY <2>1, <2>2, <2>3 DEF Recvs
<1>6. ASSUME NEW c \in Core, Net!Work(c) \/ Net!Send(c) PROVE AnswersAreDetermined'
  <2>1. /\ ~AtEnd(c) /\ pc' = [pc EXCEPT ![c] = @ + 1] /\ prog' = prog /\ got' = got
        /\ ~At(c, "recv")
    BY <1>6 DEF Net!Work, Net!Send, Net!At, Net!AtEnd, At, AtEnd
  <2>2. \A d \in Core : Recvs(d)' = Recvs(d)
    BY <1>5, <2>1
  <2> QED
    BY <1>3, <2>1, <2>2 DEF AnswersAreDetermined
<1>7. ASSUME NEW c \in Core, Net!Recv(c) PROVE AnswersAreDetermined'
  <2> DEFINE t == Head(messages[<<Peer(c), c>>])
             r == Recvs(c)
             i0 == pc[c]
  <2>1. /\ ~AtEnd(c) /\ pc' = [pc EXCEPT ![c] = @ + 1] /\ prog' = prog /\ At(c, "recv")
        /\ got' = [got EXCEPT ![c] = Append(@, t)] /\ messages[<<Peer(c), c>>] # <<>>
    BY <1>7 DEF Net!Recv, Net!At, Net!AtEnd, Net!Peer, Net!Stuck, At, AtEnd, Peer
  <2>2. t \in Tile /\ t = Net!Answer(c, i0)
    <3>1. Peer(c) \in Core
      BY <2>1, CoreStep
    <3>2. messages[<<Peer(c), c>>] \in Seq(Tile)
      BY <1>1, <3>1 DEF TypeOK, Channel
    <3> QED
      BY <2>1, <3>2, RecvIsAnswer
  <2>3. got \in [Core -> Seq(Tile)] /\ got[c] \in Seq(Tile)
    BY <1>1 DEF TypeOK
  <2>4. ASSUME NEW d \in Core, d # c PROVE Answered(d)'
    <3>1. Recvs(d)' = Recvs(d) /\ got'[d] = got[d]
      BY <1>5, <2>1, <2>3, <2>4
    <3> QED
      BY <1>3, <2>1, <3>1 DEF AnswersAreDetermined
  <2>5. Answered(c)'
    <3>1. Recvs(c)' = r \cup {i0} /\ got'[c] = Append(got[c], t)
      BY <1>5, <2>1, <2>3
    <3>2. /\ i0 \notin r /\ i0 \in Nat \ {0} /\ r \subseteq 1 .. i0 - 1
          /\ IsFiniteSet(r) /\ Cardinality(r) \in Nat
      BY <1>1, ProgType, RecvsType DEF Recvs
    <3>3. Cardinality(r \cup {i0}) = Cardinality(r) + 1
      BY <3>2, FS_AddElement
    <3>4. Len(got[c]) = Cardinality(r) /\ \A i \in r : got[c][Cardinality(r \cap 1 .. i)] = Net!Answer(c, i)
      BY DEF AnswersAreDetermined
    <3>5. /\ Len(Append(got[c], t)) = Len(got[c]) + 1
          /\ \A k \in 1 .. Len(got[c]) : Append(got[c], t)[k] = got[c][k]
          /\ Append(got[c], t)[Len(got[c]) + 1] = t
      BY <2>2, <2>3
    <3>6. ASSUME NEW i \in r
          PROVE  Append(got[c], t)[Cardinality((r \cup {i0}) \cap 1 .. i)] = Net!Answer(c, i)
      <4>1. (r \cup {i0}) \cap 1 .. i = r \cap 1 .. i /\ i \in r \cap 1 .. i
        BY <3>2
      <4>2. Cardinality(r \cap 1 .. i) \in 1 .. Len(got[c])
        <5>1. r \cap 1 .. i \subseteq r
          OBVIOUS
        <5>2. /\ IsFiniteSet(r \cap 1 .. i) /\ Cardinality(r \cap 1 .. i) \in Nat
              /\ Cardinality(r \cap 1 .. i) <= Cardinality(r)
          BY <3>2, <5>1, FS_Subset, FS_CardinalityType
        <5>3. Cardinality(r \cap 1 .. i) # 0
          BY <4>1, <5>2, FS_EmptySet
        <5> QED
          BY <3>2, <3>4, <5>2, <5>3
      <4> QED
        BY <3>4, <3>5, <4>1, <4>2
    <3>7. Append(got[c], t)[Cardinality((r \cup {i0}) \cap 1 .. i0)] = Net!Answer(c, i0)
      <4>1. (r \cup {i0}) \cap 1 .. i0 = r \cup {i0}
        BY <3>2
      <4> QED
        BY <2>2, <3>3, <3>4, <3>5, <4>1
    <3>8. \A i : Net!Answer(c, i)' = Net!Answer(c, i)
      BY <2>1, AnswerFixed
    <3> HIDE DEF r, i0, t
    <3>9. \A i \in r \cup {i0} :
             Append(got[c], t)[Cardinality((r \cup {i0}) \cap 1 .. i)] = Net!Answer(c, i)
      BY <3>6, <3>7
    <3>10. Len(Append(got[c], t)) = Cardinality(r \cup {i0})
      BY <3>3, <3>4, <3>5
    <3> QED
      BY <3>1, <3>8, <3>9, <3>10
  <2> QED
    BY <2>4, <2>5 DEF AnswersAreDetermined
<1> QED
  BY <1>1, <1>2, <1>4, <1>6, <1>7 DEF Net!Next, Net!vars, Net!Refuse, Net!Conclude

----------------------------------------------------------------------------
(* A core that stands where nothing could move does not move. *)
LEMMA HaltedStays ==
    ASSUME IndInv, QueuesAreCounted, NEW at \in Net!Positions, Net!Closed(at), NEW c \in Core,
           \A d \in Core : pc[d] <= at[d], pc[c] = at[c], ~AtEnd(c)
    PROVE  At(c, "fail") \/ (At(c, "recv") /\ messages[<<Peer(c), c>>] = <<>>)
<1> DEFINE p == Peer(c)
           q == messages[<<p, c>>]
<1>1. TypeOK /\ p \in Core /\ pc[c] <= Len(prog[c]) /\ pc[c] \in Nat
  BY CoreStep, ProgType DEF IndInv
<1>2. Halts(c, at[c], at)
  BY <1>1, ClosedIs
<1>3. CASE At(c, "fail")
  BY <1>3
<1>4. CASE /\ At(c, "recv")
           /\ Net!Count(p, "send", c, at[p]) <= Net!Count(c, "recv", p, pc[c])
  <2>1. q \in Seq(Tile) /\ Taken(c, p) \in Nat /\ Sent(p, c) \in Nat
        /\ Between(q, p, c, Taken(c, p), Sent(p, c))
    BY <1>1, TallyType DEF Channel, TypeOK, QueuesAreCounted, QueueIsCounted
  <2>2. pc[p] \in Nat /\ at[p] \in Nat /\ pc[p] <= at[p]
    BY <1>1, PositionType, ProgType
  <2>3. Sent(p, c) <= Net!Count(p, "send", c, at[p]) /\ Net!Count(p, "send", c, at[p]) \in Nat
    BY <2>2, CountFacts DEF Sent
  <2>4. Sent(p, c) <= Taken(c, p)
    BY <1>4, <2>1, <2>3 DEF Taken
  <2>5. Len(q) = Sent(p, c) - Taken(c, p) /\ Len(q) \in Nat
    BY <2>1 DEF Between
  <2>6. Len(q) = 0
    BY <2>1, <2>4, <2>5
  <2> QED
    BY <1>4, <2>1, <2>6
<1> QED
  BY <1>1, <1>2, <1>3, <1>4 DEF Halts, At, Peer

LEMMA WithinStep ==
    ASSUME IndInv, QueuesAreCounted, WithinClosed, [Net!Next]_(Net!vars)
    PROVE  WithinClosed'
<1>1. TypeOK /\ Net!Core = Core /\ prog' = prog
  BY ProgType DEF IndInv, Net!Next, Net!vars, Net!Call, Net!Refuse, Net!Conclude, Net!Send, Net!Recv, Net!Work
<1>2. Net!Positions' = Net!Positions /\ \A at : Net!Closed(at)' <=> Net!Closed(at)
  BY <1>1 DEF Net!Positions, Net!Closed, Net!Count
<1> SUFFICES ASSUME NEW at \in Net!Positions, Net!Closed(at) PROVE \A c \in Core : pc'[c] <= at[c]
  BY <1>2 DEF WithinClosed
<1>3. ASSUME NEW c \in Core PROVE pc[c] <= at[c] /\ at[c] \in Nat \ {0} /\ pc[c] \in Nat
  BY <1>1, PositionType, ProgType DEF WithinClosed
<1>4. CASE Net!Call
  BY <1>1, <1>3, <1>4 DEF Net!Call
<1>5. CASE UNCHANGED pc
  BY <1>3, <1>5
<1>6. ASSUME NEW c \in Core, Net!Work(c) \/ Net!Send(c) \/ Net!Recv(c), NEW d \in Core
      PROVE  pc'[d] <= at[d]
  <2>1. /\ ~AtEnd(c) /\ pc' = [pc EXCEPT ![c] = @ + 1] /\ ~At(c, "fail")
        /\ At(c, "recv") => messages[<<Peer(c), c>>] # <<>>
    BY <1>6 DEF Net!Work, Net!Send, Net!Recv, Net!At, Net!AtEnd, Net!Peer, Net!Stuck, At, AtEnd, Peer
  <2>2. pc[c] # at[c]
    BY <1>3, <2>1, HaltedStays
  <2>3. pc'[d] = IF d = c THEN pc[d] + 1 ELSE pc[d]
    BY <1>1, <2>1 DEF TypeOK
  <2> QED
    BY <1>3, <2>2, <2>3
<1> QED
  BY <1>1, <1>4, <1>5, <1>6 DEF Net!Next, Net!vars, Net!Refuse, Net!Conclude

LEMMA VerdictStep ==
    ASSUME IndInv, VerdictIsRight, [Net!Next]_(Net!vars)
    PROVE  VerdictIsRight'
<1>1. Net!Core = Core /\ \A c : Net!AtEnd(c) = AtEnd(c) /\ \A o : Net!At(c, o) = At(c, o)
  BY ProgType DEF IndInv, Net!AtEnd, Net!At, AtEnd, At
<1>2. phase' \in {"failed", "done", "deadlock"} => ~Active'
  BY DEF Active
<1> DEFINE verdict == IF Active THEN "running" ELSE phase
<1>3. CASE Net!Call \/ \E c \in Core : Net!Send(c) \/ Net!Recv(c) \/ Net!Work(c)
  <2>1. verdict' = "running"
    BY <1>3 DEF Net!Call, Net!Send, Net!Recv, Net!Work
  <2>2. phase' \notin {"failed", "done", "deadlock"}
    BY <1>2, <2>1
  <2> QED
    BY <2>2 DEF VerdictIsRight
<1>4. CASE Net!Refuse
  <2>1. verdict' \in {"empty", "rejected"}
    BY <1>4 DEF Net!Refuse
  <2>2. phase' \notin {"failed", "done", "deadlock"}
    BY <1>2, <2>1
  <2> QED
    BY <2>2 DEF VerdictIsRight
<1>5. CASE UNCHANGED <<prog, pc, messages, verdict>>
  <2>1. phase' \in {"failed", "done", "deadlock"} => phase' = phase
    BY <1>2, <1>5 DEF Active
  <2> QED
    BY <1>5, <2>1 DEF VerdictIsRight, AtEnd, At, Net!Stuck, Net!At, Net!AtEnd, Net!Peer
<1>6. CASE Net!Conclude
  <2>1. /\ UNCHANGED <<prog, pc, messages>>
        /\ verdict' = CASE \E c \in Core : At(c, "fail") -> "failed"
                        [] \A c \in Core : AtEnd(c) -> "done"
                        [] OTHER -> "deadlock"
        /\ \/ \E c \in Core : At(c, "fail")
           \/ \A c \in Core : AtEnd(c) \/ Net!Stuck(c)
    BY <1>1, <1>6 DEF Net!Conclude
  <2>2. \A c : /\ AtEnd(c)' = AtEnd(c) /\ At(c, "fail")' = At(c, "fail")
               /\ Net!Stuck(c)' = Net!Stuck(c)
    BY <2>1 DEF AtEnd, At, Net!Stuck, Net!At, Net!AtEnd, Net!Peer
  <2>3. phase' \in {"failed", "done", "deadlock"} => verdict' = phase'
    BY <1>2
  <2>4. \A c : AtEnd(c) => ~At(c, "fail")
    BY DEF At
  <2> QED
    BY <2>1, <2>2, <2>3, <2>4 DEF VerdictIsRight
<1> QED
  BY <1>1, <1>3, <1>4, <1>5, <1>6 DEF Net!Next, Net!vars

----------------------------------------------------------------------------
(* Where the verdict leaves the cores is the outcome of the programs.      *)

(* Where a call ends with a result or a deadlock report nothing can move. *)
LEMMA EndIsClosed ==
    ASSUME IndInv, OutcomeInv, phase \in {"done", "deadlock"}
    PROVE  pc = Net!Outcome
<1>1. TypeOK /\ pc \in Net!Positions
  BY PositionType, ProgType DEF IndInv, TypeOK
<1>2. ASSUME NEW c \in Core, pc[c] <= Len(prog[c]) PROVE Halts(c, pc[c], pc)
  <2>1. ~AtEnd(c)
    BY <1>1, <1>2, ProgType DEF AtEnd
  <2>2. Net!Stuck(c)
    BY <2>1 DEF OutcomeInv, VerdictIsRight
  <2>3. At(c, "recv") /\ messages[<<Peer(c), c>>] = <<>>
    BY <2>2 DEF Net!Stuck, Net!At, Net!AtEnd, Net!Peer, At, AtEnd, Peer
  <2> DEFINE p == Peer(c)
             q == messages[<<p, c>>]
  <2>4. p \in Core
    BY <2>1, CoreStep
  <2>5. Taken(c, p) \in Nat /\ Sent(p, c) \in Nat /\ Between(q, p, c, Taken(c, p), Sent(p, c))
    BY <1>1, <2>4, TallyType DEF OutcomeInv, QueuesAreCounted, QueueIsCounted
  <2>6. Sent(p, c) <= Taken(c, p)
    <3>1. Len(<<>>) = Sent(p, c) - Taken(c, p)
      BY <2>3, <2>5 DEF Between
    <3> QED
      BY <2>5, <3>1
  <2> QED
    BY <2>3, <2>6 DEF Halts, Sent, Taken, At, Peer
<1>3. Net!Closed(pc)
  BY <1>1, <1>2, ClosedIs
<1>4. Net!Outcome \in Net!Positions /\ \A c \in Core : Net!Outcome[c] <= pc[c] /\ pc[c] <= Net!Outcome[c]
  BY <1>1, <1>3, OutcomeIsLeast DEF OutcomeInv, WithinClosed
<1>5. \A c \in Core : Net!Outcome[c] \in Nat /\ pc[c] \in Nat
  BY <1>1, <1>4, PositionType
<1>6. \A c \in Core : Net!Outcome[c] = pc[c]
  BY <1>4, <1>5
<1>7. pc \in [Core -> Nat] /\ Net!Outcome \in [Core -> Nat]
  BY <1>1, <1>4, PositionType
<1> QED
  BY <1>6, <1>7

(* A core that has come to a raise stays there in the outcome. *)
LEMMA FailureIsInOutcome ==
    ASSUME IndInv, OutcomeInv, NEW c \in Core, At(c, "fail")
    PROVE  Net!Outcome[c] = pc[c]
<1> DEFINE at == [Net!Outcome EXCEPT ![c] = pc[c]]
<1>1. /\ TypeOK /\ Net!Outcome \in Net!Positions /\ Net!Closed(Net!Outcome)
      /\ pc[c] \in 1 .. Len(prog[c]) /\ pc[c] \in Nat
  BY OutcomeIsLeast, CoreStep DEF IndInv, At
<1>2. \A d \in Core : Net!Outcome[d] \in Nat /\ pc[d] <= Net!Outcome[d]
  BY <1>1, PositionType DEF OutcomeInv, WithinClosed
<1>3. /\ at \in [Core -> Nat] /\ at[c] = pc[c]
      /\ \A d \in Core : d # c => at[d] = Net!Outcome[d]
  BY <1>1, PositionType
<1>4. at \in Net!Positions
  <2>1. \A d \in Core : Net!Outcome[d] \in 1 .. Len(prog[d]) + 1
    BY <1>1, PositionType
  <2>2. \A d \in Core : at[d] \in 1 .. Len(prog[d]) + 1
    BY <1>1, <1>3, <2>1, ProgType
  <2> QED
    BY <1>1, <1>3, <2>2, PositionType
<1> HIDE DEF at
<1>5. ASSUME NEW d \in Core, at[d] <= Len(prog[d]) PROVE Halts(d, at[d], at)
  <2>1. CASE d = c
    BY <1>3, <2>1 DEF Halts, At
  <2>2. CASE d # c
    <3>1. at[d] = Net!Outcome[d] /\ Halts(d, Net!Outcome[d], Net!Outcome)
      BY <1>1, <1>3, <1>5, <2>2, ClosedIs
    <3>2. \A e \in Core : at[e] <= Net!Outcome[e]
      BY <1>2, <1>3
    <3> QED
      BY <1>1, <1>4, <1>5, <3>1, <3>2, HaltsBefore
  <2> QED
    BY <2>1, <2>2
<1>6. Net!Closed(at)
  BY <1>1, <1>5, ClosedIs
<1>7. Net!Outcome[c] <= at[c]
  BY <1>1, <1>4, <1>6, OutcomeIsLeast
<1> QED
  BY <1>1, <1>2, <1>3, <1>7

LEMMA OutcomeFollows ==
    ASSUME IndInv, OutcomeInv
    PROVE  OutcomeIsScheduleIndependent
<1> DEFINE verdict == IF Active THEN "running" ELSE phase
           fails(c) == Net!Outcome[c] <= Len(prog[c]) /\ prog[c][Net!Outcome[c]].op = "fail"
           failing == {c \in Core : fails(c)}
<1>1. TypeOK /\ Net!Core = Core /\ \A c : Net!AtEnd(c) = AtEnd(c)
  BY ProgType DEF IndInv, Net!AtEnd, AtEnd
<1>2. ASSUME NEW c \in Core
      PROVE  /\ Len(got[c]) = Net!Cardinality(Recvs(c))
             /\ \A i \in Recvs(c) : got[c][Net!Cardinality(Recvs(c) \cap 1 .. i)] = Net!Answer(c, i)
  BY SameCardinality DEF OutcomeInv, AnswersAreDetermined
<1>3. verdict \in {"done", "deadlock", "failed"} => verdict = phase
  BY DEF Active
<1>4. ASSUME phase = "failed" PROVE failing # {}
  <2>1. PICK c \in Core : At(c, "fail")
    BY <1>4 DEF OutcomeInv, VerdictIsRight
  <2>2. Net!Outcome[c] = pc[c] /\ pc[c] \in 1 .. Len(prog[c]) /\ prog[c][pc[c]].op = "fail"
    BY <2>1, FailureIsInOutcome, CoreStep DEF At
  <2>3. pc[c] <= Len(prog[c])
    BY <1>1, <2>2, ProgType
  <2> QED
    BY <2>2, <2>3
<1>5. ASSUME phase \in {"done", "deadlock"}
      PROVE  /\ failing = {} /\ pc = Net!Outcome
             /\ (phase = "done") = \A c \in Core : AtEnd(c)
  <2>1. pc = Net!Outcome
    BY <1>5, EndIsClosed
  <2>2. ASSUME NEW c \in Core PROVE ~fails(c)
    <3>1. AtEnd(c) \/ Net!Stuck(c)
      BY <1>5 DEF OutcomeInv, VerdictIsRight
    <3>2. CASE AtEnd(c)
      BY <1>1, <2>1, <3>2, ProgType DEF AtEnd
    <3>3. CASE Net!Stuck(c)
      <4>1. prog[c][pc[c]].op = "recv"
        BY <3>3 DEF Net!Stuck, Net!At
      <4> QED
        BY <2>1, <4>1
    <3> QED
      BY <3>1, <3>2, <3>3
  <2>3. (phase = "done") = \A c \in Core : AtEnd(c)
    BY <1>5 DEF OutcomeInv, VerdictIsRight
  <2> QED
    BY <2>1, <2>2, <2>3
<1>6. failing = {c \in Core : /\ Net!Outcome[c] <= Len(prog[c])
                             /\ prog[c][Net!Outcome[c]].op = "fail"}
  OBVIOUS
<1>7. verdict \in {"done", "deadlock", "failed"} =>
         /\ (verdict = "failed") = (failing # {})
         /\ verdict # "failed" => /\ pc = Net!Outcome
                                  /\ (verdict = "done") = \A c \in Core : AtEnd(c)
  BY <1>3, <1>4, <1>5
<1> HIDE DEF failing
<1> QED
  BY <1>1, <1>2, <1>6, <1>7 DEF OutcomeIsScheduleIndependent, Net!OutcomeIsScheduleIndependent, Recvs

LEMMA OutcomeInit == Init => OutcomeInv
<1> SUFFICES ASSUME Init PROVE OutcomeInv
  OBVIOUS
<1>1. TypeOK
  BY InitInd DEF IndInv
<1>2. \A c \in Core : pc[c] = 1 /\ got[c] = <<>> /\ Recvs(c) = {}
  BY DEF Init, Recvs
<1>3. \A s, d \in Core : Sent(s, d) = 0 /\ Taken(d, s) = 0 /\ messages[<<s, d>>] = <<>>
  <2>1. \A c, o, q : Net!Count(c, o, q, 1) = Cardinality({})
    BY SameCardinality DEF Net!Count
  <2> QED
    BY <1>2, <2>1, FS_EmptySet DEF Sent, Taken, Init, NoTiles, Channel
<1>4. QueuesAreCounted
  <2>1. \A s, d : Between(<<>>, s, d, 0, 0)
    BY DEF Between
  <2>2. \A s, d \in Core : QueueIsCounted(s, d)
    BY <1>3, <2>1 DEF QueueIsCounted
  <2> QED
    BY <2>2 DEF QueuesAreCounted
<1>5. AnswersAreDetermined
  <2>1. ASSUME NEW c \in Core
        PROVE  /\ Len(got[c]) = Cardinality(Recvs(c))
               /\ \A i \in Recvs(c) : got[c][Cardinality(Recvs(c) \cap 1 .. i)] = Net!Answer(c, i)
    <3>1. Len(<<>>) = 0 /\ Cardinality({}) = 0
      BY FS_EmptySet
    <3> QED
      BY <1>2, <3>1
  <2> QED
    BY <2>1 DEF AnswersAreDetermined
<1>6. WithinClosed
  BY <1>1, <1>2, PositionType DEF WithinClosed
<1>7. VerdictIsRight
  BY DEF Init, VerdictIsRight
<1> QED
  BY <1>4, <1>5, <1>6, <1>7 DEF OutcomeInv

LEMMA OutcomeStep == IndInv /\ OutcomeInv /\ [Next]_vars => OutcomeInv'
BY NetStep, QueuesStep, AnswersStep, WithinStep, VerdictStep DEF OutcomeInv

(* What every receive returned, and how a call ends and where it leaves    *)
(* the cores, is what the programs alone determine: the order in which     *)
(* the set-up loop and the delivery loop step the cores does not show.     *)
THEOREM OutcomesAgree == Spec => []OutcomeIsScheduleIndependent
<1>1. IndInv /\ OutcomeInv => OutcomeIsScheduleIndependent
  BY OutcomeFollows
<1> QED
  BY <1>1, Inductive, OutcomeInit, OutcomeStep, PTL DEF Spec

----------------------------------------------------------------------------
(***************************************************************************)
(* The ring on the scheduler.                                              *)
(***************************************************************************)
(* The kernel that the scheduler runs here. *)
LEMMA RingRuns ==
    ASSUME RunsTheRing
    PROVE  Ops \in Nat /\ Programs = RingPrograms /\ MaxCalls = 1
BY DEF RunsTheRing

(* Tiles sent or taken by the end of round k of reduce r. *)
Total(r, k) == (r - 1) * (N - 1) + k

Sends(offset) == IF offset < 2 THEN 0 ELSE (offset - 1) \div 2
SentBy(c) == Total(OpOf(pc[c]), Sends(OffsetOf(pc[c])))
TakenBy(c) == Total(OpOf(pc[c]), Rounds(OffsetOf(pc[c])))

(* The tile the left neighbour of c sends in round k of reduce r. *)
Wire(c, r, k) == [src |-> Left(c), step |-> (r - 1) * OpLength + 2 * k + 1]

GotIsNumbered(c) ==
    /\ Len(got[c]) = TakenBy(c)
    /\ \A r \in 1 .. Ops, k \in 1 .. N - 1 :
          Total(r, k) <= TakenBy(c) => got[c][Total(r, k)] = Wire(c, r, k)

QueueIsNumbered(c) ==
    LET q == messages[<<Left(c), c>>] IN
    /\ Len(q) = SentBy(Left(c)) - TakenBy(c)
    /\ \A r \in 1 .. Ops, k \in 1 .. N - 1 :
          Total(r, k) \in TakenBy(c) + 1 .. SentBy(Left(c)) =>
              q[Total(r, k) - TakenBy(c)] = Wire(c, r, k)

(* Before its one call the executor has done nothing. *)
NothingDone ==
    calls = 0 => /\ pc = [c \in Core |-> 1] /\ got = [c \in Core |-> <<>>] /\ messages = NoTiles

TilesAreNumbered ==
    NothingDone /\ \A c \in Core : GotIsNumbered(c) /\ QueueIsNumbered(c)

----------------------------------------------------------------------------
(***************************************************************************)
(* Rows of steps and rows of tiles.                                        *)
(***************************************************************************)
LEMMA TotalFacts ==
    ASSUME NEW r \in Nat \ {0}
    PROVE  /\ \A k \in 0 .. N - 1 : Total(r, k) \in Nat /\ Total(r, k + 1) = Total(r, k) + 1
           /\ Total(r, N - 1) = Total(r + 1, 0)
           /\ \A s \in Nat \ {0}, j, k \in 1 .. N - 1 :
                 /\ Total(r, j) = Total(s, k) => r = s /\ j = k
                 /\ r < s => Total(r, j) <= Total(s, 0)
<1>1. N - 1 \in Nat /\ (r - 1) * (N - 1) \in Nat
  BY NAssumption
<1>2. (r + 1 - 1) * (N - 1) = (r - 1) * (N - 1) + (N - 1)
  BY <1>1
<1>3. ASSUME NEW s \in Nat \ {0}, NEW j \in 1 .. N - 1, NEW k \in 1 .. N - 1
      PROVE  /\ Total(r, j) = Total(s, k) => r = s /\ j = k
             /\ r < s => Total(r, j) <= Total(s, 0)
  <2>1. (s - 1) * (N - 1) \in Nat
    BY <1>1
  <2>2. Total(r, j) = PlaceNo(N - 1, r, j) + 1 /\ Total(s, k) = PlaceNo(N - 1, s, k) + 1
        /\ Total(s, 0) = PlaceNo(N - 1, s, 1)
    BY <1>1, <2>1 DEF Total, PlaceNo
  <2>3. PlaceNo(N - 1, r, j) \in Nat /\ PlaceNo(N - 1, s, k) \in Nat /\ PlaceNo(N - 1, s, 1) \in Nat
    BY <1>1, <2>1 DEF PlaceNo
  <2>4. r < s => PlaceNo(N - 1, r, j) < PlaceNo(N - 1, s, 1)
    BY <1>1, PlaceOrder
  <2>5. PlaceNo(N - 1, r, j) = PlaceNo(N - 1, s, k) => r = s /\ j = k
    BY <1>1, PlaceInjective
  <2> QED
    BY <2>2, <2>3, <2>4, <2>5
<1> QED
  BY <1>1, <1>2, <1>3 DEF Total

(* A position is a step of a reduce. *)
LEMMA PositionIs ==
    ASSUME NEW i \in Nat \ {0}
    PROVE  /\ OpOf(i) \in Nat \ {0} /\ OffsetOf(i) \in 0 .. 2 * N
           /\ i = (OpOf(i) - 1) * OpLength + OffsetOf(i) + 1
           /\ PlaceNo(OpLength, OpOf(i), OffsetOf(i) + 1) = i - 1
<1>1. OpLength \in Nat \ {0} /\ i - 1 \in Nat /\ OpLength - 1 = 2 * N
  BY NAssumption DEF OpLength
<1>2. /\ OpOf(i) \in Nat \ {0} /\ OffsetOf(i) + 1 \in 1 .. OpLength
      /\ PlaceNo(OpLength, OpOf(i), OffsetOf(i) + 1) = i - 1
  BY <1>1, PlaceOf DEF OpOf, OffsetOf
<1>3. OffsetOf(i) \in 0 .. OpLength - 1
  BY <1>1 DEF OffsetOf
<1>4. (OpOf(i) - 1) * OpLength \in Nat
  BY <1>1, <1>2
<1> QED
  BY <1>1, <1>2, <1>3, <1>4 DEF PlaceNo

LEMMA PositionUnique ==
    ASSUME NEW i \in Nat \ {0}, NEW r \in Nat \ {0}, NEW o \in 0 .. 2 * N,
           i = (r - 1) * OpLength + o + 1
    PROVE  OpOf(i) = r /\ OffsetOf(i) = o
<1>1. OpLength \in Nat /\ OpLength = 2 * N + 1
  BY NAssumption DEF OpLength
<1>2. (r - 1) * OpLength \in Nat
  BY <1>1
<1>3. PlaceNo(OpLength, r, o + 1) = i - 1 /\ o + 1 \in 1 .. OpLength
  BY <1>1, <1>2, NAssumption DEF PlaceNo
<1>4. OffsetOf(i) + 1 \in 1 .. OpLength /\ OpOf(i) \in Nat \ {0} /\ OffsetOf(i) \in Nat
      /\ PlaceNo(OpLength, OpOf(i), OffsetOf(i) + 1) = i - 1
  <2>1. OpOf(i) \in Nat \ {0} /\ OffsetOf(i) \in 0 .. 2 * N
        /\ PlaceNo(OpLength, OpOf(i), OffsetOf(i) + 1) = i - 1
    BY PositionIs
  <2> QED
    BY <1>1, <2>1, NAssumption
<1>5. OpOf(i) = r /\ OffsetOf(i) + 1 = o + 1
  <2> DEFINE a == OffsetOf(i) + 1
             b == o + 1
             w == OpOf(i)
             m == OpLength
  <2>1. m \in Nat /\ w \in Nat \ {0} /\ a \in 1 .. m /\ b \in 1 .. m
        /\ PlaceNo(m, w, a) = PlaceNo(m, r, b)
    BY <1>1, <1>3, <1>4
  <2> HIDE DEF a, b, w, m
  <2>2. w = r /\ a = b
    BY <2>1, PlaceInjective
  <2> QED
    BY <2>2 DEF a, b, w
<1> QED
  BY <1>4, <1>5

LEMMA PositionMoves ==
    ASSUME NEW i \in Nat \ {0}
    PROVE  /\ OpOf(i + 1) = IF OffsetOf(i) = 2 * N THEN OpOf(i) + 1 ELSE OpOf(i)
           /\ OffsetOf(i + 1) = IF OffsetOf(i) = 2 * N THEN 0 ELSE OffsetOf(i) + 1
<1>1. /\ OpOf(i) \in Nat \ {0} /\ OffsetOf(i) \in 0 .. 2 * N
      /\ i = (OpOf(i) - 1) * OpLength + OffsetOf(i) + 1
  BY PositionIs
<1>2. OpLength \in Nat /\ OpLength = 2 * N + 1
  BY NAssumption DEF OpLength
<1>3. (OpOf(i) + 1 - 1) * OpLength = (OpOf(i) - 1) * OpLength + OpLength /\ (OpOf(i) - 1) * OpLength \in Nat
  BY <1>1, <1>2
<1>4. CASE OffsetOf(i) = 2 * N
  <2>1. i + 1 = (OpOf(i) + 1 - 1) * OpLength + 0 + 1
    BY <1>1, <1>2, <1>3, <1>4, NAssumption
  <2>2. 0 \in 0 .. 2 * N /\ OpOf(i) + 1 \in Nat \ {0} /\ i + 1 \in Nat \ {0}
    BY <1>1, NAssumption
  <2>3. OpOf(i + 1) = OpOf(i) + 1 /\ OffsetOf(i + 1) = 0
    <3> DEFINE j == i + 1
               r == OpOf(i) + 1
    <3>1. j = (r - 1) * OpLength + 0 + 1 /\ 0 \in 0 .. 2 * N /\ r \in Nat \ {0} /\ j \in Nat \ {0}
      BY <1>1, <2>1, <2>2
    <3> HIDE DEF j, r
    <3>2. OpOf(j) = r /\ OffsetOf(j) = 0
      BY <3>1, PositionUnique
    <3> QED
      BY <3>2 DEF j, r
  <2> QED
    BY <1>4, <2>3
<1>5. CASE OffsetOf(i) # 2 * N
  <2>1. i + 1 = (OpOf(i) - 1) * OpLength + (OffsetOf(i) + 1) + 1
    BY <1>1, <1>3, NAssumption
  <2>2. OffsetOf(i) + 1 \in 0 .. 2 * N /\ i + 1 \in Nat \ {0}
    BY <1>1, <1>5, NAssumption
  <2> QED
    BY <1>1, <1>5, <2>1, <2>2, PositionUnique
<1> QED
  BY <1>4, <1>5

----------------------------------------------------------------------------
(***************************************************************************)
(* What a core does where it stands.                                       *)
(***************************************************************************)
LEMMA Neighbours ==
    ASSUME NEW c \in Core
    PROVE  /\ Left(c) \in Core /\ Right(c) \in Core
           /\ Left(Right(c)) = c /\ Right(Left(c)) = c
           /\ c % N = c
           /\ \A k \in 1 .. N - 1 : (Left(c) - (k - 1)) % N = (c - k) % N
<1>1. c \in 0 .. N - 1 /\ \A d \in Core : d \in 0 .. N - 1
  BY DEF Core
<1>2. /\ Left(c) = IF c = 0 THEN N - 1 ELSE c - 1
      /\ Right(c) = IF c = N - 1 THEN 0 ELSE c + 1
  BY <1>1, NAssumption, RingSteps DEF Left, Right
<1>3. Left(c) \in 0 .. N - 1 /\ Right(c) \in 0 .. N - 1
  BY <1>1, <1>2, NAssumption
<1>4. Left(Right(c)) = IF Right(c) = 0 THEN N - 1 ELSE Right(c) - 1
  BY <1>3, NAssumption, RingSteps DEF Left
<1>5. Right(Left(c)) = IF Left(c) = N - 1 THEN 0 ELSE Left(c) + 1
  BY <1>3, NAssumption, RingSteps DEF Right
<1>6. Left(Right(c)) = c /\ Right(Left(c)) = c
  BY <1>1, <1>2, <1>4, <1>5, NAssumption
<1>7. c % N = c
  BY <1>1, NAssumption
<1>8. ASSUME NEW k \in 1 .. N - 1
      PROVE  (Left(c) - (k - 1)) % N = (c - k) % N
  <2>1. (c - k) % N = IF c >= k THEN c - k ELSE c - k + N
    <3>1. k \in 0 .. N - 1
      BY NAssumption
    <3> QED
      BY <1>1, <3>1, NAssumption, RingSteps
  <2>2. (Left(c) - (k - 1)) % N = IF Left(c) >= k - 1 THEN Left(c) - (k - 1) ELSE Left(c) - (k - 1) + N
    <3> DEFINE j == k - 1
    <3>1. j \in 0 .. N - 1
      BY NAssumption
    <3> HIDE DEF j
    <3>2. (Left(c) - j) % N = IF Left(c) >= j THEN Left(c) - j ELSE Left(c) - j + N
      BY <1>3, <3>1, NAssumption, RingSteps
    <3> QED
      BY <3>2 DEF j
  <2> QED
    BY <1>1, <1>2, <2>1, <2>2, NAssumption
<1> QED
  BY <1>3, <1>6, <1>7, <1>8 DEF Core

LEMMA RoundFacts ==
    /\ \A k \in 1 .. N - 1 :
          /\ Rounds(2 * k) = k - 1 /\ Rounds(2 * k + 1) = k - 1 /\ Rounds(2 * k + 1 + 1) = k
          /\ Sends(2 * k) = k - 1 /\ Sends(2 * k + 1) = k /\ Sends(2 * k + 1 + 1) = k
    /\ Rounds(2 * N) = N - 1 /\ Sends(2 * N) = N - 1
    /\ \A o \in 0 .. 2 : Rounds(o) = 0 /\ Sends(o) = 0
    /\ \A o \in 0 .. 2 * N : Rounds(o) \in 0 .. N - 1 /\ Sends(o) \in 0 .. N - 1
    /\ \A o \in 0 .. 2 * N : \/ o \in {0, 1, 2 * N}
                             \/ \E k \in 1 .. N - 1 : o = 2 * k
                             \/ \E k \in 1 .. N - 1 : o = 2 * k + 1
<1>1. ASSUME NEW k \in 1 .. N - 1
      PROVE  /\ (2 * k - 2) \div 2 = k - 1 /\ (2 * k + 1 - 2) \div 2 = k - 1
             /\ (2 * k + 1 + 1 - 2) \div 2 = k
             /\ (2 * k - 1) \div 2 = k - 1 /\ (2 * k + 1 - 1) \div 2 = k
             /\ (2 * k + 1 + 1 - 1) \div 2 = k
  BY NAssumption
<1>2. (2 * N - 2) \div 2 = N - 1 /\ (2 * N - 1) \div 2 = N - 1 /\ 2 * N >= 2
  BY NAssumption
<1>3. \A o \in 0 .. 2 : Rounds(o) = 0 /\ Sends(o) = 0
  BY DEF Rounds, Sends
<1>4. \A o \in 2 .. 2 * N : (o - 2) \div 2 \in 0 .. N - 1 /\ (o - 1) \div 2 \in 0 .. N - 1
  BY NAssumption
<1>5. ASSUME NEW o \in 2 .. 2 * N - 1
      PROVE  \/ \E k \in 1 .. N - 1 : o = 2 * k
             \/ \E k \in 1 .. N - 1 : o = 2 * k + 1
  <2>1. o \div 2 \in 1 .. N - 1 /\ (o = 2 * (o \div 2) \/ o = 2 * (o \div 2) + 1)
    BY NAssumption
  <2> QED
    BY <2>1
<1>6. \A k \in 1 .. N - 1 : 2 * k >= 2 /\ 2 * k + 1 >= 2 /\ 2 * k + 1 + 1 >= 2
  BY NAssumption
<1>7. \A k \in 1 .. N - 1 :
         /\ Rounds(2 * k) = k - 1 /\ Rounds(2 * k + 1) = k - 1 /\ Rounds(2 * k + 1 + 1) = k
         /\ Sends(2 * k) = k - 1 /\ Sends(2 * k + 1) = k /\ Sends(2 * k + 1 + 1) = k
  BY <1>1, <1>6, NAssumption DEF Rounds, Sends
<1>8. Rounds(2 * N) = N - 1 /\ Sends(2 * N) = N - 1
  BY <1>2, NAssumption DEF Rounds, Sends
<1>9. \A o \in 0 .. 2 * N : Rounds(o) \in 0 .. N - 1 /\ Sends(o) \in 0 .. N - 1
  BY <1>3, <1>4, NAssumption DEF Rounds, Sends
<1>10. \A o \in 0 .. 2 * N : o \in {0, 1, 2 * N} \/ o \in 2 .. 2 * N - 1
  BY NAssumption
<1> QED
  BY <1>3, <1>5, <1>7, <1>8, <1>9, <1>10

LEMMA ProgramIs ==
    ASSUME RunsTheRing, TypeOK, NEW c \in Core
    PROVE  /\ Ops * OpLength \in Nat /\ Len(prog[c]) = Ops * OpLength
           /\ pc[c] \in 1 .. Ops * OpLength + 1
           /\ \A i \in 1 .. Ops * OpLength : prog[c][i] = RingStep(c, OffsetOf(i))
<1> DEFINE steps == Ops * OpLength
<1>1. prog = [d \in Core |-> [i \in 1 .. steps |-> RingStep(d, OffsetOf(i))]]
  BY RingRuns DEF TypeOK, RingPrograms, OffsetOf
<1>2. steps \in Nat
  BY RingRuns, NAssumption DEF OpLength
<1> HIDE DEF steps
<1>3. prog[c] = [i \in 1 .. steps |-> RingStep(c, OffsetOf(i))]
  BY <1>1
<1>4. Len(prog[c]) = steps
  <2>1. prog[c] \in Seq(Step)
    BY ProgramsAssumption DEF TypeOK
  <2>2. DOMAIN prog[c] = 1 .. Len(prog[c]) /\ Len(prog[c]) \in Nat
    BY <2>1
  <2>3. DOMAIN prog[c] = 1 .. steps
    BY <1>3
  <2> QED
    BY <1>2, <2>2, <2>3
<1>5. pc[c] \in 1 .. steps + 1
  BY <1>4 DEF TypeOK
<1>6. \A i \in 1 .. steps : prog[c][i] = RingStep(c, OffsetOf(i))
  BY <1>3
<1> QED
  BY <1>2, <1>4, <1>5, <1>6 DEF steps

(* Where a core stands. *)
LEMMA Standing ==
    ASSUME RunsTheRing, TypeOK, NEW c \in Core
    PROVE  /\ pc[c] \in Nat \ {0} /\ OpOf(pc[c]) \in 1 .. Ops + 1 /\ OffsetOf(pc[c]) \in 0 .. 2 * N
           /\ pc[c] = (OpOf(pc[c]) - 1) * OpLength + OffsetOf(pc[c]) + 1
           /\ AtEnd(c) <=> OpOf(pc[c]) = Ops + 1
           /\ OpOf(pc[c]) = Ops + 1 => OffsetOf(pc[c]) = 0
           /\ ~AtEnd(c) => prog[c][pc[c]] = RingStep(c, OffsetOf(pc[c]))
<1> DEFINE i == pc[c]
           r == OpOf(i)
           o == OffsetOf(i)
<1>1. OpLength \in Nat /\ OpLength = 2 * N + 1 /\ Ops \in Nat /\ Ops * OpLength \in Nat
  BY NAssumption, RingRuns DEF OpLength
<1>2. i \in 1 .. Ops * OpLength + 1 /\ i \in Nat \ {0}
  <2>1. pc[c] \in 1 .. Ops * OpLength + 1
    BY ProgramIs
  <2> DEFINE steps == Ops * OpLength
  <2> HIDE DEF steps
  <2>2. \A x \in 1 .. steps + 1 : steps \in Nat => x \in Nat \ {0}
    OBVIOUS
  <2> QED
    BY <1>1, <2>1, <2>2 DEF steps
<1>3. r \in Nat \ {0} /\ o \in 0 .. 2 * N /\ i = (r - 1) * OpLength + o + 1
  BY <1>2, PositionIs
<1>4. AtEnd(c) <=> i = Ops * OpLength + 1
  BY ProgramIs DEF AtEnd
<1>0. \A x \in 1 .. Ops * OpLength : prog[c][x] = RingStep(c, OffsetOf(x))
  BY ProgramIs
<1> HIDE DEF i, r, o
<1>5. ASSUME r > Ops + 1 PROVE FALSE
  <2>1. PICK d \in Nat : r = Ops + 2 + d
    <3>1. r - Ops - 2 \in Nat /\ r = Ops + 2 + (r - Ops - 2)
      BY <1>1, <1>3, <1>5
    <3> QED
      BY <3>1
  <2>2. (r - 1) * OpLength = Ops * OpLength + OpLength + d * OpLength /\ d * OpLength \in Nat
    BY <1>1, <2>1
  <2> QED
    BY <1>1, <1>2, <1>3, <2>2, NAssumption
<1>6. ASSUME r <= Ops PROVE i <= Ops * OpLength
  <2>1. PICK d \in Nat : Ops = r + d
    <3>1. Ops - r \in Nat /\ Ops = r + (Ops - r)
      BY <1>1, <1>3, <1>6
    <3> QED
      BY <3>1
  <2>2. Ops * OpLength = (r - 1) * OpLength + OpLength + d * OpLength /\ d * OpLength \in Nat
        /\ (r - 1) * OpLength \in Nat
    BY <1>1, <1>3, <2>1
  <2> QED
    BY <1>1, <1>2, <1>3, <2>2, NAssumption
<1>7. ASSUME r = Ops + 1 PROVE o = 0 /\ i = Ops * OpLength + 1
  <2>1. (r - 1) * OpLength = Ops * OpLength
    BY <1>1, <1>7
  <2> QED
    BY <1>1, <1>2, <1>3, <2>1, NAssumption
<1>8. r \in 1 .. Ops + 1
  BY <1>1, <1>3, <1>5
<1>9. AtEnd(c) <=> r = Ops + 1
  BY <1>1, <1>2, <1>4, <1>6, <1>7, <1>8
<1>10. ~AtEnd(c) => prog[c][i] = RingStep(c, OffsetOf(i))
  <2> DEFINE steps == Ops * OpLength
  <2>1. i \in 1 .. steps + 1 /\ steps \in Nat /\ (AtEnd(c) <=> i = steps + 1)
        /\ \A x \in 1 .. steps : prog[c][x] = RingStep(c, OffsetOf(x))
    BY <1>0, <1>1, <1>2, <1>4
  <2> HIDE DEF steps
  <2> QED
    BY <2>1
<1> QED
  BY <1>2, <1>3, <1>7, <1>8, <1>9, <1>10 DEF i, r, o

(* What it does there. *)
LEMMA Doing ==
    ASSUME RunsTheRing, TypeOK, NEW c \in Core, ~AtEnd(c)
    PROVE  /\ At(c, "work") <=> OffsetOf(pc[c]) \in {0, 1, 2 * N}
           /\ At(c, "send") <=> \E k \in 1 .. N - 1 : OffsetOf(pc[c]) = 2 * k
           /\ At(c, "recv") <=> \E k \in 1 .. N - 1 : OffsetOf(pc[c]) = 2 * k + 1
           /\ At(c, "send") => Peer(c) = Right(c)
           /\ At(c, "recv") => Peer(c) = Left(c)
           /\ ~At(c, "fail")
<1> DEFINE o == OffsetOf(pc[c])
<1>1. o \in 0 .. 2 * N /\ prog[c][pc[c]] = RingStep(c, o)
  BY Standing
<1> HIDE DEF o
<1>2. CASE o \in {0, 1, 2 * N}
  <2>1. RingStep(c, o) = [op |-> "work", peer |-> c]
    BY <1>2 DEF RingStep
  <2>2. \A k \in 1 .. N - 1 : o # 2 * k /\ o # 2 * k + 1
    BY <1>2, NAssumption
  <2> QED
    BY <1>1, <1>2, <2>1, <2>2 DEF At, Peer, o
<1>3. ASSUME NEW k \in 1 .. N - 1, o = 2 * k PROVE RingStep(c, o) = [op |-> "send", peer |-> Right(c)]
  <2>1. o \notin {0, 1, 2 * N} /\ o \in 2 .. 2 * N - 1 /\ o % 2 = 0
    BY <1>3, NAssumption
  <2> QED
    BY <2>1 DEF RingStep
<1>4. ASSUME NEW k \in 1 .. N - 1, o = 2 * k + 1 PROVE RingStep(c, o) = [op |-> "recv", peer |-> Left(c)]
  <2>1. o \notin {0, 1, 2 * N} /\ o \in 2 .. 2 * N - 1 /\ o % 2 # 0
    BY <1>4, NAssumption
  <2> QED
    BY <2>1 DEF RingStep
<1>5. CASE \E k \in 1 .. N - 1 : o = 2 * k
  <2>1. o \notin {0, 1, 2 * N} /\ ~ \E k \in 1 .. N - 1 : o = 2 * k + 1
    BY <1>5, NAssumption
  <2> QED
    BY <1>1, <1>3, <1>5, <2>1 DEF At, Peer, o
<1>6. CASE \E k \in 1 .. N - 1 : o = 2 * k + 1
  <2>1. o \notin {0, 1, 2 * N} /\ ~ \E k \in 1 .. N - 1 : o = 2 * k
    BY <1>6, NAssumption
  <2> QED
    BY <1>1, <1>4, <1>6, <2>1 DEF At, Peer, o
<1> QED
  BY <1>1, <1>2, <1>5, <1>6, RoundFacts

----------------------------------------------------------------------------
(***************************************************************************)
(* The tiles have numbers.                                                 *)
(***************************************************************************)
LEMMA CountType ==
    ASSUME RunsTheRing, TypeOK, NEW c \in Core
    PROVE  SentBy(c) \in Nat /\ TakenBy(c) \in Nat
<1> DEFINE r == OpOf(pc[c])
           o == OffsetOf(pc[c])
<1>1. r \in Nat \ {0} /\ o \in 0 .. 2 * N
  BY Standing, RingRuns
<1>2. Rounds(o) \in 0 .. N - 1 /\ Sends(o) \in 0 .. N - 1
  BY <1>1, RoundFacts
<1> HIDE DEF r, o
<1>3. Total(r, Rounds(o)) \in Nat /\ Total(r, Sends(o)) \in Nat
  BY <1>1, <1>2, TotalFacts
<1> QED
  BY <1>3 DEF SentBy, TakenBy, r, o

LEMMA CountStep ==
    ASSUME RunsTheRing, TypeOK, NEW c \in Core, ~AtEnd(c), pc' = [pc EXCEPT ![c] = @ + 1], NEW d \in Core
    PROVE  /\ SentBy(d)' = IF d = c /\ At(c, "send") THEN SentBy(d) + 1 ELSE SentBy(d)
           /\ TakenBy(d)' = IF d = c /\ At(c, "recv") THEN TakenBy(d) + 1 ELSE TakenBy(d)
<1> DEFINE r == OpOf(pc[c])
           o == OffsetOf(pc[c])
<1>1. /\ pc'[d] = IF d = c THEN pc[d] + 1 ELSE pc[d]
      /\ SentBy(d)' = Total(OpOf(pc'[d]), Sends(OffsetOf(pc'[d])))
      /\ TakenBy(d)' = Total(OpOf(pc'[d]), Rounds(OffsetOf(pc'[d])))
  BY DEF TypeOK, SentBy, TakenBy, Total, OpOf, OffsetOf, Sends, Rounds, OpLength
<1>2. CASE d # c
  BY <1>1, <1>2 DEF SentBy, TakenBy
<1>3. CASE d = c
  <2>1. r \in Nat \ {0} /\ o \in 0 .. 2 * N /\ pc[c] \in Nat \ {0}
    BY Standing, RingRuns
  <2>2. /\ OpOf(pc[c] + 1) = IF o = 2 * N THEN r + 1 ELSE r
        /\ OffsetOf(pc[c] + 1) = IF o = 2 * N THEN 0 ELSE o + 1
    BY <2>1, PositionMoves
  <2>3. SentBy(c) = Total(r, Sends(o)) /\ TakenBy(c) = Total(r, Rounds(o))
    BY DEF SentBy, TakenBy
  <2>4. /\ At(c, "send") <=> \E k \in 1 .. N - 1 : o = 2 * k
        /\ At(c, "recv") <=> \E k \in 1 .. N - 1 : o = 2 * k + 1
    BY Doing
  <2> HIDE DEF r, o
  <2>5. CASE o = 2 * N
    <3>1. Total(r + 1, Sends(0)) = Total(r, Sends(o)) /\ Total(r + 1, Rounds(0)) = Total(r, Rounds(o))
      <4>1. Total(r, N - 1) = Total(r + 1, 0)
        BY <2>1, TotalFacts
      <4> QED
        BY <2>5, <4>1, RoundFacts
    <3>2. ~At(c, "send") /\ ~At(c, "recv")
      BY <2>4, <2>5, NAssumption
    <3> QED
      BY <1>1, <1>3, <2>2, <2>3, <2>5, <3>1, <3>2
  <2>6. CASE o \in {0, 1}
    <3>1. Sends(o + 1) = Sends(o) /\ Rounds(o + 1) = Rounds(o)
      BY <2>6, RoundFacts
    <3>2. ~At(c, "send") /\ ~At(c, "recv") /\ o # 2 * N
      BY <2>4, <2>6, NAssumption
    <3> QED
      BY <1>1, <1>3, <2>2, <2>3, <3>1, <3>2
  <2>7. ASSUME NEW k \in 1 .. N - 1, o = 2 * k
        PROVE  SentBy(d)' = SentBy(d) + 1 /\ TakenBy(d)' = TakenBy(d) /\ At(c, "send") /\ ~At(c, "recv")
    <3>1. o # 2 * N /\ At(c, "send") /\ ~At(c, "recv")
      BY <2>4, <2>7, NAssumption
    <3>2. k - 1 \in 0 .. N - 1 /\ k - 1 + 1 = k
      BY NAssumption
    <3>3. Total(r, k) = Total(r, k - 1) + 1
      BY <2>1, <3>2, TotalFacts
    <3>4. /\ Sends(o) = k - 1 /\ Sends(o + 1) = k
          /\ Rounds(o) = k - 1 /\ Rounds(o + 1) = k - 1
      BY <2>7, RoundFacts
    <3> QED
      BY <1>1, <1>3, <2>2, <2>3, <3>1, <3>3, <3>4
  <2>8. ASSUME NEW k \in 1 .. N - 1, o = 2 * k + 1
        PROVE  SentBy(d)' = SentBy(d) /\ TakenBy(d)' = TakenBy(d) + 1 /\ At(c, "recv") /\ ~At(c, "send")
    <3>1. o # 2 * N /\ At(c, "recv") /\ ~At(c, "send")
      BY <2>4, <2>8, NAssumption
    <3>2. k - 1 \in 0 .. N - 1 /\ k - 1 + 1 = k
      BY NAssumption
    <3>3. Total(r, k) = Total(r, k - 1) + 1
      BY <2>1, <3>2, TotalFacts
    <3>4. /\ Sends(o) = k /\ Sends(o + 1) = k
          /\ Rounds(o) = k - 1 /\ Rounds(o + 1) = k
      BY <2>8, RoundFacts
    <3> QED
      BY <1>1, <1>3, <2>2, <2>3, <3>1, <3>3, <3>4
  <2> QED
    BY <1>3, <2>1, <2>5, <2>6, <2>7, <2>8, RoundFacts
<1> QED
  BY <1>2, <1>3

(* The tile a send puts on the wire, and the number of the next one taken. *)
LEMMA SendIs ==
    ASSUME RunsTheRing, TypeOK, NEW c \in Core, ~AtEnd(c), At(c, "send")
    PROVE  \E r \in 1 .. Ops, k \in 1 .. N - 1 :
              /\ r = OpOf(pc[c]) /\ OffsetOf(pc[c]) = 2 * k
              /\ [src |-> c, step |-> pc[c]] = Wire(Right(c), r, k)
              /\ Total(r, k) = SentBy(c) + 1
<1> DEFINE r == OpOf(pc[c])
           o == OffsetOf(pc[c])
<1>1. PICK k \in 1 .. N - 1 : o = 2 * k
  BY Doing
<1>2. r \in 1 .. Ops /\ r \in Nat \ {0} /\ pc[c] = (r - 1) * OpLength + o + 1
  BY Standing, RingRuns
<1>3. [src |-> c, step |-> pc[c]] = Wire(Right(c), r, k)
  BY <1>1, <1>2, Neighbours DEF Wire
<1>4. SentBy(c) = Total(r, k - 1)
  BY <1>1, RoundFacts DEF SentBy
<1> HIDE DEF r
<1>5. Total(r, k) = Total(r, k - 1) + 1
  <2>1. k - 1 \in 0 .. N - 1 /\ k - 1 + 1 = k
    BY NAssumption
  <2> QED
    BY <1>2, <2>1, TotalFacts
<1> QED
  BY <1>1, <1>2, <1>3, <1>4, <1>5 DEF r

LEMMA RecvIs ==
    ASSUME RunsTheRing, TypeOK, NEW c \in Core, ~AtEnd(c), At(c, "recv")
    PROVE  \E r \in 1 .. Ops, k \in 1 .. N - 1 :
              /\ r = OpOf(pc[c]) /\ OffsetOf(pc[c]) = 2 * k + 1
              /\ Total(r, k) = TakenBy(c) + 1
<1> DEFINE r == OpOf(pc[c])
           o == OffsetOf(pc[c])
<1>1. PICK k \in 1 .. N - 1 : o = 2 * k + 1
  BY Doing
<1>2. r \in 1 .. Ops /\ r \in Nat \ {0}
  BY Standing, RingRuns
<1>3. TakenBy(c) = Total(r, k - 1)
  BY <1>1, RoundFacts DEF TakenBy
<1> HIDE DEF r
<1>4. Total(r, k) = Total(r, k - 1) + 1
  <2>1. k - 1 \in 0 .. N - 1 /\ k - 1 + 1 = k
    BY NAssumption
  <2> QED
    BY <1>2, <2>1, TotalFacts
<1> QED
  BY <1>1, <1>2, <1>3, <1>4 DEF r

(* What a core has, and what is on its way to it. *)
LEMMA LinkType ==
    ASSUME RunsTheRing, IndInv, TilesAreNumbered, NEW c \in Core
    PROVE  /\ TypeOK /\ Left(c) \in Core /\ <<Left(c), c>> \in Channel
           /\ messages[<<Left(c), c>>] \in Seq(Tile) /\ got[c] \in Seq(Tile)
           /\ SentBy(Left(c)) \in Nat /\ TakenBy(c) \in Nat
           /\ Len(got[c]) = TakenBy(c) /\ Len(messages[<<Left(c), c>>]) = SentBy(Left(c)) - TakenBy(c)
<1>1. TypeOK /\ Left(c) \in Core /\ <<Left(c), c>> \in Channel
  BY Neighbours DEF IndInv, Channel
<1>2. messages[<<Left(c), c>>] \in Seq(Tile) /\ got[c] \in Seq(Tile)
  BY <1>1 DEF TypeOK
<1>3. SentBy(Left(c)) \in Nat /\ TakenBy(c) \in Nat
  BY <1>1, CountType
<1>4. Len(got[c]) = TakenBy(c) /\ Len(messages[<<Left(c), c>>]) = SentBy(Left(c)) - TakenBy(c)
  BY DEF TilesAreNumbered, GotIsNumbered, QueueIsNumbered
<1> QED
  BY <1>1, <1>2, <1>3, <1>4

(* What a receive takes is the tile of its round and reduce. *)
LEMMA TakenIs ==
    ASSUME RunsTheRing, IndInv, TilesAreNumbered, NEW c \in Core, ~AtEnd(c), At(c, "recv"),
           messages[<<Left(c), c>>] # <<>>
    PROVE  \E r \in 1 .. Ops, k \in 1 .. N - 1 :
              /\ r = OpOf(pc[c]) /\ OffsetOf(pc[c]) = 2 * k + 1
              /\ Total(r, k) = TakenBy(c) + 1
              /\ Head(messages[<<Left(c), c>>]) = Wire(c, r, k)
<1> DEFINE q == messages[<<Left(c), c>>]
           s == SentBy(Left(c))
           t == TakenBy(c)
<1>1. TypeOK /\ q \in Seq(Tile) /\ s \in Nat /\ t \in Nat /\ Len(q) = s - t
  BY LinkType
<1>2. PICK r \in 1 .. Ops, k \in 1 .. N - 1 :
         r = OpOf(pc[c]) /\ OffsetOf(pc[c]) = 2 * k + 1 /\ Total(r, k) = t + 1
  BY <1>1, RecvIs
<1>3. QueueIsNumbered(c)
  BY DEF TilesAreNumbered
<1>4. Total(r, k) \in t + 1 .. s => q[Total(r, k) - t] = Wire(c, r, k)
  BY <1>3 DEF QueueIsNumbered
<1> HIDE DEF q, s, t
<1>5. Len(q) \in Nat /\ Len(q) # 0 /\ Head(q) = q[1]
  <2>1. q # <<>>
    BY DEF q
  <2> QED
    BY <1>1, <2>1
<1>6. t + 1 \in t + 1 .. s /\ t + 1 - t = 1
  BY <1>1, <1>5
<1>7. Head(q) = Wire(c, r, k)
  <2>1. Total(r, k) \in t + 1 .. s /\ Total(r, k) - t = 1
    BY <1>1, <1>2, <1>5
  <2> QED
    BY <1>4, <1>5, <2>1
<1> QED
  BY <1>2, <1>7 DEF q, t

LEMMA TilesStep ==
    ASSUME RunsTheRing, IndInv, TilesAreNumbered, [Net!Next]_(Net!vars), NEW e \in Core
    PROVE  (GotIsNumbered(e) /\ QueueIsNumbered(e))'
<1> DEFINE q == messages[<<Left(e), e>>]
           s == SentBy(Left(e))
           t == TakenBy(e)
<1>1. /\ TypeOK /\ Net!Core = Core /\ Net!Channel = Channel /\ Left(e) \in Core
      /\ <<Left(e), e>> \in Channel /\ q \in Seq(Tile) /\ got[e] \in Seq(Tile)
      /\ s \in Nat /\ t \in Nat /\ Len(got[e]) = t /\ Len(q) = s - t
  BY LinkType DEF Core, Net!Core, Channel, Net!Channel
<1>2. GotIsNumbered(e) /\ QueueIsNumbered(e)
  BY DEF TilesAreNumbered
<1>3. ASSUME NEW r \in 1 .. Ops, NEW k \in 1 .. N - 1
      PROVE  /\ Total(r, k) \in Nat
             /\ \A v \in 1 .. Ops, j \in 1 .. N - 1 : Total(v, j) = Total(r, k) => v = r /\ j = k
             /\ Total(r, k) <= t => got[e][Total(r, k)] = Wire(e, r, k)
             /\ Total(r, k) \in t + 1 .. s => q[Total(r, k) - t] = Wire(e, r, k)
  <2>1. r \in Nat \ {0} /\ k \in 0 .. N - 1
    BY RingRuns, NAssumption
  <2>2. Total(r, k) \in Nat
    BY <2>1, TotalFacts
  <2>3. \A v \in 1 .. Ops, j \in 1 .. N - 1 : Total(v, j) = Total(r, k) => v = r /\ j = k
    <3>1. \A v \in 1 .. Ops : v \in Nat \ {0}
      BY RingRuns
    <3> QED
      BY <2>1, <3>1, TotalFacts
  <2> QED
    BY <1>2, <2>2, <2>3 DEF GotIsNumbered, QueueIsNumbered
<1>4. ASSUME got'[e] = got[e], TakenBy(e)' = t PROVE GotIsNumbered(e)'
  BY <1>2, <1>4 DEF GotIsNumbered, Total, Wire, Left, OpLength
<1>5. ASSUME messages'[<<Left(e), e>>] = q, TakenBy(e)' = t, SentBy(Left(e))' = s
      PROVE  QueueIsNumbered(e)'
  BY <1>2, <1>5 DEF QueueIsNumbered, Total, Wire, Left, OpLength
<1>6. CASE Net!Call
  <2>1. messages'[<<Left(e), e>>] = <<>> /\ got'[e] = <<>> /\ pc'[e] = 1 /\ pc'[Left(e)] = 1
    BY <1>1, <1>6 DEF Net!Call, Net!NoTiles
  <2>2. OpOf(1) = 1 /\ OffsetOf(1) = 0
    <3>1. 1 = (1 - 1) * OpLength + 0 + 1 /\ 0 \in 0 .. 2 * N
      BY NAssumption DEF OpLength
    <3> QED
      BY <3>1, PositionUnique
  <2>3. TakenBy(e)' = 0 /\ SentBy(Left(e))' = 0
    <3>1. TakenBy(e)' = Total(OpOf(pc'[e]), Rounds(OffsetOf(pc'[e])))
          /\ SentBy(Left(e))' = Total(OpOf(pc'[Left(e)]), Sends(OffsetOf(pc'[Left(e)])))
      BY DEF TakenBy, SentBy, Total, OpOf, OffsetOf, OpLength, Rounds, Sends, Left
    <3>2. Total(1, 0) = 0
      BY NAssumption DEF Total
    <3> QED
      BY <2>1, <2>2, <3>1, <3>2, RoundFacts
  <2>4. \A r \in 1 .. Ops, k \in 1 .. N - 1 : ~ (Total(r, k) <= 0)
    <3>1. ASSUME NEW r \in 1 .. Ops, NEW k \in 1 .. N - 1 PROVE Total(r, k) > 0
      <4>1. (r - 1) * (N - 1) \in Nat
        BY RingRuns, NAssumption
      <4> QED
        BY <4>1 DEF Total
    <3> QED
      BY <1>3, <3>1
  <2>5. \A r, k : Total(r, k)' = Total(r, k) /\ Wire(e, r, k)' = Wire(e, r, k) /\ Left(e)' = Left(e)
    BY DEF Total, Wire, Left, OpLength
  <2> QED
    BY <2>1, <2>3, <2>4, <2>5 DEF GotIsNumbered, QueueIsNumbered
<1>7. CASE UNCHANGED <<pc, got, messages>>
  <2>1. TakenBy(e)' = t /\ SentBy(Left(e))' = s
    BY <1>7 DEF TakenBy, SentBy, Total, OpOf, OffsetOf, OpLength, Rounds, Sends, Left
  <2> QED
    BY <1>4, <1>5, <1>7, <2>1
<1>8. ASSUME NEW c \in Core, Net!Work(c)
      PROVE  (GotIsNumbered(e) /\ QueueIsNumbered(e))'
  <2>1. /\ ~AtEnd(c) /\ pc' = [pc EXCEPT ![c] = @ + 1] /\ messages' = messages /\ got' = got
        /\ ~At(c, "send") /\ ~At(c, "recv")
    BY <1>8 DEF Net!Work, Net!At, Net!AtEnd, At, AtEnd
  <2>2. TakenBy(e)' = t /\ SentBy(Left(e))' = s
    BY <1>1, <2>1, CountStep DEF Left
  <2> QED
    BY <1>4, <1>5, <2>1, <2>2
<1>9. ASSUME NEW c \in Core, Net!Send(c)
      PROVE  (GotIsNumbered(e) /\ QueueIsNumbered(e))'
  <2> DEFINE tile == [src |-> c, step |-> pc[c]]
  <2>1. /\ ~AtEnd(c) /\ pc' = [pc EXCEPT ![c] = @ + 1] /\ got' = got
        /\ At(c, "send") /\ ~At(c, "recv")
        /\ messages' = [messages EXCEPT ![<<c, Peer(c)>>] = Append(@, tile)]
    BY <1>9 DEF Net!Send, Net!At, Net!AtEnd, Net!Peer, At, AtEnd, Peer
  <2>2. Peer(c) = Right(c) /\ Right(c) \in Core /\ Left(Right(c)) = c /\ Right(Left(e)) = e
    BY <1>1, <2>1, Doing, Neighbours
  <2>3. TakenBy(e)' = t /\ SentBy(Left(e))' = IF Left(e) = c THEN s + 1 ELSE s
    BY <1>1, <2>1, CountStep DEF Left
  <2>4. GotIsNumbered(e)'
    BY <1>4, <2>1, <2>3
  <2>5. messages \in [Channel -> Seq(Tile)]
    BY <1>1 DEF TypeOK
  <2>6. CASE Left(e) # c
    <3>1. messages'[<<Left(e), e>>] = q
      BY <1>1, <2>1, <2>5, <2>6
    <3> QED
      BY <1>5, <2>3, <2>4, <2>6, <3>1
  <2>7. CASE Left(e) = c
    <3>1. e = Right(c)
      BY <2>2, <2>7
    <3>2. messages'[<<Left(e), e>>] = Append(q, tile)
      BY <1>1, <2>1, <2>2, <2>5, <2>7, <3>1
    <3>3. PICK r \in 1 .. Ops, k \in 1 .. N - 1 : tile = Wire(e, r, k) /\ Total(r, k) = s + 1
      BY <1>1, <2>1, <2>7, <3>1, SendIs
    <3>4. tile \in Tile
      <4>1. pc[c] \in Nat \ {0}
        BY <1>1, Standing
      <4> QED
        BY <4>1 DEF Tile
    <3> HIDE DEF tile, q, s, t
    <3>5. /\ Len(Append(q, tile)) = Len(q) + 1
          /\ \A i \in 1 .. Len(q) : Append(q, tile)[i] = q[i]
          /\ Append(q, tile)[Len(q) + 1] = tile
      BY <1>1, <3>4
    <3>6. ASSUME NEW v \in 1 .. Ops, NEW j \in 1 .. N - 1, Total(v, j) \in t + 1 .. s + 1
          PROVE  Append(q, tile)[Total(v, j) - t] = Wire(e, v, j)
      <4>1. Total(v, j) \in Nat
        BY <1>3
      <4>2. CASE Total(v, j) = s + 1
        <5>1. v = r /\ j = k
          BY <1>3, <3>3, <4>2
        <5>2. Total(v, j) - t = Len(q) + 1
          BY <1>1, <4>2
        <5> QED
          BY <3>3, <3>5, <5>1, <5>2
      <4>3. CASE Total(v, j) \in t + 1 .. s
        <5>1. q[Total(v, j) - t] = Wire(e, v, j)
          BY <1>3, <4>3
        <5>2. Total(v, j) - t \in 1 .. Len(q)
          BY <1>1, <4>1, <4>3
        <5> QED
          BY <3>5, <5>1, <5>2
      <4>4. Total(v, j) = s + 1 \/ Total(v, j) \in t + 1 .. s
        BY <1>1, <3>6, <4>1
      <4> QED
        BY <4>2, <4>3, <4>4
    <3>7. Len(Append(q, tile)) = s + 1 - t
      BY <1>1, <3>5
    <3>8. QueueIsNumbered(e)'
      <4>1. \A v, j : Total(v, j)' = Total(v, j) /\ Wire(e, v, j)' = Wire(e, v, j) /\ Left(e)' = Left(e)
        BY DEF Total, Wire, Left, OpLength
      <4>2. SentBy(Left(e))' = s + 1
        BY <2>3, <2>7
      <4> QED
        BY <1>1, <2>3, <2>7, <3>2, <3>6, <3>7, <4>1, <4>2 DEF QueueIsNumbered
    <3> QED
      BY <2>4, <3>8
  <2> QED
    BY <2>6, <2>7
<1>10. ASSUME NEW c \in Core, Net!Recv(c)
       PROVE  (GotIsNumbered(e) /\ QueueIsNumbered(e))'
  <2> DEFINE head == Head(messages[<<Left(c), c>>])
  <2>1. /\ ~AtEnd(c) /\ pc' = [pc EXCEPT ![c] = @ + 1]
        /\ At(c, "recv") /\ ~At(c, "send")
        /\ got' = [got EXCEPT ![c] = Append(@, head)]
        /\ messages' = [messages EXCEPT ![<<Left(c), c>>] = Tail(@)]
        /\ messages[<<Left(c), c>>] # <<>>
    <3>1. /\ ~AtEnd(c) /\ pc' = [pc EXCEPT ![c] = @ + 1]
          /\ At(c, "recv") /\ ~At(c, "send")
          /\ got' = [got EXCEPT ![c] = Append(@, Head(messages[<<Peer(c), c>>]))]
          /\ messages' = [messages EXCEPT ![<<Peer(c), c>>] = Tail(@)]
          /\ messages[<<Peer(c), c>>] # <<>>
      BY <1>10 DEF Net!Recv, Net!At, Net!AtEnd, Net!Peer, Net!Stuck, At, AtEnd, Peer
    <3>2. Peer(c) = Left(c)
      BY <1>1, <3>1, Doing
    <3> QED
      BY <3>1, <3>2
  <2>2. TakenBy(e)' = (IF e = c THEN t + 1 ELSE t) /\ SentBy(Left(e))' = s
    BY <1>1, <2>1, CountStep DEF Left
  <2>3. messages \in [Channel -> Seq(Tile)] /\ got \in [Core -> Seq(Tile)]
    BY <1>1 DEF TypeOK
  <2>4. CASE e # c
    <3>1. messages'[<<Left(e), e>>] = q /\ got'[e] = got[e]
      BY <1>1, <2>1, <2>3, <2>4
    <3> QED
      BY <1>4, <1>5, <2>2, <2>4, <3>1
  <2>5. CASE e = c
    <3>1. messages'[<<Left(e), e>>] = Tail(q) /\ got'[e] = Append(got[e], head) /\ head = Head(q) /\ q # <<>>
      BY <1>1, <2>1, <2>3, <2>5
    <3>2. PICK r \in 1 .. Ops, k \in 1 .. N - 1 : Total(r, k) = t + 1 /\ head = Wire(e, r, k)
      BY <2>1, <2>5, TakenIs
    <3>3. head \in Tile
      BY <1>1, <3>1
    <3> DEFINE g == got[e]
    <3> HIDE DEF head, q, s, t, g
    <3>4. /\ Len(Append(g, head)) = Len(g) + 1
          /\ \A i \in 1 .. Len(g) : Append(g, head)[i] = g[i]
          /\ Append(g, head)[Len(g) + 1] = head
          /\ Len(g) = t /\ Len(g) \in Nat
      BY <1>1, <3>3 DEF g
    <3>5. Len(Tail(q)) = Len(q) - 1 /\ Len(q) \in Nat /\ \A i \in 1 .. Len(q) - 1 : Tail(q)[i] = q[i + 1]
      BY <1>1, <3>1
    <3>6. ASSUME NEW v \in 1 .. Ops, NEW j \in 1 .. N - 1, Total(v, j) <= t + 1
          PROVE  Append(g, head)[Total(v, j)] = Wire(e, v, j)
      <4>1. Total(v, j) \in Nat \ {0}
        <5>1. (v - 1) * (N - 1) \in Nat
          BY RingRuns, NAssumption
        <5> QED
          BY <5>1 DEF Total
      <4>2. CASE Total(v, j) = t + 1
        <5>1. v = r /\ j = k
          BY <1>3, <3>2, <4>2
        <5> QED
          BY <3>2, <3>4, <4>2, <5>1
      <4>3. CASE Total(v, j) <= t
        <5>1. g[Total(v, j)] = Wire(e, v, j)
          BY <1>3, <4>3 DEF g
        <5>2. Total(v, j) \in 1 .. Len(g)
          BY <3>4, <4>1, <4>3
        <5> QED
          BY <3>4, <5>1, <5>2
      <4>4. Total(v, j) = t + 1 \/ Total(v, j) <= t
        BY <1>1, <3>6, <4>1
      <4> QED
        BY <4>2, <4>3, <4>4
    <3>7. ASSUME NEW v \in 1 .. Ops, NEW j \in 1 .. N - 1, Total(v, j) \in t + 1 + 1 .. s
          PROVE  Tail(q)[Total(v, j) - (t + 1)] = Wire(e, v, j)
      <4>1. Total(v, j) \in Nat /\ Total(v, j) \in t + 1 .. s
        BY <1>1, <1>3, <3>7
      <4>2. q[Total(v, j) - t] = Wire(e, v, j)
        BY <1>3, <4>1
      <4>3. Total(v, j) - (t + 1) \in 1 .. Len(q) - 1 /\ Total(v, j) - (t + 1) + 1 = Total(v, j) - t
        BY <1>1, <3>5, <3>7, <4>1
      <4> QED
        BY <3>5, <4>2, <4>3
    <3>8. Len(Tail(q)) = s - (t + 1)
      BY <1>1, <3>5
    <3>9. \A v, j : Total(v, j)' = Total(v, j) /\ Wire(e, v, j)' = Wire(e, v, j) /\ Left(e)' = Left(e)
      BY DEF Total, Wire, Left, OpLength
    <3>10. TakenBy(e)' = t + 1
      BY <2>2, <2>5
    <3>11. GotIsNumbered(e)'
      BY <3>1, <3>4, <3>6, <3>9, <3>10 DEF GotIsNumbered, g
    <3>12. QueueIsNumbered(e)'
      BY <2>2, <3>1, <3>7, <3>8, <3>9, <3>10 DEF QueueIsNumbered
    <3> QED
      BY <3>11, <3>12
  <2> QED
    BY <2>4, <2>5
<1> QED
  BY <1>1, <1>6, <1>7, <1>8, <1>9, <1>10 DEF Net!Next, Net!vars, Net!Refuse, Net!Conclude

(* The thread moves only while a call is under way. *)
LEMMA DriveIs ==
    ASSUME IndInv, Drive
    PROVE  Active /\ calls' = calls
<1>1. CASE Attach \/ EnterLoop \/ Return \/ RaiseDeadlock
  BY <1>1 DEF Attach, EnterLoop, Return, RaiseDeadlock, Active
<1>2. ASSUME NEW c \in Core, Advance(c) PROVE Active /\ calls' = calls
  <2>1. running = c /\ calls' = calls
    BY <1>2 DEF Advance, RunSend, RunWork, Park, Complete, Raise
  <2>2. running # NoCore
    BY <2>1, NAssumption DEF NoCore, Core
  <2> QED
    BY <2>1, <2>2 DEF IndInv, ThreadIsFree
<1>3. ASSUME NEW c \in Core, Deliver(c) PROVE Active /\ calls' = calls
  BY <1>3 DEF Deliver, Active
<1> QED
  BY <1>1, <1>2, <1>3 DEF Drive

(* The kernel runs once: the call finds the cores where they started, so   *)
(* what moves a core or a tile is a core's own step.                       *)
LEMMA StepIs ==
    ASSUME RunsTheRing, IndInv, TilesAreNumbered, [Next]_vars
    PROVE  \/ UNCHANGED <<pc, got, messages>>
           \/ [Net!Next]_(Net!vars) /\ \E c \in Core : Net!Send(c) \/ Net!Recv(c) \/ Net!Work(c)
<1>1. [Net!Next]_(Net!vars) /\ Net!Core = Core
  BY NetStep DEF Core, Net!Core
<1>2. CASE Call
  <2>1. calls = 0 /\ messages' = NoTiles
        /\ pc' = [c \in Core |-> 1] /\ got' = [c \in Core |-> <<>>]
    BY <1>2, RingRuns DEF Call, Callable, IndInv, TypeOK
  <2> QED
    BY <2>1 DEF TilesAreNumbered, NothingDone
<1>3. CASE CallRefused \/ UNCHANGED vars
  BY <1>3 DEF CallRefused, client, vars
<1>4. CASE Drive
  <2>1. Active
    BY <1>4, DriveIs
  <2>2. ~Net!Call /\ ~Net!Refuse
    BY <2>1 DEF Net!Call, Net!Refuse
  <2>3. CASE Net!Conclude \/ UNCHANGED Net!vars
    BY <2>3 DEF Net!Conclude, Net!vars
  <2> QED
    BY <1>1, <2>2, <2>3 DEF Net!Next
<1> QED
  BY <1>2, <1>3, <1>4 DEF Next

LEMMA NumberedStep ==
    ASSUME RunsTheRing, IndInv, TilesAreNumbered, [Next]_vars
    PROVE  TilesAreNumbered'
<1>1. NothingDone'
  <2>1. CASE Call \/ CallRefused
    <3>1. calls' # 0
      BY <2>1, MaxCallsAssumption DEF Call, CallRefused, IndInv, TypeOK
    <3> QED
      BY <3>1 DEF NothingDone
  <2>2. CASE Drive
    <3>1. Active /\ calls' = calls
      BY <2>2, DriveIs
    <3>2. calls # 0
      BY <3>1, MaxCallsAssumption DEF IndInv, ThreadIsFree, TypeOK
    <3> QED
      BY <3>1, <3>2 DEF NothingDone
  <2>3. CASE UNCHANGED vars
    BY <2>3 DEF TilesAreNumbered, NothingDone, NoTiles, Channel, Core, vars
  <2> QED
    BY <2>1, <2>2, <2>3 DEF Next
<1>2. ASSUME NEW e \in Core PROVE (GotIsNumbered(e) /\ QueueIsNumbered(e))'
  BY NetStep, TilesStep
<1> QED
  BY <1>1, <1>2 DEF TilesAreNumbered, Core

LEMMA NumberedInit ==
    ASSUME RunsTheRing
    PROVE  Init => TilesAreNumbered
<1> SUFFICES ASSUME Init PROVE TilesAreNumbered
  OBVIOUS
<1>1. OpOf(1) = 1 /\ OffsetOf(1) = 0
  <2>1. 1 = (1 - 1) * OpLength + 0 + 1 /\ 0 \in 0 .. 2 * N
    BY NAssumption DEF OpLength
  <2> QED
    BY <2>1, PositionUnique
<1>2. Total(1, 0) = 0
  BY NAssumption DEF Total
<1>3. ASSUME NEW e \in Core PROVE GotIsNumbered(e) /\ QueueIsNumbered(e)
  <2>1. Left(e) \in Core /\ <<Left(e), e>> \in Channel
    BY Neighbours DEF Channel
  <2>2. TakenBy(e) = 0 /\ SentBy(Left(e)) = 0
    BY <1>1, <1>2, <2>1, RoundFacts DEF Init, TakenBy, SentBy
  <2>3. ASSUME NEW r \in 1 .. Ops, NEW k \in 1 .. N - 1 PROVE Total(r, k) \in Nat \ {0}
    <3>1. (r - 1) * (N - 1) \in Nat
      BY RingRuns, NAssumption
    <3> QED
      BY <3>1 DEF Total
  <2>4. got[e] = <<>> /\ messages[<<Left(e), e>>] = <<>>
    BY <2>1 DEF Init, NoTiles
  <2> QED
    BY <2>2, <2>3, <2>4 DEF GotIsNumbered, QueueIsNumbered
<1> QED
  BY <1>3 DEF TilesAreNumbered, NothingDone, Init

LEMMA Numbered ==
    ASSUME RunsTheRing
    PROVE  Spec => []TilesAreNumbered
<1>1. IndInv /\ TilesAreNumbered /\ [Next]_vars => TilesAreNumbered'
  BY NumberedStep
<1> QED
  BY <1>1, NumberedInit, Inductive, PTL DEF Spec

----------------------------------------------------------------------------
(***************************************************************************)
(* What the ring sees of a core: a function of where it stands and of what *)
(* it got.                                                                 *)
(***************************************************************************)
Reduce(i) == IF OffsetOf(i) >= 2 THEN OpOf(i) ELSE OpOf(i) - 1
Round(i) == IF OffsetOf(i) >= 2 THEN Rounds(OffsetOf(i)) ELSE N - 1
Expects(i) == OffsetOf(i) \in 2 .. 2 * N - 1 /\ OffsetOf(i) % 2 = 1
Folds(d, g, r, k) ==
    [j \in 1 .. k + 1 |-> IF j = 1 THEN Partial(d, r) ELSE Payload(g[Total(r, j - 1)])]
Last(d, g, r, k) == IF k = 0 THEN Partial(d, r) ELSE Payload(g[Total(r, k)])

View(d, i, g) ==
    [op |-> OpOf(i),
     at |-> CASE OffsetOf(i) = 0 -> "produce" [] OffsetOf(i) = 1 -> "reduce" [] OTHER -> "ring",
     gid |-> IF i = 1 THEN None ELSE G,
     round |-> IF Reduce(i) = 0 THEN 1 ELSE Round(i) + 1,
     waits |-> Expects(i),
     acc |-> IF Reduce(i) = 0 THEN <<>> ELSE Folds(d, g, Reduce(i), Round(i)),
     fwd |-> IF Reduce(i) = 0 THEN None ELSE Last(d, g, Reduce(i), Round(i)),
     bytes |-> IF Reduce(i) = 0 THEN 0 ELSE Round(i) + (IF Expects(i) THEN 1 ELSE 0),
     out |-> [r \in 1 .. OpOf(i) - 1 |-> [value |-> Folds(d, g, r, N - 1), bytes |-> N - 1]]]

Payloads(q) == [i \in DOMAIN q |-> Payload(q[i])]

(* The view of d before a step, and after it. *)
Shows(d, v) ==
    /\ RingOp[d] = v.op /\ RingAt[d] = v.at /\ RingGid[d] = v.gid
    /\ RingRound[d] = v.round /\ RingWaits[d] = v.waits /\ RingAcc[d] = v.acc
    /\ RingFwd[d] = v.fwd /\ RingBytes[d] = v.bytes /\ RingOut[d] = v.out

WillShow(d, v) ==
    /\ RingOp'[d] = v.op /\ RingAt'[d] = v.at /\ RingGid'[d] = v.gid
    /\ RingRound'[d] = v.round /\ RingWaits'[d] = v.waits /\ RingAcc'[d] = v.acc
    /\ RingFwd'[d] = v.fwd /\ RingBytes'[d] = v.bytes /\ RingOut'[d] = v.out

LEMMA Seen ==
    ASSUME NEW d \in Core
    PROVE  /\ Shows(d, View(d, pc[d], got[d])) /\ WillShow(d, View(d, pc'[d], got'[d]))
           /\ RingChan[d] = Payloads(messages[<<Left(d), d>>])
           /\ RingChan'[d] = Payloads(messages'[<<Left(d), d>>])
<1> USE DEF View, Reduce, Round, Expects, Folds, Last, Total, HeldOp, HeldRounds, InRing, Waits,
            Accumulated, Arrived, Payloads
<1>1. RingOp[d] = OpOf(pc[d]) /\ RingOp'[d] = OpOf(pc'[d])
  BY DEF RingOp, OpOf, OpLength
<1>2. /\ RingAt[d] = View(d, pc[d], got[d]).at
      /\ RingAt'[d] = View(d, pc'[d], got'[d]).at
  BY DEF RingAt, OffsetOf, OpLength
<1>3. /\ RingGid[d] = View(d, pc[d], got[d]).gid
      /\ RingGid'[d] = View(d, pc'[d], got'[d]).gid
  BY DEF RingGid
<1>4. /\ RingRound[d] = View(d, pc[d], got[d]).round
      /\ RingRound'[d] = View(d, pc'[d], got'[d]).round
  BY DEF RingRound, Rounds, OffsetOf, OpOf, OpLength
<1>5. /\ RingWaits[d] = View(d, pc[d], got[d]).waits
      /\ RingWaits'[d] = View(d, pc'[d], got'[d]).waits
  BY DEF RingWaits, OffsetOf, OpLength
<1>6. /\ RingAcc[d] = View(d, pc[d], got[d]).acc
      /\ RingAcc'[d] = View(d, pc'[d], got'[d]).acc
  BY DEF RingAcc, Payload, Partial, Rounds, OffsetOf, OpOf, OpLength
<1>7. /\ RingFwd[d] = View(d, pc[d], got[d]).fwd
      /\ RingFwd'[d] = View(d, pc'[d], got'[d]).fwd
  BY DEF RingFwd, Payload, Partial, Rounds, OffsetOf, OpOf, OpLength
<1>8. /\ RingBytes[d] = View(d, pc[d], got[d]).bytes
      /\ RingBytes'[d] = View(d, pc'[d], got'[d]).bytes
  BY DEF RingBytes, Rounds, OffsetOf, OpOf, OpLength
<1>9. /\ RingOut[d] = View(d, pc[d], got[d]).out
      /\ RingOut'[d] = View(d, pc'[d], got'[d]).out
  BY DEF RingOut, Payload, Partial, Rounds, OffsetOf, OpOf, OpLength
<1>10. /\ RingChan[d] = Payloads(messages[<<Left(d), d>>])
       /\ RingChan'[d] = Payloads(messages'[<<Left(d), d>>])
  BY DEF RingChan, Payload, Partial, Rounds, OffsetOf, OpOf, OpLength, Left
<1>11. View(d, pc[d], got[d]).op = OpOf(pc[d]) /\ View(d, pc'[d], got'[d]).op = OpOf(pc'[d])
  OBVIOUS
<1> HIDE DEF View
<1> QED
  BY <1>1, <1>2, <1>3, <1>4, <1>5, <1>6, <1>7, <1>8, <1>9, <1>10, <1>11 DEF Shows, WillShow

(* The tile of round k is the partial of the core k places to the left. *)
LEMMA PayloadIs ==
    ASSUME NEW c \in Core, NEW r \in Nat \ {0}, NEW k \in 1 .. N - 1
    PROVE  Payload(Wire(c, r, k)) = Partial(c - k, r)
<1> DEFINE i == (r - 1) * OpLength + 2 * k + 1
           o == 2 * k
<1>1. o \in 0 .. 2 * N /\ i \in Nat \ {0} /\ i = (r - 1) * OpLength + o + 1
  <2>1. OpLength \in Nat
    BY NAssumption DEF OpLength
  <2>2. (r - 1) * OpLength \in Nat
    BY <2>1
  <2> QED
    BY <2>2, NAssumption
<1>2. Wire(c, r, k).src = Left(c) /\ Wire(c, r, k).step = i
  BY DEF Wire
<1>3. Rounds(o) = k - 1
  BY RoundFacts
<1>4. (Left(c) - (k - 1)) % N = (c - k) % N
  BY Neighbours
<1> HIDE DEF i, o
<1>5. OpOf(i) = r /\ OffsetOf(i) = o
  BY <1>1, PositionUnique
<1> QED
  BY <1>2, <1>3, <1>4, <1>5 DEF Payload, Partial

LEMMA PayloadsFacts ==
    ASSUME NEW q \in Seq(Tile)
    PROVE  /\ \A t \in Tile : Payloads(Append(q, t)) = Append(Payloads(q), Payload(t))
           /\ q # <<>> => /\ Payloads(q) # <<>>
                          /\ Head(Payloads(q)) = Payload(Head(q))
                          /\ Payloads(Tail(q)) = Tail(Payloads(q))
<1>1. /\ Len(q) \in Nat /\ DOMAIN q = 1 .. Len(q)
      /\ Payloads(q) = [i \in 1 .. Len(q) |-> Payload(q[i])]
  BY DEF Payloads
<1>2. Payloads(q) \in Seq({Payload(q[i]) : i \in 1 .. Len(q)}) /\ Len(Payloads(q)) = Len(q)
  BY <1>1
<1>3. ASSUME NEW t \in Tile PROVE Payloads(Append(q, t)) = Append(Payloads(q), Payload(t))
  <2>1. /\ DOMAIN Append(q, t) = 1 .. Len(q) + 1
        /\ \A i \in 1 .. Len(q) : Append(q, t)[i] = q[i]
        /\ Append(q, t)[Len(q) + 1] = t
    BY <1>1
  <2>2. Payloads(Append(q, t)) = [i \in 1 .. Len(q) + 1 |-> IF i = Len(q) + 1 THEN Payload(t) ELSE Payload(q[i])]
    BY <1>1, <2>1 DEF Payloads
  <2>3. Append(Payloads(q), Payload(t)) =
           [i \in 1 .. Len(q) + 1 |-> IF i = Len(q) + 1 THEN Payload(t) ELSE Payload(q[i])]
    BY <1>1, <1>2
  <2> QED
    BY <2>2, <2>3
<1>4. ASSUME q # <<>>
      PROVE  /\ Payloads(q) # <<>>
             /\ Head(Payloads(q)) = Payload(Head(q))
             /\ Payloads(Tail(q)) = Tail(Payloads(q))
  <2>1. /\ Len(q) # 0 /\ Head(q) = q[1] /\ DOMAIN Tail(q) = 1 .. Len(q) - 1
        /\ \A i \in 1 .. Len(q) - 1 : Tail(q)[i] = q[i + 1]
    BY <1>1, <1>4
  <2>2. Payloads(q) # <<>> /\ Head(Payloads(q)) = Payload(q[1])
    BY <1>1, <1>2, <2>1
  <2>3. Payloads(Tail(q)) = [i \in 1 .. Len(q) - 1 |-> Payload(q[i + 1])]
    BY <2>1 DEF Payloads
  <2>4. Tail(Payloads(q)) = [i \in 1 .. Len(q) - 1 |-> Payload(q[i + 1])]
    BY <1>1, <1>2, <2>1
  <2> QED
    BY <2>1, <2>2, <2>3, <2>4
<1> QED
  BY <1>3, <1>4

----------------------------------------------------------------------------
(***************************************************************************)
(* How the view changes when a core moves on.                              *)
(***************************************************************************)
LEMMA FirstPosition == OpOf(1) = 1 /\ OffsetOf(1) = 0
<1>1. 1 = (1 - 1) * OpLength + 0 + 1 /\ 0 \in 0 .. 2 * N
  BY NAssumption DEF OpLength
<1> QED
  BY <1>1, PositionUnique

(* Sequences as functions. *)
Indexed(f, n) == f = [j \in 1 .. n |-> f[j]]

LEMMA AppendIs ==
    ASSUME NEW n \in Nat, NEW f, NEW e, Indexed(f, n), Indexed(e, n + 1), \A j \in 1 .. n : e[j] = f[j]
    PROVE  e = Append(f, e[n + 1])
<1> DEFINE x == e[n + 1]
<1>0. f = [j \in 1 .. n |-> f[j]] /\ e = [j \in 1 .. n + 1 |-> e[j]]
  BY DEF Indexed
<1>1. f \in Seq({f[j] : j \in 1 .. n}) /\ Len(f) = n
  BY <1>0
<1>2. Append(f, x) = [j \in 1 .. n + 1 |-> IF j = n + 1 THEN x ELSE f[j]]
  BY <1>1
<1>3. \A j \in 1 .. n + 1 : j = n + 1 \/ j \in 1 .. n
  OBVIOUS
<1>4. \A j \in 1 .. n + 1 : e[j] = IF j = n + 1 THEN x ELSE f[j]
  BY <1>3
<1> QED
  BY <1>0, <1>2, <1>4

LEMMA NextPosition ==
    ASSUME NEW i \in Nat \ {0}, NEW o \in 0 .. 2 * N - 1, OffsetOf(i) = o
    PROVE  /\ OpOf(i) \in Nat \ {0} /\ OpOf(i + 1) = OpOf(i) /\ OffsetOf(i + 1) = o + 1
           /\ o # 0 => i # 1
           /\ i + 1 # 1
<1>1. o # 2 * N
  BY NAssumption
<1> QED
  BY <1>1, FirstPosition, PositionIs, PositionMoves

LEMMA Expecting ==
    ASSUME NEW i \in Nat \ {0}
    PROVE  /\ OffsetOf(i) = 1 => ~Expects(i + 1)
           /\ \A k \in 1 .. N - 1 :
                 /\ OffsetOf(i) = 2 * k => ~Expects(i) /\ Expects(i + 1)
                 /\ OffsetOf(i) = 2 * k + 1 => Expects(i) /\ ~Expects(i + 1)
<1>1. OffsetOf(i) = 1 => ~Expects(i + 1)
  <2>1. 1 \in 0 .. 2 * N - 1 /\ 2 % 2 # 1
    BY NAssumption
  <2> QED
    BY <2>1, NextPosition DEF Expects
<1>2. ASSUME NEW k \in 1 .. N - 1, OffsetOf(i) = 2 * k PROVE ~Expects(i) /\ Expects(i + 1)
  <2>1. 2 * k \in 0 .. 2 * N - 1 /\ (2 * k) % 2 # 1 /\ 2 * k + 1 \in 2 .. 2 * N - 1 /\ (2 * k + 1) % 2 = 1
    BY NAssumption
  <2>2. OffsetOf(i + 1) = 2 * k + 1
    BY <1>2, <2>1, NextPosition
  <2> QED
    BY <1>2, <2>1, <2>2 DEF Expects
<1>3. ASSUME NEW k \in 1 .. N - 1, OffsetOf(i) = 2 * k + 1 PROVE Expects(i) /\ ~Expects(i + 1)
  <2>1. /\ 2 * k + 1 \in 0 .. 2 * N - 1 /\ 2 * k + 1 \in 2 .. 2 * N - 1 /\ (2 * k + 1) % 2 = 1
        /\ (2 * k + 1 + 1) % 2 # 1
    BY NAssumption
  <2>2. OffsetOf(i + 1) = 2 * k + 1 + 1
    BY <1>3, <2>1, NextPosition
  <2> QED
    BY <1>3, <2>1, <2>2 DEF Expects
<1> QED
  BY <1>1, <1>2, <1>3

LEMMA ViewProduces ==
    ASSUME NEW d, NEW g, NEW i \in Nat \ {0}, OffsetOf(i) = 0
    PROVE  LET v == View(d, i, g)
               w == View(d, i + 1, g)
           IN  /\ v.at = "produce"
               /\ w.at = "reduce" /\ w.gid = G
               /\ w.op = v.op /\ w.round = v.round /\ w.waits = v.waits /\ w.acc = v.acc
               /\ w.fwd = v.fwd /\ w.bytes = v.bytes /\ w.out = v.out
<1>1. OpOf(i + 1) = OpOf(i) /\ OffsetOf(i + 1) = 1 /\ i + 1 # 1
  <2>1. 0 \in 0 .. 2 * N - 1
    BY NAssumption
  <2> QED
    BY <2>1, NextPosition
<1>2. Reduce(i + 1) = Reduce(i) /\ Round(i + 1) = Round(i) /\ Expects(i) = FALSE /\ Expects(i + 1) = FALSE
  BY <1>1 DEF Reduce, Round, Expects
<1>3. View(d, i, g).at = "produce" /\ View(d, i + 1, g).at = "reduce" /\ View(d, i + 1, g).gid = G
  BY <1>1 DEF View
<1>4. View(d, i + 1, g).out = View(d, i, g).out
  BY <1>1 DEF View
<1> QED
  BY <1>1, <1>2, <1>3, <1>4 DEF View

LEMMA ViewEnters ==
    ASSUME NEW d, NEW g, NEW i \in Nat \ {0}, OffsetOf(i) = 1
    PROVE  LET v == View(d, i, g)
               w == View(d, i + 1, g)
           IN  /\ v.at = "reduce" /\ v.gid = G
               /\ w.at = "ring" /\ w.round = 1 /\ w.bytes = 0
               /\ v.op = OpOf(i) /\ w.acc = Folds(d, g, OpOf(i), 0) /\ w.fwd = Partial(d, OpOf(i))
               /\ w.op = v.op /\ w.gid = v.gid /\ w.out = v.out
<1>1. OpOf(i + 1) = OpOf(i) /\ OffsetOf(i + 1) = 2 /\ OpOf(i) \in Nat \ {0} /\ i # 1 /\ i + 1 # 1
  <2>1. 1 \in 0 .. 2 * N - 1
    BY NAssumption
  <2> QED
    BY <2>1, NextPosition
<1>2. Reduce(i + 1) = OpOf(i) /\ Round(i + 1) = 0 /\ Expects(i + 1) = FALSE
  BY <1>1, RoundFacts DEF Reduce, Round, Expects
<1>3. Last(d, g, OpOf(i), 0) = Partial(d, OpOf(i))
  BY DEF Last
<1> QED
  BY <1>1, <1>2, <1>3 DEF View

LEMMA ViewLeaves ==
    ASSUME NEW d, NEW g, NEW i \in Nat \ {0}, OffsetOf(i) = 2 * N
    PROVE  LET v == View(d, i, g)
               w == View(d, i + 1, g)
           IN  /\ v.at = "ring" /\ v.round = N /\ v.gid = G
               /\ w.at = "produce" /\ w.op = v.op + 1
               /\ w.out = Append(v.out, [value |-> v.acc, bytes |-> v.bytes])
               /\ w.gid = v.gid /\ w.round = v.round /\ w.waits = v.waits /\ w.acc = v.acc
               /\ w.fwd = v.fwd /\ w.bytes = v.bytes
<1>1. OpOf(i + 1) = OpOf(i) + 1 /\ OffsetOf(i + 1) = 0 /\ OpOf(i) \in Nat \ {0} /\ i # 1 /\ i + 1 # 1
  BY FirstPosition, PositionIs, PositionMoves, NAssumption
<1>2. OffsetOf(i) >= 2 /\ OffsetOf(i) # 0 /\ OffsetOf(i) # 1
  BY NAssumption
<1>3. /\ Reduce(i) = OpOf(i) /\ Round(i) = N - 1 /\ Expects(i) = FALSE
      /\ Reduce(i + 1) = OpOf(i) /\ Round(i + 1) = N - 1 /\ Expects(i + 1) = FALSE
  BY <1>1, <1>2, RoundFacts, NAssumption DEF Reduce, Round, Expects
<1> DEFINE item(r) == [value |-> Folds(d, g, r, N - 1), bytes |-> N - 1]
           out(n) == [r \in 1 .. n |-> item(r)]
<1>4. out(OpOf(i)) = Append(out(OpOf(i) - 1), item(OpOf(i)))
  <2> HIDE DEF item
  <2> DEFINE n == OpOf(i) - 1
             e == [j \in 1 .. n + 1 |-> item(j)]
             f == [j \in 1 .. n |-> item(j)]
  <2>1. n \in Nat /\ n + 1 = OpOf(i)
    BY <1>1
  <2>2. Indexed(e, n + 1) /\ Indexed(f, n)
        /\ e[n + 1] = item(n + 1) /\ \A j \in 1 .. n : e[j] = f[j]
    BY <2>1 DEF Indexed
  <2>3. out(OpOf(i)) = e /\ out(OpOf(i) - 1) = f
    BY <2>1
  <2> HIDE DEF e, f, n
  <2>4. e = Append(f, item(n + 1))
    BY <2>1, <2>2, AppendIs
  <2> QED
    BY <2>1, <2>3, <2>4
<1>5. /\ View(d, i, g).acc = Folds(d, g, OpOf(i), N - 1) /\ View(d, i, g).bytes = N - 1
      /\ View(d, i, g).out = out(OpOf(i) - 1) /\ View(d, i, g).op = OpOf(i)
      /\ View(d, i, g).round = N /\ View(d, i, g).gid = G /\ View(d, i, g).at = "ring"
  BY <1>1, <1>2, <1>3, NAssumption DEF View
<1>6. View(d, i + 1, g).out = Append(View(d, i, g).out, [value |-> View(d, i, g).acc, bytes |-> View(d, i, g).bytes])
  <2>1. View(d, i + 1, g).out = out(OpOf(i))
    BY <1>1 DEF View
  <2> QED
    BY <1>4, <1>5, <2>1
<1> HIDE DEF out, item
<1>7. /\ View(d, i + 1, g).at = "produce" /\ View(d, i + 1, g).op = OpOf(i) + 1
      /\ View(d, i + 1, g).gid = G /\ View(d, i + 1, g).round = N - 1 + 1
  BY <1>1, <1>3 DEF View
<1>8. /\ View(d, i + 1, g).waits = View(d, i, g).waits /\ View(d, i + 1, g).acc = View(d, i, g).acc
      /\ View(d, i + 1, g).fwd = View(d, i, g).fwd /\ View(d, i + 1, g).bytes = View(d, i, g).bytes
  BY <1>1, <1>3 DEF View
<1> QED
  BY <1>5, <1>6, <1>7, <1>8, NAssumption

LEMMA ViewSends ==
    ASSUME NEW d, NEW g, NEW i \in Nat \ {0}, NEW k \in 1 .. N - 1, OffsetOf(i) = 2 * k
    PROVE  LET v == View(d, i, g)
               w == View(d, i + 1, g)
           IN  /\ v.at = "ring" /\ v.round = k /\ v.fwd = Last(d, g, OpOf(i), k - 1)
               /\ w.bytes = v.bytes + 1
               /\ w.op = v.op /\ w.at = v.at /\ w.gid = v.gid /\ w.round = v.round
               /\ w.acc = v.acc /\ w.fwd = v.fwd /\ w.out = v.out
<1>1. OpOf(i + 1) = OpOf(i) /\ OffsetOf(i + 1) = 2 * k + 1 /\ OpOf(i) \in Nat \ {0} /\ i # 1 /\ i + 1 # 1
  <2>1. 2 * k \in 0 .. 2 * N - 1 /\ 2 * k # 0
    BY NAssumption
  <2> QED
    BY <2>1, NextPosition
<1>2. /\ OffsetOf(i) \in 2 .. 2 * N - 1 /\ OffsetOf(i) % 2 # 1 /\ OffsetOf(i) >= 2
      /\ OffsetOf(i + 1) \in 2 .. 2 * N - 1 /\ OffsetOf(i + 1) % 2 = 1 /\ OffsetOf(i + 1) >= 2
  BY <1>1, NAssumption
<1>3. /\ Reduce(i) = OpOf(i) /\ Round(i) = k - 1 /\ Expects(i) = FALSE
      /\ Reduce(i + 1) = OpOf(i) /\ Round(i + 1) = k - 1 /\ Expects(i + 1) = TRUE
  BY <1>1, <1>2, RoundFacts DEF Reduce, Round, Expects
<1>4. OffsetOf(i) # 0 /\ OffsetOf(i) # 1 /\ OffsetOf(i + 1) # 0 /\ OffsetOf(i + 1) # 1
  BY <1>2
<1>5. /\ View(d, i, g).bytes = k - 1 /\ View(d, i + 1, g).bytes = k - 1 + 1
      /\ View(d, i, g).round = k /\ View(d, i + 1, g).round = k
  BY <1>1, <1>3 DEF View
<1> QED
  BY <1>1, <1>3, <1>4, <1>5 DEF View

Takes(v, w, k, payload) ==
    /\ v.at = "ring" /\ v.round = k /\ v.gid = G
    /\ w.acc = Append(v.acc, payload) /\ w.fwd = payload
    /\ w.round = v.round + 1
    /\ w.op = v.op /\ w.at = v.at /\ w.gid = v.gid /\ w.bytes = v.bytes /\ w.out = v.out

LEMMA ViewReceives ==
    ASSUME NEW d, NEW g \in Seq(Tile), NEW t \in Tile, NEW i \in Nat \ {0}, NEW k \in 1 .. N - 1,
           OffsetOf(i) = 2 * k + 1, Total(OpOf(i), k) = Len(g) + 1
    PROVE  Takes(View(d, i, g), View(d, i + 1, Append(g, t)), k, Payload(t))
<1> DEFINE r == OpOf(i)
           h == Append(g, t)
<1>1. OpOf(i + 1) = r /\ OffsetOf(i + 1) = 2 * k + 2 /\ r \in Nat \ {0} /\ i # 1 /\ i + 1 # 1
  <2>1. 2 * k + 1 \in 0 .. 2 * N - 1 /\ 2 * k + 1 # 0 /\ 2 * k + 1 + 1 = 2 * k + 2
    BY NAssumption
  <2> QED
    BY <2>1, NextPosition
<1>2. /\ OffsetOf(i) \in 2 .. 2 * N - 1 /\ OffsetOf(i) % 2 = 1 /\ OffsetOf(i) >= 2
      /\ OffsetOf(i + 1) % 2 # 1 /\ OffsetOf(i + 1) >= 2
  BY <1>1, NAssumption
<1>3. /\ Reduce(i) = r /\ Round(i) = k - 1 /\ Expects(i) = TRUE
      /\ Reduce(i + 1) = r /\ Round(i + 1) = k /\ Expects(i + 1) = FALSE
  BY <1>1, <1>2, RoundFacts DEF Reduce, Round, Expects
<1>4. OffsetOf(i) # 0 /\ OffsetOf(i) # 1 /\ OffsetOf(i + 1) # 0 /\ OffsetOf(i + 1) # 1
  BY <1>2
<1>5. Len(g) \in Nat /\ h[Len(g) + 1] = t /\ \A x \in 1 .. Len(g) : h[x] = g[x]
  OBVIOUS
<1> HIDE DEF r, h
<1>6. Folds(d, h, r, k) = Append(Folds(d, g, r, k - 1), Payload(t))
  <2>1. \A j \in 1 .. k - 1 : Total(r, j) \in 1 .. Len(g)
    <3>1. ASSUME NEW j \in 1 .. k - 1 PROVE Total(r, j) \in 1 .. Len(g)
      <4>1. (r - 1) * (N - 1) \in Nat
        BY <1>1, NAssumption
      <4>2. Total(r, j) = (r - 1) * (N - 1) + j /\ (r - 1) * (N - 1) + k = Len(g) + 1
        BY DEF Total, r
      <4> QED
        BY <1>5, <4>1, <4>2
    <3> QED
      BY <3>1
  <2> DEFINE f == [j \in 1 .. k |-> IF j = 1 THEN Partial(d, r) ELSE Payload(g[Total(r, j - 1)])]
             e == [j \in 1 .. k + 1 |-> IF j = 1 THEN Partial(d, r) ELSE Payload(h[Total(r, j - 1)])]
  <2>2. Folds(d, g, r, k - 1) = f /\ Folds(d, h, r, k) = e
    BY NAssumption DEF Folds
  <2>3. \A j \in 1 .. k : e[j] = f[j]
    <3>1. ASSUME NEW j \in 1 .. k, j # 1 PROVE h[Total(r, j - 1)] = g[Total(r, j - 1)]
      <4>1. j - 1 \in 1 .. k - 1
        BY <3>1
      <4> QED
        BY <1>5, <2>1, <4>1
    <3> QED
      BY <3>1
  <2>4. e[k + 1] = Payload(t)
    <3>1. k + 1 # 1 /\ k + 1 - 1 = k /\ k + 1 \in 1 .. k + 1
      BY NAssumption
    <3>2. h[Total(r, k)] = t
      BY <1>5 DEF r
    <3> QED
      BY <3>1, <3>2
  <2>5. k \in Nat /\ Indexed(f, k) /\ Indexed(e, k + 1)
    BY NAssumption DEF Indexed
  <2> HIDE DEF e, f
  <2>6. e = Append(f, Payload(t))
    BY <2>3, <2>4, <2>5, AppendIs
  <2> QED
    BY <2>2, <2>6
<1>7. Last(d, h, r, k) = Payload(t)
  BY <1>5, NAssumption DEF Last, r
<1>8. \A s \in 1 .. r - 1 : Folds(d, h, s, N - 1) = Folds(d, g, s, N - 1)
  <2>1. ASSUME NEW s \in 1 .. r - 1, NEW j \in 1 .. N - 1 PROVE h[Total(s, j)] = g[Total(s, j)]
    <3>1. s \in Nat \ {0} /\ s < r /\ k - 1 \in 0 .. N - 1 /\ k - 1 + 1 = k
      BY <1>1, NAssumption
    <3>2. Total(s, j) <= Total(r, 0) /\ Total(s, j) \in Nat /\ Total(r, 0) \in Nat
      <4>1. j \in 0 .. N - 1 /\ 0 \in 0 .. N - 1 /\ 1 \in 1 .. N - 1
        BY NAssumption
      <4>2. Total(s, j) <= Total(r, 0)
        BY <1>1, <3>1, <4>1, TotalFacts
      <4> QED
        BY <1>1, <3>1, <4>1, <4>2, TotalFacts
    <3>3. Total(r, k) = Total(r, 0) + k /\ Total(s, j) # 0
      <4>1. (s - 1) * (N - 1) \in Nat /\ (r - 1) * (N - 1) \in Nat
        BY <1>1, <3>1, NAssumption
      <4> QED
        BY <4>1 DEF Total
    <3>4. Total(r, k) = Len(g) + 1
      BY DEF r
    <3>5. Total(s, j) \in 1 .. Len(g)
      BY <1>5, <3>2, <3>3, <3>4
    <3> QED
      BY <1>5, <3>5
  <2>2. ASSUME NEW s \in 1 .. r - 1, NEW j \in 1 .. N - 1 + 1, j # 1
        PROVE  h[Total(s, j - 1)] = g[Total(s, j - 1)]
    <3>1. j - 1 \in 1 .. N - 1
      BY <2>2, NAssumption
    <3> QED
      BY <2>1, <3>1
  <2> QED
    BY <2>2 DEF Folds
<1>9. View(d, i, g).bytes = k - 1 + 1 /\ View(d, i + 1, h).bytes = k
      /\ View(d, i, g).round = k - 1 + 1 /\ View(d, i + 1, h).round = k + 1
      /\ View(d, i, g).acc = Folds(d, g, r, k - 1) /\ View(d, i + 1, h).acc = Folds(d, h, r, k)
      /\ View(d, i + 1, h).fwd = Last(d, h, r, k)
      /\ View(d, i, g).op = r /\ View(d, i + 1, h).op = r
  BY <1>1, <1>3, NAssumption DEF View, r
<1>10. View(d, i, g).out = View(d, i + 1, h).out
  BY <1>1, <1>8 DEF View, r
<1>11. /\ View(d, i, g).at = "ring" /\ View(d, i, g).gid = G
       /\ View(d, i + 1, h).at = "ring" /\ View(d, i + 1, h).gid = G
  BY <1>1, <1>3, <1>4 DEF View
<1> QED
  BY <1>6, <1>7, <1>9, <1>10, <1>11, NAssumption DEF h, Takes

----------------------------------------------------------------------------
(***************************************************************************)
(* A core's step is a step of the ring.                                    *)
(***************************************************************************)
OnCores(f) == f = [d \in Core |-> f[d]]

LEMMA Updated ==
    ASSUME NEW f, NEW h, OnCores(f), OnCores(h), NEW c \in Core, \A d \in Core \ {c} : h[d] = f[d]
    PROVE  h = [f EXCEPT ![c] = h[c]] /\ (h[c] = f[c] => h = f)
<1>1. [f EXCEPT ![c] = h[c]] = [d \in Core |-> IF d = c THEN h[c] ELSE f[d]]
  BY DEF OnCores
<1>2. \A d \in Core : h[d] = IF d = c THEN h[c] ELSE f[d]
  OBVIOUS
<1>3. h[c] = f[c] => \A d \in Core : h[d] = f[d]
  OBVIOUS
<1> QED
  BY <1>1, <1>2, <1>3 DEF OnCores

LEMMA RingOnCores ==
    /\ OnCores(RingOp) /\ OnCores(RingAt) /\ OnCores(RingGid) /\ OnCores(RingRound) /\ OnCores(RingWaits)
    /\ OnCores(RingAcc) /\ OnCores(RingFwd) /\ OnCores(RingBytes) /\ OnCores(RingChan) /\ OnCores(RingOut)
    /\ OnCores(RingOp') /\ OnCores(RingAt') /\ OnCores(RingGid') /\ OnCores(RingRound') /\ OnCores(RingWaits')
    /\ OnCores(RingAcc') /\ OnCores(RingFwd') /\ OnCores(RingBytes') /\ OnCores(RingChan') /\ OnCores(RingOut')
<1>1. OnCores(RingOp) /\ OnCores(RingAt) /\ OnCores(RingGid) /\ OnCores(RingRound) /\ OnCores(RingWaits)
  BY DEF OnCores, RingOp, RingAt, RingGid, RingRound, RingWaits
<1>2. OnCores(RingAcc) /\ OnCores(RingFwd) /\ OnCores(RingBytes) /\ OnCores(RingChan) /\ OnCores(RingOut)
  BY DEF OnCores, RingAcc, RingFwd, RingBytes, RingChan, RingOut
<1>3. OnCores(RingOp') /\ OnCores(RingAt') /\ OnCores(RingGid') /\ OnCores(RingRound') /\ OnCores(RingWaits')
  BY DEF OnCores, RingOp, RingAt, RingGid, RingRound, RingWaits, Core
<1>4. OnCores(RingAcc') /\ OnCores(RingFwd') /\ OnCores(RingBytes') /\ OnCores(RingChan') /\ OnCores(RingOut')
  BY DEF OnCores, RingAcc, RingFwd, RingBytes, RingChan, RingOut, Core
<1> QED
  BY <1>1, <1>2, <1>3, <1>4

(* The others' views do not change. *)
LEMMA OneMoves ==
    ASSUME NEW c \in Core, \A d \in Core \ {c} : pc'[d] = pc[d] /\ got'[d] = got[d]
    PROVE  /\ RingOp' = [RingOp EXCEPT ![c] = RingOp'[c]] /\ (RingOp'[c] = RingOp[c] => RingOp' = RingOp)
           /\ RingAt' = [RingAt EXCEPT ![c] = RingAt'[c]] /\ (RingAt'[c] = RingAt[c] => RingAt' = RingAt)
           /\ RingGid' = [RingGid EXCEPT ![c] = RingGid'[c]] /\ (RingGid'[c] = RingGid[c] => RingGid' = RingGid)
           /\ RingRound' = [RingRound EXCEPT ![c] = RingRound'[c]]
              /\ (RingRound'[c] = RingRound[c] => RingRound' = RingRound)
           /\ RingWaits' = [RingWaits EXCEPT ![c] = RingWaits'[c]]
              /\ (RingWaits'[c] = RingWaits[c] => RingWaits' = RingWaits)
           /\ RingAcc' = [RingAcc EXCEPT ![c] = RingAcc'[c]] /\ (RingAcc'[c] = RingAcc[c] => RingAcc' = RingAcc)
           /\ RingFwd' = [RingFwd EXCEPT ![c] = RingFwd'[c]] /\ (RingFwd'[c] = RingFwd[c] => RingFwd' = RingFwd)
           /\ RingBytes' = [RingBytes EXCEPT ![c] = RingBytes'[c]]
              /\ (RingBytes'[c] = RingBytes[c] => RingBytes' = RingBytes)
           /\ RingOut' = [RingOut EXCEPT ![c] = RingOut'[c]] /\ (RingOut'[c] = RingOut[c] => RingOut' = RingOut)
<1>1. ASSUME NEW d \in Core \ {c}
      PROVE  /\ RingOp'[d] = RingOp[d] /\ RingAt'[d] = RingAt[d] /\ RingGid'[d] = RingGid[d]
             /\ RingRound'[d] = RingRound[d] /\ RingWaits'[d] = RingWaits[d] /\ RingAcc'[d] = RingAcc[d]
             /\ RingFwd'[d] = RingFwd[d] /\ RingBytes'[d] = RingBytes[d] /\ RingOut'[d] = RingOut[d]
  <2> DEFINE v == View(d, pc[d], got[d])
  <2>1. d \in Core /\ View(d, pc'[d], got'[d]) = v
    OBVIOUS
  <2>2. Shows(d, v) /\ WillShow(d, v)
    BY <2>1, Seen
  <2> HIDE DEF v
  <2> QED
    BY <2>2 DEF Shows, WillShow
<1>2. RingOp' = [RingOp EXCEPT ![c] = RingOp'[c]] /\ (RingOp'[c] = RingOp[c] => RingOp' = RingOp)
  BY <1>1, RingOnCores, Updated
<1>3. RingAt' = [RingAt EXCEPT ![c] = RingAt'[c]] /\ (RingAt'[c] = RingAt[c] => RingAt' = RingAt)
  BY <1>1, RingOnCores, Updated
<1>4. RingGid' = [RingGid EXCEPT ![c] = RingGid'[c]] /\ (RingGid'[c] = RingGid[c] => RingGid' = RingGid)
  BY <1>1, RingOnCores, Updated
<1>5. RingRound' = [RingRound EXCEPT ![c] = RingRound'[c]] /\ (RingRound'[c] = RingRound[c] => RingRound' = RingRound)
  BY <1>1, RingOnCores, Updated
<1>6. RingWaits' = [RingWaits EXCEPT ![c] = RingWaits'[c]] /\ (RingWaits'[c] = RingWaits[c] => RingWaits' = RingWaits)
  BY <1>1, RingOnCores, Updated
<1>7. RingAcc' = [RingAcc EXCEPT ![c] = RingAcc'[c]] /\ (RingAcc'[c] = RingAcc[c] => RingAcc' = RingAcc)
  BY <1>1, RingOnCores, Updated
<1>8. RingFwd' = [RingFwd EXCEPT ![c] = RingFwd'[c]] /\ (RingFwd'[c] = RingFwd[c] => RingFwd' = RingFwd)
  BY <1>1, RingOnCores, Updated
<1>9. RingBytes' = [RingBytes EXCEPT ![c] = RingBytes'[c]] /\ (RingBytes'[c] = RingBytes[c] => RingBytes' = RingBytes)
  BY <1>1, RingOnCores, Updated
<1>10. RingOut' = [RingOut EXCEPT ![c] = RingOut'[c]] /\ (RingOut'[c] = RingOut[c] => RingOut' = RingOut)
  BY <1>1, RingOnCores, Updated
<1> QED
  BY <1>2, <1>3, <1>4, <1>5, <1>6, <1>7, <1>8, <1>9, <1>10

LEMMA SameQueues ==
    ASSUME messages' = messages
    PROVE  RingChan' = RingChan
<1>1. \A d \in Core : RingChan'[d] = RingChan[d]
  BY Seen
<1> QED
  BY <1>1, RingOnCores DEF OnCores

LEMMA KernelIs ==
    ASSUME NEW r \in 1 .. Ops
    PROVE  /\ Kernel[r].producers[G] = Core /\ Kernel[r].consumers[G] = Core
           /\ Kernel' = Kernel
BY DEF Kernel, Core

LEMMA ProduceStep ==
    ASSUME RunsTheRing, TypeOK, NEW c \in Core, ~AtEnd(c), OffsetOf(pc[c]) = 0,
           pc' = [pc EXCEPT ![c] = @ + 1], got' = got, messages' = messages
    PROVE  Ring!Produce(c)
<1>1. OpOf(pc[c]) \in 1 .. Ops /\ pc[c] \in Nat \ {0} /\ pc'[c] = pc[c] + 1
      /\ \A d \in Core \ {c} : pc'[d] = pc[d]
  BY Standing, RingRuns DEF TypeOK
<1>2. LET v == View(c, pc[c], got[c])
          w == View(c, pc'[c], got'[c])
      IN  /\ v.at = "produce"
          /\ w.at = "reduce" /\ w.gid = G
          /\ w.op = v.op /\ w.round = v.round /\ w.waits = v.waits /\ w.acc = v.acc
          /\ w.fwd = v.fwd /\ w.bytes = v.bytes /\ w.out = v.out
  BY <1>1, ViewProduces
<1>3. /\ RingAt[c] = "produce" /\ RingAt'[c] = "reduce" /\ RingGid'[c] = G /\ RingOp[c] = OpOf(pc[c])
      /\ RingOp'[c] = RingOp[c] /\ RingRound'[c] = RingRound[c] /\ RingWaits'[c] = RingWaits[c]
      /\ RingAcc'[c] = RingAcc[c] /\ RingFwd'[c] = RingFwd[c] /\ RingBytes'[c] = RingBytes[c]
      /\ RingOut'[c] = RingOut[c]
  <2> DEFINE v == View(c, pc[c], got[c])
             w == View(c, pc'[c], got'[c])
  <2>1. Shows(c, v) /\ WillShow(c, w) /\ v.op = OpOf(pc[c])
    BY Seen DEF View
  <2> HIDE DEF v, w
  <2> QED
    BY <1>2, <2>1 DEF Shows, WillShow, v, w
<1>4. Ring!Memberships(c, RingOp[c]) = {G}
  BY <1>1, <1>3, KernelIs DEF Ring!Memberships
<1>5. Ring!Live(c)
  BY <1>1, <1>3, RingRuns DEF Ring!Live
<1> QED
  BY <1>1, <1>3, <1>4, <1>5, OneMoves, SameQueues, KernelIs DEF Ring!Produce, Ring!run, Ring!ring

LEMMA WaitsIs ==
    ASSUME NEW d \in Core
    PROVE  /\ RingWaits[d] = Expects(pc[d]) /\ RingWaits'[d] = Expects(pc'[d])
           /\ Expects(pc[d]) \in BOOLEAN /\ Expects(pc'[d]) \in BOOLEAN
BY DEF RingWaits, Waits, Expects, OffsetOf, OpLength

LEMMA EnterStep ==
    ASSUME RunsTheRing, TypeOK, NEW c \in Core, ~AtEnd(c), OffsetOf(pc[c]) = 1,
           pc' = [pc EXCEPT ![c] = @ + 1], got' = got, messages' = messages
    PROVE  Ring!Enter(c)
<1>1. OpOf(pc[c]) \in 1 .. Ops /\ pc[c] \in Nat \ {0} /\ pc'[c] = pc[c] + 1
      /\ \A d \in Core \ {c} : pc'[d] = pc[d]
  BY Standing, RingRuns DEF TypeOK
<1>2. LET v == View(c, pc[c], got[c])
          w == View(c, pc'[c], got'[c])
      IN  /\ v.at = "reduce" /\ v.gid = G
          /\ w.at = "ring" /\ w.round = 1 /\ w.bytes = 0
          /\ w.acc = Folds(c, got[c], OpOf(pc[c]), 0) /\ w.fwd = Partial(c, OpOf(pc[c]))
          /\ w.op = v.op /\ w.gid = v.gid /\ w.out = v.out
  <2> DEFINE i == pc[c]
             g == got[c]
  <2>1. i \in Nat \ {0} /\ OffsetOf(i) = 1 /\ pc'[c] = i + 1 /\ got'[c] = g
    BY <1>1
  <2> HIDE DEF i, g
  <2>2. View(c, pc'[c], got'[c]) = View(c, i + 1, g)
    BY <2>1
  <2>3. LET v == View(c, i, g)
            w == View(c, i + 1, g)
        IN  /\ v.at = "reduce" /\ v.gid = G
            /\ w.at = "ring" /\ w.round = 1 /\ w.bytes = 0
            /\ v.op = OpOf(i) /\ w.acc = Folds(c, g, OpOf(i), 0) /\ w.fwd = Partial(c, OpOf(i))
            /\ w.op = v.op /\ w.gid = v.gid /\ w.out = v.out
    BY <2>1, ViewEnters
  <2> QED
    BY <2>2, <2>3 DEF i, g
<1>3. /\ RingAt[c] = "reduce" /\ RingGid[c] = G /\ RingOp[c] = OpOf(pc[c])
      /\ RingAt'[c] = "ring" /\ RingRound'[c] = 1 /\ RingBytes'[c] = 0
      /\ RingAcc'[c] = <<Partial(c, RingOp[c])>> /\ RingFwd'[c] = Partial(c, RingOp[c])
      /\ RingOp'[c] = RingOp[c] /\ RingGid'[c] = RingGid[c] /\ RingOut'[c] = RingOut[c]
  <2> DEFINE v == View(c, pc[c], got[c])
             w == View(c, pc'[c], got'[c])
  <2>1. v.op = OpOf(pc[c])
    BY DEF View
  <2>2. Shows(c, v) /\ WillShow(c, w)
    BY Seen
  <2> HIDE DEF v, w
  <2>3. Folds(c, got[c], OpOf(pc[c]), 0) = <<Partial(c, OpOf(pc[c]))>>
    BY DEF Folds
  <2> QED
    BY <1>2, <2>1, <2>2, <2>3 DEF Shows, WillShow, v, w
<1>4. Ring!Seed(c, RingOp[c], Ring!IsProducer(c, c)) = Partial(c, RingOp[c])
  <2>1. Ring!IsProducer(c, c) = TRUE
    BY <1>1, <1>3, KernelIs DEF Ring!IsProducer
  <2> QED
    BY <2>1, Neighbours DEF Ring!Seed, Partial
<1>5. Ring!Live(c)
  BY <1>1, <1>3, RingRuns DEF Ring!Live
<1>6. RingWaits'[c] = FALSE
  BY <1>1, Expecting, WaitsIs
<1>7. /\ RingAt' = [RingAt EXCEPT ![c] = "ring"] /\ RingRound' = [RingRound EXCEPT ![c] = 1]
      /\ RingBytes' = [RingBytes EXCEPT ![c] = 0] /\ RingWaits' = [RingWaits EXCEPT ![c] = FALSE]
      /\ RingAcc' = [RingAcc EXCEPT ![c] = <<Partial(c, RingOp[c])>>]
      /\ RingFwd' = [RingFwd EXCEPT ![c] = Partial(c, RingOp[c])]
  BY <1>1, <1>3, <1>6, OneMoves
<1>8. RingOp' = RingOp /\ RingGid' = RingGid /\ RingOut' = RingOut
  BY <1>1, <1>3, OneMoves
<1>9. RingChan' = RingChan
  BY SameQueues
<1> QED
  BY <1>3, <1>4, <1>5, <1>7, <1>8, <1>9, KernelIs DEF Ring!Enter, Ring!run, Ring!ring

LEMMA LeaveStep ==
    ASSUME RunsTheRing, TypeOK, NEW c \in Core, ~AtEnd(c), OffsetOf(pc[c]) = 2 * N,
           pc' = [pc EXCEPT ![c] = @ + 1], got' = got, messages' = messages
    PROVE  Ring!Leave(c)
<1>1. OpOf(pc[c]) \in 1 .. Ops /\ pc[c] \in Nat \ {0} /\ pc'[c] = pc[c] + 1
      /\ \A d \in Core \ {c} : pc'[d] = pc[d]
  BY Standing, RingRuns DEF TypeOK
<1>2. LET v == View(c, pc[c], got[c])
          w == View(c, pc'[c], got'[c])
      IN  /\ v.at = "ring" /\ v.round = N /\ v.gid = G
          /\ w.at = "produce" /\ w.op = v.op + 1
          /\ w.out = Append(v.out, [value |-> v.acc, bytes |-> v.bytes])
          /\ w.gid = v.gid /\ w.round = v.round /\ w.waits = v.waits /\ w.acc = v.acc
          /\ w.fwd = v.fwd /\ w.bytes = v.bytes
  BY <1>1, ViewLeaves
<1>3. /\ RingAt[c] = "ring" /\ RingRound[c] = N /\ RingGid[c] = G /\ RingOp[c] = OpOf(pc[c])
      /\ RingAt'[c] = "produce" /\ RingOp'[c] = RingOp[c] + 1
      /\ RingOut'[c] = Append(RingOut[c], [value |-> RingAcc[c], bytes |-> RingBytes[c]])
      /\ RingGid'[c] = RingGid[c] /\ RingRound'[c] = RingRound[c] /\ RingWaits'[c] = RingWaits[c]
      /\ RingAcc'[c] = RingAcc[c] /\ RingFwd'[c] = RingFwd[c] /\ RingBytes'[c] = RingBytes[c]
  <2> DEFINE v == View(c, pc[c], got[c])
             w == View(c, pc'[c], got'[c])
  <2>1. v.op = OpOf(pc[c])
    BY DEF View
  <2>2. Shows(c, v) /\ WillShow(c, w)
    BY Seen
  <2> HIDE DEF v, w
  <2> QED
    BY <1>2, <2>1, <2>2 DEF Shows, WillShow, v, w
<1>4. Ring!IsConsumer(c)
  BY <1>1, <1>3, KernelIs DEF Ring!IsConsumer
<1>5. Ring!Live(c)
  BY <1>1, <1>3, RingRuns DEF Ring!Live
<1> QED
  BY <1>1, <1>3, <1>4, <1>5, OneMoves, SameQueues, KernelIs DEF Ring!Leave, Ring!run, Ring!ring

(* What a core sends is what it received last, or its own partial. *)
LEMMA Forwards ==
    ASSUME RunsTheRing, IndInv, TilesAreNumbered, NEW c \in Core, ~AtEnd(c), At(c, "send"),
           NEW k \in 1 .. N - 1, OffsetOf(pc[c]) = 2 * k
    PROVE  Payload([src |-> c, step |-> pc[c]]) = Last(c, got[c], OpOf(pc[c]), k - 1)
<1> DEFINE r == OpOf(pc[c])
<1>0. TypeOK
  BY DEF IndInv
<1>1. [src |-> c, step |-> pc[c]] = Wire(Right(c), r, k)
  <2>1. PICK j \in 1 .. N - 1 : OffsetOf(pc[c]) = 2 * j
                                /\ [src |-> c, step |-> pc[c]] = Wire(Right(c), r, j)
    BY <1>0, SendIs
  <2>2. j = k
    BY <2>1, NAssumption
  <2> QED
    BY <2>1, <2>2
<1>2. r \in 1 .. Ops /\ r \in Nat \ {0}
  BY <1>0, Standing, RingRuns
<1>3. TakenBy(c) = Total(r, k - 1)
  BY RoundFacts DEF TakenBy
<1>4. Right(c) \in Core /\ Left(Right(c)) = c /\ c % N = c
  BY Neighbours
<1> HIDE DEF r
<1>5. Payload(Wire(Right(c), r, k)) = Partial(Right(c) - k, r)
  BY <1>2, <1>4, PayloadIs
<1>6. (Right(c) - k) % N = (c - (k - 1)) % N
  <2>1. (Left(Right(c)) - (k - 1)) % N = (Right(c) - k) % N
    BY <1>4, Neighbours
  <2> QED
    BY <1>4, <2>1
<1>7. Partial(Right(c) - k, r) = Partial(c - (k - 1), r)
  BY <1>6 DEF Partial
<1>8. CASE k = 1
  <2>1. c - (k - 1) = c
    BY <1>8 DEF Core
  <2> QED
    BY <1>1, <1>5, <1>7, <1>8, <2>1 DEF Last, r
<1>9. CASE k # 1
  <2>1. k - 1 \in 1 .. N - 1 /\ k - 1 # 0 /\ k - 1 \in 0 .. N - 1
    BY <1>9, NAssumption
  <2>2. Total(r, k - 1) \in Nat
    BY <1>2, <2>1, TotalFacts
  <2>3. got[c][Total(r, k - 1)] = Wire(c, r, k - 1)
    BY <1>2, <1>3, <2>1, <2>2 DEF TilesAreNumbered, GotIsNumbered
  <2>4. Payload(Wire(c, r, k - 1)) = Partial(c - (k - 1), r)
    BY <1>2, <2>1, PayloadIs
  <2> QED
    BY <1>1, <1>5, <1>7, <2>1, <2>3, <2>4 DEF Last, r
<1> QED
  BY <1>8, <1>9

LEMMA SendStep ==
    ASSUME RunsTheRing, IndInv, TilesAreNumbered, NEW c \in Core, Net!Send(c)
    PROVE  Ring!SendOn(c)
<1> DEFINE tile == [src |-> c, step |-> pc[c]]
<1>1. /\ TypeOK /\ ~AtEnd(c) /\ At(c, "send") /\ pc' = [pc EXCEPT ![c] = @ + 1] /\ got' = got
      /\ messages' = [messages EXCEPT ![<<c, Peer(c)>>] = Append(@, tile)]
  BY DEF IndInv, Net!Send, Net!At, Net!AtEnd, Net!Peer, At, AtEnd, Peer
<1>2. /\ OpOf(pc[c]) \in 1 .. Ops /\ pc[c] \in Nat \ {0} /\ pc'[c] = pc[c] + 1
      /\ \A d \in Core \ {c} : pc'[d] = pc[d]
  BY <1>1, Standing, RingRuns DEF TypeOK
<1>3. PICK k \in 1 .. N - 1 : OffsetOf(pc[c]) = 2 * k
  BY <1>1, Doing
<1>4. Peer(c) = Right(c) /\ Right(c) \in Core /\ Left(Right(c)) = c
  BY <1>1, Doing, Neighbours
<1>5. Payload(tile) = Last(c, got[c], OpOf(pc[c]), k - 1)
  BY <1>1, <1>3, Forwards
<1>6. tile \in Tile /\ messages \in [Channel -> Seq(Tile)]
  BY <1>1, <1>2 DEF Tile, TypeOK
<1> HIDE DEF tile
<1>7. LET v == View(c, pc[c], got[c])
          w == View(c, pc'[c], got'[c])
      IN  /\ v.at = "ring" /\ v.round = k /\ v.fwd = Last(c, got[c], OpOf(pc[c]), k - 1)
          /\ w.bytes = v.bytes + 1
          /\ w.op = v.op /\ w.at = v.at /\ w.gid = v.gid /\ w.round = v.round
          /\ w.acc = v.acc /\ w.fwd = v.fwd /\ w.out = v.out
  <2> DEFINE i == pc[c]
             g == got[c]
  <2>1. i \in Nat \ {0} /\ OffsetOf(i) = 2 * k /\ pc'[c] = i + 1 /\ got'[c] = g
    BY <1>1, <1>2, <1>3
  <2> HIDE DEF i, g
  <2>2. View(c, pc'[c], got'[c]) = View(c, i + 1, g)
    BY <2>1
  <2>3. LET v == View(c, i, g)
            w == View(c, i + 1, g)
        IN  /\ v.at = "ring" /\ v.round = k /\ v.fwd = Last(c, g, OpOf(i), k - 1)
            /\ w.bytes = v.bytes + 1
            /\ w.op = v.op /\ w.at = v.at /\ w.gid = v.gid /\ w.round = v.round
            /\ w.acc = v.acc /\ w.fwd = v.fwd /\ w.out = v.out
    BY <2>1, ViewSends
  <2> QED
    BY <2>2, <2>3 DEF i, g
<1>8. /\ RingAt[c] = "ring" /\ RingRound[c] = k /\ RingFwd[c] = Payload(tile)
      /\ RingOp[c] = OpOf(pc[c]) /\ RingBytes'[c] = RingBytes[c] + 1
      /\ RingOp'[c] = RingOp[c] /\ RingAt'[c] = RingAt[c] /\ RingGid'[c] = RingGid[c]
      /\ RingRound'[c] = RingRound[c] /\ RingAcc'[c] = RingAcc[c] /\ RingFwd'[c] = RingFwd[c]
      /\ RingOut'[c] = RingOut[c]
  <2> DEFINE v == View(c, pc[c], got[c])
             w == View(c, pc'[c], got'[c])
  <2>1. v.op = OpOf(pc[c])
    BY DEF View
  <2>2. Shows(c, v) /\ WillShow(c, w)
    BY Seen
  <2> HIDE DEF v, w
  <2> QED
    BY <1>5, <1>7, <2>1, <2>2 DEF Shows, WillShow, v, w
<1>9. RingChan' = [RingChan EXCEPT ![Right(c)] = Append(@, RingFwd[c])]
  <2>1. ASSUME NEW d \in Core, d # Right(c) PROVE RingChan'[d] = RingChan[d]
    <3>1. <<Left(d), d>> \in Channel /\ <<Left(d), d>> # <<c, Right(c)>>
      BY <2>1, Neighbours DEF Channel
    <3>2. messages'[<<Left(d), d>>] = messages[<<Left(d), d>>]
      BY <1>1, <1>4, <1>6, <3>1
    <3> QED
      BY <3>2, Seen
  <2>2. RingChan'[Right(c)] = Append(RingChan[Right(c)], RingFwd[c])
    <3> DEFINE q == messages[<<c, Right(c)>>]
    <3>1. <<c, Right(c)>> \in Channel
      BY <1>4 DEF Channel
    <3>2. q \in Seq(Tile) /\ messages'[<<c, Right(c)>>] = Append(q, tile)
      BY <1>1, <1>4, <1>6, <3>1
    <3>3. Payloads(Append(q, tile)) = Append(Payloads(q), Payload(tile))
      BY <1>6, <3>2, PayloadsFacts
    <3>4. RingChan[Right(c)] = Payloads(q) /\ RingChan'[Right(c)] = Payloads(messages'[<<c, Right(c)>>])
      BY <1>4, Seen
    <3> QED
      BY <1>8, <3>2, <3>3, <3>4
  <2>3. OnCores(RingChan) /\ OnCores(RingChan')
    BY RingOnCores
  <2>4. RingChan' = [RingChan EXCEPT ![Right(c)] = RingChan'[Right(c)]]
    BY <1>4, <2>1, <2>3, Updated
  <2> QED
    BY <2>2, <2>4
<1>10. Ring!Live(c) /\ Ring!NextCore(c) = Right(c)
  BY <1>2, <1>8, RingRuns DEF Ring!Live, Ring!NextCore, Right
<1>11. k < N
  BY NAssumption
<1>12. \A d \in Core \ {c} : pc'[d] = pc[d] /\ got'[d] = got[d]
  BY <1>1, <1>2
<1>13. RingWaits[c] = FALSE /\ RingWaits'[c] = TRUE
  BY <1>2, <1>3, Expecting, WaitsIs
<1> QED
  BY <1>2, <1>8, <1>9, <1>10, <1>11, <1>12, <1>13, OneMoves, KernelIs DEF Ring!SendOn, Ring!run

LEMMA ReceiveStep ==
    ASSUME RunsTheRing, IndInv, TilesAreNumbered, NEW c \in Core, Net!Recv(c)
    PROVE  Ring!Receive(c)
<1> DEFINE q == messages[<<Left(c), c>>]
           g == got[c]
           i == pc[c]
           tile == Head(q)
<1>1. /\ TypeOK /\ ~AtEnd(c) /\ At(c, "recv") /\ pc' = [pc EXCEPT ![c] = @ + 1]
      /\ got' = [got EXCEPT ![c] = Append(@, tile)]
      /\ messages' = [messages EXCEPT ![<<Left(c), c>>] = Tail(@)]
      /\ q # <<>>
  <2>1. /\ TypeOK /\ ~AtEnd(c) /\ At(c, "recv") /\ pc' = [pc EXCEPT ![c] = @ + 1]
        /\ got' = [got EXCEPT ![c] = Append(@, Head(messages[<<Peer(c), c>>]))]
        /\ messages' = [messages EXCEPT ![<<Peer(c), c>>] = Tail(@)]
        /\ messages[<<Peer(c), c>>] # <<>>
    BY DEF IndInv, Net!Recv, Net!At, Net!AtEnd, Net!Peer, Net!Stuck, At, AtEnd, Peer
  <2>2. Peer(c) = Left(c)
    BY <2>1, Doing
  <2> QED
    BY <2>1, <2>2
<1>2. /\ OpOf(pc[c]) \in 1 .. Ops /\ pc[c] \in Nat \ {0} /\ pc'[c] = pc[c] + 1
      /\ \A d \in Core \ {c} : pc'[d] = pc[d] /\ got'[d] = got[d]
      /\ got'[c] = Append(g, tile)
  BY <1>1, Standing, RingRuns DEF TypeOK
<1>3. q \in Seq(Tile) /\ g \in Seq(Tile) /\ Len(g) = TakenBy(c) /\ <<Left(c), c>> \in Channel
      /\ messages \in [Channel -> Seq(Tile)]
  BY <1>1, LinkType DEF TypeOK
<1>4. tile \in Tile
  BY <1>1, <1>3
<1>5. PICK k \in 1 .. N - 1 : OffsetOf(pc[c]) = 2 * k + 1 /\ Total(OpOf(pc[c]), k) = Len(g) + 1
  BY <1>1, <1>3, RecvIs
<1> HIDE DEF q, g, tile
<1>6. Takes(View(c, pc[c], got[c]), View(c, pc'[c], got'[c]), k, Payload(tile))
  <2>1. i \in Nat \ {0} /\ OffsetOf(i) = 2 * k + 1 /\ Total(OpOf(i), k) = Len(g) + 1
        /\ pc'[c] = i + 1 /\ got'[c] = Append(g, tile)
    BY <1>2, <1>5
  <2> HIDE DEF i
  <2>2. View(c, pc'[c], got'[c]) = View(c, i + 1, Append(g, tile))
    BY <2>1
  <2>3. Takes(View(c, i, g), View(c, i + 1, Append(g, tile)), k, Payload(tile))
    BY <1>3, <1>4, <2>1, ViewReceives
  <2> QED
    BY <2>2, <2>3 DEF i, g
<1>7. /\ RingAt[c] = "ring" /\ RingRound[c] = k /\ RingGid[c] = G /\ RingOp[c] = OpOf(pc[c])
      /\ RingAcc'[c] = Append(RingAcc[c], Payload(tile)) /\ RingFwd'[c] = Payload(tile)
      /\ RingRound'[c] = RingRound[c] + 1
      /\ RingOp'[c] = RingOp[c] /\ RingAt'[c] = RingAt[c] /\ RingGid'[c] = RingGid[c]
      /\ RingBytes'[c] = RingBytes[c] /\ RingOut'[c] = RingOut[c]
  <2> DEFINE v == View(c, pc[c], got[c])
             w == View(c, pc'[c], got'[c])
  <2>1. v.op = OpOf(pc[c])
    BY DEF View
  <2>2. Shows(c, v) /\ WillShow(c, w)
    BY Seen
  <2> HIDE DEF v, w
  <2> QED
    BY <1>6, <2>1, <2>2 DEF Shows, WillShow, Takes, v, w
<1>8. RingWaits[c] = TRUE /\ RingWaits'[c] = FALSE
  BY <1>2, <1>5, Expecting, WaitsIs
<1>9. /\ RingChan[c] # <<>> /\ Head(RingChan[c]) = Payload(tile)
      /\ RingChan' = [RingChan EXCEPT ![c] = Tail(@)]
  <2>1. RingChan[c] = Payloads(q) /\ RingChan'[c] = Payloads(messages'[<<Left(c), c>>])
    BY Seen DEF q
  <2>2. messages'[<<Left(c), c>>] = Tail(q)
    BY <1>1, <1>3 DEF q
  <2>3. /\ Payloads(q) # <<>> /\ Head(Payloads(q)) = Payload(tile)
        /\ Payloads(Tail(q)) = Tail(Payloads(q))
    BY <1>1, <1>3, PayloadsFacts DEF tile
  <2>4. ASSUME NEW d \in Core \ {c} PROVE RingChan'[d] = RingChan[d]
    <3>1. <<Left(d), d>> \in Channel /\ <<Left(d), d>> # <<Left(c), c>>
      BY Neighbours DEF Channel
    <3>2. messages'[<<Left(d), d>>] = messages[<<Left(d), d>>]
      BY <1>1, <1>3, <3>1
    <3> QED
      BY <3>2, Seen
  <2>5. RingChan' = [RingChan EXCEPT ![c] = RingChan'[c]]
    BY <2>4, RingOnCores, Updated
  <2> QED
    BY <2>1, <2>2, <2>3, <2>5
<1>10. Ring!IsProducer(c, Ring!Origin(c, RingRound[c]))
  <2>1. Ring!Origin(c, RingRound[c]) \in Core
    <3>1. (c - k) % N \in 0 .. N - 1
      BY NAssumption DEF Core
    <3> QED
      BY <1>7, <3>1 DEF Ring!Origin, Core
  <2> QED
    BY <1>2, <1>7, <2>1, KernelIs DEF Ring!IsProducer
<1>11. Ring!Live(c)
  BY <1>2, <1>7, RingRuns DEF Ring!Live
<1> QED
  BY <1>2, <1>7, <1>8, <1>9, <1>10, <1>11, OneMoves, KernelIs DEF Ring!Receive, Ring!run

LEMMA RingStutters ==
    ASSUME UNCHANGED <<pc, got, messages>>
    PROVE  UNCHANGED Ring!vars
<1> DEFINE Same(f, h) == OnCores(f) /\ OnCores(h) /\ \A d \in Core : h[d] = f[d]
<1>1. \A f, h : Same(f, h) => h = f
  BY DEF OnCores
<1>2. ASSUME NEW d \in Core
      PROVE  /\ RingOp'[d] = RingOp[d] /\ RingAt'[d] = RingAt[d] /\ RingGid'[d] = RingGid[d]
             /\ RingRound'[d] = RingRound[d] /\ RingWaits'[d] = RingWaits[d] /\ RingAcc'[d] = RingAcc[d]
             /\ RingFwd'[d] = RingFwd[d] /\ RingBytes'[d] = RingBytes[d] /\ RingOut'[d] = RingOut[d]
  <2> DEFINE v == View(d, pc[d], got[d])
  <2>1. View(d, pc'[d], got'[d]) = v
    OBVIOUS
  <2>2. Shows(d, v) /\ WillShow(d, v)
    BY <2>1, Seen
  <2> HIDE DEF v
  <2> QED
    BY <2>2 DEF Shows, WillShow
<1>3. RingChan' = RingChan
  BY SameQueues
<1>4. /\ RingOp' = RingOp /\ RingAt' = RingAt /\ RingGid' = RingGid /\ RingRound' = RingRound
      /\ RingWaits' = RingWaits /\ RingAcc' = RingAcc /\ RingFwd' = RingFwd
      /\ RingBytes' = RingBytes /\ RingOut' = RingOut
  BY <1>1, <1>2, RingOnCores
<1>5. Kernel' = Kernel
  BY DEF Kernel, Core
<1> QED
  BY <1>3, <1>4, <1>5 DEF Ring!vars

LEMMA RingMoves ==
    ASSUME RunsTheRing, IndInv, TilesAreNumbered, [Next]_vars
    PROVE  [Ring!Next]_(Ring!vars)
<1>1. CASE UNCHANGED <<pc, got, messages>>
  BY <1>1, RingStutters
<1>2. ASSUME NEW c \in Core, Net!Work(c) PROVE Ring!Step(c)
  <2>1. /\ TypeOK /\ ~AtEnd(c) /\ At(c, "work") /\ pc' = [pc EXCEPT ![c] = @ + 1]
        /\ got' = got /\ messages' = messages
    BY <1>2 DEF IndInv, Net!Work, Net!At, Net!AtEnd, At, AtEnd
  <2>2. OffsetOf(pc[c]) \in {0, 1, 2 * N}
    BY <2>1, Doing
  <2> QED
    BY <2>1, <2>2, ProduceStep, EnterStep, LeaveStep DEF Ring!Step
<1>3. ASSUME NEW c \in Core, Net!Send(c) PROVE Ring!Step(c)
  BY <1>3, SendStep DEF Ring!Step
<1>4. ASSUME NEW c \in Core, Net!Recv(c) PROVE Ring!Step(c)
  BY <1>4, ReceiveStep DEF Ring!Step
<1>5. Ring!Core = Core
  BY DEF Ring!Core, Core
<1> QED
  BY <1>1, <1>2, <1>3, <1>4, <1>5, StepIs DEF Ring!Next

LEMMA RingStarts == Init => Ring!Init
<1> SUFFICES ASSUME Init PROVE Ring!Init
  OBVIOUS
<1>1. Ring!Core = Core /\ ~ (OffsetOf(1) >= 2) /\ 0 \notin 2 .. 2 * N - 1
  BY FirstPosition DEF Ring!Core, Core
<1>2. ASSUME NEW d \in Core
      PROVE  /\ RingOp[d] = 1 /\ RingAt[d] = "produce" /\ RingGid[d] = None /\ RingRound[d] = 1
             /\ RingAcc[d] = <<>> /\ RingFwd[d] = None /\ RingBytes[d] = 0 /\ RingOut[d] = <<>>
             /\ RingWaits[d] = FALSE /\ RingChan[d] = <<>>
  <2>1. pc[d] = 1
    BY DEF Init
  <2>2. Reduce(1) = 0 /\ ~Expects(1)
    BY <1>1, FirstPosition DEF Reduce, Expects
  <2>3. LET v == View(d, 1, got[d]) IN
        /\ v.op = 1 /\ v.at = "produce" /\ v.gid = None /\ v.round = 1
        /\ v.acc = <<>> /\ v.fwd = None /\ v.bytes = 0
    BY <2>2, FirstPosition DEF View
  <2>4. View(d, 1, got[d]).out = <<>>
    BY FirstPosition DEF View
  <2>5. RingWaits[d] = FALSE
    BY <2>1, <2>2, WaitsIs
  <2>6. RingChan[d] = <<>>
    <3>1. <<Left(d), d>> \in Channel
      BY Neighbours DEF Channel
    <3>2. messages[<<Left(d), d>>] = <<>>
      BY <3>1 DEF Init, NoTiles
    <3>3. Payloads(<<>>) = <<>>
      BY DEF Payloads
    <3> QED
      BY <3>2, <3>3, Seen
  <2>7. Shows(d, View(d, 1, got[d]))
    BY <2>1, Seen
  <2> QED
    BY <2>3, <2>4, <2>5, <2>6, <2>7 DEF Shows
<1>3. /\ RingOp = [d \in Core |-> 1] /\ RingAt = [d \in Core |-> "produce"]
      /\ RingGid = [d \in Core |-> None] /\ RingRound = [d \in Core |-> 1]
      /\ RingWaits = [d \in Core |-> FALSE] /\ RingAcc = [d \in Core |-> <<>>]
      /\ RingFwd = [d \in Core |-> None] /\ RingBytes = [d \in Core |-> 0]
      /\ RingChan = [d \in Core |-> <<>>] /\ RingOut = [d \in Core |-> <<>>]
  BY <1>2, RingOnCores DEF OnCores
<1> QED
  BY <1>1, <1>3 DEF Ring!Init

(* Every behaviour of the scheduler that runs the kernel, of any number of *)
(* reduces on a grid of any size, is one of the free ring: the scheduler's *)
(* order of the cores (grid.py, execute_with_communication) is covered by  *)
(* whatever is shown of RingReduce, and the tiles it delivers are those.   *)
THEOREM RingIsImplemented ==
    ASSUME RunsTheRing
    PROVE  Spec => SchedulerImplementsRing
<1>1. IndInv /\ TilesAreNumbered /\ [Next]_vars => [Ring!Next]_(Ring!vars)
  BY RingMoves
<1> QED
  BY <1>1, RingStarts, Inductive, Numbered, PTL DEF Spec, SchedulerImplementsRing

----------------------------------------------------------------------------
(***************************************************************************)
(* The call returns with results or goes on.                               *)
(***************************************************************************)
(* A core that returned has taken and sent every tile of its program.      *)
LEMMA EndIs ==
    ASSUME RunsTheRing, TypeOK, NEW c \in Core, AtEnd(c)
    PROVE  TakenBy(c) = Total(Ops + 1, 0) /\ SentBy(c) = Total(Ops + 1, 0)
<1>1. OpOf(pc[c]) = Ops + 1 /\ OffsetOf(pc[c]) = 0
  BY Standing
<1>2. Rounds(0) = 0 /\ Sends(0) = 0
  BY DEF Rounds, Sends
<1> QED
  BY <1>1, <1>2 DEF TakenBy, SentBy

(* One that waits has taken fewer, and has sent one more than it took. *)
LEMMA WaitingIs ==
    ASSUME RunsTheRing, TypeOK, NEW c \in Core, At(c, "recv")
    PROVE  /\ TakenBy(c) < Total(Ops + 1, 0) /\ SentBy(c) = TakenBy(c) + 1
           /\ Peer(c) = Left(c)
<1>0. ~AtEnd(c)
  BY DEF At
<1>1. PICK r \in 1 .. Ops, k \in 1 .. N - 1 :
          r = OpOf(pc[c]) /\ OffsetOf(pc[c]) = 2 * k + 1 /\ Total(r, k) = TakenBy(c) + 1
  BY <1>0, RecvIs
<1>2. SentBy(c) = Total(r, k)
  BY <1>1, RoundFacts DEF SentBy
<1>3. r \in Nat \ {0} /\ Ops + 1 \in Nat \ {0} /\ r < Ops + 1
  BY RingRuns
<1>4. Total(r, k) <= Total(Ops + 1, 0)
  BY <1>3, TotalFacts
<1>5. TakenBy(c) \in Nat /\ Total(Ops + 1, 0) \in Nat
  <2>1. 0 \in 0 .. N - 1
    BY NAssumption
  <2> QED
    BY <1>3, <2>1, CountType, TotalFacts
<1>6. Peer(c) = Left(c)
  BY <1>0, Doing DEF Peer
<1> QED
  BY <1>1, <1>2, <1>4, <1>5, <1>6

LEMMA NoDeadlock ==
    ASSUME RunsTheRing, IndInv, TilesAreNumbered, DeadlockIsReal
    PROVE  phase # "deadlock"
<1> SUFFICES ASSUME phase = "deadlock" PROVE FALSE
  OBVIOUS
<1>0. TypeOK
  BY DEF IndInv
<1>1. PICK e \in stacks : TRUE
  BY DEF DeadlockIsReal
<1>2. stacks \subseteq Core
  BY <1>0 DEF TypeOK
<1>3. \A c \in Core : AtEnd(c) \/ (At(c, "recv") /\ messages[<<Peer(c), c>>] = <<>>)
  BY DEF DeadlockIsReal
<1>4. e \in Core /\ At(e, "recv")
  BY <1>1, <1>2 DEF DeadlockIsReal
<1> DEFINE taken == {TakenBy(c) : c \in Core}
<1>5. \A c \in Core : TakenBy(c) \in Nat /\ SentBy(c) \in Nat
  BY <1>0, CountType
<1>6. PICK n \in taken : \A m \in taken : n <= m
  <2>1. taken \subseteq Nat /\ taken # {}
    BY <1>4, <1>5
  <2> HIDE DEF taken
  <2> QED
    BY <2>1, LeastOf
<1>7. PICK c \in Core : TakenBy(c) = n
  OBVIOUS
<1>8. \A d \in Core : TakenBy(c) <= TakenBy(d)
  BY <1>6, <1>7
<1> HIDE DEF taken
<1>9. ~AtEnd(c)
  <2>1. TakenBy(e) < Total(Ops + 1, 0) /\ TakenBy(c) <= TakenBy(e)
    BY <1>0, <1>4, <1>8, WaitingIs
  <2>2. AtEnd(c) => TakenBy(c) = Total(Ops + 1, 0)
    BY <1>0, EndIs
  <2>3. TakenBy(c) \in Nat /\ TakenBy(e) \in Nat
    BY <1>4, <1>5
  <2> QED
    BY <2>1, <2>2, <2>3
<1>10. At(c, "recv") /\ messages[<<Left(c), c>>] = <<>> /\ TakenBy(c) < Total(Ops + 1, 0)
  BY <1>0, <1>3, <1>9, WaitingIs
<1>11. SentBy(Left(c)) = TakenBy(c) /\ Left(c) \in Core
  <2>1. Len(messages[<<Left(c), c>>]) = SentBy(Left(c)) - TakenBy(c) /\ Left(c) \in Core
    BY LinkType
  <2>2. Len(messages[<<Left(c), c>>]) = 0
    BY <1>10
  <2> QED
    BY <1>5, <2>1, <2>2
<1>12. CASE AtEnd(Left(c))
  <2>1. SentBy(Left(c)) = Total(Ops + 1, 0)
    BY <1>0, <1>11, <1>12, EndIs
  <2> QED
    BY <1>5, <1>10, <1>11, <2>1
<1>13. CASE At(Left(c), "recv")
  <2>1. SentBy(Left(c)) = TakenBy(Left(c)) + 1
    BY <1>0, <1>11, <1>13, WaitingIs
  <2> QED
    BY <1>5, <1>8, <1>11, <2>1
<1> QED
  BY <1>3, <1>11, <1>12, <1>13

LEMMA NoFailure ==
    ASSUME RunsTheRing, IndInv, phase # "failed", [Next]_vars
    PROVE  phase' # "failed"
<1>0. TypeOK /\ SchedulerBookkeeping /\ ThreadIsFree
  BY DEF IndInv
<1>1. ASSUME NEW c \in Core, Raise(c) PROVE FALSE
  <2>1. running = c /\ c # NoCore /\ Active
    BY <1>0, <1>1 DEF Raise, ThreadIsFree, NoCore, Core
  <2>2. bound[c] = call /\ call # 0
    BY <1>0, <2>1 DEF SchedulerBookkeeping, ThreadIsFree
  <2>3. At(c, "fail")
    BY <1>1, <2>2 DEF Raise, Raises
  <2> QED
    BY <1>0, <2>3, Doing DEF At
<1>2. CASE UNCHANGED vars
  BY <1>2 DEF vars
<1>3. CASE CallRefused \/ Call \/ Attach \/ EnterLoop \/ Return \/ RaiseDeadlock
  BY <1>3 DEF CallRefused, Call, Attach, EnterLoop, Return, RaiseDeadlock
<1>4. ASSUME NEW c \in Core, RunSend(c) \/ RunWork(c) \/ Park(c) \/ Complete(c) \/ Deliver(c)
      PROVE  phase' # "failed"
  BY <1>4 DEF RunSend, RunWork, Park, Complete, Deliver
<1> QED
  BY <1>1, <1>2, <1>3, <1>4 DEF Next, Drive, Advance

CallSucceeds == phase \notin {"deadlock", "failed"}

(* However many cores run however many all-reduces, the scheduler's order  *)
(* of the cores (grid.py, _try_deliver) leads neither into "Deadlock       *)
(* detected" nor to an exception: a call that ends has results.            *)
THEOREM CallNeverFails ==
    ASSUME RunsTheRing
    PROVE  Spec => []CallSucceeds
<1> DEFINE NotFailed == phase # "failed"
<1>1. Init => NotFailed
  BY DEF Init
<1>2. IndInv /\ NotFailed /\ [Next]_vars => NotFailed'
  BY NoFailure
<1>3. IndInv /\ TilesAreNumbered /\ DeadlockIsReal /\ NotFailed => CallSucceeds
  BY NoDeadlock DEF CallSucceeds
<1> HIDE DEF NotFailed
<1> QED
  BY <1>1, <1>2, <1>3, Inductive, Numbered, NoFalseDeadlock, PTL DEF Spec
=============================================================================
