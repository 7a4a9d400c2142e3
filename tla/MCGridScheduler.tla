-------------------------- MODULE MCGridScheduler --------------------------
(* Small instances of GridScheduler: three cores that send and receive up  *)
(* to twice each, and two cores that do anything up to three times beside  *)
(* a third that returns at once.                                           *)
EXTENDS GridScheduler

ProgramsOf(cores, c, kinds, maxSteps) ==
    LET comm == [op : kinds \cap {"send", "recv"}, peer : cores \ {c}]
        local == [op : kinds \cap {"work", "fail"}, peer : {c}]
    IN  UNION {[1 .. n -> comm \cup local] : n \in 0 .. maxSteps}

AllPrograms(cores, kinds, maxSteps) ==
    LET of == [c \in cores |-> ProgramsOf(cores, c, kinds, maxSteps)]
    IN  {p \in [cores -> UNION {of[c] : c \in cores}] : \A c \in cores : p[c] \in of[c]}

Pairs == AllPrograms({0, 1}, {"send", "recv", "work", "fail"}, 3)

Beside(p) == [c \in Core |-> IF c \in DOMAIN p THEN p[c] ELSE <<>>]

Checked == {Beside(p) : p \in AllPrograms(Core, {"send", "recv"}, 2) \cup Pairs}

(* By name, so that TLC computes the set once. *)
MCPrograms == Checked
============================================================================
