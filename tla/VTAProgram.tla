----------------------------- MODULE VTAProgram -----------------------------
(***************************************************************************)
(* What the accelerator promises to the author of a program: each unit     *)
(* carries out its own instructions in the order of the program, and an    *)
(* instruction that takes a token begins when the work of the instruction  *)
(* that leaves it, the one that has as many before it, has been done.      *)
(* There are no queues here, no starts, and fetch takes no time.           *)
(***************************************************************************)
EXTENDS VTAInstructions

CONSTANT Programs

VARIABLES program,  \* the program in memory
          given,    \* how much of it fetch has been told of
          last,     \* last[u]: the instruction in u, or the last one that was
          stage,    \* stage[u]: "idle", "working" or "leaving"
          todo      \* todo[u]: the queues u has yet to put a token in

vars == <<program, given, last, stage, todo>>

Own(u) == {i \in 1 .. Len(program) : Destination(program[i]) = u}

(* The instructions that have left, and taken, a token of c.               *)
Left(c) ==
    LET u == Producer[c]
    IN  {i \in Pushers(program, c) : i < last[u] \/ (i = last[u] /\ c \notin todo[u])}
Taken(c) == {i \in Poppers(program, c) : i <= last[Consumer[c]]}

Init ==
    /\ program \in Programs
    /\ given = 0
    /\ last = [u \in Units |-> 0]
    /\ stage = [u \in Units |-> "idle"]
    /\ todo = [u \in Units |-> {}]

Give(n) ==
    /\ given' = given + n /\ n > 0
    /\ given' <= Len(program)
    /\ UNCHANGED <<program, last, stage, todo>>

Begin(u, i) ==
    /\ stage[u] = "idle"
    /\ i \in Own(u) /\ i <= given
    /\ last[u] < i /\ \A j \in Own(u) : last[u] < j => i <= j
    /\ \A c \in Pops(program[i]) : Cardinality(Taken(c)) < Cardinality(Left(c))
    /\ last' = [last EXCEPT ![u] = i]
    /\ stage' = [stage EXCEPT ![u] = "working"]
    /\ todo' = [todo EXCEPT ![u] = Pushes(program[i])]
    /\ UNCHANGED <<program, given>>

Work(u) ==
    /\ stage[u] = "working"
    /\ stage' = [stage EXCEPT ![u] = "leaving"]
    /\ UNCHANGED <<program, given, last, todo>>

Push(u, c) ==
    /\ stage[u] = "leaving" /\ c \in todo[u]
    /\ todo' = [todo EXCEPT ![u] = @ \ {c}]
    /\ UNCHANGED <<program, given, last, stage>>

End(u) ==
    /\ stage[u] = "leaving" /\ todo[u] = {}
    /\ stage' = [stage EXCEPT ![u] = "idle"]
    /\ UNCHANGED <<program, given, last, todo>>

Next ==
    \/ \E n \in 1 .. Len(program) : Give(n)
    \/ \E u \in Units :
        \/ \E i \in 1 .. Len(program) : Begin(u, i)
        \/ Work(u)
        \/ \E c \in Channels : Push(u, c)
        \/ End(u)

Spec == Init /\ [][Next]_vars
=============================================================================
