---------------------------- MODULE VTAPipeline ----------------------------
(***************************************************************************)
(* The four HLS blocks at work on a program: fetch reads instructions and  *)
(* puts them in the queues of load, compute and store; these take them out *)
(* one at a time, each when it has been started, together with the tokens  *)
(* it is to wait for, and leave tokens behind.  All queues are bounded.    *)
(*                                                                         *)
(* An instruction is known by its place in the program.  A queue is a FIFO *)
(* of the block design and the register slices at its two ends; a block    *)
(* ends only when the slices at its outputs have handed everything on to   *)
(* the FIFOs.  The control bus is in HLSTop; here `start` is ap_start.     *)
(***************************************************************************)
EXTENDS VTAInstructions

CONSTANTS Programs,    \* the programs there may be in memory
          QueueDepth,  \* places of an instruction queue without the slice in front
          TokenDepth   \* places of a dependency queue without the slice in front

ASSUME VTAPipelineAssumption ==
    /\ Programs \subseteq Seq(Instruction)
    /\ QueueDepth \in Nat \ {0} /\ TokenDepth \in Nat \ {0}

VARIABLES program,   \* the program in memory
          upto,      \* the end of the part fetch was started on last
          fetching,  \* fetch has been started and has not ended
          at,        \* the last instruction that fetch has put in a queue
          queue,     \* queue[u]: the instruction queue of u
          tokens,    \* tokens[c]: how many tokens there are in c
          start,     \* start[u]: ap_start
          last,      \* last[u]: the instruction in the register of u
          stage,     \* stage[u]: "idle" (state1), "working" or "leaving"
          todo       \* todo[u]: the queues u has yet to put a token in

units == <<last, stage, todo>>
vars == <<program, upto, fetching, at, queue, tokens, start, units>>

Slice == 2   \* places of a register slice

Places == 0 .. Len(program)
VTATypeOK ==
    /\ program \in Programs
    /\ upto \in Places /\ at \in Places /\ fetching \in BOOLEAN
    /\ queue \in [Units -> Seq(Places)]
    /\ \A u \in Units : Len(queue[u]) <= QueueDepth + Slice
    /\ tokens \in [Channels -> 0 .. (TokenDepth + 1)]
    /\ start \in [Units -> BOOLEAN]
    /\ last \in [Units -> Places]
    /\ stage \in [Units -> {"idle", "working", "leaving"}]
    /\ todo \in [Units -> SUBSET Channels]

Init ==
    /\ program \in Programs
    /\ upto = 0 /\ at = 0 /\ fetching = FALSE
    /\ queue = [u \in Units |-> <<>>]
    /\ tokens = [c \in Channels |-> 0]
    /\ start = [u \in Units |-> FALSE]
    /\ last = [u \in Units |-> 0]
    /\ stage = [u \in Units |-> "idle"]
    /\ todo = [u \in Units |-> {}]
-----------------------------------------------------------------------------
(* Software sets insns and insn_count and starts fetch on the next n       *)
(* instructions.                                                           *)
StartFetch(n) ==
    /\ ~fetching
    /\ n > 0 /\ upto + n <= Len(program)
    /\ upto' = upto + n
    /\ fetching' = TRUE
    /\ UNCHANGED <<program, at, queue, tokens, start, units>>

(* The slice in front of the queue of instruction i takes one more.        *)
Room(i) == Len(queue[Destination(program[i])]) < QueueDepth + Slice

(* Mutant: an instruction for a full queue is dropped. *)
Fetch_Drops ==
    LET i == at + 1
        u == Destination(program[i])
    IN  /\ fetching /\ at < upto
        /\ queue' = IF Room(i) THEN [queue EXCEPT ![u] = Append(@, i)] ELSE queue
        /\ at' = i
        /\ UNCHANGED <<program, upto, fetching, tokens, start, units>>

(* One instruction goes to its queue; as long as there is no room for it,  *)
(* those behind it wait, whatever queue they are for.  The one before it,  *)
(* which is in its queue, keeps the last stage of the pipeline until its   *)
(* slice would take one more, and all the pipeline waits with it.          *)
Fetch ==
    LET i == at + 1
        u == Destination(program[i])
    IN  /\ fetching /\ at < upto
        /\ \A j \in {at, i} \ {0} : Room(j)
        /\ queue' = [queue EXCEPT ![u] = Append(@, i)]
        /\ at' = i
        /\ UNCHANGED <<program, upto, fetching, tokens, start, units>>

EndFetch ==
    /\ fetching /\ at = upto
    /\ \A u \in Units : Len(queue[u]) <= QueueDepth
    /\ fetching' = FALSE
    /\ UNCHANGED <<program, upto, at, queue, tokens, start, units>>
-----------------------------------------------------------------------------
(* Software starts u, or left auto-restart on.                             *)
Start(u) ==
    /\ ~start[u]
    /\ start' = [start EXCEPT ![u] = TRUE]
    /\ UNCHANGED <<program, upto, fetching, at, queue, tokens, units>>

(* Mutant: a token is taken if there is one, and not waited for. *)
Begin_NoWait(u) ==
    LET i == Head(queue[u])
        pops == Pops(program[i])
    IN  /\ stage[u] = "idle" /\ start[u]
        /\ queue[u] # <<>>
        /\ queue' = [queue EXCEPT ![u] = Tail(@)]
        /\ tokens' = [c \in Channels |-> IF c \in pops /\ tokens[c] > 0 THEN tokens[c] - 1 ELSE tokens[c]]
        /\ last' = [last EXCEPT ![u] = i]
        /\ stage' = [stage EXCEPT ![u] = "working"]
        /\ todo' = [todo EXCEPT ![u] = Pushes(program[i])]
        /\ UNCHANGED <<program, upto, fetching, at, start>>

(* state1: the instruction and all its tokens are taken at one edge.       *)
Begin(u) ==
    LET i == Head(queue[u])
        pops == Pops(program[i])
    IN  /\ stage[u] = "idle" /\ start[u]
        /\ queue[u] # <<>>
        /\ \A c \in pops : tokens[c] > 0
        /\ queue' = [queue EXCEPT ![u] = Tail(@)]
        /\ tokens' = [c \in Channels |-> IF c \in pops THEN tokens[c] - 1 ELSE tokens[c]]
        /\ last' = [last EXCEPT ![u] = i]
        /\ stage' = [stage EXCEPT ![u] = "working"]
        /\ todo' = [todo EXCEPT ![u] = Pushes(program[i])]
        /\ UNCHANGED <<program, upto, fetching, at, start>>

(* The unit does its work; store waits for the memory's last answer.       *)
Work(u) ==
    /\ stage[u] = "working"
    /\ stage' = [stage EXCEPT ![u] = "leaving"]
    /\ UNCHANGED <<program, upto, fetching, at, queue, tokens, start, last, todo>>

(* Before a unit leaves the token in c, the slices of c and of those it    *)
(* has left tokens in are to take one more; compute leaves the one for     *)
(* load first (state24, state81).                                          *)
Free(u, c) ==
    /\ c \in todo[u]
    /\ c = "g2s" => "g2l" \notin todo[u]
    /\ \A d \in {c} \cup (Pushes(program[last[u]]) \ todo[u]) : tokens[d] < TokenDepth + Slice

(* Mutant: the token for load is the last thing compute leaves. *)
Push_OnlyOne(u, c) ==
    /\ stage[u] = "leaving" /\ Free(u, c)
    /\ tokens' = [tokens EXCEPT ![c] = @ + 1]
    /\ todo' = [todo EXCEPT ![u] = {}]
    /\ UNCHANGED <<program, upto, fetching, at, queue, start, last, stage>>

(* Mutant: the token leaves before the memory has answered. *)
Push_Early(u, c) ==
    /\ stage[u] # "idle" /\ Free(u, c)
    /\ tokens' = [tokens EXCEPT ![c] = @ + 1]
    /\ todo' = [todo EXCEPT ![u] = @ \ {c}]
    /\ UNCHANGED <<program, upto, fetching, at, queue, start, last, stage>>

(* A token is left when the work is done.                                  *)
Push(u, c) ==
    /\ stage[u] = "leaving" /\ Free(u, c)
    /\ tokens' = [tokens EXCEPT ![c] = @ + 1]
    /\ todo' = [todo EXCEPT ![u] = @ \ {c}]
    /\ UNCHANGED <<program, upto, fetching, at, queue, start, last, stage>>

(* Mutant: the slice is not looked at. *)
End_NoWait(u) ==
    /\ stage[u] = "leaving" /\ todo[u] = {}
    /\ stage' = [stage EXCEPT ![u] = "idle"]
    /\ \E again \in BOOLEAN : start' = [start EXCEPT ![u] = again]
    /\ UNCHANGED <<program, upto, fetching, at, queue, tokens, last, todo>>

(* ap_ready takes ap_start back, unless auto-restart sets it again.        *)
End(u) ==
    /\ stage[u] = "leaving" /\ todo[u] = {}
    /\ \A c \in Channels : Producer[c] = u => tokens[c] <= TokenDepth
    /\ stage' = [stage EXCEPT ![u] = "idle"]
    /\ \E again \in BOOLEAN : start' = [start EXCEPT ![u] = again]
    /\ UNCHANGED <<program, upto, fetching, at, queue, tokens, last, todo>>
-----------------------------------------------------------------------------
Unit(u) == Begin(u) \/ Work(u) \/ (\E c \in Channels : Push(u, c)) \/ End(u)
HostStartsFetch == \E n \in 1 .. Len(program) : StartFetch(n)

Next ==
    \/ HostStartsFetch
    \/ Fetch
    \/ EndFetch
    \/ \E u \in Units : Start(u) \/ Unit(u)

Spec == Init /\ [][Next]_vars

(* Hardware does not stop; software starts what is to run.                 *)
Fairness ==
    /\ WF_vars(HostStartsFetch) /\ WF_vars(Fetch) /\ WF_vars(EndFetch)
    /\ \A u \in Units : WF_vars(Start(u)) /\ WF_vars(Unit(u))
FairSpec == Spec /\ Fairness
=============================================================================
