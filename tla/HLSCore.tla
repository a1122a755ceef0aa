------------------------------ MODULE HLSCore ------------------------------
(***************************************************************************)
(* What the control bus sees of an HLS block (fetch.v, load.v, compute.v,  *)
(* store.v): it waits in state1 for ap_start and, except fetch, for an     *)
(* instruction and the tokens the instruction asks for; takes its          *)
(* arguments as it leaves state1; says ap_done and ap_ready together in    *)
(* its last state.  compute clears its result as it begins and, if the     *)
(* instruction is FINISH, sets it one cycle later (state80).               *)
(***************************************************************************)
CONSTANTS Block, None

VARIABLE core   \* state; args, the arguments it took, or None before that

Free == core.state = "state1"
Begins(go, start) == Free /\ start /\ go
Ends(go) == core.state = "running" /\ go

Init == core = [state |-> "state1", args |-> None]

(* Whether the block may go on: fetch never waits in state1, and nothing   *)
(* waits in state80.  Whether what it begins is a FINISH.                  *)
Going(start) == IF core.state = "running" \/ (Free /\ start /\ Block # "fetch")
                THEN BOOLEAN ELSE {TRUE}
Finishing(start) == IF Block = "compute" /\ Free /\ start THEN BOOLEAN ELSE {FALSE}

(* The wires the block drives, start being ap_start. *)
Wires(go, start) ==
    [done  |-> Ends(go), ready |-> Ends(go), idle |-> Free /\ ~start,
     out   |-> IF Block # "compute" THEN None
               ELSE IF Begins(go, start) THEN {}
               ELSE IF core.state = "state80" THEN {0} ELSE None]

Next(go, finish, start, data) ==
    core' = IF Begins(go, start)
            THEN [state |-> IF finish THEN "state80" ELSE "running", args |-> data]
            ELSE IF core.state = "state80" THEN [core EXCEPT !.state = "running"]
            ELSE IF Ends(go) THEN [core EXCEPT !.state = "state1"]
            ELSE core
=============================================================================
