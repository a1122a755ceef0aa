------------------------------ MODULE HLSJobs ------------------------------
(***************************************************************************)
(* What a block of the accelerator and its driver promise to a program     *)
(* that starts a job only when it was told that the block is free: the     *)
(* block does one job per start, with the arguments that were set before,  *)
(* and is not said to be free until the job is over and its result is      *)
(* there.  There is no bus here, no polling and no flag that a read may    *)
(* clear.                                                                  *)
(***************************************************************************)
CONSTANTS Regs, Words, None

VARIABLES client,  \* "free": it knows the block to be free; "calling"; "waiting"
          job,     \* "none", "asked" or "begun"
          args,    \* the argument registers
          taken,   \* the arguments of the last job, None before the first
          finish,  \* was the last instruction a FINISH?
          answer   \* the result that the client may read, None while it waits

vars == <<client, job, args, taken, finish, answer>>

Init ==
    /\ client = "free" /\ job = "none"
    /\ args = [r \in Regs |-> {}]
    /\ taken = None /\ finish = FALSE /\ answer = {}

Set(r, w) ==
    /\ client = "free"
    /\ args' = [args EXCEPT ![r] = w]
    /\ UNCHANGED <<client, job, taken, finish, answer>>

Call ==
    /\ client = "free"
    /\ client' = "calling" /\ answer' = None
    /\ UNCHANGED <<job, args, taken, finish>>

Start ==
    /\ client = "calling" /\ job = "none"
    /\ client' = "waiting" /\ job' = "asked"
    /\ UNCHANGED <<args, taken, finish, answer>>

Begin ==
    /\ job = "asked"
    /\ job' = "begun" /\ taken' = args /\ finish' \in BOOLEAN
    /\ UNCHANGED <<client, args, answer>>

End ==
    /\ job = "begun"
    /\ job' = "none"
    /\ UNCHANGED <<client, args, taken, finish, answer>>

Tell ==
    /\ client = "waiting" /\ job = "none"
    /\ client' = "free" /\ answer' = IF finish THEN {0} ELSE {}
    /\ UNCHANGED <<job, args, taken, finish>>

Next ==
    \/ \E r \in Regs, w \in Words : Set(r, w)
    \/ Call \/ Start \/ Begin \/ End \/ Tell

Spec == Init /\ [][Next]_vars
=============================================================================
