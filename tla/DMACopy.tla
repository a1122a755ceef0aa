------------------------------ MODULE DMACopy ------------------------------
(***************************************************************************)
(* What the DMA control registers promise to firmware that leaves the read *)
(* descriptor alone from the doorbell to the report of its end: the engine *)
(* is handed each descriptor that was rung, once and as it was set, and    *)
(* its end is reported at most once, never early, with its own tag.  There *)
(* is no bus here, no flag and no table.                                   *)
(*                                                                         *)
(* It is not promised that an end is reported: the registers miss one that *)
(* comes in the very cycle of a status read, and a master that is late     *)
(* loses the word that tells it.  Such a copy stays "missed".              *)
(***************************************************************************)
EXTENDS Naturals

CONSTANTS Fields, Size, None

VARIABLES stage,  \* "idle", "rung", "running", "ended", "sampled" or "missed"
          desc,   \* the descriptor registers
          took,   \* the descriptor handed to the engine in this step, or None
          told    \* the tag firmware is told in this step, or None

vars == <<stage, desc, took, told>>

Moves(from, to) == stage = from /\ stage' = to

Quiet == took' = None /\ told' = None

Init ==
    /\ stage = "idle"
    /\ desc = [f \in Fields |-> 0]
    /\ took = None /\ told = None

Set(f, w) ==
    /\ Moves("idle", IF f = "tag" THEN "rung" ELSE "idle")
    /\ desc' = [desc EXCEPT ![f] = w]
    /\ Quiet

Take ==
    /\ Moves("rung", "running")
    /\ took' = desc /\ told' = None
    /\ UNCHANGED desc

End ==
    /\ Moves("running", "ended") \/ Moves("running", "missed")
    /\ Quiet /\ UNCHANGED desc

Sample ==
    /\ Moves("ended", "sampled")
    /\ Quiet /\ UNCHANGED desc

Tell ==
    /\ Moves("sampled", "idle")
    /\ told' = desc["tag"] /\ took' = None
    /\ UNCHANGED desc

Lose ==
    /\ Moves("sampled", "missed")
    /\ Quiet /\ UNCHANGED desc

Pause == Quiet /\ UNCHANGED <<stage, desc>>

Next ==
    \/ \E f \in Fields : \E w \in 0 .. Size[f] - 1 : Set(f, w)
    \/ Take \/ End \/ Sample \/ Tell \/ Lose \/ Pause

Spec == Init /\ [][Next]_vars
=============================================================================
