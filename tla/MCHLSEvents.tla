---------------------------- MODULE MCHLSEvents ----------------------------
EXTENDS HLSEvents
CONSTANTS main, irq

MCClients == {main, irq}

Calls(fns) == {[fn |-> f] : f \in fns}
Sets(reg, vals) == {[fn |-> "Set", reg |-> reg, val |-> v] : v \in vals}
Gets(regs) == {[fn |-> "Get", reg |-> r] : r \in regs}
Masks(fn, vals) == {[fn |-> fn, val |-> v] : v \in vals}

(* A main loop that starts compute, and an interrupt handler, which looks  *)
(* at the result too.                                                      *)
Handled == [c \in {main, irq} |->
    IF c = main THEN Calls({"Start", "IsDone", "IsIdle", "IsReady"}) \cup Sets("uops_V", {{}, {0}})
    ELSE Calls({"InterruptGetStatus", "InterruptGlobalEnable", "IsDone"})
         \cup Masks("InterruptEnable", {{0, 2}}) \cup Masks("InterruptDisable", {{0}})
         \cup Masks("InterruptClear", SUBSET {0, 1}) \cup Gets({"done_o_ctrl"})]

(* A main loop that lets load restart by itself, and a reader.             *)
Restarts == [c \in {main, irq} |->
    IF c = main THEN Calls({"Start", "EnableAutoRestart", "DisableAutoRestart"})
    ELSE Calls({"IsDone"})]
=============================================================================
