------------------------------ MODULE NVMeRegs ------------------------------
(***************************************************************************)
(* What the register core promises its two masters, with no bus, no        *)
(* handshake and no arbiter: every accepted transaction is carried out     *)
(* once, at one instant, on the register its master named, and no two are  *)
(* carried out at the same instant.  A host write adds its address to the  *)
(* log at that instant, unless the log is full; a read of IRQDAT takes the *)
(* oldest address out.                                                     *)
(***************************************************************************)
EXTENDS Naturals, Sequences

CONSTANTS Regs,     \* registers that keep what is written
          Fixed,    \* words that always read the same, as a function
          IRQSTA, IRQDAT, IRQHOST, Data, None, QueueDepth

Clients == {"host", "controller"}
Addrs == Regs \cup DOMAIN Fixed \cup {IRQSTA, IRQDAT, IRQHOST}
Stages == [stage: {"free", "done"}] \cup [stage: {"read", "write"}, addr: Addrs]
Free == [stage |-> "free"]

VARIABLES regs, pulse, log,
          op,       \* the stage of each client's transaction
          got       \* the word each client was handed at the last step, or None

regvars == <<regs, pulse, log, op, got>>

Init == /\ regs = [r \in Regs |-> 0] /\ pulse = 0 /\ log = <<>>
        /\ op = [p \in Clients |-> Free]
        /\ got = [p \in Clients |-> None]

(* An IRQDAT read with nothing logged returns some address.                *)
Answers(a) ==
    CASE a \in Regs -> {regs[a]}
      [] a = IRQSTA -> {IF log = <<>> THEN 0 ELSE 1}
      [] a = IRQDAT -> IF log = <<>> THEN Addrs ELSE {Head(log)}
      [] a = IRQHOST -> {pulse}
      [] OTHER -> {Fixed[a]}

Accept(p) == op[p] = Free /\ \E k \in {"read", "write"}, a \in Addrs :
                                  op'[p] = [stage |-> k, addr |-> a]
Acknowledge(p) == op[p].stage = "done" /\ op'[p] = Free
Wait(p) == op'[p] = op[p]

(* A step in which nobody but the clients of `busy` has anything done.     *)
Others(busy) == \A p \in Clients \ busy :
                    (Accept(p) \/ Acknowledge(p) \/ Wait(p)) /\ got'[p] = None

Typed == /\ DOMAIN op' = Clients
         /\ DOMAIN got' = Clients

Pass == Typed /\ Others({}) /\ pulse' = 0 /\ UNCHANGED <<regs, log>>

Write(p) ==
    /\ op[p].stage = "write"
    /\ Typed /\ Others({p})
    /\ op'[p] = [stage |-> "done"] /\ got'[p] = None
    /\ LET a == op[p].addr IN
       \E v \in Data :
         /\ regs' = IF a \in Regs THEN [regs EXCEPT ![a] = v] ELSE regs
         /\ pulse' = IF a = IRQHOST THEN v ELSE 0
         /\ log' = IF p = "host" /\ Len(log) < QueueDepth THEN Append(log, a) ELSE log

Read(p) ==
    /\ op[p].stage = "read"
    /\ Typed /\ Others({p})
    /\ op'[p] = Free
    /\ got'[p] \in Answers(op[p].addr)
    /\ log' = IF op[p].addr = IRQDAT /\ log # <<>> THEN Tail(log) ELSE log
    /\ pulse' = 0
    /\ UNCHANGED regs

Next == Pass \/ \E p \in Clients : Write(p) \/ Read(p)

Spec == Init /\ [][Next]_regvars
=============================================================================
