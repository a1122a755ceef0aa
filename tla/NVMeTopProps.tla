---------------------------- MODULE NVMeTopProps ----------------------------
(***************************************************************************)
(* The properties of the register core.                                    *)
(***************************************************************************)
EXTENDS NVMeTop

(* Every variable keeps its type: ports, masters, registers and a log that *)
(* never outgrows its memory.                                              *)
TypeOK ==
    /\ Host!PortTypeOK
    /\ Ctrl!PortTypeOK
    /\ File!FileTypeOK
    /\ Interrupts!QueueTypeOK

(* A port latches the address one cycle before the address handshake       *)
(* (AXI4LiteCSR.scala:58,63) and uses it cycles later.  While it is about  *)
(* to access the register bus, what it latched is the address its own      *)
(* master handed over in that handshake, whatever offers came in between.  *)
AddressIsMasters == Host!OwnsAddress /\ Ctrl!OwnsAddress

(* The arbiter gives the controller fixed priority, yet the host waits at  *)
(* most one cycle: an access refused at one edge is carried out at the     *)
(* next one, or for a read, withdrawn by the host itself.                  *)
HostWaitsOnce ==
    [][/\ hostAxi.w # None => hostAxi'.w = None
       /\ hostAxi.rready => ~hostAxi'.rready]_vars

(* When only the controller raises host interrupts, every one is a pulse   *)
(* of one cycle with a low cycle after it, so the rising edge the PCIe MSI *)
(* logic looks for is never merged with the one before.                    *)
PulsesApart == [][irqHost # 0 => irqHost' = 0]_vars

(* The core is an atomic register file with a log of host writes.          *)
Stages == [p \in {"host", "controller"} |-> IF p = "host" THEN Host!Stage ELSE Ctrl!Stage]
Received == [p \in {"host", "controller"} |->
                IF p = "host" THEN hostAxi.rdata ELSE controllerAxi.rdata]

Regs == INSTANCE NVMeRegs WITH
          Regs <- StorageRegs,
          Fixed <- [a \in ConstRegs \cup Unmapped |-> IF a \in ConstRegs THEN ConstVal[a] ELSE 0],
          regs <- storage, pulse <- irqHost, log <- queue, op <- Stages, got <- Received

(* Every behaviour of the core, seen by its masters, is one of NVMeRegs:   *)
(* transactions are atomic, each is carried out once and on the register   *)
(* its master named, and each host write is logged once and in order.      *)
ActsAtomically == Regs!Spec
-----------------------------------------------------------------------------
(* Fairness.  The clock never stops.  A master that had its write address  *)
(* accepted sooner or later offers the word; one that is owed an answer    *)
(* sooner or later raises its ready wire.  Nothing is assumed of the       *)
(* arbiter: that each port gets its turn is what is to be shown.           *)
Edges(H, C) == \E h \in H, c \in C, bits \in Interrupts!LogBits : Edge(h, c, bits)

Answering(wires) == {x \in wires : x.w # None \/ x.rready \/ x.bready}

Fairness ==
    /\ WF_vars(Next)
    /\ WF_vars(Edges(Answering(Host!Wires), Ctrl!Wires))
    /\ WF_vars(Edges(Host!Wires, Answering(Ctrl!Wires)))

FairSpec == Spec /\ Fairness

(* A transaction a port has begun ends, whatever the other port does. *)
TransactionsEnd ==
    /\ hostCSRAxi.state # "sIdle" ~> hostCSRAxi.state = "sIdle"
    /\ controllerCSRAxi.state # "sIdle" ~> controllerCSRAxi.state = "sIdle"

(* In sIdle a write goes before a read (AXI4LiteCSR.scala:56,61), so a     *)
(* read can wait for as long as its own master keeps writing; once those   *)
(* writes stop, it is taken.                                               *)
ReadsGoAfterWrites ==
    <>[](hostAxi.aw = None) => (hostAxi.ar # None ~> hostAxi.ar = None)
=============================================================================
