------------------------------ MODULE NVMeTop ------------------------------
(***************************************************************************)
(* The NVMe register core (NVMeCore/NVMeTop.scala): the host's port and    *)
(* the controller's port, the arbiter between them, the register file and  *)
(* the log of host writes that interrupts the controller.  The core has    *)
(* one clock; a step of this specification is one clock edge, at which     *)
(* every component moves at once.                                          *)
(***************************************************************************)
EXTENDS RegBusArbiter, Naturals, Sequences

CONSTANTS StorageRegs, ConstRegs, ConstVal, Unmapped, IRQSTA, IRQDAT, IRQHOST, Data,
          Addr0, None, QueueDepth,
          HostWrites, HostReads,   \* the registers the host writes and reads
          CtrlWrites, CtrlReads,   \* the registers the controller writes and reads
          Patient                  \* do the masters hold rready until served?

VARIABLES hostCSRAxi,        \* the host's port
          controllerCSRAxi,  \* the controller's port
          storage, irqHost,  \* the register file
          queue,             \* the log
          hostAxi,           \* the master of the host's port
          controllerAxi      \* the master of the controller's port

vars == <<hostCSRAxi, controllerCSRAxi, storage, irqHost, queue, hostAxi, controllerAxi>>

File == INSTANCE CSRFile

Addrs == File!Addrs
Words == File!Words

Interrupts == INSTANCE CSRInterrupt
Host == INSTANCE AXI4LitePort
          WITH port <- hostCSRAxi, axi <- hostAxi, WriteAddrs <- HostWrites, ReadAddrs <- HostReads
Ctrl == INSTANCE AXI4LitePort
          WITH port <- controllerCSRAxi, axi <- controllerAxi,
               WriteAddrs <- CtrlWrites, ReadAddrs <- CtrlReads

ASSUME NVMeTopAssumption ==
    /\ File!CSRFileAssumption
    /\ Addr0 \in Addrs
    /\ None \notin Words
    /\ HostWrites \subseteq Addrs /\ HostReads \subseteq Addrs
    /\ CtrlWrites \subseteq Addrs /\ CtrlReads \subseteq Addrs
    /\ Patient \in BOOLEAN
    /\ QueueDepth \in Nat \ {0}
-----------------------------------------------------------------------------
Init == Host!Init /\ Ctrl!Init /\ File!Init /\ Interrupts!Init

(* The clock edge at the end of a cycle in which the host's master drives  *)
(* h, the controller's master drives c and the log shows bits.  Bus A of   *)
(* the arbiter is the controller's; the log watches the host's bus only.   *)
Edge(h, c, bits) ==
    LET a      == Ctrl!Slave!Bus(c)
        b      == Host!Slave!Bus(h)
        readyB == ReadyB(a, b)
        out    == OutBus(a, b, Addr0, 0)
        dataIn == File!DataIn(out.addr, Interrupts!irqReq, bits)
    IN  /\ Ctrl!Edge(c, ReadyA(a, b), dataIn)
        /\ Host!Edge(h, readyB, dataIn)
        /\ File!Next(out)
        /\ Interrupts!Next(b, readyB, File!LogReady(out))

Next == \E h \in Host!Wires, c \in Ctrl!Wires, bits \in Interrupts!LogBits : Edge(h, c, bits)

Spec == Init /\ [][Next]_vars
=============================================================================
