--------------------------- MODULE NVMeTopProofs ---------------------------
(***************************************************************************)
(* Proofs about the register core.                                         *)
(***************************************************************************)
EXTENDS NVMeTopProps, TLAPS

(* The wires of one cycle, named as in Edge. *)
BusA(c) == Ctrl!Slave!Bus(c)
BusB(h) == Host!Slave!Bus(h)
GrantA(h, c) == ReadyA(BusA(c), BusB(h))
GrantB(h, c) == ReadyB(BusA(c), BusB(h))
Out(h, c) == OutBus(BusA(c), BusB(h), Addr0, 0)
FileData(h, c, bits) == File!DataIn(Out(h, c).addr, Interrupts!irqReq, bits)

(* A clock edge of the core is one of each of its parts.                   *)
LEMMA EdgeParts ==
    ASSUME NEW h, NEW c, NEW bits, Edge(h, c, bits)
    PROVE  /\ Ctrl!Edge(c, GrantA(h, c), FileData(h, c, bits))
           /\ Host!Edge(h, GrantB(h, c), FileData(h, c, bits))
           /\ File!Next(Out(h, c))
           /\ Interrupts!Next(BusB(h), GrantB(h, c), File!LogReady(Out(h, c)))
  BY DEF Edge, BusA, BusB, GrantA, GrantB, Out, FileData

(* The arbiter passes the controller, and the host only when the           *)
(* controller has no request, so a refused host implies a busy controller, *)
(* and a controller that was just served has no request at the next edge.  *)
Turns == /\ ~Ctrl!Refused
         /\ Host!Refused => controllerCSRAxi.state \notin {"sReadData", "sWriteData"}

IInv == Host!PortInv /\ Ctrl!PortInv /\ File!FileTypeOK /\ Interrupts!QueueTypeOK /\ Turns

(* The constants are what the lemmas about ports ask for.                  *)
LEMMA Constants == Host!PortAssumption /\ Ctrl!PortAssumption
  BY NVMeTopAssumption DEF Host!PortAssumption, Ctrl!PortAssumption, Words, Addrs, File!Words, File!Addrs

(* The strengthened invariant holds after reset.                           *)
LEMMA InitIInv == Init => IInv
  <1> SUFFICES ASSUME Init PROVE IInv
    OBVIOUS
  <1>1. Host!PortInv /\ Ctrl!PortInv
    BY Constants, Host!InitPortInv, Ctrl!InitPortInv DEF Init
  <1>2. File!FileTypeOK
    BY NVMeTopAssumption DEF Init, File!Init, File!FileTypeOK, File!CSRFileAssumption
  <1>3. Interrupts!QueueTypeOK
    BY NVMeTopAssumption DEF Init, Interrupts!Init, Interrupts!QueueTypeOK
  <1>4. Turns
    BY DEF Init, Turns, Host!Init, Ctrl!Init, Host!Master!Init, Ctrl!Master!Init, Host!Refused, Ctrl!Refused
  <1>5. QED
    BY <1>1, <1>2, <1>3, <1>4 DEF IInv

(* Whatever is addressed, the register file answers with a word.           *)
LEMMA FileDataOK ==
    ASSUME IInv, NEW h, NEW c, NEW bits \in Interrupts!LogBits
    PROVE  Out(h, c).addr \in Addrs /\ FileData(h, c, bits) \in Words
  <1>1. Out(h, c).addr \in Addrs
    BY NVMeTopAssumption DEF Out, OutBus, BusA, BusB, Ctrl!Slave!Bus, Host!Slave!Bus, IInv,
       Host!PortInv, Ctrl!PortInv, Host!PortTypeOK, Ctrl!PortTypeOK, Host!Slave!Ports, Ctrl!Slave!Ports
  <1>2. bits \in Addrs
    BY DEF Interrupts!LogBits, Interrupts!irqReq, IInv, Interrupts!QueueTypeOK
  <1>3. storage \in [StorageRegs -> Data] /\ irqHost \in Data
    BY DEF IInv, File!FileTypeOK
  <1>4. \A a \in Addrs : File!DataIn(a, Interrupts!irqReq, bits) \in Words
    BY <1>2, <1>3, NVMeTopAssumption
       DEF File!DataIn, Words, Addrs, File!Words, File!Addrs, File!CSRFileAssumption
  <1>5. QED
    BY <1>1, <1>4 DEF FileData

(* Grants are truth values.                                                *)
LEMMA GrantsOK ==
    ASSUME NEW h \in Host!Wires, NEW c \in Ctrl!Wires, IInv
    PROVE  GrantA(h, c) \in BOOLEAN /\ GrantB(h, c) \in BOOLEAN
  BY DEF GrantA, GrantB, ReadyA, ReadyB, Valid, BusA, BusB, Ctrl!Slave!Bus, Host!Slave!Bus

(* A written word is data.                                                 *)
LEMMA OutDataOK ==
    ASSUME NEW h \in Host!Wires, NEW c \in Ctrl!Wires, IInv, Out(h, c).write
    PROVE  Out(h, c).dataOut \in Data
  <1>1. h.w \in Data \cup {None} /\ c.w \in Data \cup {None}
    BY Host!WiresOK, Ctrl!WiresOK, Constants DEF IInv
  <1>2. QED
    BY <1>1 DEF Out, OutBus, Valid, BusA, BusB, Ctrl!Slave!Bus, Host!Slave!Bus

(* A clock edge keeps the registers' types.                                *)
LEMMA FileStep ==
    ASSUME IInv, NEW h \in Host!Wires, NEW c \in Ctrl!Wires, File!Next(Out(h, c))
    PROVE  File!FileTypeOK'
  BY OutDataOK, NVMeTopAssumption DEF File!Next, File!FileTypeOK, IInv, File!CSRFileAssumption

(* The log never outgrows its memory.                                      *)
LEMMA QueueStep ==
    ASSUME IInv, NEW h \in Host!Wires, NEW ready \in BOOLEAN, NEW pop \in BOOLEAN,
           Interrupts!Next(BusB(h), ready, pop)
    PROVE  Interrupts!QueueTypeOK'
  <1>1. BusB(h).addr \in Addrs
    BY DEF BusB, Host!Slave!Bus, IInv, Host!PortInv, Host!PortTypeOK, Host!Slave!Ports
  <1>2. queue \in Seq(Addrs) /\ Len(queue) <= QueueDepth /\ Len(queue) \in Nat
    BY DEF IInv, Interrupts!QueueTypeOK
  <1> DEFINE rest == IF pop /\ Interrupts!irqReq THEN Tail(queue) ELSE queue
  <1>3. rest \in Seq(Addrs) /\ Len(rest) <= Len(queue) /\ Len(rest) \in Nat
    BY <1>2 DEF Interrupts!irqReq
  <1>4. queue' = IF BusB(h).write /\ ready /\ ~Interrupts!Full
                 THEN Append(rest, BusB(h).addr) ELSE rest
    BY DEF Interrupts!Next
  <1>5. CASE BusB(h).write /\ ready /\ ~Interrupts!Full
    BY <1>1, <1>2, <1>3, <1>4, <1>5, NVMeTopAssumption DEF Interrupts!QueueTypeOK, Interrupts!Full
  <1>6. CASE ~(BusB(h).write /\ ready /\ ~Interrupts!Full)
    BY <1>2, <1>3, <1>4, <1>6, NVMeTopAssumption DEF Interrupts!QueueTypeOK
  <1>7. QED
    BY <1>5, <1>6

(* A controller with a request is granted at once, and has none at the     *)
(* next edge: its access ends in sIdle or sWriteResp.                      *)
LEMMA CtrlServed ==
    ASSUME IInv, NEW h \in Host!Wires, NEW c \in Ctrl!Wires, NEW d,
           Ctrl!Edge(c, GrantA(h, c), d)
    PROVE  /\ ~Ctrl!Refused'
           /\ Valid(BusA(c)) => controllerCSRAxi'.state \notin {"sReadData", "sWriteData"}
  <1> USE DEF IInv, Ctrl!PortInv, Ctrl!PortTypeOK, Ctrl!Slave!Ports, Ctrl!Slave!States,
              Ctrl!Coherent, Ctrl!OffersHeld, Turns, Ctrl!Refused
  <1>1. /\ c.w # None => controllerCSRAxi.state = "sWriteData"
        /\ c.rready => controllerCSRAxi.state = "sReadData"
        /\ c.rready \in BOOLEAN
    BY Ctrl!WiresOK, Constants
  <1>2. Valid(BusA(c)) <=> c.w # None \/ c.rready
    BY <1>1 DEF Valid, BusA, Ctrl!Slave!Bus
  <1>3. GrantA(h, c) <=> Valid(BusA(c))
    BY DEF GrantA, ReadyA
  <1>4. ~Ctrl!Refused'
    BY <1>1, <1>2, <1>3 DEF Ctrl!Edge, Ctrl!Master!Next, Ctrl!Slave!wready, Ctrl!Slave!rvalid
  <1>5. CASE c.w # None
    <2>1. Ctrl!Slave!WriteData(c, GrantA(h, c))
      BY <1>1, <1>2, <1>3, <1>5
         DEF Ctrl!Edge, Ctrl!Slave!Next, Ctrl!Slave!wready, Ctrl!Slave!StartWrite, Ctrl!Slave!StartRead,
             Ctrl!Slave!ReadAddr, Ctrl!Slave!ReadData, Ctrl!Slave!WriteAddr, Ctrl!Slave!WriteResp,
             Ctrl!Slave!Hold
    <2>2. QED
      BY <1>4, <2>1 DEF Ctrl!Slave!WriteData
  <1>6. CASE c.rready
    <2>1. Ctrl!Slave!ReadData(c, GrantA(h, c))
      BY <1>1, <1>2, <1>3, <1>6
         DEF Ctrl!Edge, Ctrl!Slave!Next, Ctrl!Slave!rvalid, Ctrl!Slave!StartWrite, Ctrl!Slave!StartRead,
             Ctrl!Slave!ReadAddr, Ctrl!Slave!WriteData, Ctrl!Slave!WriteAddr, Ctrl!Slave!WriteResp,
             Ctrl!Slave!Hold
    <2>2. QED
      BY <1>4, <2>1 DEF Ctrl!Slave!ReadData
  <1>7. QED
    BY <1>2, <1>4, <1>5, <1>6

(* The host is refused only by a controller that has a request.            *)
LEMMA HostRefused ==
    ASSUME IInv, NEW h \in Host!Wires, NEW c \in Ctrl!Wires, NEW d,
           Host!Edge(h, GrantB(h, c), d), Host!Refused'
    PROVE  Valid(BusA(c))
  <1> USE DEF IInv, Host!PortInv, Host!PortTypeOK, Host!Coherent, Host!OffersHeld
  <1>1. /\ h.w # None => hostCSRAxi.state = "sWriteData"
        /\ h.rready => hostCSRAxi.state = "sReadData"
        /\ h.rready \in BOOLEAN
    BY Host!WiresOK, Constants
  <1>2. h.w # None \/ h.rready
    BY <1>1 DEF Host!Refused, Host!Edge, Host!Master!Next
  <1>3. Valid(BusB(h))
    BY <1>1, <1>2 DEF Valid, BusB, Host!Slave!Bus
  <1>4. ~GrantB(h, c)
    BY <1>1 DEF Host!Refused, Host!Edge, Host!Master!Next, Host!Slave!wready, Host!Slave!rvalid
  <1>5. QED
    BY <1>3, <1>4 DEF GrantB, ReadyB

(* Every step keeps the strengthened invariant.                            *)
THEOREM StepIInv == IInv /\ [Next]_vars => IInv'
  <1> SUFFICES ASSUME IInv, [Next]_vars PROVE IInv'
    OBVIOUS
  <1>1. CASE UNCHANGED vars
    BY <1>1 DEF vars, IInv, Turns, Host!PortInv, Host!PortTypeOK, Host!Coherent, Host!OffersHeld,
       Host!OwnsAddress, Host!LatchedOffer, Host!OwnRegisters, Host!Refused, Ctrl!PortInv, Ctrl!PortTypeOK, Ctrl!Coherent,
       Ctrl!OffersHeld, Ctrl!OwnsAddress, Ctrl!LatchedOffer, Ctrl!OwnRegisters, Ctrl!Refused, File!FileTypeOK,
       Interrupts!QueueTypeOK
  <1>2. CASE Next
    <2>1. PICK h \in Host!Wires, c \in Ctrl!Wires, bits \in Interrupts!LogBits : Edge(h, c, bits)
      BY <1>2 DEF Next
    <2>2. FileData(h, c, bits) \in Words /\ GrantA(h, c) \in BOOLEAN /\ GrantB(h, c) \in BOOLEAN
      BY FileDataOK, GrantsOK
    <2>3. /\ Ctrl!Edge(c, GrantA(h, c), FileData(h, c, bits))
          /\ Host!Edge(h, GrantB(h, c), FileData(h, c, bits))
          /\ File!Next(Out(h, c))
          /\ Interrupts!Next(BusB(h), GrantB(h, c), File!LogReady(Out(h, c)))
      BY <2>1, EdgeParts
    <2>4. Ctrl!PortInv' /\ Host!PortInv'
      BY <2>2, <2>3, Constants, Ctrl!EdgePortInv, Host!EdgePortInv DEF IInv
    <2>5. File!FileTypeOK'
      BY <2>3, FileStep
    <2>6. File!LogReady(Out(h, c)) \in BOOLEAN
      BY DEF File!LogReady
    <2>7. Interrupts!QueueTypeOK'
      BY <2>2, <2>3, <2>6, QueueStep
    <2>8. Turns'
      BY <2>3, CtrlServed, HostRefused DEF Turns
    <2>9. QED
      BY <2>4, <2>5, <2>7, <2>8 DEF IInv
  <1>3. QED
    BY <1>1, <1>2

(* A refused host finds the controller without a request.                  *)
LEMMA HostServed ==
    ASSUME IInv, Next
    PROVE  Host!Refused => ~Host!Refused'
  <1>1. PICK h \in Host!Wires, c \in Ctrl!Wires, bits \in Interrupts!LogBits : Edge(h, c, bits)
    BY DEF Next
  <1>2. Host!Refused => ~Valid(BusA(c))
    BY DEF IInv, Turns, Ctrl!PortInv, Ctrl!PortTypeOK, Ctrl!Coherent, Ctrl!Slave!Ports,
       Valid, BusA, Ctrl!Slave!Bus
  <1>3. QED
    BY <1>1, <1>2, EdgeParts, HostRefused
-----------------------------------------------------------------------------
(* IInv holds in every reachable state. *)
THEOREM Invariance == Spec => []IInv
  BY InitIInv, StepIInv, PTL DEF Spec

(* Registers, masters and log keep their types; the log never holds more   *)
(* than QueueDepth events.                                                 *)
THEOREM TypeCorrect == Spec => []TypeOK
  <1>1. IInv => TypeOK
    BY DEF IInv, TypeOK, Host!PortInv, Ctrl!PortInv
  <1>2. QED
    BY <1>1, Invariance, PTL

(* A register access uses the address its own master handed over.          *)
THEOREM AddressKept == Spec => []AddressIsMasters
  <1>1. IInv => AddressIsMasters
    BY DEF IInv, AddressIsMasters, Host!PortInv, Ctrl!PortInv
  <1>2. QED
    BY <1>1, Invariance, PTL

(* The host's access is carried out at the second edge at the latest.      *)
THEOREM HostBound == Spec => HostWaitsOnce
  <1>1. IInv /\ [Next]_vars =>
          [/\ hostAxi.w # None => hostAxi'.w = None
           /\ hostAxi.rready => ~hostAxi'.rready]_vars
    BY HostServed DEF Host!Refused
  <1>2. QED
    BY <1>1, Invariance, PTL DEF Spec, HostWaitsOnce
=============================================================================
