--------------------------- MODULE DoorbellProofs ---------------------------
(***************************************************************************)
(* Proofs about events: the log that carries doorbells to the controller   *)
(* and the register that raises the host's interrupt, for any number of    *)
(* registers and any depth of the log.                                     *)
(***************************************************************************)
EXTENDS DoorbellEvents, NVMeTopProofs

(* The history variables only watch: what holds of the core's steps holds  *)
(* of the steps with history.                                              *)
LEMMA EventsInvariance == EventsSpec => []IInv
  <1>1. EventsInit => IInv
    BY InitIInv DEF EventsInit
  <1>2. IInv /\ [EventsNext]_allvars => IInv'
    <2>1. [EventsNext]_allvars => [Next]_vars
      BY DEF EventsNext, allvars, vars
    <2>2. QED
      BY <2>1, StepIInv
  <1>3. QED
    BY <1>1, <1>2, PTL DEF EventsSpec

(* A host write that is carried out is on the host's bus and granted.      *)
LEMMA HostWriteSeen ==
    ASSUME IInv, NEW h \in Host!Wires, NEW c \in Ctrl!Wires, NEW bits \in Interrupts!LogBits,
           Edge(h, c, bits), NEW x \in HostWrote
    PROVE  BusB(h).write /\ GrantB(h, c) /\ BusB(h).addr = x
  <1>1. hostCSRAxi.state = "sWriteData" /\ hostCSRAxi'.state = "sWriteResp" /\ x = hostAxi.addr
    BY DEF HostWrote
  <1>2. Host!Edge(h, GrantB(h, c), FileData(h, c, bits))
    BY EdgeParts
  <1>3. Host!Slave!WriteData(h, GrantB(h, c))
    BY <1>1, <1>2 DEF Host!Edge, Host!Slave!Next, Host!Slave!StartWrite, Host!Slave!StartRead,
       Host!Slave!ReadAddr, Host!Slave!ReadData, Host!Slave!WriteAddr, Host!Slave!WriteResp, Host!Slave!Hold
  <1>4. hostCSRAxi.addr = x
    BY <1>1 DEF IInv, Host!PortInv, Host!OwnsAddress
  <1>5. QED
    BY <1>3, <1>4 DEF BusB, Host!Slave!Bus, Host!Slave!WriteData, Host!Slave!wready,
       IInv, Host!PortInv, Host!Coherent

(* A granted read of the controller ends its transaction with the file's   *)
(* data.                                                                   *)
LEMMA CtrlReadSeen ==
    ASSUME IInv, NEW h \in Host!Wires, NEW c \in Ctrl!Wires, NEW bits \in Interrupts!LogBits,
           Edge(h, c, bits), BusA(c).read
    PROVE  /\ CtrlRead = {controllerCSRAxi.addr}
           /\ controllerAxi'.rdata = FileData(h, c, bits)
           /\ Out(h, c) = BusA(c)
  <1> USE DEF IInv, Ctrl!PortInv, Ctrl!PortTypeOK, Ctrl!Coherent, Ctrl!Slave!Ports, Ctrl!Slave!States
  <1>1. GrantA(h, c) /\ Out(h, c) = BusA(c)
    BY DEF GrantA, ReadyA, Valid, Out, OutBus
  <1>2. Ctrl!Edge(c, GrantA(h, c), FileData(h, c, bits))
    BY EdgeParts
  <1>3. FileData(h, c, bits) \in Words /\ GrantA(h, c) \in BOOLEAN
    BY FileDataOK, GrantsOK
  <1>4. controllerAxi'.rdata = FileData(h, c, bits)
    BY <1>1, <1>2, <1>3, Constants, Ctrl!EdgeReads DEF BusA
  <1>5. controllerCSRAxi.state = "sReadData" /\ c.rready
    BY DEF BusA, Ctrl!Slave!Bus
  <1>6. Ctrl!Slave!ReadData(c, GrantA(h, c))
    BY <1>1, <1>2, <1>5
       DEF Ctrl!Edge, Ctrl!Slave!Next, Ctrl!Slave!rvalid, Ctrl!Slave!StartWrite, Ctrl!Slave!StartRead,
           Ctrl!Slave!ReadAddr, Ctrl!Slave!WriteData, Ctrl!Slave!WriteAddr, Ctrl!Slave!WriteResp,
           Ctrl!Slave!Hold
  <1>7. controllerAxi.addr = controllerCSRAxi.addr
    BY <1>5 DEF Ctrl!OwnsAddress
  <1>8. QED
    BY <1>1, <1>4, <1>5, <1>6, <1>7 DEF CtrlRead, Ctrl!Slave!ReadData

(* Conversely, a read the controller sees carried out is on its bus.       *)
LEMMA CtrlReadOnBus ==
    ASSUME IInv, NEW h \in Host!Wires, NEW c \in Ctrl!Wires, NEW bits \in Interrupts!LogBits,
           Edge(h, c, bits), CtrlRead # {}
    PROVE  BusA(c).read
  <1>1. controllerCSRAxi.state = "sReadData" /\ controllerCSRAxi'.state = "sIdle"
    BY DEF CtrlRead
  <1>2. Ctrl!Slave!ReadData(c, GrantA(h, c))
    BY <1>1, EdgeParts
       DEF Ctrl!Edge, Ctrl!Slave!Next, Ctrl!Slave!StartWrite, Ctrl!Slave!StartRead, Ctrl!Slave!ReadAddr,
           Ctrl!Slave!WriteData, Ctrl!Slave!WriteAddr, Ctrl!Slave!WriteResp, Ctrl!Slave!Hold
  <1>3. QED
    BY <1>1, <1>2 DEF Ctrl!Slave!ReadData, Ctrl!Slave!rvalid, BusA, Ctrl!Slave!Bus,
       IInv, Ctrl!PortInv, Ctrl!Coherent

(* The log only loses its oldest event, and only to a controller that is   *)
(* handed it.                                                              *)
LEMMA LogStep ==
    ASSUME IInv, NEW h \in Host!Wires, NEW c \in Ctrl!Wires, NEW bits \in Interrupts!LogBits,
           Edge(h, c, bits)
    PROVE  /\ Logged \subseteq Logged' \cup (IF IRQDAT \in CtrlRead THEN {controllerAxi'.rdata} ELSE {})
           /\ queue # <<>> /\ IRQDAT \notin CtrlRead => queue' # <<>>
           /\ BusB(h).write /\ GrantB(h, c) /\ ~Interrupts!Full => BusB(h).addr \in Logged'
  <1> DEFINE pop == File!LogReady(Out(h, c))
             rest == IF pop /\ Interrupts!irqReq THEN Tail(queue) ELSE queue
             enter == BusB(h).write /\ GrantB(h, c) /\ ~Interrupts!Full
  <1>1. queue' = IF enter THEN Append(rest, BusB(h).addr) ELSE rest
    BY EdgeParts DEF Interrupts!Next
  <1>2. queue \in Seq(Addrs) /\ BusB(h).addr \in Addrs
    BY DEF IInv, Interrupts!QueueTypeOK, BusB, Host!Slave!Bus, Host!PortInv, Host!PortTypeOK,
       Host!Slave!Ports
  <1>3. rest \in Seq(Addrs)
    BY <1>2 DEF Interrupts!irqReq
  <1>4. {rest[i] : i \in DOMAIN rest} \subseteq Logged'
    <2>1. CASE enter
      <3>1. \A i \in DOMAIN rest : i \in DOMAIN queue' /\ queue'[i] = rest[i]
        BY <1>1, <1>2, <1>3, <2>1
      <3>2. QED
        BY <3>1 DEF Logged
    <2>2. CASE ~enter
      BY <1>1, <2>2 DEF Logged
    <2>3. QED
      BY <2>1, <2>2
  <1>5. enter => BusB(h).addr \in Logged' /\ queue' # <<>>
    <2>1. enter => Len(rest) + 1 \in DOMAIN queue' /\ queue'[Len(rest) + 1] = BusB(h).addr
      BY <1>1, <1>2, <1>3
    <2>2. QED
      BY <2>1 DEF Logged
  <1>6. CASE ~pop
    <2>1. rest = queue
      BY <1>6
    <2>2. QED
      BY <1>1, <1>4, <1>5, <2>1 DEF Logged
  <1>7. CASE pop
    <2>1. Out(h, c).read /\ Out(h, c).addr = IRQDAT
      BY <1>7 DEF File!LogReady
    <2>2. BusA(c).read
      <3>1. ~Valid(BusA(c)) => BusB(h).read /\ BusB(h).addr = IRQDAT
        BY <2>1 DEF Out, OutBus
      <3>2. BusB(h).read => BusB(h).addr \in HostReads
        <4>1. BusB(h).read => hostCSRAxi.rvalid /\ BusB(h).addr = hostCSRAxi.addr
          BY DEF BusB, Host!Slave!Bus
        <4>2. hostCSRAxi.rvalid => hostCSRAxi.state = "sReadData"
          BY DEF IInv, Host!PortInv, Host!Coherent
        <4>3. QED
          BY <4>1, <4>2 DEF IInv, Host!PortInv, Host!OwnRegisters
      <3>3. Valid(BusA(c))
        BY <3>1, <3>2, ControllerOwnsLog
      <3>4. QED
        BY <2>1, <3>3 DEF Out, OutBus
    <2>3. CtrlRead = {IRQDAT} /\ controllerAxi'.rdata = FileData(h, c, bits)
      BY <2>1, <2>2, CtrlReadSeen DEF BusA, Ctrl!Slave!Bus
    <2>4. FileData(h, c, bits) = bits
      BY <2>1, NVMeTopAssumption DEF FileData, File!DataIn, File!CSRFileAssumption
    <2>5. CASE queue = <<>>
      BY <1>5, <2>3, <2>5 DEF Logged
    <2>6. CASE queue # <<>>
      <3>1. bits = Head(queue) /\ rest = Tail(queue)
        BY <1>7, <2>6 DEF Interrupts!LogBits, Interrupts!irqReq
      <3>2. ASSUME NEW i \in DOMAIN queue, i # 1
            PROVE  i - 1 \in DOMAIN rest /\ rest[i - 1] = queue[i]
        BY <1>2, <2>6, <3>1, <3>2
      <3>3. \A i \in DOMAIN queue : queue[i] \in Logged' \/ queue[i] = Head(queue)
        <4>1. \A i \in DOMAIN queue : i # 1 => queue[i] \in {rest[j] : j \in DOMAIN rest}
          BY <3>2
        <4>2. Head(queue) = queue[1]
          BY <1>2, <2>6
        <4>3. QED
          BY <1>4, <4>1, <4>2
      <3>4. QED
        BY <1>5, <2>3, <2>4, <3>1, <3>3 DEF Logged
    <2>7. QED
      BY <2>5, <2>6
  <1>8. QED
    BY <1>6, <1>7

(* A register the host wrote and the controller has not read since is in   *)
(* the log, or the controller was told of it, or its write found the log   *)
(* full.                                                                   *)
THEOREM DoorbellsKept == EventsSpec => []NoDoorbellLost
  <1>1. EventsInit => NoDoorbellLost
    BY DEF EventsInit, NoDoorbellLost
  <1>2. ASSUME IInv, NoDoorbellLost, EventsNext PROVE NoDoorbellLost'
    <2>1. PICK h \in Host!Wires, c \in Ctrl!Wires, bits \in Interrupts!LogBits : Edge(h, c, bits)
      BY <1>2 DEF EventsNext, Next
    <2>2. History
      BY <1>2 DEF EventsNext
    <2>3. SUFFICES ASSUME NEW x \in unread' PROVE x \in Logged' \cup told' \cup missed'
      BY DEF NoDoorbellLost
    <2>4. x \in unread \cup HostWrote /\ x \notin CtrlRead \cup CtrlWrote
      BY <2>2 DEF History
    <2>5. CASE x \in HostWrote
      <3>1. ~Interrupts!Full => x \in Logged'
        BY <1>2, <2>1, <2>5, HostWriteSeen, LogStep
      <3>2. QED
        BY <2>2, <2>4, <2>5, <3>1 DEF History
    <2>6. CASE x \notin HostWrote
      <3>1. x \in Logged \cup told \cup missed
        BY <1>2, <2>4, <2>6 DEF NoDoorbellLost
      <3>2. x \in missed => x \in missed'
        BY <2>2, <2>4, <2>6 DEF History
      <3>3. x \in told => x \in told'
        BY <2>2, <2>4 DEF History
      <3>4. x \in Logged => x \in Logged' \cup told'
        BY <1>2, <2>1, <2>2, LogStep DEF History
      <3>5. QED
        BY <3>1, <3>2, <3>3, <3>4
    <2>7. QED
      BY <2>5, <2>6
  <1>3. NoDoorbellLost /\ UNCHANGED allvars => NoDoorbellLost'
    BY DEF NoDoorbellLost, Logged, allvars
  <1>4. IInv /\ NoDoorbellLost /\ [EventsNext]_allvars => NoDoorbellLost'
    BY <1>2, <1>3
  <1>5. QED
    BY <1>1, <1>4, EventsInvariance, PTL DEF EventsSpec

(* A controller that found VALID set finds an event when it reads IRQDAT.  *)
THEOREM ValidKept == EventsSpec => []ValidHolds
  <1>1. EventsInit => ValidHolds
    BY DEF EventsInit, ValidHolds
  <1>2. ASSUME IInv, ValidHolds, EventsNext, sawValid' PROVE queue' # <<>>
    <2>1. PICK h \in Host!Wires, c \in Ctrl!Wires, bits \in Interrupts!LogBits : Edge(h, c, bits)
      BY <1>2 DEF EventsNext, Next
    <2>2. History
      BY <1>2 DEF EventsNext
    <2>3. CASE IRQSTA \in CtrlRead
      <3>1. BusA(c).read
        BY <1>2, <2>1, <2>3, CtrlReadOnBus
      <3>2. /\ CtrlRead = {controllerCSRAxi.addr} /\ Out(h, c).addr = controllerCSRAxi.addr
            /\ controllerAxi'.rdata = FileData(h, c, bits)
        BY <1>2, <2>1, <3>1, CtrlReadSeen DEF BusA, Ctrl!Slave!Bus
      <3>3. Out(h, c).addr = IRQSTA /\ IRQDAT \notin CtrlRead
        BY <2>3, <3>2, NVMeTopAssumption DEF File!CSRFileAssumption
      <3>4. FileData(h, c, bits) = IF Interrupts!irqReq THEN 1 ELSE 0
        BY <3>3, NVMeTopAssumption DEF FileData, File!DataIn, File!CSRFileAssumption
      <3>5. controllerAxi'.rdata = 1
        BY <1>2, <2>2, <2>3 DEF History
      <3>6. queue # <<>>
        BY <3>2, <3>4, <3>5 DEF Interrupts!irqReq
      <3>7. QED
        BY <1>2, <2>1, <3>3, <3>6, LogStep
    <2>4. CASE IRQSTA \notin CtrlRead
      BY <1>2, <2>1, <2>2, <2>4, LogStep DEF History, ValidHolds
    <2>5. QED
      BY <2>3, <2>4
  <1>3. IInv /\ ValidHolds /\ [EventsNext]_allvars => ValidHolds'
    BY <1>2 DEF ValidHolds, allvars
  <1>4. QED
    BY <1>1, <1>3, EventsInvariance, PTL DEF EventsSpec
-----------------------------------------------------------------------------
(* The register behind the host's interrupt is up only while the           *)
(* controller, who wrote it, waits for the write to be acknowledged.       *)
PulseFollowsWrite == irqHost # 0 => controllerCSRAxi.state \notin {"sReadData", "sWriteData"}

(* A clock edge keeps it, and lets the register fall after one cycle.      *)
LEMMA PulseStep ==
    ASSUME IRQHOST \notin HostWrites, IInv, PulseFollowsWrite, Next
    PROVE  PulseFollowsWrite' /\ (irqHost # 0 => irqHost' = 0)
  <1>1. PICK h \in Host!Wires, c \in Ctrl!Wires, bits \in Interrupts!LogBits : Edge(h, c, bits)
    BY DEF Next
  <1>2. irqHost' # 0 => Out(h, c).write /\ Out(h, c).addr = IRQHOST
    BY <1>1, EdgeParts DEF File!Next
  <1>3. BusB(h).write => BusB(h).addr # IRQHOST
    <2>1. BusB(h).write => hostCSRAxi.wready /\ BusB(h).addr = hostCSRAxi.addr
      BY DEF BusB, Host!Slave!Bus
    <2>2. hostCSRAxi.wready => hostCSRAxi.state = "sWriteData"
      BY DEF IInv, Host!PortInv, Host!Coherent
    <2>3. QED
      BY <2>1, <2>2 DEF IInv, Host!PortInv, Host!OwnRegisters
  <1>4. irqHost' # 0 => Valid(BusA(c))
    BY <1>2, <1>3 DEF Out, OutBus
  <1>5. Valid(BusA(c)) => controllerCSRAxi.state \in {"sReadData", "sWriteData"}
    BY DEF Valid, BusA, Ctrl!Slave!Bus, IInv, Ctrl!PortInv, Ctrl!Coherent
  <1>6. Valid(BusA(c)) => controllerCSRAxi'.state \notin {"sReadData", "sWriteData"}
    BY <1>1, EdgeParts, CtrlServed
  <1>7. QED
    BY <1>4, <1>5, <1>6 DEF PulseFollowsWrite

(* When only the controller raises host interrupts, each is a pulse of one *)
(* cycle with a low cycle after it.                                        *)
THEOREM Pulses == ASSUME IRQHOST \notin HostWrites PROVE Spec => PulsesApart
  <1>1. Init => PulseFollowsWrite
    BY DEF Init, File!Init, PulseFollowsWrite
  <1>2. IInv /\ PulseFollowsWrite /\ [Next]_vars => PulseFollowsWrite'
    BY PulseStep, IRQHOST \notin HostWrites DEF PulseFollowsWrite, vars
  <1>3. IInv /\ PulseFollowsWrite /\ [Next]_vars => [irqHost # 0 => irqHost' = 0]_vars
    BY PulseStep, IRQHOST \notin HostWrites
  <1>4. QED
    BY <1>1, <1>2, <1>3, Invariance, PTL DEF Spec, PulsesApart
=============================================================================
