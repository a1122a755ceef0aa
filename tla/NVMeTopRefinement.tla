------------------------- MODULE NVMeTopRefinement -------------------------
(***************************************************************************)
(* Proof that the register core implements the atomic register file        *)
(* NVMeRegs: an edge at which the arbiter grants nobody is a step in which *)
(* nothing is carried out, an edge at which it grants a port is the step   *)
(* of that port's transaction.                                             *)
(***************************************************************************)
EXTENDS NVMeTopProofs

(* Both descriptions speak of the same registers.                          *)
LEMMA AddrsSame == Regs!Addrs = Addrs
  BY DEF Regs!Addrs, Addrs, File!Addrs

(* The core after reset is the abstract register file at the start.        *)
LEMMA InitRefines == Init => Regs!Init
  <1> SUFFICES ASSUME Init PROVE Regs!Init
    OBVIOUS
  <1>1. Host!Stage = Host!Free /\ Ctrl!Stage = Ctrl!Free
    BY DEF Init, Host!Init, Ctrl!Init, Host!Slave!Init, Ctrl!Slave!Init, Host!Stage, Ctrl!Stage
  <1>2. hostAxi.rdata = None /\ controllerAxi.rdata = None
    BY DEF Init, Host!Init, Ctrl!Init, Host!Master!Init, Ctrl!Master!Init
  <1>3. QED
    BY <1>1, <1>2 DEF Init, File!Init, Interrupts!Init, Regs!Init, Regs!Free, Regs!Clients,
       Stages, Received, Host!Free, Ctrl!Free

(* What a client may do while another one's transaction is carried out.    *)
Idles(stage, stage1, rdata1) ==
    /\ rdata1 = None
    /\ \/ stage1 = stage
       \/ /\ stage = Regs!Free
          /\ \E kind \in {"read", "write"}, a \in Addrs : stage1 = [stage |-> kind, addr |-> a]
       \/ stage.stage = "done" /\ stage1 = Regs!Free

(* A host that is not granted takes such a step ...                        *)
LEMMA HostIdles ==
    ASSUME Idles(Host!Stage, Host!Stage', hostAxi'.rdata)
    PROVE  /\ Regs!Accept("host") \/ Regs!Acknowledge("host") \/ Regs!Wait("host")
           /\ Received'["host"] = None
  BY AddrsSame DEF Idles, Regs!Accept, Regs!Acknowledge, Regs!Wait, Stages, Received

(* ... and so does the controller.                                         *)
LEMMA CtrlIdles ==
    ASSUME Idles(Ctrl!Stage, Ctrl!Stage', controllerAxi'.rdata)
    PROVE  /\ Regs!Accept("controller") \/ Regs!Acknowledge("controller") \/ Regs!Wait("controller")
           /\ Received'["controller"] = None
  BY AddrsSame DEF Idles, Regs!Accept, Regs!Acknowledge, Regs!Wait, Stages, Received

(* The abstract variables stay functions of the two clients.               *)
LEMMA TypedOK == Regs!Typed
  BY DEF Regs!Typed, Regs!Clients, Stages, Received

(* What the register file answers is what the abstract registers hold.     *)
LEMMA AnswersOK ==
    ASSUME IInv, NEW h, NEW c, NEW bits \in Interrupts!LogBits
    PROVE  FileData(h, c, bits) \in Regs!Answers(Out(h, c).addr)
  <1>1. Out(h, c).addr \in Addrs
    BY FileDataOK
  <1>2. ASSUME NEW a \in Addrs
        PROVE  File!DataIn(a, Interrupts!irqReq, bits) \in Regs!Answers(a)
    <2>1. CASE a \in StorageRegs
      BY <2>1, NVMeTopAssumption DEF File!DataIn, Regs!Answers, File!CSRFileAssumption
    <2>2. CASE a = IRQSTA
      BY <2>2, NVMeTopAssumption
         DEF File!DataIn, Regs!Answers, File!CSRFileAssumption, Interrupts!irqReq
    <2>3. CASE a = IRQDAT
      <3>1. File!DataIn(a, Interrupts!irqReq, bits) = bits
        BY <2>3, NVMeTopAssumption DEF File!DataIn, File!CSRFileAssumption
      <3>2. Regs!Answers(a) = IF queue = <<>> THEN Regs!Addrs ELSE {Head(queue)}
        BY <2>3, NVMeTopAssumption DEF Regs!Answers, File!CSRFileAssumption
      <3>3. QED
        BY <3>1, <3>2, AddrsSame DEF Interrupts!irqReq, Interrupts!LogBits
    <2>4. CASE a = IRQHOST
      BY <2>4, NVMeTopAssumption DEF File!DataIn, Regs!Answers, File!CSRFileAssumption
    <2>5. CASE a \in ConstRegs \cup Unmapped
      BY <2>5, NVMeTopAssumption DEF File!DataIn, Regs!Answers, File!CSRFileAssumption
    <2>6. QED
      BY <2>1, <2>2, <2>3, <2>4, <2>5 DEF Addrs, File!Addrs
  <1>3. QED
    BY <1>1, <1>2 DEF FileData

(* The clock edge as seen by the abstract registers, with nobody granted.  *)
LEMMA NobodyGranted ==
    ASSUME IInv, NEW h \in Host!Wires, NEW c \in Ctrl!Wires, NEW bits \in Interrupts!LogBits,
           Edge(h, c, bits), ~Valid(BusA(c)), ~Valid(BusB(h))
    PROVE  Regs!Pass
  <1> USE EdgeParts, Constants, FileDataOK, GrantsOK
  <1>1. Idles(Host!Stage, Host!Stage', hostAxi'.rdata)
    BY Host!EdgePasses DEF IInv, Idles, Valid, BusB, Regs!Free, Host!Free, Host!Done, Host!Asked
  <1>2. Idles(Ctrl!Stage, Ctrl!Stage', controllerAxi'.rdata)
    BY Ctrl!EdgePasses DEF IInv, Idles, Valid, BusA, Regs!Free, Ctrl!Free, Ctrl!Done, Ctrl!Asked
  <1>3. storage' = storage /\ irqHost' = 0
    BY DEF File!Next, Out, OutBus
  <1>4. queue' = queue
    BY DEF Interrupts!Next, File!LogReady, Out, OutBus, Valid
  <1>5. QED
    BY <1>1, <1>2, <1>3, <1>4, HostIdles, CtrlIdles, TypedOK DEF Regs!Pass, Regs!Others, Regs!Clients

(* With the controller granted, its transaction is carried out.            *)
LEMMA CtrlGranted ==
    ASSUME IInv, NEW h \in Host!Wires, NEW c \in Ctrl!Wires, NEW bits \in Interrupts!LogBits,
           Edge(h, c, bits), Valid(BusA(c))
    PROVE  Regs!Write("controller") \/ Regs!Read("controller")
  <1> USE EdgeParts, Constants, FileDataOK, GrantsOK
  <1>1. GrantA(h, c) /\ ~GrantB(h, c) /\ Out(h, c) = BusA(c)
    BY DEF GrantA, GrantB, ReadyA, ReadyB, Out, OutBus
  <1>2. Idles(Host!Stage, Host!Stage', hostAxi'.rdata)
    BY <1>1, Host!EdgePasses DEF IInv, Idles, Regs!Free, Host!Free, Host!Done, Host!Asked
  <1>3. Regs!Others({"controller"})
    BY <1>2, HostIdles DEF Regs!Others, Regs!Clients
  <1> DEFINE a == controllerCSRAxi.addr
  <1>4. Out(h, c).addr = a
    BY <1>1 DEF BusA, Ctrl!Slave!Bus
  <1>5. queue' = IF BusA(c).read /\ a = IRQDAT /\ queue # <<>> THEN Tail(queue) ELSE queue
    BY <1>1, <1>4 DEF Interrupts!Next, File!LogReady, Interrupts!irqReq
  <1>6. CASE BusA(c).write
    <2>1. /\ Ctrl!Stage = Ctrl!Asked("write", a) /\ Ctrl!Stage' = Ctrl!Done
          /\ controllerAxi'.rdata = None /\ c.w \in Data /\ ~BusA(c).read
      BY <1>1, <1>6, Ctrl!EdgeWrites DEF IInv, BusA
    <2>2. Out(h, c).dataOut = c.w
      BY <1>1 DEF BusA, Ctrl!Slave!Bus
    <2>3. /\ storage' = IF a \in StorageRegs THEN [storage EXCEPT ![a] = c.w] ELSE storage
          /\ irqHost' = IF a = IRQHOST THEN c.w ELSE 0
      BY <1>1, <1>4, <1>6, <2>2 DEF File!Next
    <2>4. Stages["controller"].stage = "write" /\ Stages["controller"].addr = a
      BY <2>1 DEF Stages, Ctrl!Asked
    <2>5. Stages'["controller"] = [stage |-> "done"] /\ Received'["controller"] = None
      BY <2>1 DEF Stages, Received, Ctrl!Done
    <2>6. queue' = queue
      BY <1>5, <2>1
    <2>7. QED
      BY <1>3, <2>1, <2>3, <2>4, <2>5, <2>6, TypedOK DEF Regs!Write
  <1>7. CASE BusA(c).read
    <2>1. /\ Ctrl!Stage = Ctrl!Asked("read", a) /\ Ctrl!Stage' = Ctrl!Free
          /\ controllerAxi'.rdata = FileData(h, c, bits) /\ ~BusA(c).write
      BY <1>1, <1>7, Ctrl!EdgeReads DEF IInv, BusA
    <2>2. storage' = storage /\ irqHost' = 0
      BY <1>1, <2>1 DEF File!Next
    <2>3. Stages["controller"].stage = "read" /\ Stages["controller"].addr = a
      BY <2>1 DEF Stages, Ctrl!Asked
    <2>4. Stages'["controller"] = Regs!Free /\ Received'["controller"] \in Regs!Answers(a)
      BY <1>4, <2>1, AnswersOK DEF Stages, Received, Ctrl!Free, Regs!Free
    <2>5. QED
      BY <1>3, <1>5, <1>7, <2>2, <2>3, <2>4, TypedOK DEF Regs!Read
  <1>8. QED
    BY <1>6, <1>7 DEF Valid

(* With the host granted, its transaction is carried out.                  *)
LEMMA HostGranted ==
    ASSUME IInv, NEW h \in Host!Wires, NEW c \in Ctrl!Wires, NEW bits \in Interrupts!LogBits,
           Edge(h, c, bits), ~Valid(BusA(c)), Valid(BusB(h))
    PROVE  Regs!Write("host") \/ Regs!Read("host")
  <1> USE EdgeParts, Constants, FileDataOK, GrantsOK
  <1>1. GrantB(h, c) /\ Out(h, c) = BusB(h)
    BY DEF GrantB, ReadyB, Out, OutBus
  <1>2. Idles(Ctrl!Stage, Ctrl!Stage', controllerAxi'.rdata)
    BY Ctrl!EdgePasses DEF IInv, Idles, Valid, BusA, Regs!Free, Ctrl!Free, Ctrl!Done, Ctrl!Asked
  <1>3. Regs!Others({"host"})
    BY <1>2, CtrlIdles DEF Regs!Others, Regs!Clients
  <1> DEFINE a == hostCSRAxi.addr
  <1>4. Out(h, c).addr = a /\ BusB(h).addr = a
    BY <1>1 DEF BusB, Host!Slave!Bus
  <1>5. CASE BusB(h).write
    <2>1. /\ Host!Stage = Host!Asked("write", a) /\ Host!Stage' = Host!Done
          /\ hostAxi'.rdata = None /\ h.w \in Data /\ ~BusB(h).read
      BY <1>1, <1>5, Host!EdgeWrites DEF IInv, BusB
    <2>2. Out(h, c).dataOut = h.w
      BY <1>1 DEF BusB, Host!Slave!Bus
    <2>3. /\ storage' = IF a \in StorageRegs THEN [storage EXCEPT ![a] = h.w] ELSE storage
          /\ irqHost' = IF a = IRQHOST THEN h.w ELSE 0
      BY <1>1, <1>4, <1>5, <2>2 DEF File!Next
    <2>4. Stages["host"].stage = "write" /\ Stages["host"].addr = a
      BY <2>1 DEF Stages, Host!Asked
    <2>5. Stages'["host"] = [stage |-> "done"] /\ Received'["host"] = None
      BY <2>1 DEF Stages, Received, Host!Done
    <2>6. queue' = IF Len(queue) < QueueDepth THEN Append(queue, a) ELSE queue
      <3>1. Len(queue) \in Nat /\ Len(queue) <= QueueDepth /\ QueueDepth \in Nat
        BY NVMeTopAssumption DEF IInv, Interrupts!QueueTypeOK
      <3>2. ~Interrupts!Full <=> Len(queue) < QueueDepth
        BY <3>1 DEF Interrupts!Full
      <3>3. QED
        BY <1>1, <1>4, <1>5, <2>1, <3>2 DEF Interrupts!Next, File!LogReady
    <2>7. QED
      BY <1>3, <2>1, <2>3, <2>4, <2>5, <2>6, TypedOK DEF Regs!Write
  <1>6. CASE BusB(h).read
    <2>1. /\ Host!Stage = Host!Asked("read", a) /\ Host!Stage' = Host!Free
          /\ hostAxi'.rdata = FileData(h, c, bits) /\ ~BusB(h).write
      BY <1>1, <1>6, Host!EdgeReads DEF IInv, BusB
    <2>2. storage' = storage /\ irqHost' = 0
      BY <1>1, <2>1 DEF File!Next
    <2>3. Stages["host"].stage = "read" /\ Stages["host"].addr = a
      BY <2>1 DEF Stages, Host!Asked
    <2>4. Stages'["host"] = Regs!Free /\ Received'["host"] \in Regs!Answers(a)
      BY <1>4, <2>1, AnswersOK DEF Stages, Received, Host!Free, Regs!Free
    <2>5. queue' = IF a = IRQDAT /\ queue # <<>> THEN Tail(queue) ELSE queue
      BY <1>1, <1>4, <1>6, <2>1 DEF Interrupts!Next, File!LogReady, Interrupts!irqReq
    <2>6. QED
      BY <1>3, <2>2, <2>3, <2>4, <2>5, TypedOK DEF Regs!Read
  <1>7. QED
    BY <1>5, <1>6 DEF Valid

(* Every step of the core is a step of the abstract registers.             *)
LEMMA StepRefines == IInv /\ [Next]_vars => [Regs!Next]_(Regs!regvars)
  <1> SUFFICES ASSUME IInv, [Next]_vars PROVE [Regs!Next]_(Regs!regvars)
    OBVIOUS
  <1>1. CASE UNCHANGED vars
    BY <1>1 DEF vars, Regs!regvars, Stages, Received, Host!Stage, Ctrl!Stage, Host!Asked, Ctrl!Asked,
       Host!Free, Ctrl!Free, Host!Done, Ctrl!Done
  <1>2. CASE Next
    <2>1. PICK h \in Host!Wires, c \in Ctrl!Wires, bits \in Interrupts!LogBits : Edge(h, c, bits)
      BY <1>2 DEF Next
    <2>2. CASE ~Valid(BusA(c)) /\ ~Valid(BusB(h))
      BY <2>1, <2>2, NobodyGranted DEF Regs!Next
    <2>3. CASE Valid(BusA(c))
      BY <2>1, <2>3, CtrlGranted DEF Regs!Next, Regs!Clients
    <2>4. CASE ~Valid(BusA(c)) /\ Valid(BusB(h))
      BY <2>1, <2>4, HostGranted DEF Regs!Next, Regs!Clients
    <2>5. QED
      BY <2>2, <2>3, <2>4
  <1>3. QED
    BY <1>1, <1>2

(* For any registers, any masters and any depth of the log, the register   *)
(* core carries out each transaction atomically, once, and on the register *)
(* its master named; each host write is logged, in order, unless the log   *)
(* is full.                                                                *)
THEOREM Refinement == Spec => ActsAtomically
  BY InitRefines, StepRefines, Invariance, PTL DEF Spec, ActsAtomically, Regs!Spec
=============================================================================
