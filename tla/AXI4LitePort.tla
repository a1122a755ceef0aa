---------------------------- MODULE AXI4LitePort ----------------------------
(***************************************************************************)
(* A port of the register core together with the AXI4-Lite master in front *)
(* of it: the slave registers and the master's move at the same clock      *)
(* edge.  The register bus behind the port is left to whoever instantiates *)
(* this module: its grant (ready) and its data (dataIn) are parameters.    *)
(***************************************************************************)
EXTENDS TLAPS

CONSTANTS Addrs, Addr0, None, Data, Words, WriteAddrs, ReadAddrs, Patient

VARIABLES port, axi

Slave == INSTANCE AXI4LiteCSR
Master == INSTANCE AXI4LiteMaster

Init == Slave!Init /\ Master!Init

(* What the master may drive in this cycle. *)
Wires == Master!Wires(port.state)

Edge(in, ready, dataIn) ==
    /\ Slave!Next(in, ready)
    /\ Master!Next(in, port.awready, port.arready, Slave!wready(ready),
                   Slave!rvalid(ready), port.bvalid, dataIn)
-----------------------------------------------------------------------------
PortTypeOK == port \in Slave!Ports /\ axi \in Master!Masters

(* A port drives a ready or valid register high in the one state that      *)
(* needs it and in no other, so no handshake is repeated or invented.      *)
Coherent ==
    /\ port.awready = (port.state = "sWriteAddr")
    /\ port.wready = (port.state = "sWriteData")
    /\ port.bvalid = (port.state = "sWriteResp")
    /\ port.arready = (port.state = "sReadAddr")
    /\ port.rvalid = (port.state = "sReadData")

(* The offers the master holds are those the port has yet to accept.       *)
OffersHeld ==
    /\ (axi.aw # None) = (port.state = "sWriteAddr")
    /\ port.state = "sReadAddr" => axi.ar # None
    /\ axi.w # None => port.state = "sWriteData"
    /\ axi.rready => port.state = "sReadData"

(* While a port is about to access the register bus, the address it        *)
(* latched is the one its own master handed over.                          *)
OwnsAddress == port.state \in {"sReadData", "sWriteData"} => port.addr = axi.addr

(* Why: the offer the port latched is still there at the handshake.        *)
LatchedOffer ==
    /\ port.state = "sWriteAddr" => port.addr = axi.aw
    /\ port.state = "sReadAddr" => port.addr = axi.ar

(* A master accesses the registers it has business with. *)
OwnRegisters ==
    /\ port.state = "sReadData" => port.addr \in ReadAddrs
    /\ port.state = "sWriteData" => port.addr \in WriteAddrs

PortInv == PortTypeOK /\ Coherent /\ OffersHeld /\ OwnsAddress /\ LatchedOffer /\ OwnRegisters

(* The master's word, or its ready wire, was refused at the last edge.     *)
Refused == axi.w # None \/ axi.rready

(* How far the transaction is, as its master sees it. *)
Free == [stage |-> "free"]
Done == [stage |-> "done"]
Asked(kind, a) == [stage |-> kind, addr |-> a]
Stage == CASE port.state = "sReadData" -> Asked("read", axi.addr)
           [] port.state = "sWriteData" -> Asked("write", axi.addr)
           [] port.state = "sWriteResp" -> Done
           [] OTHER -> Free
-----------------------------------------------------------------------------
(* What the lemmas below ask of the constants.                             *)
PortAssumption ==
    /\ Addr0 \in Addrs
    /\ Addrs \cup Data \subseteq Words
    /\ None \notin Words
    /\ WriteAddrs \subseteq Addrs /\ ReadAddrs \subseteq Addrs

(* A port and its master start in step.                                    *)
LEMMA InitPortInv == ASSUME PortAssumption, Init PROVE PortInv
  BY DEF PortAssumption, Init, PortInv, PortTypeOK, Coherent, OffersHeld, OwnsAddress,
         LatchedOffer, OwnRegisters, Slave!Init, Master!Init, Slave!Ports, Slave!States, Master!Masters

(* What the master drives has the right type, and is what it held before,  *)
(* or, in the states that look at the channel, something new.              *)
LEMMA WiresOK ==
    ASSUME PortAssumption, PortInv, NEW in \in Wires
    PROVE  /\ in.aw \in WriteAddrs \cup {None} /\ in.ar \in ReadAddrs \cup {None}
           /\ in.w \in Data \cup {None} /\ in.rready \in BOOLEAN /\ in.bready \in BOOLEAN
           /\ axi.aw # None => in.aw = axi.aw
           /\ axi.ar # None => in.ar = axi.ar
           /\ port.state # "sIdle" => in.aw = axi.aw /\ in.ar = axi.ar
           /\ port.state # "sWriteData" => in.w = axi.w
           /\ axi.w # None => in.w = axi.w
           /\ port.state # "sReadData" => ~in.rready
           /\ port.state # "sWriteResp" => ~in.bready
  BY DEF PortAssumption, PortInv, PortTypeOK, Master!Masters, Wires, Master!Wires, Master!Keep

(* Every clock edge keeps PortInv: whatever grant and data the register    *)
(* bus gives, the port and its master stay in step.                        *)
LEMMA EdgePortInv ==
    ASSUME PortAssumption, PortInv,
           NEW in \in Wires, NEW ready \in BOOLEAN, NEW dataIn \in Words,
           Edge(in, ready, dataIn)
    PROVE  PortInv'
  <1> USE DEF PortAssumption, PortInv, PortTypeOK, Coherent, OffersHeld, OwnsAddress,
              LatchedOffer, OwnRegisters, Slave!Ports, Slave!States, Master!Masters
  <1> USE WiresOK DEF Edge, Master!Next
  <1>1. CASE Slave!StartWrite(in)
    <2>1. in.aw \in WriteAddrs /\ in.aw \in Addrs
      BY <1>1 DEF Slave!StartWrite
    <2>2. axi.w = None /\ ~in.rready /\ in.w = None /\ axi'.ar = in.ar
      BY <1>1 DEF Slave!StartWrite, Slave!rvalid, Slave!wready
    <2>3. PortTypeOK'
      BY <1>1, <2>1, <2>2 DEF Slave!StartWrite
    <2>4. (Coherent /\ OffersHeld /\ OwnsAddress /\ LatchedOffer /\ OwnRegisters)'
      BY <1>1, <2>1, <2>2 DEF Slave!StartWrite
    <2>5. QED
      BY <2>3, <2>4
  <1>2. CASE Slave!StartRead(in)
    <2>1. in.ar \in ReadAddrs /\ in.ar \in Addrs
      BY <1>2 DEF Slave!StartRead
    <2>2. axi.aw = None /\ axi.w = None /\ in.aw = None /\ ~in.rready /\ in.w = None
      BY <1>2 DEF Slave!StartRead
    <2>3. PortTypeOK'
      BY <1>2, <2>1, <2>2 DEF Slave!StartRead
    <2>4. (Coherent /\ OffersHeld /\ OwnsAddress /\ LatchedOffer /\ OwnRegisters)'
      BY <1>2, <2>1, <2>2 DEF Slave!StartRead
    <2>5. QED
      BY <2>3, <2>4
  <1>3. CASE Slave!ReadAddr(in)
    BY <1>3 DEF Slave!ReadAddr, Slave!rvalid, Slave!wready
  <1>4. CASE Slave!ReadData(in, ready)
    BY <1>4 DEF Slave!ReadData, Slave!rvalid, Slave!wready
  <1>5. CASE Slave!WriteAddr(in)
    BY <1>5 DEF Slave!WriteAddr, Slave!rvalid, Slave!wready
  <1>6. CASE Slave!WriteData(in, ready)
    BY <1>6 DEF Slave!WriteData, Slave!rvalid, Slave!wready
  <1>7. CASE Slave!WriteResp(in)
    BY <1>7 DEF Slave!WriteResp, Slave!rvalid, Slave!wready
  <1>8. CASE Slave!Hold(in, ready)
    <2>1. UNCHANGED port
      BY <1>8 DEF Slave!Hold
    <2>2. CASE port.state = "sIdle"
      BY <1>8, <2>1, <2>2 DEF Slave!Hold
    <2>3. CASE port.state = "sReadAddr"
      BY <1>8, <2>1, <2>3 DEF Slave!Hold
    <2>4. CASE port.state = "sReadData"
      BY <1>8, <2>1, <2>4 DEF Slave!Hold, Slave!rvalid
    <2>5. CASE port.state = "sWriteAddr"
      BY <1>8, <2>1, <2>5 DEF Slave!Hold
    <2>6. CASE port.state = "sWriteData"
      BY <1>8, <2>1, <2>6 DEF Slave!wready
    <2>7. CASE port.state = "sWriteResp"
      BY <1>8, <2>1, <2>7
    <2>. QED
      BY <2>2, <2>3, <2>4, <2>5, <2>6, <2>7
  <1>9. QED
    BY <1>1, <1>2, <1>3, <1>4, <1>5, <1>6, <1>7, <1>8 DEF Slave!Next

(* An edge without an access moves the transaction along by a handshake,   *)
(* or leaves it where it is.                                               *)
LEMMA EdgePasses ==
    ASSUME PortAssumption, PortInv,
           NEW in \in Wires, NEW ready \in BOOLEAN, NEW dataIn \in Words,
           Edge(in, ready, dataIn),
           ~(ready /\ (Slave!Bus(in).read \/ Slave!Bus(in).write))
    PROVE  /\ axi'.rdata = None
           /\ \/ Stage' = Stage
              \/ /\ Stage = Free
                 /\ \E kind \in {"read", "write"}, a \in Addrs : Stage' = Asked(kind, a)
              \/ Stage = Done /\ Stage' = Free
  <1> USE DEF PortAssumption, PortInv, PortTypeOK, Coherent, OffersHeld, OwnsAddress,
              LatchedOffer, OwnRegisters, Slave!Ports, Slave!States, Master!Masters, Slave!Bus
  <1> USE WiresOK DEF Edge, Master!Next
  <1>1. axi'.rdata = None
    BY DEF Slave!rvalid
  <1>2. CASE Slave!StartWrite(in)
    BY <1>1, <1>2 DEF Slave!StartWrite, Stage
  <1>3. CASE Slave!StartRead(in)
    BY <1>1, <1>3 DEF Slave!StartRead, Stage
  <1>4. CASE Slave!ReadAddr(in)
    <2>1. Stage = Free /\ Stage' = Asked("read", in.ar) /\ in.ar \in Addrs
      BY <1>4 DEF Slave!ReadAddr, Stage
    <2>2. QED
      BY <1>1, <2>1
  <1>5. CASE Slave!ReadData(in, ready)
    BY <1>5 DEF Slave!ReadData, Slave!rvalid
  <1>6. CASE Slave!WriteAddr(in)
    <2>1. Stage = Free /\ Stage' = Asked("write", in.aw) /\ in.aw \in Addrs
      BY <1>6 DEF Slave!WriteAddr, Stage
    <2>2. QED
      BY <1>1, <2>1
  <1>7. CASE Slave!WriteData(in, ready)
    BY <1>7 DEF Slave!WriteData, Slave!wready
  <1>8. CASE Slave!WriteResp(in)
    BY <1>1, <1>8 DEF Slave!WriteResp, Stage
  <1>9. CASE Slave!Hold(in, ready)
    <2>1. UNCHANGED port
      BY <1>9 DEF Slave!Hold
    <2>2. port.state \in {"sReadData", "sWriteData"} => axi'.addr = axi.addr
      BY <2>1 DEF Slave!rvalid
    <2>3. QED
      BY <1>1, <2>1, <2>2 DEF Stage
  <1>10. QED
    BY <1>2, <1>3, <1>4, <1>5, <1>6, <1>7, <1>8, <1>9 DEF Slave!Next

(* A granted write carries out the transaction its master asked for.       *)
LEMMA EdgeWrites ==
    ASSUME PortAssumption, PortInv,
           NEW in \in Wires, NEW ready \in BOOLEAN, NEW dataIn \in Words,
           Edge(in, ready, dataIn), ready, Slave!Bus(in).write
    PROVE  /\ Stage = Asked("write", port.addr) /\ Stage' = Done
           /\ axi'.rdata = None /\ in.w \in Data /\ ~Slave!Bus(in).read
  <1> USE DEF PortAssumption, PortInv, PortTypeOK, Coherent, OffersHeld, OwnsAddress,
              Slave!Ports, Slave!States, Master!Masters, Slave!Bus
  <1>1. port.state = "sWriteData" /\ in.w \in Data /\ ~in.rready
    BY WiresOK
  <1>2. Slave!WriteData(in, ready)
    BY <1>1 DEF Edge, Slave!Next, Slave!StartWrite, Slave!StartRead, Slave!ReadAddr,
       Slave!ReadData, Slave!WriteAddr, Slave!WriteResp, Slave!Hold, Slave!wready
  <1>3. axi'.rdata = None
    BY <1>1 DEF Edge, Master!Next, Slave!rvalid
  <1>4. QED
    BY <1>1, <1>2, <1>3 DEF Slave!WriteData, Stage

(* So does a granted read, which hands over the data of the bus.           *)
LEMMA EdgeReads ==
    ASSUME PortAssumption, PortInv,
           NEW in \in Wires, NEW ready \in BOOLEAN, NEW dataIn \in Words,
           Edge(in, ready, dataIn), ready, Slave!Bus(in).read
    PROVE  /\ Stage = Asked("read", port.addr) /\ Stage' = Free
           /\ axi'.rdata = dataIn /\ ~Slave!Bus(in).write
  <1> USE DEF PortAssumption, PortInv, PortTypeOK, Coherent, OffersHeld, OwnsAddress,
              Slave!Ports, Slave!States, Master!Masters, Slave!Bus
  <1>1. port.state = "sReadData" /\ in.rready /\ in.w = None
    BY WiresOK
  <1>2. Slave!ReadData(in, ready)
    BY <1>1 DEF Edge, Slave!Next, Slave!StartWrite, Slave!StartRead, Slave!ReadAddr,
       Slave!WriteData, Slave!WriteAddr, Slave!WriteResp, Slave!Hold, Slave!rvalid
  <1>3. axi'.rdata = dataIn
    BY <1>1 DEF Edge, Master!Next, Slave!rvalid
  <1>4. QED
    BY <1>1, <1>2, <1>3 DEF Slave!ReadData, Stage
=============================================================================
