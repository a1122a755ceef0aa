---------------------------- MODULE AXI4LiteCSR ----------------------------
(***************************************************************************)
(* One AXI4-Lite slave port of the NVMe register core                      *)
(* (NVMeCore/AXI4LiteCSR.scala): a six-state machine that accepts one      *)
(* transaction at a time and turns it into one access of the register bus. *)
(*                                                                         *)
(* An action is what one rising clock edge does to the registers of the    *)
(* port.  Its parameters are the wires of the cycle that ends at the edge: *)
(*   in     what the AXI master drives: in.aw, in.ar and in.w are the      *)
(*          address or word offered on a channel (None when its valid is   *)
(*          low); in.rready and in.bready are the ready wires;             *)
(*   ready  io.bus.ready, the grant of the register bus.                   *)
(***************************************************************************)
CONSTANTS Addrs,    \* word addresses: awaddr(14,2) and araddr(14,2)
          Addr0,    \* word address 0, the reset value of addr
          None      \* a channel whose valid wire is low

VARIABLE port       \* the registers of the port

States == {"sIdle", "sReadAddr", "sReadData", "sWriteAddr", "sWriteData", "sWriteResp"}

Ports == [state: States, awready: BOOLEAN, wready: BOOLEAN, bvalid: BOOLEAN,
          arready: BOOLEAN, rvalid: BOOLEAN, addr: Addrs]

Init == port = [state |-> "sIdle", awready |-> FALSE, wready |-> FALSE, bvalid |-> FALSE,
                arready |-> FALSE, rvalid |-> FALSE, addr |-> Addr0]
-----------------------------------------------------------------------------
(* Combinational outputs.                                                  *)

Bus(in) == [read    |-> in.rready /\ port.rvalid,
            write   |-> in.w # None /\ port.wready,
            addr    |-> port.addr,
            dataOut |-> in.w]

wready(ready) == port.wready /\ ready
rvalid(ready) == port.rvalid /\ ready
-----------------------------------------------------------------------------
(* One action per branch of the state machine.                             *)

(* Mutant: the read address wins the address register. *)
StartWrite_ReadAddress(in) ==
    /\ port.state = "sIdle"
    /\ in.aw # None
    /\ port' = [port EXCEPT !.state = "sWriteAddr", !.awready = TRUE,
                           !.addr = IF in.ar # None THEN in.ar ELSE in.aw]

StartWrite(in) ==
    /\ port.state = "sIdle"
    /\ in.aw # None
    /\ port' = [port EXCEPT !.state = "sWriteAddr", !.addr = in.aw, !.awready = TRUE]

(* Mutant: the read address is never acknowledged. *)
StartRead_NoReady(in) ==
    /\ port.state = "sIdle"
    /\ in.aw = None
    /\ in.ar # None
    /\ port' = [port EXCEPT !.state = "sReadAddr", !.addr = in.ar]

StartRead(in) ==
    /\ port.state = "sIdle"
    /\ in.aw = None
    /\ in.ar # None
    /\ port' = [port EXCEPT !.state = "sReadAddr", !.addr = in.ar, !.arready = TRUE]

(* Mutant: the port waits for rready before it takes the address. *)
ReadAddr_WaitsForReady(in) ==
    /\ port.state = "sReadAddr"
    /\ in.ar # None /\ port.arready /\ in.rready
    /\ port' = [port EXCEPT !.state = "sReadData", !.arready = FALSE, !.rvalid = TRUE]

ReadAddr(in) ==
    /\ port.state = "sReadAddr"
    /\ in.ar # None /\ port.arready
    /\ port' = [port EXCEPT !.state = "sReadData", !.arready = FALSE, !.rvalid = TRUE]

ReadData(in, ready) ==
    /\ port.state = "sReadData"
    /\ in.rready /\ rvalid(ready)
    /\ port' = [port EXCEPT !.state = "sIdle", !.rvalid = FALSE]

WriteAddr(in) ==
    /\ port.state = "sWriteAddr"
    /\ in.aw # None /\ port.awready
    /\ port' = [port EXCEPT !.state = "sWriteData", !.awready = FALSE, !.wready = TRUE]

WriteData(in, ready) ==
    /\ port.state = "sWriteData"
    /\ in.w # None /\ wready(ready)
    /\ port' = [port EXCEPT !.state = "sWriteResp", !.wready = FALSE, !.bvalid = TRUE]

WriteResp(in) ==
    /\ port.state = "sWriteResp"
    /\ in.bready /\ port.bvalid
    /\ port' = [port EXCEPT !.state = "sIdle", !.bvalid = FALSE]

(* No condition of the current state holds: the registers keep their values. *)
Hold(in, ready) ==
    /\ CASE port.state = "sIdle"      -> in.aw = None /\ in.ar = None
         [] port.state = "sReadAddr"  -> ~(in.ar # None /\ port.arready)
         [] port.state = "sReadData"  -> ~(in.rready /\ rvalid(ready))
         [] port.state = "sWriteAddr" -> ~(in.aw # None /\ port.awready)
         [] port.state = "sWriteData" -> ~(in.w # None /\ wready(ready))
         [] port.state = "sWriteResp" -> ~(in.bready /\ port.bvalid)
    /\ UNCHANGED port

Next(in, ready) ==
    \/ StartWrite(in)
    \/ StartRead(in)
    \/ ReadAddr(in)
    \/ ReadData(in, ready)
    \/ WriteAddr(in)
    \/ WriteData(in, ready)
    \/ WriteResp(in)
    \/ Hold(in, ready)
=============================================================================
