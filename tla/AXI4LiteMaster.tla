--------------------------- MODULE AXI4LiteMaster ---------------------------
(***************************************************************************)
(* The AXI4-Lite master in front of a port: the PCIe bridge on the host    *)
(* side, the processing system's interconnect on the controller side.  It  *)
(* is not part of this repository; what is assumed of it is the protocol   *)
(* rule that an offer, once made, stays until it is accepted.  A master    *)
(* may offer a write and a read together, offer data before or after the   *)
(* address, and raise and drop its ready wires as it likes; a Patient      *)
(* master keeps rready up until the data comes, as AxiLiteMasterBfm does.  *)
(*                                                                         *)
(* A port looks at a channel in one or two states only, and an offer it    *)
(* does not look at has no effect.  So the choice of an offer is put off   *)
(* to the first cycle in which the port looks at it: every behaviour of    *)
(* the port is still there, in far fewer states.                           *)
(***************************************************************************)
CONSTANTS Addrs, Data, None,
          Words,             \* what a read may return
          WriteAddrs, ReadAddrs, \* the registers this master writes and reads
          Patient            \* does it hold rready until it is served?

VARIABLE axi
(* aw, ar, w: offers made and not yet accepted; rready: was it up, and not *)
(* served, in the last cycle; addr: the address of the transaction whose   *)
(* address handshake is over, None when there is none; rdata: the word     *)
(* received at the last clock edge, None when there was none.              *)

Masters == [aw: WriteAddrs \cup {None}, ar: ReadAddrs \cup {None}, w: Data \cup {None},
            rready: BOOLEAN, addr: Addrs \cup {None}, rdata: Words \cup {None}]

Init == axi = [aw |-> None, ar |-> None, w |-> None, rready |-> FALSE,
               addr |-> None, rdata |-> None]

Keep(held, looks, fresh) ==
    IF held # None THEN {held} ELSE IF looks THEN fresh \cup {None} ELSE {None}

(* The wires the master may drive while the port is in the given state.    *)
Wires(state) ==
    [aw: Keep(axi.aw, state = "sIdle", WriteAddrs),
     ar: Keep(axi.ar, state = "sIdle", ReadAddrs),
     w: Keep(axi.w, state = "sWriteData", Data),
     rready: IF state # "sReadData" THEN {FALSE}
             ELSE IF Patient /\ axi.rready THEN {TRUE} ELSE BOOLEAN,
     bready: IF state = "sWriteResp" THEN BOOLEAN ELSE {FALSE}]

(* The clock edge at which the port showed the given ready and valid wires *)
(* and rdata.                                                              *)
Next(in, awready, arready, wready, rvalid, bvalid, rdata) ==
    LET awDone == in.aw # None /\ awready
        arDone == in.ar # None /\ arready
        wDone  == in.w # None /\ wready
        rDone  == in.rready /\ rvalid
        bDone  == in.bready /\ bvalid
    IN  axi' = [aw     |-> IF awDone THEN None ELSE in.aw,
                ar     |-> IF arDone THEN None ELSE in.ar,
                w      |-> IF wDone THEN None ELSE in.w,
                rready |-> in.rready /\ ~rDone,
                addr   |-> IF awDone THEN in.aw
                           ELSE IF arDone THEN in.ar
                           ELSE IF rDone \/ bDone THEN None ELSE axi.addr,
                rdata  |-> IF rDone THEN rdata ELSE None]
=============================================================================
