----------------------------- MODULE DMAMaster -----------------------------
(***************************************************************************)
(* Firmware and the AXI4-Lite interconnect in front of the DMA registers   *)
(* (outside this repository).  An offer stays until it is accepted.        *)
(* Address and word of a write are offered together: the registers look at *)
(* a write only when both are there.  As they look at a channel only while *)
(* no answer is pending on it, the choice of an offer is put off until     *)
(* then.  A Patient master has rready up whenever an answer can come.  A   *)
(* Polite one leaves a descriptor alone from the doorbell to the report    *)
(* of its completion: nothing else tells it that the registers are free.   *)
(***************************************************************************)
EXTENDS Naturals

CONSTANTS Dirs, Fields, Data, Words, DoneBit, None, WriteAddrs, ReadAddrs, Patient, Polite

VARIABLE sw
(* wr, ar: offers not yet accepted; rd: the address of the read whose word *)
(* is awaited; got: address and word received at the last edge, or None;   *)
(* busy[d]: a descriptor of direction d was written and not reported done. *)

Writings == [addr: WriteAddrs, data: Data]
Received == [addr: ReadAddrs, word: Words]
Masters == [wr: Writings \cup {None}, ar: ReadAddrs \cup {None}, rd: ReadAddrs \cup {None},
            got: Received \cup {None}, busy: [Dirs -> BOOLEAN]]

Init == sw = [wr |-> None, ar |-> None, rd |-> None, got |-> None, busy |-> [d \in Dirs |-> FALSE]]

(* The writes this master may begin now. *)
Fresh == {x \in Writings : Polite => \A d \in Dirs, f \in Fields : x.addr = <<d, f>> => ~sw.busy[d]}

Keep(held, looks, fresh) ==
    IF held # None THEN {held} ELSE IF looks THEN fresh \cup {None} ELSE {None}

Wires(bvalid, rvalid) ==
    [wr: Keep(sw.wr, ~bvalid, Fresh),
     ar: Keep(sw.ar, ~rvalid, ReadAddrs),
     bready: IF bvalid THEN BOOLEAN ELSE {FALSE},
     rready: IF ~rvalid THEN {FALSE} ELSE IF Patient THEN {TRUE} ELSE BOOLEAN]

(* The edge at which the registers show ready, arready, rvalid and rdata.  *)
Next(in, ready, arready, rvalid, rdata) ==
    LET from  == IF in.ar # None /\ arready THEN in.ar ELSE sw.rd
        rDone == in.rready /\ rvalid
        Rings(d) == in.wr # None /\ ready /\ in.wr.addr = <<d, "tag">>
        Reported(d) == rDone /\ from = <<d, "status">> /\ rdata >= DoneBit
    IN  sw' = [wr   |-> IF ready THEN None ELSE in.wr,
               ar   |-> IF arready THEN None ELSE in.ar,
               rd   |-> IF rDone THEN None ELSE from,
               got  |-> IF rDone THEN [addr |-> from, word |-> rdata] ELSE None,
               busy |-> [d \in Dirs |-> Rings(d) \/ (sw.busy[d] /\ ~Reported(d))]]
=============================================================================
