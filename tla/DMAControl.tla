----------------------------- MODULE DMAControl -----------------------------
(***************************************************************************)
(* The DMA control registers (hdl/rtl_top.v): an AXI4-Lite slave through   *)
(* which firmware hands descriptors to the PCIe DMA engine and learns that *)
(* they are done.  The read and the write direction have a descriptor, a   *)
(* status register and an interrupt flag each.                             *)
(*                                                                         *)
(* A register is a pair: Enable, <<d, f>> for field f of the descriptor of *)
(* direction d, Status(d), <<"count", s>>, or one that is not there.       *)
(***************************************************************************)
EXTENDS Naturals

CONSTANTS Fields,      \* of a descriptor: addresses, "len" and "tag"
          Size,        \* Size[f]: a register keeps a word modulo this
          Data,        \* the words a master writes
          DoneBit,     \* the top bit of a status word, above any tag
          Streams,     \* the PCIe streams whose packets are counted
          CountSize,   \* a packet counter wraps here
          Unmapped, None

Dirs == {"read", "write"}
Enable == <<"pcie", "enable">>
Status(d) == <<d, "status">>
Addrs == {Enable} \cup (Dirs \X (Fields \cup {"status"})) \cup ({"count"} \X Streams) \cup Unmapped

Tags == 0 .. Size["tag"] - 1
Descs == {x \in [Fields -> Nat] : \A f \in Fields : x[f] < Size[f]}

DMAControlAssumption ==
    /\ "tag" \in Fields /\ "status" \notin Fields
    /\ Size \in [Fields -> Nat \ {0}]
    /\ Data \subseteq Nat
    /\ DoneBit \in Nat /\ DoneBit >= Size["tag"]
    /\ CountSize \in Nat \ {0}
    /\ None \notin Addrs /\ None \notin Nat /\ None \notin Descs

VARIABLES axil,         \* ready: awready and wready, set together; bvalid, arready, rvalid, rdata
          desc, descValid,
          statusReady,  \* the status was sampled at the last edge
          irq, enable, count

ctlvars == <<axil, desc, descValid, statusReady, irq, enable, count>>

ControlTypeOK ==
    /\ axil \in [ready: BOOLEAN, bvalid: BOOLEAN, arready: BOOLEAN, rvalid: BOOLEAN, rdata: Nat]
    /\ desc \in [Dirs -> Descs]
    /\ descValid \in [Dirs -> BOOLEAN]
    /\ statusReady \in [Dirs -> BOOLEAN]
    /\ irq \in [Dirs -> BOOLEAN]
    /\ enable \in BOOLEAN
    /\ count \in [Streams -> 0 .. CountSize - 1]

ControlInit ==
    /\ axil = [ready |-> FALSE, bvalid |-> FALSE, arready |-> FALSE, rvalid |-> FALSE, rdata |-> 0]
    /\ desc = [d \in Dirs |-> [f \in Fields |-> 0]]
    /\ descValid = [d \in Dirs |-> FALSE]
    /\ statusReady = [d \in Dirs |-> FALSE]
    /\ irq = [d \in Dirs |-> FALSE]
    /\ enable = FALSE
    /\ count = [s \in Streams |-> 0]
-----------------------------------------------------------------------------
(* Mutant: a write is carried out as long as its offer is there. *)
WriteNow_Repeats(in) == in.wr # None /\ (axil.bvalid => in.bready)

(* A write is carried out when address and word are offered and no answer  *)
(* is pending; the handshake and the answer come a cycle later.            *)
WriteNow(in) == in.wr # None /\ ~axil.bvalid

ReadNow(in) == in.ar # None /\ ~axil.rvalid

Writes(in, a) == WriteNow(in) /\ in.wr.addr = a
Sample(in, d) == ReadNow(in) /\ in.ar = Status(d)

(* Mutant: any field of a descriptor rings. *)
Doorbell_AnyField(in, d) == \E f \in Fields : Writes(in, <<d, f>>)

(* The tag is written last: it is the doorbell. *)
Doorbell(in, d) == Writes(in, <<d, "tag">>)

(* What register a holds, tag being the engine's status wires. *)
Answer(a, tag) ==
    CASE a = Enable -> IF enable THEN 1 ELSE 0
      [] a = Status("read") -> tag["read"] + (IF irq["read"] THEN DoneBit ELSE 0)
      [] a = Status("write") -> tag["write"] + (IF irq["write"] THEN DoneBit ELSE 0)
      [] a \in {"count"} \X Streams -> count[a[2]]
      [] OTHER -> 0

(* Mutant: rvalid comes a cycle after the data. *)
Handshake_LateValid(in, tag) ==
    axil' = [ready   |-> WriteNow(in),
             bvalid  |-> WriteNow(in) \/ (axil.bvalid /\ ~in.bready),
             arready |-> ReadNow(in),
             rvalid  |-> axil.arready \/ (axil.rvalid /\ ~in.rready),
             rdata   |-> IF ReadNow(in) THEN Answer(in.ar, tag) ELSE 0]

(* The AXI4-Lite handshake registers.  rdata is loaded with the answer and *)
(* falls back to 0 at the next edge, whether it was taken or not.          *)
Handshake(in, tag) ==
    axil' = [ready   |-> WriteNow(in),
             bvalid  |-> WriteNow(in) \/ (axil.bvalid /\ ~in.bready),
             arready |-> ReadNow(in),
             rvalid  |-> ReadNow(in) \/ (axil.rvalid /\ ~in.rready),
             rdata   |-> IF ReadNow(in) THEN Answer(in.ar, tag) ELSE 0]

(* Mutant: the ready wire of the other port. *)
Cleared_ByWrite(d, ready) == ready["write"]

(* Mutant: the engine's ready wires are ignored. *)
Cleared_Never(d, ready) == FALSE

(* The wire that takes a pending descriptor back: for both directions it   *)
(* is the ready wire of the read descriptor port.                          *)
Cleared(d, ready) == ready["read"]

Descriptors(in, ready) ==
    /\ desc' = [d \in Dirs |-> [f \in Fields |->
                   IF Writes(in, <<d, f>>) THEN in.wr.data % Size[f] ELSE desc[d][f]]]
    /\ descValid' = [d \in Dirs |-> Doorbell(in, d) \/ (descValid[d] /\ ~Cleared(d, ready))]

(* Mutant: clearing goes before setting. *)
Flags_ClearFirst(in, done) ==
    /\ irq' = [d \in Dirs |-> (done[d] \/ irq[d]) /\ ~statusReady[d]]
    /\ statusReady' = [d \in Dirs |-> Sample(in, d)]

(* Mutant: a status read does not clear the flag. *)
Flags_NoClear(in, done) ==
    /\ irq' = [d \in Dirs |-> done[d] \/ irq[d]]
    /\ statusReady' = [d \in Dirs |-> Sample(in, d)]

(* A completion sets the flag; the cycle after a status read clears it.    *)
Flags(in, done) ==
    /\ irq' = [d \in Dirs |-> done[d] \/ (irq[d] /\ ~statusReady[d])]
    /\ statusReady' = [d \in Dirs |-> Sample(in, d)]

(* Mutant: a counter does not wrap. *)
Counters_NoWrap(beats) ==
    count' = [s \in Streams |-> IF s \in beats THEN count[s] + 1 ELSE count[s]]

Counters(beats) ==
    count' = [s \in Streams |-> IF s \in beats THEN (count[s] + 1) % CountSize ELSE count[s]]

(* The clock edge at which the master drives in, the engine shows ready,   *)
(* done and tag, and a packet ended on each of the streams in beats.       *)
ControlNext(in, ready, done, tag, beats) ==
    /\ Handshake(in, tag)
    /\ Descriptors(in, ready)
    /\ Flags(in, done)
    /\ enable' = IF Writes(in, Enable) THEN in.wr.data % 2 = 1 ELSE enable
    /\ Counters(beats)
=============================================================================
