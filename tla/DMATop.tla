------------------------------- MODULE DMATop -------------------------------
(***************************************************************************)
(* The DMA control registers between the firmware that writes descriptors  *)
(* and the PCIe DMA engine that carries them out.  One step is one clock   *)
(* edge.                                                                   *)
(***************************************************************************)
EXTENDS DMAControl

CONSTANTS Slots,                \* the entries of the engine's table
          WriteAddrs, ReadAddrs, Patient, Polite

VARIABLES sw, inflight, lastTag

vars == <<axil, desc, descValid, statusReady, irq, enable, count, sw, inflight, lastTag>>

Words == Nat
Engine == INSTANCE PCIeDMAEngine
Master == INSTANCE DMAMaster

ASSUME DMATopAssumption ==
    /\ DMAControlAssumption
    /\ None \notin Slots
    /\ None \notin Master!Writings /\ None \notin Master!Received
    /\ WriteAddrs \subseteq Addrs /\ ReadAddrs \subseteq Addrs
    /\ Patient \in BOOLEAN /\ Polite \in BOOLEAN

Init == ControlInit /\ Engine!Init /\ Master!Init

TagWires == [d \in Dirs |-> desc[d]["tag"]]

(* The clock edge of a cycle in which the master drives in, the engine     *)
(* offers a free entry per direction, finishes the entries fin and packets *)
(* end on the streams in beats.                                            *)
Edge(in, offer, fin, beats) ==
    /\ ControlNext(in, Engine!Ready(offer), Engine!StatusValid(fin), Engine!StatusTag(fin), beats)
    /\ Engine!Next(offer, fin, descValid, TagWires)
    /\ Master!Next(in, axil.ready, axil.arready, axil.rvalid, axil.rdata)

(* The enable register is the engine's read enable and write enable. *)
Offers == Engine!Offers(enable)
InWires == Master!Wires(axil.bvalid, axil.rvalid)

Next == \E in \in InWires, offer \in Offers, fin \in Engine!Finishes,
              beats \in SUBSET Streams : Edge(in, offer, fin, beats)

Spec == Init /\ [][Next]_vars
=============================================================================
