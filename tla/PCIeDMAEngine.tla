--------------------------- MODULE PCIeDMAEngine ---------------------------
(***************************************************************************)
(* The PCIe DMA engine behind the control registers (pcie_us_axi_dma,      *)
(* instantiated in rtl_top.v; its source is not part of the repository).   *)
(* Each direction has a table of operations.  It is ready for a descriptor *)
(* only when it is enabled and an entry is free, finishes what it has      *)
(* taken in any order, and keeps showing the tag of the operation it       *)
(* finished last.                                                          *)
(***************************************************************************)
EXTENDS Naturals

CONSTANTS Dirs, Slots, Tags, None

VARIABLES inflight,   \* inflight[d][s]: the tag in entry s, or None
          lastTag

EngineTypeOK == /\ inflight \in [Dirs -> [Slots -> Tags \cup {None}]]
                /\ lastTag \in [Dirs -> Tags]

Init == /\ inflight = [d \in Dirs |-> [s \in Slots |-> None]]
        /\ lastTag = [d \in Dirs |-> 0]

(* What the engine may do in one cycle: offer a free entry, when read      *)
(* enable and write enable, which are one wire, are up; finish one.        *)
Offers(enabled) == {e \in [Dirs -> Slots \cup {None}] :
                       \A d \in Dirs : e[d] # None => enabled /\ inflight[d][e[d]] = None}
Finishes == {e \in [Dirs -> Slots \cup {None}] :
                \A d \in Dirs : e[d] # None => inflight[d][e[d]] # None}

Ready(offer) == [d \in Dirs |-> offer[d] # None]
StatusValid(fin) == [d \in Dirs |-> fin[d] # None]
StatusTag(fin) == [d \in Dirs |-> IF fin[d] # None THEN inflight[d][fin[d]] ELSE lastTag[d]]

(* The edge at which the descriptor wires show valid and tag. *)
Next(offer, fin, valid, tag) ==
    /\ inflight' = [d \in Dirs |-> [s \in Slots |->
                       IF s = fin[d] THEN None
                       ELSE IF s = offer[d] /\ valid[d] THEN tag[d]
                       ELSE inflight[d][s]]]
    /\ lastTag' = StatusTag(fin)
=============================================================================
