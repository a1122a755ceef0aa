----------------------------- MODULE DMAEvents -----------------------------
(***************************************************************************)
(* What firmware and the DMA engine tell each other through the control    *)
(* registers: history variables on top of DMATop, and the properties that  *)
(* need them.                                                              *)
(***************************************************************************)
EXTENDS DMATop, FiniteSets

VARIABLES owed,      \* owed[d]: the descriptor rung and not yet taken, or None
          took,      \* took[d]: the descriptor taken at the last edge, or None
          unseen,    \* unseen[d]: an operation ended after the status was last sampled
          reported,  \* reported[d]: the last edge sampled a status that says done
          performed, \* how often the offers under way were carried out
          sampled    \* the word the last read carried out stands for

history == <<owed, took, unseen, reported, performed, sampled>>
allvars == <<vars, history>>

Takes(d, offer) == descValid[d] /\ offer[d] # None

Times(held, n, now) == (IF held = None THEN 0 ELSE n) + (IF now THEN 1 ELSE 0)

History(in, offer, fin) ==
    /\ owed' = [d \in Dirs |-> IF Doorbell(in, d) THEN desc'[d]
                               ELSE IF Takes(d, offer) THEN None ELSE owed[d]]
    /\ took' = [d \in Dirs |-> IF Takes(d, offer) THEN desc[d] ELSE None]
    /\ unseen' = [d \in Dirs |-> ~Sample(in, d) /\ (unseen[d] \/ fin[d] # None)]
    /\ reported' = [d \in Dirs |-> Sample(in, d) /\ irq[d]]
    /\ performed' = [wr |-> Times(sw.wr, performed.wr, WriteNow(in)),
                     ar |-> Times(sw.ar, performed.ar, ReadNow(in))]
    /\ sampled' = IF ReadNow(in) THEN Answer(in.ar, Engine!StatusTag(fin)) ELSE sampled

EventsInit ==
    /\ Init
    /\ owed = [d \in Dirs |-> None] /\ took = [d \in Dirs |-> None]
    /\ unseen = [d \in Dirs |-> FALSE] /\ reported = [d \in Dirs |-> FALSE]
    /\ performed = [wr |-> 0, ar |-> 0]
    /\ sampled = 0

EventsNext == \E in \in InWires, offer \in Offers, fin \in Engine!Finishes,
                 beats \in SUBSET Streams :
                  Edge(in, offer, fin, beats) /\ History(in, offer, fin)

EventsSpec == EventsInit /\ [][EventsNext]_allvars
-----------------------------------------------------------------------------
(* Every variable keeps its type.                                          *)
TypeOK ==
    /\ ControlTypeOK
    /\ Engine!EngineTypeOK
    /\ sw \in Master!Masters

(* An offer is carried out once, although the registers see it for two     *)
(* cycles, in the second of which it is acknowledged and may be answered   *)
(* too (rtl_top.v:593-617): whenever an offer is accepted, it has been     *)
(* carried out exactly once, that very edge included.                      *)
OncePerOffer ==
    [][/\ sw.wr # None /\ sw.wr' = None => performed'.wr = 1
       /\ sw.ar # None /\ sw.ar' = None => performed'.ar = 1]_allvars

(* What a descriptor's doorbell promises: until the engine takes the       *)
(* descriptor it stays on offer, and the engine takes what was rung, once. *)
HandedOver(d) ==
    /\ owed[d] # None => descValid[d]
    /\ took'[d] # None => took'[d] = owed[d]

(* It holds for the read direction, when firmware leaves a descriptor      *)
(* alone until it is reported done.                                        *)
ReadDescriptorHandedOver == [][HandedOver("read")]_allvars

(* The port called "AXI write descriptor input" (rtl_top.v:1750) promises  *)
(* the same, but the write descriptor is withdrawn when the read port is   *)
(* ready (rtl_top.v:610).                                                  *)
WriteDescriptorHandedOver == [][HandedOver("write")]_allvars

(* The status is sampled in one cycle and its flag cleared in the next     *)
(* (rtl_top.v:577-586): an operation that ends in between, or at any time  *)
(* after, is flagged until the status is sampled again.  One that ends in  *)
(* the cycle of the sample itself is not covered, see README.md.           *)
CompletionSticks == \A d \in Dirs : unseen[d] => irq[d]

(* And no completion is reported twice.                                    *)
ReportedOnce == [][\A d \in Dirs : reported'[d] => unseen[d]]_allvars

(* An AXI4-Lite read hands over the word the register had when the read    *)
(* was carried out, however late the master takes it.                      *)
ReadDataKept == [][sw'.got # None => sw'.got.word = sampled]_allvars

(* Firmware that waits for the completion of each read descriptor is told  *)
(* of its own: a status that says done comes after the descriptor was rung *)
(* and carries its tag.                                                    *)
OwnTagReported ==
    [][sw'.got # None /\ sw'.got.addr = Status("read") /\ sw'.got.word >= DoneBit
         => sw.busy["read"] /\ sw'.got.word = DoneBit + desc["read"]["tag"]]_allvars

(* A read descriptor was rung and firmware has not been told of its end.   *)
Bell == <<"read", "tag">>
Rung == sw.busy["read"] \/ (sw.wr # None /\ sw.wr.addr = Bell)

(* Of all this polite firmware sees a copy (DMACopy): what is in the       *)
(* registers, on the bus and in the engine's table is one stage of it, and *)
(* an edge is at most one step, the missing of an end included.            *)
Stage == IF ~Rung THEN "idle"
         ELSE IF owed["read"] # None THEN "rung"
         ELSE IF \E s \in Slots : inflight["read"][s] # None THEN "running"
         ELSE IF unseen["read"] THEN "ended"
         ELSE IF reported["read"] THEN "sampled" ELSE "missed"
ToldTag == IF sw.got # None /\ sw.got.addr = Status("read") /\ sw.got.word >= DoneBit
           THEN sw.got.word - DoneBit ELSE None
Copy == INSTANCE DMACopy WITH
    stage <- Stage, desc <- desc["read"], took <- took["read"], told <- ToldTag
DoesCopies == Copy!Spec
-----------------------------------------------------------------------------
(* Fairness: the clock goes on, and the engine sooner or later finishes    *)
(* what it has begun and, as long as it is enabled, is ready when it has a *)
(* free entry.  While it is not, Offers has no entry, no step takes a      *)
(* descriptor, and the fairness of such a step asks for nothing.           *)
Step(offers, fins) == \E in \in InWires, offer \in offers, fin \in fins, beats \in SUBSET Streams :
                          Edge(in, offer, fin, beats) /\ History(in, offer, fin)

FairSpec ==
    /\ EventsSpec
    /\ WF_allvars(EventsNext)
    /\ WF_allvars(Step({o \in Offers : o["read"] # None}, Engine!Finishes))
    /\ WF_allvars(Step(Offers, {f \in Engine!Finishes : f["read"] # None}))

(* A read descriptor that was rung is taken, whatever else firmware does,  *)
(* unless it disables the engine (rtl_top.v:1800): from any edge on at     *)
(* which the engine is enabled.                                            *)
ReadDescriptorTaken ==
    owed["read"] # None /\ enable ~> took["read"] # None \/ ~enable
=============================================================================
