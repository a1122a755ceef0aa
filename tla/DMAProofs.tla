------------------------------ MODULE DMAProofs ------------------------------
(***************************************************************************)
(* Proofs about the DMA control registers, for any descriptor fields, any  *)
(* table of the engine and any master.                                     *)
(***************************************************************************)
EXTENDS DMAEvents, TLAPS

(* The offers a master still holds after an edge are those the registers   *)
(* carried out at that edge, once, and acknowledge now.                    *)
InStep ==
    /\ (sw.wr # None) = axil.ready
    /\ axil.ready => axil.bvalid
    /\ (sw.ar # None) = axil.arready
    /\ axil.arready => axil.rvalid
    /\ axil.rvalid => axil.arready \/ sw.rd # None
    /\ sw.wr # None => performed.wr = 1
    /\ sw.ar # None => performed.ar = 1

(* The flag of a direction is what the history says, but for the cycle     *)
(* between the sample of the status and the clearing of the flag.          *)
FlagsExact ==
    \A d \in Dirs :
        /\ unseen[d] => irq[d]
        /\ irq[d] /\ ~statusReady[d] => unseen[d]
        /\ statusReady[d] => ~unseen[d] /\ axil.arready

(* The answer stands in rdata for the one cycle after it was loaded, which *)
(* is when a patient master takes it.                                      *)
AnswerStands ==
    /\ axil.arready => axil.rdata = sampled
    /\ Patient /\ axil.rvalid => axil.arready

HistoryTypeOK ==
    /\ owed \in [Dirs -> Descs \cup {None}]
    /\ unseen \in [Dirs -> BOOLEAN]

IInv == TypeOK /\ HistoryTypeOK /\ InStep /\ FlagsExact /\ AnswerStands
-----------------------------------------------------------------------------
(* What the assumptions on the constants come to.                          *)
LEMMA Constants ==
    /\ "tag" \in Fields /\ Size \in [Fields -> Nat \ {0}] /\ Data \subseteq Nat
    /\ DoneBit \in Nat /\ DoneBit >= Size["tag"] /\ CountSize \in Nat \ {0}
    /\ None \notin Addrs /\ None \notin Nat /\ None \notin Descs /\ None \notin Slots
    /\ None \notin Master!Writings /\ None \notin Master!Received
    /\ WriteAddrs \subseteq Addrs /\ ReadAddrs \subseteq Addrs
    /\ Patient \in BOOLEAN /\ Polite \in BOOLEAN
  BY DMATopAssumption DEF DMATopAssumption, DMAControlAssumption

(* What the master drives has the right type, and is what it held before   *)
(* if it held anything; it begins nothing while an answer is pending.      *)
LEMMA WiresOK ==
    ASSUME TypeOK, NEW in \in InWires
    PROVE  /\ in.wr \in Master!Writings \cup {None} /\ in.ar \in ReadAddrs \cup {None}
           /\ in.bready \in BOOLEAN /\ in.rready \in BOOLEAN
           /\ sw.wr # None => in.wr = sw.wr
           /\ sw.ar # None => in.ar = sw.ar
           /\ sw.wr = None /\ axil.bvalid => in.wr = None
           /\ sw.ar = None /\ axil.rvalid => in.ar = None
           /\ sw.wr = None => in.wr \in Master!Fresh \cup {None}
           /\ in.rready => axil.rvalid
           /\ Patient /\ axil.rvalid => in.rready
  BY DEF TypeOK, Master!Masters, InWires, Master!Wires, Master!Keep, Master!Fresh, ControlTypeOK

(* A register always reads as a number.                                    *)
LEMMA AnswerNat ==
    ASSUME TypeOK, NEW a \in Addrs, NEW tag \in [Dirs -> Tags]
    PROVE  Answer(a, tag) \in Nat
  <1> USE Constants DEF TypeOK, ControlTypeOK, Tags, Dirs
  <1>1. tag["read"] \in Nat /\ tag["write"] \in Nat
    OBVIOUS
  <1>2. a \in {"count"} \X Streams => count[a[2]] \in Nat
    OBVIOUS
  <1>3. QED
    BY <1>1, <1>2 DEF Answer

(* A status word says done exactly when the flag is up.                    *)
LEMMA StatusWord ==
    ASSUME TypeOK, NEW d \in Dirs, NEW tag \in [Dirs -> Tags]
    PROVE  /\ Answer(Status(d), tag) = tag[d] + (IF irq[d] THEN DoneBit ELSE 0)
           /\ Answer(Status(d), tag) >= DoneBit <=> irq[d]
  <1> USE Constants DEF TypeOK, ControlTypeOK, Tags, Dirs, Status, Enable
  <1>1. Answer(Status(d), tag) = tag[d] + (IF irq[d] THEN DoneBit ELSE 0)
    BY DEF Answer
  <1>2. tag[d] \in Nat /\ tag[d] < DoneBit
    OBVIOUS
  <1>3. QED
    BY <1>1, <1>2
-----------------------------------------------------------------------------
(* The engine's wires have the right types.                                *)
LEMMA EngineWires ==
    ASSUME TypeOK, NEW offer \in Offers, NEW fin \in Engine!Finishes
    PROVE  /\ offer \in [Dirs -> Slots \cup {None}] /\ fin \in [Dirs -> Slots \cup {None}]
           /\ \A d \in Dirs : offer[d] # None => inflight[d][offer[d]] = None
           /\ \A d \in Dirs : fin[d] # None => inflight[d][fin[d]] \in Tags
           /\ Engine!Ready(offer) = [d \in Dirs |-> offer[d] # None]
           /\ Engine!StatusValid(fin) = [d \in Dirs |-> fin[d] # None]
           /\ Engine!StatusTag(fin) \in [Dirs -> Tags]
  BY DEF TypeOK, Engine!EngineTypeOK, Offers, Engine!Offers, Engine!Finishes, Engine!Ready,
         Engine!StatusValid, Engine!StatusTag

(* A clock edge keeps the types.                                           *)
LEMMA EdgeTypeOK ==
    ASSUME TypeOK, InStep, NEW in \in InWires, NEW offer \in Offers,
           NEW fin \in Engine!Finishes, NEW beats \in SUBSET Streams,
           Edge(in, offer, fin, beats)
    PROVE  TypeOK'
  <1> DEFINE tag == Engine!StatusTag(fin)
  <1> USE Constants, WiresOK, EngineWires DEF Edge, ControlNext
  <1>1. ReadNow(in) => in.ar \in Addrs
    BY DEF ReadNow
  <1>2. axil' \in [ready: BOOLEAN, bvalid: BOOLEAN, arready: BOOLEAN, rvalid: BOOLEAN, rdata: Nat]
    <2>1. (IF ReadNow(in) THEN Answer(in.ar, tag) ELSE 0) \in Nat
      BY <1>1, AnswerNat
    <2>2. QED
      BY <2>1 DEF Handshake, WriteNow, ReadNow, TypeOK, ControlTypeOK
  <1>3. desc' \in [Dirs -> Descs] /\ descValid' \in [Dirs -> BOOLEAN]
    <2>1. \A f \in Fields : WriteNow(in) => in.wr.data % Size[f] \in 0 .. Size[f] - 1
      BY DEF WriteNow, Master!Writings
    <2>2. \A d \in Dirs, f \in Fields : desc[d][f] \in 0 .. Size[f] - 1
      BY DEF TypeOK, ControlTypeOK, Descs
    <2>3. \A d \in Dirs, f \in Fields :
             (IF Writes(in, <<d, f>>) THEN in.wr.data % Size[f] ELSE desc[d][f]) \in 0 .. Size[f] - 1
      BY <2>1, <2>2 DEF Writes
    <2>4. desc' \in [Dirs -> Descs]
      <3>1. ASSUME NEW d \in Dirs PROVE desc'[d] \in Descs
        <4>1. desc'[d] = [f \in Fields |->
                  IF Writes(in, <<d, f>>) THEN in.wr.data % Size[f] ELSE desc[d][f]]
          BY DEF Descriptors
        <4>2. desc'[d] \in [Fields -> Nat]
          BY <2>3, <4>1
        <4>3. \A f \in Fields : desc'[d][f] < Size[f]
          BY <2>3, <4>1
        <4>4. QED
          BY <4>2, <4>3 DEF Descs
      <3>2. QED
        BY <3>1 DEF Descriptors
    <2>5. descValid' \in [Dirs -> BOOLEAN]
      BY DEF Descriptors, Doorbell, Writes, WriteNow, TypeOK, ControlTypeOK
    <2>6. QED
      BY <2>4, <2>5
  <1>4. irq' \in [Dirs -> BOOLEAN] /\ statusReady' \in [Dirs -> BOOLEAN]
    BY DEF Flags, Sample, ReadNow, TypeOK, ControlTypeOK
  <1>5. enable' \in BOOLEAN
    BY DEF TypeOK, ControlTypeOK
  <1>6. count' \in [Streams -> 0 .. CountSize - 1]
    <2>1. \A s \in Streams : count[s] \in 0 .. CountSize - 1
      BY DEF TypeOK, ControlTypeOK
    <2>2. \A s \in Streams : (count[s] + 1) % CountSize \in 0 .. CountSize - 1
      BY <2>1
    <2>3. QED
      BY <2>1, <2>2 DEF Counters
  <1>7. Engine!EngineTypeOK'
    <2>1. \A d \in Dirs : TagWires[d] \in Tags
      BY DEF TagWires, TypeOK, ControlTypeOK, Descs, Tags
    <2>2. QED
      BY <2>1 DEF Engine!Next, Engine!EngineTypeOK, TypeOK
  <1>8. sw' \in Master!Masters
    <2>1. axil.rdata \in Nat /\ axil.ready \in BOOLEAN /\ axil.arready \in BOOLEAN
      BY DEF TypeOK, ControlTypeOK
    <2>2. sw.rd \in ReadAddrs \cup {None} /\ sw.busy \in [Dirs -> BOOLEAN]
      BY DEF TypeOK, Master!Masters
    <2>3. DEFINE from == IF in.ar # None /\ axil.arready THEN in.ar ELSE sw.rd
    <2>4. in.rready /\ axil.rvalid => from \in ReadAddrs
      BY <2>2 DEF InStep
    <2>5. (IF in.rready /\ axil.rvalid THEN [addr |-> from, word |-> axil.rdata] ELSE None)
              \in Master!Received \cup {None}
      BY <2>1, <2>4 DEF Master!Received, Words
    <2>6. from \in ReadAddrs \cup {None}
      BY <2>2
    <2>7. QED
      BY <2>1, <2>2, <2>5, <2>6 DEF Master!Next, Master!Masters
  <1>9. QED
    BY <1>2, <1>3, <1>4, <1>5, <1>6, <1>7, <1>8 DEF TypeOK, ControlTypeOK
-----------------------------------------------------------------------------
(* The strengthened invariant holds at the start.                          *)
LEMMA InitIInv == EventsInit => IInv
  <1> SUFFICES ASSUME EventsInit PROVE IInv
    OBVIOUS
  <1> USE Constants DEF EventsInit, Init, ControlInit, Engine!Init, Master!Init
  <1>1. ControlTypeOK
    <2>1. [f \in Fields |-> 0] \in Descs
      BY DEF Descs
    <2>2. desc \in [Dirs -> Descs]
      BY <2>1
    <2>3. count \in [Streams -> 0 .. CountSize - 1]
      OBVIOUS
    <2>4. QED
      BY <2>2, <2>3 DEF ControlTypeOK
  <1>2. Engine!EngineTypeOK
    BY DEF Engine!EngineTypeOK, Tags
  <1>3. sw \in Master!Masters
    BY DEF Master!Masters
  <1>4. HistoryTypeOK /\ InStep /\ FlagsExact /\ AnswerStands
    BY DEF HistoryTypeOK, InStep, FlagsExact, AnswerStands
  <1>5. QED
    BY <1>1, <1>2, <1>3, <1>4 DEF IInv, TypeOK

(* Every clock edge keeps it.                                              *)
LEMMA EdgeIInv ==
    ASSUME IInv, NEW in \in InWires, NEW offer \in Offers,
           NEW fin \in Engine!Finishes, NEW beats \in SUBSET Streams,
           Edge(in, offer, fin, beats), History(in, offer, fin)
    PROVE  IInv'
  <1> USE Constants, WiresOK, EngineWires DEF IInv
  <1>1. TypeOK'
    BY EdgeTypeOK
  <1>2. HistoryTypeOK'
    <2>1. desc' \in [Dirs -> Descs]
      BY <1>1 DEF TypeOK, ControlTypeOK
    <2>2. owed' \in [Dirs -> Descs \cup {None}]
      BY <2>1 DEF History, HistoryTypeOK
    <2>3. unseen' \in [Dirs -> BOOLEAN]
      BY DEF History, HistoryTypeOK, Sample, ReadNow
    <2>4. QED
      BY <2>2, <2>3 DEF HistoryTypeOK
  <1>3. InStep'
    <2> USE DEF Edge, ControlNext, Handshake, Master!Next, WriteNow, ReadNow, History, Times
    <2>1. axil.ready \in BOOLEAN /\ axil.bvalid \in BOOLEAN /\ axil.arready \in BOOLEAN
          /\ axil.rvalid \in BOOLEAN
      BY DEF TypeOK, ControlTypeOK
    <2>2. (sw.wr # None)' = axil'.ready /\ (axil'.ready => axil'.bvalid)
      BY <2>1 DEF InStep
    <2>3. (sw.ar # None)' = axil'.arready /\ (axil'.arready => axil'.rvalid)
      BY <2>1 DEF InStep
    <2>4. axil'.rvalid => axil'.arready \/ sw'.rd # None
      BY <2>1 DEF InStep
    <2>5. sw'.wr # None => performed'.wr = 1
      BY <2>1 DEF InStep
    <2>6. sw'.ar # None => performed'.ar = 1
      BY <2>1 DEF InStep
    <2>7. QED
      BY <2>2, <2>3, <2>4, <2>5, <2>6 DEF InStep
  <1>4. FlagsExact'
    <2>1. ASSUME NEW d \in Dirs
          PROVE  /\ irq'[d] <=> fin[d] # None \/ (irq[d] /\ ~statusReady[d])
                 /\ statusReady'[d] <=> Sample(in, d)
                 /\ unseen'[d] <=> ~Sample(in, d) /\ (unseen[d] \/ fin[d] # None)
      <3>1. Engine!StatusValid(fin)[d] <=> fin[d] # None
        BY DEF Engine!StatusValid
      <3>2. irq'[d] <=> fin[d] # None \/ (irq[d] /\ ~statusReady[d])
        BY <3>1, Zenon DEF Edge, ControlNext, Flags
      <3>3. statusReady'[d] <=> Sample(in, d)
        BY Zenon DEF Edge, ControlNext, Flags
      <3>4. unseen'[d] <=> ~Sample(in, d) /\ (unseen[d] \/ fin[d] # None)
        BY Zenon DEF History
      <3>5. QED
        BY <3>2, <3>3, <3>4
    <2>2. \A d \in Dirs : Sample(in, d) => axil'.arready /\ ~axil.arready
      BY DEF Sample, ReadNow, Edge, ControlNext, Handshake, InStep, TypeOK, ControlTypeOK
    <2>3. ASSUME NEW d \in Dirs
          PROVE  /\ unseen'[d] => irq'[d]
                 /\ irq'[d] /\ ~statusReady'[d] => unseen'[d]
                 /\ statusReady'[d] => ~unseen'[d] /\ axil'.arready
      BY <2>1, <2>2 DEF FlagsExact
    <2>4. QED
      BY <2>3 DEF FlagsExact
  <1>5. AnswerStands'
    BY DEF AnswerStands, Edge, ControlNext, Handshake, History, ReadNow, TypeOK, ControlTypeOK
  <1>6. QED
    BY <1>1, <1>2, <1>3, <1>4, <1>5

(* A step that changes nothing keeps it too.                               *)
LEMMA StutterIInv == IInv /\ UNCHANGED allvars => IInv'
  BY DEF IInv, TypeOK, ControlTypeOK, Engine!EngineTypeOK, HistoryTypeOK, InStep, FlagsExact,
         AnswerStands, allvars, vars, history

(* The strengthened invariant.                                             *)
THEOREM Invariance == EventsSpec => []IInv
  <1>1. IInv /\ [EventsNext]_allvars => IInv'
    BY EdgeIInv, StutterIInv DEF EventsNext
  <1>2. QED
    BY InitIInv, <1>1, PTL DEF EventsSpec

(* Every variable keeps its type; in particular no counter leaves its      *)
(* range and no descriptor register its width.                             *)
THEOREM TypeCorrect == EventsSpec => []TypeOK
  BY Invariance, PTL DEF IInv

(* A completion is flagged from the edge at which it comes until the       *)
(* status is sampled, unless it comes in the cycle of a sample.            *)
THEOREM CompletionsKept == EventsSpec => []CompletionSticks
  <1>1. IInv => CompletionSticks
    BY DEF IInv, FlagsExact, CompletionSticks
  <1>2. QED
    BY Invariance, <1>1, PTL
-----------------------------------------------------------------------------
(* No completion is reported twice: the flag outlives the sample by one    *)
(* cycle, in which the read channel is still taken.                        *)
THEOREM CompletionsReportedOnce == EventsSpec => ReportedOnce
  <1>1. ASSUME IInv, EventsNext PROVE \A d \in Dirs : reported'[d] => unseen[d]
    <2>1. PICK in \in InWires, offer \in Offers, fin \in Engine!Finishes,
               beats \in SUBSET Streams : Edge(in, offer, fin, beats) /\ History(in, offer, fin)
      BY <1>1 DEF EventsNext
    <2>2. \A d \in Dirs : Sample(in, d) => ~statusReady[d]
      BY <1>1 DEF IInv, FlagsExact, InStep, Sample, ReadNow
    <2>3. QED
      BY <1>1, <2>1, <2>2 DEF History, IInv, FlagsExact
  <1>2. IInv /\ [EventsNext]_allvars => [\A d \in Dirs : reported'[d] => unseen[d]]_allvars
    BY <1>1
  <1>3. QED
    BY Invariance, <1>2, PTL DEF EventsSpec, ReportedOnce

(* Every accepted offer is carried out exactly once.                       *)
THEOREM CarriedOutOnce == EventsSpec => OncePerOffer
  <1> DEFINE A == /\ sw.wr # None /\ sw.wr' = None => performed'.wr = 1
                  /\ sw.ar # None /\ sw.ar' = None => performed'.ar = 1
  <1>1. ASSUME IInv, EventsNext PROVE A
    <2>1. PICK in \in InWires, offer \in Offers, fin \in Engine!Finishes,
               beats \in SUBSET Streams : Edge(in, offer, fin, beats) /\ History(in, offer, fin)
      BY <1>1 DEF EventsNext
    <2>2. (sw.wr # None => ~WriteNow(in)) /\ (sw.ar # None => ~ReadNow(in))
      BY <1>1 DEF IInv, InStep, WriteNow, ReadNow
    <2>3. QED
      BY <1>1, <2>1, <2>2 DEF IInv, InStep, History, Times
  <1>2. IInv /\ [EventsNext]_allvars => [A]_allvars
    BY <1>1
  <1>3. QED
    BY Invariance, <1>2, PTL DEF EventsSpec, OncePerOffer

(* A patient master receives what the register held when it was read.      *)
THEOREM PatientReads == ASSUME Patient PROVE EventsSpec => ReadDataKept
  <1> DEFINE A == sw'.got # None => sw'.got.word = sampled
  <1>1. ASSUME IInv, EventsNext PROVE A
    <2>1. PICK in \in InWires, offer \in Offers, fin \in Engine!Finishes,
               beats \in SUBSET Streams : Edge(in, offer, fin, beats) /\ History(in, offer, fin)
      BY <1>1 DEF EventsNext
    <2>2. sw'.got # None => axil.rvalid /\ sw'.got.word = axil.rdata
      BY <2>1 DEF Edge, Master!Next
    <2>3. QED
      BY <1>1, <2>2, Patient DEF IInv, AnswerStands
  <1>2. IInv /\ [EventsNext]_allvars => [A]_allvars
    BY <1>1
  <1>3. QED
    BY Invariance, <1>2, PTL DEF EventsSpec, ReadDataKept
-----------------------------------------------------------------------------
(***************************************************************************)
(* What becomes of a read descriptor when firmware leaves it alone until   *)
(* it is reported done: it is rung, taken, under way, flagged, reported,   *)
(* and at any time in one of these stages only.                            *)
(***************************************************************************)

Tag == desc["read"]["tag"]
Running(s) == inflight["read"][s] # None

OwedStage ==
    /\ owed["read"] # None <=> descValid["read"]
    /\ owed["read"] # None => owed["read"] = desc["read"] /\ Rung

RunningStage ==
    \A s \in Slots : Running(s) =>
        /\ inflight["read"][s] = Tag
        /\ sw.busy["read"] /\ owed["read"] = None /\ ~irq["read"]
        /\ \A t \in Slots : Running(t) => t = s

FlaggedStage ==
    irq["read"] => /\ sw.busy["read"] /\ owed["read"] = None
                   /\ lastTag["read"] = Tag

(* The word that tells firmware stands for one cycle, the last of the flag. *)
ToldStage ==
    /\ axil.arready \/ axil.rdata = 0
    /\ sw.ar = Status("read") /\ axil.rdata >= DoneBit =>
           irq["read"] /\ statusReady["read"] /\ axil.rdata = DoneBit + Tag

StageInv == OwedStage /\ RunningStage /\ FlaggedStage /\ ToldStage
-----------------------------------------------------------------------------
(* At the start there is no descriptor.                                    *)
LEMMA InitStageInv == EventsInit => StageInv
  <1> SUFFICES ASSUME EventsInit PROVE StageInv
    OBVIOUS
  <1> USE Constants DEF EventsInit, Init, ControlInit, Engine!Init, Master!Init, Dirs
  <1>1. OwedStage /\ RunningStage /\ FlaggedStage
    BY DEF OwedStage, RunningStage, FlaggedStage, Running
  <1>2. Status("read") \in Addrs
    BY DEF Addrs, Status
  <1>3. ToldStage
    BY <1>2 DEF ToldStage
  <1>4. QED
    BY <1>1, <1>3 DEF StageInv

(* What the master sees at an edge: the end of its offer of the bell, and  *)
(* the word that says done.                                                *)
From(in) == IF in.ar # None /\ axil.arready THEN in.ar ELSE sw.rd
Told(in) == in.rready /\ axil.rvalid /\ From(in) = Status("read") /\ axil.rdata >= DoneBit
Rings(in) == in.wr # None /\ axil.ready /\ in.wr.addr = Bell

(* What a clock edge does to a read descriptor of polite firmware, and to  *)
(* what firmware knows of it.                                              *)
LEMMA EdgeOfRead ==
    ASSUME Polite, IInv, StageInv, NEW in \in InWires, NEW offer \in Offers,
           NEW fin \in Engine!Finishes, NEW beats \in SUBSET Streams,
           Edge(in, offer, fin, beats)
    PROVE  /\ offer["read"] \in Slots \cup {None} /\ fin["read"] \in Slots \cup {None}
           /\ offer["read"] # None => inflight["read"][offer["read"]] = None
           /\ fin["read"] # None => Running(fin["read"])
           /\ \A s \in Slots : inflight'["read"][s] =
                  IF s = fin["read"] THEN None
                  ELSE IF s = offer["read"] /\ descValid["read"] THEN Tag ELSE inflight["read"][s]
           /\ sw'.busy["read"] <=> Rings(in) \/ (sw.busy["read"] /\ ~Told(in))
           /\ irq'["read"] <=> fin["read"] # None \/ (irq["read"] /\ ~statusReady["read"])
           /\ \A f \in Fields : Writes(in, <<"read", f>>) => ~Rung /\ sw.wr = None
           /\ Rung => desc'["read"] = desc["read"] /\ ~Doorbell(in, "read")
           /\ Told(in) => irq["read"] /\ statusReady["read"] /\ axil.rdata = DoneBit + Tag
           /\ irq["read"] => fin["read"] = None
           /\ Rung /\ ~Told(in) => Rung' /\ sw'.busy["read"]
  <1> USE Constants, WiresOK, EngineWires DEF IInv, StageInv
  <1>d. "read" \in Dirs
    BY DEF Dirs
  <1>t. TypeOK
    OBVIOUS
  <1>o. /\ offer["read"] \in Slots \cup {None} /\ fin["read"] \in Slots \cup {None}
        /\ offer["read"] # None => inflight["read"][offer["read"]] = None
        /\ fin["read"] # None => Running(fin["read"])
    <2>1. \A d \in Dirs : fin[d] # None => inflight[d][fin[d]] \in Tags
      BY <1>t
    <2>2. None \notin Tags
      BY DEF Tags
    <2>3. fin["read"] # None => Running(fin["read"])
      BY <2>1, <2>2, <1>d DEF Running
    <2>4. QED
      BY <2>3, <1>d, <1>t
  <1>i. \A s \in Slots : inflight'["read"][s] =
            IF s = fin["read"] THEN None
            ELSE IF s = offer["read"] /\ descValid["read"] THEN Tag ELSE inflight["read"][s]
    BY <1>d DEF Edge, Engine!Next, TagWires, Tag
  <1>b. sw'.busy["read"] <=> Rings(in) \/ (sw.busy["read"] /\ ~Told(in))
    BY <1>d DEF Edge, Master!Next, Bell, Status, Told, From, Rings
  <1>f. irq'["read"] <=> fin["read"] # None \/ (irq["read"] /\ ~statusReady["read"])
    BY <1>d, Zenon DEF Edge, ControlNext, Flags, Engine!StatusValid
  (* While a descriptor is rung its registers are left alone. *)
  <1>1. ASSUME NEW f \in Fields, Writes(in, <<"read", f>>) PROVE ~Rung /\ sw.wr = None
    <2>1. sw.wr = None /\ in.wr \in Master!Fresh
      BY <1>1, <1>t DEF Writes, WriteNow, InStep
    <2>2. ~sw.busy["read"]
      BY <1>1, <2>1, <1>d, Polite DEF Master!Fresh, Writes
    <2>3. QED
      BY <2>1, <2>2 DEF Rung
  <1>2. Rung => desc'["read"] = desc["read"] /\ ~Doorbell(in, "read")
    <2>1. Rung => \A f \in Fields : ~Writes(in, <<"read", f>>)
      BY <1>1
    <2>2. desc'["read"] = [f \in Fields |->
              IF Writes(in, <<"read", f>>) THEN in.wr.data % Size[f] ELSE desc["read"][f]]
      BY <1>d DEF Edge, ControlNext, Descriptors
    <2>3. desc["read"] \in [Fields -> Nat]
      BY <1>d DEF TypeOK, ControlTypeOK, Descs
    <2>4. QED
      BY <2>1, <2>2, <2>3 DEF Doorbell
  (* The word that says done comes when the flag is up, for the last time. *)
  <1>3. Told(in) => irq["read"] /\ statusReady["read"] /\ axil.rdata = DoneBit + Tag
    <2>1. Told(in) => axil.rdata # 0
      BY DEF TypeOK, ControlTypeOK, Told
    <2>2. Told(in) => sw.ar = Status("read")
      BY <1>t, <2>1 DEF ToldStage, InStep, Told, From
    <2>3. QED
      BY <2>2 DEF ToldStage, Told
  <1>4. \A s \in Slots : Running(s) => ~irq["read"]
    BY DEF RunningStage
  <1>5. irq["read"] => fin["read"] = None
    BY <1>4, <1>o
  (* What is rung stays so until firmware is told. *)
  <1>6. Rung /\ ~Told(in) => Rung' /\ sw'.busy["read"]
    <2>1. sw.wr # None => in.wr = sw.wr /\ axil.ready
      BY <1>t DEF InStep
    <2>2. QED
      BY <2>1, <1>b DEF Rung, Rings
  <1>7. QED
    BY <1>o, <1>i, <1>b, <1>f, <1>1, <1>2, <1>3, <1>5, <1>6

(* Every clock edge keeps the stages apart, if firmware is polite.         *)
LEMMA EdgeStageInv ==
    ASSUME Polite, IInv, IInv', StageInv, NEW in \in InWires, NEW offer \in Offers,
           NEW fin \in Engine!Finishes, NEW beats \in SUBSET Streams,
           Edge(in, offer, fin, beats), History(in, offer, fin)
    PROVE  StageInv'
  <1> USE Constants, WiresOK, EngineWires DEF IInv, StageInv
  <1>d. "read" \in Dirs
    BY DEF Dirs
  <1>t. TypeOK
    OBVIOUS
  <1>e. /\ offer["read"] \in Slots \cup {None} /\ fin["read"] \in Slots \cup {None}
        /\ offer["read"] # None => inflight["read"][offer["read"]] = None
        /\ fin["read"] # None => Running(fin["read"])
        /\ \A s \in Slots : inflight'["read"][s] =
               IF s = fin["read"] THEN None
               ELSE IF s = offer["read"] /\ descValid["read"] THEN Tag ELSE inflight["read"][s]
        /\ sw'.busy["read"] <=> Rings(in) \/ (sw.busy["read"] /\ ~Told(in))
        /\ irq'["read"] <=> fin["read"] # None \/ (irq["read"] /\ ~statusReady["read"])
        /\ \A f \in Fields : Writes(in, <<"read", f>>) => ~Rung /\ sw.wr = None
        /\ Rung => desc'["read"] = desc["read"] /\ ~Doorbell(in, "read")
        /\ Told(in) => irq["read"] /\ statusReady["read"] /\ axil.rdata = DoneBit + Tag
        /\ irq["read"] => fin["read"] = None
        /\ Rung /\ ~Told(in) => Rung' /\ sw'.busy["read"]
    BY EdgeOfRead
  <1>7. OwedStage'
    <2>1. owed'["read"] = IF Doorbell(in, "read") THEN desc'["read"]
                          ELSE IF Takes("read", offer) THEN None ELSE owed["read"]
      BY <1>d DEF History
    <2>2. descValid'["read"] <=> Doorbell(in, "read") \/ (descValid["read"] /\ offer["read"] = None)
      BY <1>d, Zenon DEF Edge, ControlNext, Descriptors, Cleared, Engine!Ready
    <2>3. desc'["read"] # None
      BY <1>d DEF TypeOK, ControlTypeOK
    <2>4. owed'["read"] # None <=> descValid'["read"]
      BY <2>1, <2>2, <2>3 DEF Takes, OwedStage
    <2>5. CASE Doorbell(in, "read")
      <3>1. sw'.wr = in.wr /\ in.wr # None /\ in.wr.addr = Bell
        BY <2>5, <1>t DEF Doorbell, Writes, WriteNow, InStep, Edge, Master!Next, Bell
      <3>2. QED
        BY <2>1, <2>4, <2>5, <3>1 DEF OwedStage, Rung
    <2>6. CASE ~Doorbell(in, "read")
      <3>1. owed'["read"] # None => owed["read"] # None /\ owed'["read"] = owed["read"]
        BY <2>1, <2>6
      <3>2. owed["read"] # None => Rung /\ ~Told(in)
        BY <1>e DEF OwedStage, FlaggedStage
      <3>3. QED
        BY <2>4, <3>1, <3>2, <1>e DEF OwedStage
    <2>7. QED
      BY <2>5, <2>6
  <1>8. RunningStage'
    <2>1. SUFFICES ASSUME NEW s \in Slots, Running(s)'
          PROVE  /\ inflight'["read"][s] = Tag' /\ sw'.busy["read"]
                 /\ owed'["read"] = None /\ ~irq'["read"]
                 /\ \A t \in Slots : Running(t)' => t = s
      BY DEF RunningStage
    <2>2. owed'["read"] = IF Doorbell(in, "read") THEN desc'["read"]
                          ELSE IF Takes("read", offer) THEN None ELSE owed["read"]
      BY <1>d DEF History
    <2>3. CASE Running(s)
      <3>1. Rung /\ ~Told(in) /\ owed["read"] = None /\ ~descValid["read"] /\ ~irq["read"]
        BY <2>3, <1>e DEF RunningStage, OwedStage, Rung
      <3>2. s # fin["read"] /\ inflight'["read"][s] = inflight["read"][s]
        BY <2>1, <2>3, <3>1, <1>e DEF Running
      <3>3. fin["read"] = None
        BY <2>3, <3>2, <1>e DEF RunningStage
      <3>4. \A t \in Slots : Running(t)' => Running(t)
        BY <3>1, <1>e DEF Running
      <3>5. QED
        BY <2>2, <2>3, <3>1, <3>2, <3>3, <3>4, <1>e DEF RunningStage, Tag, Takes
    <2>4. CASE ~Running(s)
      <3>1. s = offer["read"] /\ descValid["read"] /\ inflight'["read"][s] = Tag
        BY <2>1, <2>4, <1>e DEF Running
      <3>2. Takes("read", offer) /\ owed["read"] # None /\ Rung
        BY <3>1 DEF Takes, OwedStage
      <3>3. ~irq["read"] /\ ~Told(in) /\ \A t \in Slots : ~Running(t)
        BY <3>2, <1>e DEF FlaggedStage, RunningStage
      <3>4. fin["read"] = None
        BY <3>3, <1>e
      <3>5. \A t \in Slots : Running(t)' => t = s
        BY <3>1, <3>3, <1>e DEF Running
      <3>6. QED
        BY <2>2, <3>1, <3>2, <3>3, <3>4, <3>5, <1>e DEF Tag
    <2>5. QED
      BY <2>3, <2>4
  <1>9. FlaggedStage'
    <2>1. owed'["read"] = IF Doorbell(in, "read") THEN desc'["read"]
                          ELSE IF Takes("read", offer) THEN None ELSE owed["read"]
      BY <1>d DEF History
    <2>2. lastTag'["read"] = IF fin["read"] # None THEN inflight["read"][fin["read"]] ELSE lastTag["read"]
      BY <1>d DEF Edge, Engine!Next, Engine!StatusTag
    <2>3. CASE fin["read"] # None
      <3>1. fin["read"] \in Slots /\ Running(fin["read"])
        BY <2>3, <1>e
      <3>2. Rung /\ ~Told(in) /\ owed["read"] = None /\ inflight["read"][fin["read"]] = Tag
        BY <3>1, <1>e DEF RunningStage, Rung
      <3>3. QED
        BY <2>1, <2>2, <2>3, <3>2, <1>e DEF FlaggedStage, Tag
    <2>4. CASE fin["read"] = None /\ irq["read"] /\ ~statusReady["read"]
      <3>1. Rung /\ ~Told(in) /\ owed["read"] = None /\ lastTag["read"] = Tag
        BY <2>4, <1>e DEF FlaggedStage, Rung
      <3>2. QED
        BY <2>1, <2>2, <2>4, <3>1, <1>e DEF FlaggedStage, Tag
    <2>5. QED
      BY <2>3, <2>4, <1>e DEF FlaggedStage
  <1>10. ToldStage'
    <2>1. axil'.arready = ReadNow(in)
          /\ axil'.rdata = IF ReadNow(in) THEN Answer(in.ar, Engine!StatusTag(fin)) ELSE 0
      BY DEF Edge, ControlNext, Handshake
    <2>2. axil'.arready \/ axil'.rdata = 0
      BY <2>1
    <2>3. ASSUME sw'.ar = Status("read"), axil'.rdata >= DoneBit
          PROVE  irq'["read"] /\ statusReady'["read"] /\ axil'.rdata = DoneBit + Tag'
      <3>1. ReadNow(in) /\ in.ar = Status("read")
        <4>1. Status("read") # None
          BY <1>d DEF Addrs, Status
        <4>2. ReadNow(in)
          BY <2>3, <4>1, <2>1 DEF InStep
        <4>3. ~axil.arready
          BY <4>2, <1>t DEF InStep, ReadNow
        <4>4. QED
          BY <2>3, <4>2, <4>3 DEF Edge, Master!Next
      <3>2. Engine!StatusTag(fin) \in [Dirs -> Tags]
        BY <1>t
      <3>3. irq["read"] /\ axil'.rdata = Engine!StatusTag(fin)["read"] + DoneBit
        BY <2>1, <2>3, <3>1, <3>2, <1>d, StatusWord
      <3>4. Engine!StatusTag(fin)["read"] = Tag
        BY <3>3, <1>e, <1>d DEF Engine!StatusTag, FlaggedStage
      <3>5. ~statusReady["read"]
        BY <3>1, <1>d DEF FlagsExact, InStep, ReadNow
      <3>6. statusReady'["read"]
        BY <3>1, <1>d DEF Edge, ControlNext, Flags, Sample
      <3>7. Tag' = Tag
        BY <3>3, <1>e DEF FlaggedStage, Rung, Tag
      <3>8. Tag \in Nat
        BY <1>d DEF TypeOK, ControlTypeOK, Descs, Tag
      <3>9. QED
        BY <3>3, <3>4, <3>5, <3>6, <3>7, <3>8, <1>e
    <2>4. QED
      BY <2>2, <2>3 DEF ToldStage
  <1>11. QED
    BY <1>7, <1>8, <1>9, <1>10

(* Polite firmware keeps the stages of a read descriptor apart.            *)
THEOREM Stages == ASSUME Polite PROVE EventsSpec => []StageInv
  <1>1. ASSUME IInv, IInv', StageInv, [EventsNext]_allvars PROVE StageInv'
    <2>1. CASE EventsNext
      BY <1>1, <2>1, EdgeStageInv, Polite DEF EventsNext
    <2>2. CASE UNCHANGED allvars
      BY <1>1, <2>2 DEF StageInv, OwedStage, RunningStage, FlaggedStage, ToldStage, Running, Rung,
         Tag, allvars, vars, history
    <2>3. QED
      BY <1>1, <2>1, <2>2
  <1>2. IInv /\ IInv' /\ StageInv /\ [EventsNext]_allvars => StageInv'
    BY <1>1
  <1>3. QED
    BY InitStageInv, Invariance, <1>2, PTL DEF EventsSpec

(* A read descriptor that was rung stays on offer until the engine takes   *)
(* it, and the engine takes what was rung, once.                           *)
THEOREM ReadDescriptors == ASSUME Polite PROVE EventsSpec => ReadDescriptorHandedOver
  <1>1. ASSUME StageInv, EventsNext PROVE HandedOver("read")
    <2>1. PICK in \in InWires, offer \in Offers, fin \in Engine!Finishes,
               beats \in SUBSET Streams : Edge(in, offer, fin, beats) /\ History(in, offer, fin)
      BY <1>1 DEF EventsNext
    <2>2. took'["read"] # None => descValid["read"] /\ took'["read"] = desc["read"]
      BY <2>1 DEF History, Dirs, Takes
    <2>3. QED
      BY <1>1, <2>2 DEF HandedOver, StageInv, OwedStage
  <1>2. StageInv /\ [EventsNext]_allvars => [HandedOver("read")]_allvars
    BY <1>1
  <1>3. QED
    BY Stages, Polite, <1>2, PTL DEF EventsSpec, ReadDescriptorHandedOver

(* Firmware is told of its own read descriptor, and of its tag.            *)
THEOREM OwnCompletion == ASSUME Polite PROVE EventsSpec => OwnTagReported
  <1> DEFINE A == sw'.got # None /\ sw'.got.addr = Status("read") /\ sw'.got.word >= DoneBit
                    => sw.busy["read"] /\ sw'.got.word = DoneBit + desc["read"]["tag"]
  <1>1. ASSUME IInv, StageInv, EventsNext PROVE A
    <2>1. PICK in \in InWires, offer \in Offers, fin \in Engine!Finishes,
               beats \in SUBSET Streams : Edge(in, offer, fin, beats) /\ History(in, offer, fin)
      BY <1>1 DEF EventsNext
    <2> DEFINE from == IF in.ar # None /\ axil.arready THEN in.ar ELSE sw.rd
    <2>2. sw'.got # None => in.rready /\ axil.rvalid /\ sw'.got = [addr |-> from, word |-> axil.rdata]
      BY <2>1 DEF Edge, Master!Next
    <2>3. SUFFICES ASSUME sw'.got # None, from = Status("read"), axil.rdata >= DoneBit
                   PROVE  sw.busy["read"] /\ axil.rdata = DoneBit + Tag
      BY <2>2 DEF Tag
    <2>4. axil.rdata # 0
      BY <1>1, <2>3, Constants DEF IInv, TypeOK, ControlTypeOK
    <2>5. sw.ar = Status("read")
      BY <1>1, <2>1, <2>3, <2>4, WiresOK DEF IInv, InStep, StageInv, ToldStage
    <2>6. QED
      BY <1>1, <2>3, <2>5 DEF StageInv, ToldStage, FlaggedStage
  <1>2. IInv /\ StageInv /\ [EventsNext]_allvars => [A]_allvars
    BY <1>1
  <1>3. QED
    BY Stages, Invariance, Polite, <1>2, PTL DEF EventsSpec, OwnTagReported
-----------------------------------------------------------------------------
(***************************************************************************)
(* The refinement of DMACopy.                                              *)
(***************************************************************************)

(* The word that says done stands in the cycle after the sample, and then  *)
(* only.  The bell is rung before the master counts itself busy.           *)
SampledStage ==
    /\ reported["read"] \in BOOLEAN
    /\ reported["read"] => sw.ar = Status("read") /\ axil.rdata >= DoneBit
    /\ sw.ar = Status("read") /\ axil.rdata >= DoneBit => reported["read"]
    /\ sw.busy["read"] => ~(sw.wr # None /\ sw.wr.addr = Bell)

CopyInv == IInv /\ StageInv /\ SampledStage

LEMMA InitCopy == EventsInit => SampledStage /\ Copy!Init
  <1> SUFFICES ASSUME EventsInit PROVE SampledStage /\ Copy!Init
    OBVIOUS
  <1> USE Constants DEF EventsInit, Init, ControlInit, Engine!Init, Master!Init, Dirs
  <1>1. Status("read") \in Addrs
    BY DEF Addrs, Status
  <1>2. SampledStage
    BY <1>1 DEF SampledStage
  <1>3. Copy!Init
    BY DEF Copy!Init, Stage, ToldTag, Rung
  <1>4. QED
    BY <1>2, <1>3

(* What an edge does to the words on their way, and to the history.        *)
LEMMA EdgeOfHistory ==
    ASSUME Polite, CopyInv, NEW in \in InWires, NEW offer \in Offers,
           NEW fin \in Engine!Finishes, NEW beats \in SUBSET Streams,
           Edge(in, offer, fin, beats), History(in, offer, fin)
    PROVE  /\ Told(in) <=> reported["read"] /\ in.rready
           /\ ToldTag' = IF Told(in) THEN Tag ELSE None
           /\ took'["read"] = IF owed["read"] # None /\ offer["read"] # None THEN desc["read"] ELSE None
           /\ owed'["read"] = IF Doorbell(in, "read") THEN desc'["read"]
                              ELSE IF offer["read"] # None THEN None ELSE owed["read"]
           /\ unseen'["read"] <=> ~Sample(in, "read") /\ (unseen["read"] \/ fin["read"] # None)
           /\ reported'["read"] <=> Sample(in, "read") /\ irq["read"]
           /\ reported'["read"] => unseen["read"]
           /\ unseen["read"] => irq["read"] /\ ~statusReady["read"]
  <1> USE Constants, WiresOK, EngineWires DEF CopyInv, IInv, StageInv
  <1>d. "read" \in Dirs
    BY DEF Dirs
  <1>t. TypeOK
    OBVIOUS
  <1>1. Told(in) <=> reported["read"] /\ in.rready
    <2>1. Told(in) => axil.rdata # 0
      BY DEF TypeOK, ControlTypeOK, Told
    <2>2. Told(in) => sw.ar = Status("read")
      BY <1>t, <2>1 DEF ToldStage, InStep, Told, From
    <2>3. Told(in) => reported["read"] /\ in.rready
      BY <2>2 DEF SampledStage, Told
    <2>4. reported["read"] => axil.rdata # 0 /\ sw.ar = Status("read") /\ Status("read") # None
      BY <1>d DEF SampledStage, Addrs, Status, TypeOK, ControlTypeOK
    <2>5. reported["read"] => axil.arready /\ axil.rvalid /\ in.ar = Status("read")
      BY <1>t, <2>4 DEF ToldStage, InStep
    <2>6. reported["read"] /\ in.rready => Told(in)
      BY <2>4, <2>5 DEF SampledStage, Told, From
    <2>7. QED
      BY <2>3, <2>6
  <1>2. ToldTag' = IF Told(in) THEN Tag ELSE None
    <2>1. sw'.got = IF in.rready /\ axil.rvalid THEN [addr |-> From(in), word |-> axil.rdata] ELSE None
      BY DEF Edge, Master!Next, From
    <2>2. in.rready /\ axil.rvalid => sw'.got # None
      <3>1. in.rready /\ axil.rvalid => From(in) \in ReadAddrs
        BY <1>t DEF InStep, From, TypeOK, Master!Masters
      <3>2. axil.rdata \in Nat
        BY DEF TypeOK, ControlTypeOK
      <3>3. in.rready /\ axil.rvalid => [addr |-> From(in), word |-> axil.rdata] \in Master!Received
        BY <3>1, <3>2 DEF Master!Received, Words
      <3>4. QED
        BY <2>1, <3>3
    <2>3. Told(in) => axil.rdata = DoneBit + Tag
      BY EdgeOfRead
    <2>4. (DoneBit + Tag) - DoneBit = Tag
      BY <1>d DEF TypeOK, ControlTypeOK, Descs, Tag
    <2>5. Status("read")' = Status("read")
      BY DEF Status
    <2>6. ToldTag' = IF /\ sw'.got # None /\ sw'.got.addr = Status("read")
                        /\ sw'.got.word >= DoneBit
                     THEN sw'.got.word - DoneBit ELSE None
      BY <2>5 DEF ToldTag
    <2>7. CASE in.rready /\ axil.rvalid
      <3>1. sw'.got # None /\ sw'.got.addr = From(in) /\ sw'.got.word = axil.rdata
        BY <2>1, <2>2, <2>7
      <3>2. Told(in) <=> sw'.got.addr = Status("read") /\ sw'.got.word >= DoneBit
        BY <2>7, <3>1 DEF Told
      <3>3. Told(in) => sw'.got.word - DoneBit = Tag
        BY <2>3, <2>4, <3>1
      <3>4. QED
        BY <2>6, <3>1, <3>2, <3>3, Zenon
    <2>8. CASE ~(in.rready /\ axil.rvalid)
      BY <2>1, <2>6, <2>8 DEF Told
    <2>9. QED
      BY <2>7, <2>8
  <1>3. took'["read"] = IF owed["read"] # None /\ offer["read"] # None THEN desc["read"] ELSE None
    BY <1>d DEF History, Takes, OwedStage
  <1>4. owed'["read"] = IF Doorbell(in, "read") THEN desc'["read"]
                        ELSE IF offer["read"] # None THEN None ELSE owed["read"]
    BY <1>d DEF History, Takes, OwedStage
  <1>5. unseen'["read"] <=> ~Sample(in, "read") /\ (unseen["read"] \/ fin["read"] # None)
    BY <1>d, Zenon DEF History
  <1>6. reported'["read"] <=> Sample(in, "read") /\ irq["read"]
    BY <1>d, Zenon DEF History
  <1>7. Sample(in, "read") => ~statusReady["read"]
    BY <1>d DEF Sample, ReadNow, FlagsExact, InStep
  <1>8. reported'["read"] => unseen["read"]
    BY <1>6, <1>7, <1>d DEF FlagsExact
  <1>9. unseen["read"] => irq["read"] /\ ~statusReady["read"]
    BY <1>d DEF FlagsExact
  <1>10. QED
    BY <1>1, <1>2, <1>3, <1>4, <1>5, <1>6, <1>8, <1>9

(* The registers and the master keep in step.                              *)
LEMMA EdgeSampled ==
    ASSUME Polite, CopyInv, NEW in \in InWires, NEW offer \in Offers,
           NEW fin \in Engine!Finishes, NEW beats \in SUBSET Streams,
           Edge(in, offer, fin, beats), History(in, offer, fin)
    PROVE  SampledStage'
  <1> USE Constants, WiresOK, EngineWires DEF CopyInv, IInv, StageInv
  <1>d. "read" \in Dirs
    BY DEF Dirs
  <1>t. TypeOK
    OBVIOUS
  <1>s. Status("read")' = Status("read") /\ Status("read") # None
    BY <1>d DEF Status, Addrs
  <1>1. reported'["read"] \in BOOLEAN /\ (reported'["read"] <=> Sample(in, "read") /\ irq["read"])
    BY <1>d DEF History, Sample, ReadNow
  <1>2. sw'.ar = Status("read") <=> Sample(in, "read")
    BY <1>t, <1>s DEF Edge, Master!Next, Sample, ReadNow, InStep
  <1>3. Sample(in, "read") =>
            axil'.rdata = Answer(Status("read"), Engine!StatusTag(fin))
    BY DEF Edge, ControlNext, Handshake, Sample
  <1>4. Answer(Status("read"), Engine!StatusTag(fin)) >= DoneBit <=> irq["read"]
    BY <1>d, <1>t, StatusWord
  <1>5. sw'.busy["read"] => ~(sw'.wr # None /\ sw'.wr.addr = Bell)
    <2>1. SUFFICES ASSUME sw'.wr # None, sw'.wr.addr = Bell PROVE ~sw'.busy["read"]
      OBVIOUS
    <2>2. ~axil.ready /\ sw'.wr = in.wr
      BY <2>1 DEF Edge, Master!Next
    <2>3. Doorbell(in, "read")
      BY <1>t, <2>1, <2>2 DEF InStep, Doorbell, Writes, WriteNow, Bell
    <2>4. ~sw.busy["read"]
      BY <2>3, EdgeOfRead DEF Rung
    <2>5. QED
      BY <2>2, <2>4, EdgeOfRead DEF Rings
  <1>6. QED
    BY <1>s, <1>1, <1>2, <1>3, <1>4, <1>5 DEF SampledStage

(* While no copy is rung, the read descriptor is set field by field.       *)
LEMMA IdleMoves ==
    ASSUME Polite, CopyInv, CopyInv', ~Rung, NEW in \in InWires, NEW offer \in Offers,
           NEW fin \in Engine!Finishes, NEW beats \in SUBSET Streams,
           Edge(in, offer, fin, beats), History(in, offer, fin)
    PROVE  /\ took'["read"] = None /\ ToldTag' = None
           /\ \/ /\ desc'["read"] = desc["read"] /\ Stage' = "idle"
              \/ \E f \in Fields : \E w \in 0 .. Size[f] - 1 :
                     /\ desc'["read"] = [desc["read"] EXCEPT ![f] = w]
                     /\ Stage' = IF f = "tag" THEN "rung" ELSE "idle"
  <1> USE Constants, WiresOK DEF CopyInv, IInv, StageInv
  <1>d. "read" \in Dirs
    BY DEF Dirs
  <1>t. TypeOK
    OBVIOUS
  <1>w. \A f \in Fields : WriteNow(in) => in.wr.data % Size[f] \in 0 .. Size[f] - 1
    <2>1. WriteNow(in) => in.wr.data \in Nat
      BY <1>t DEF WriteNow, Master!Writings
    <2>2. \A f \in Fields : Size[f] \in Nat \ {0}
      OBVIOUS
    <2>3. QED
      BY <2>1, <2>2
  <1>1. ~Told(in) /\ owed["read"] = None
    BY EdgeOfRead DEF FlaggedStage, OwedStage, Rung
  <1>2. took'["read"] = None /\ ToldTag' = None
    BY <1>1, EdgeOfHistory
  <1>3. desc'["read"] = [f \in Fields |->
            IF Writes(in, <<"read", f>>) THEN in.wr.data % Size[f] ELSE desc["read"][f]]
    BY <1>d DEF Edge, ControlNext, Descriptors
  <1>4. desc["read"] \in [Fields -> Nat]
    BY <1>d DEF TypeOK, ControlTypeOK, Descs
  <1>5. ~Rings(in)
    BY <1>t DEF Rings, Rung, InStep
  <1>6. CASE Doorbell(in, "read")
    <2>1. sw'.wr = in.wr /\ in.wr # None /\ in.wr.addr = Bell
      BY <1>6, <1>t DEF Doorbell, Writes, WriteNow, InStep, Edge, Master!Next, Bell
    <2>2. owed'["read"] # None
      <3>1. desc'["read"] # None
        BY <1>d DEF TypeOK, ControlTypeOK
      <3>2. QED
        BY <1>6, <3>1, EdgeOfHistory
    <2>3. Stage' = "rung"
      BY <2>1, <2>2 DEF Stage, Rung
    <2>4. \A f \in Fields : Writes(in, <<"read", f>>) <=> f = "tag"
      BY <1>6 DEF Doorbell, Writes
    <2>5. in.wr.data % Size["tag"] \in 0 .. Size["tag"] - 1
      BY <1>6, <1>w DEF Doorbell, Writes
    <2>6. desc'["read"] = [desc["read"] EXCEPT !["tag"] = in.wr.data % Size["tag"]]
      BY <1>3, <1>4, <2>4
    <2>7. QED
      BY <1>2, <2>3, <2>5, <2>6
  <1>7. CASE ~Doorbell(in, "read")
    <2>1. ~Rung'
      <3>1. ~sw'.busy["read"]
        BY <1>5, EdgeOfRead DEF Rung
      <3>2. ASSUME sw'.wr # None, sw'.wr.addr = Bell PROVE FALSE
        <4>1. ~axil.ready /\ sw'.wr = in.wr
          BY <3>2 DEF Edge, Master!Next
        <4>2. Doorbell(in, "read")
          BY <1>t, <3>2, <4>1 DEF InStep, Doorbell, Writes, WriteNow, Bell
        <4>3. QED
          BY <1>7, <4>2
      <3>3. QED
        BY <3>1, <3>2 DEF Rung
    <2>2. Stage' = "idle"
      BY <2>1 DEF Stage
    <2>3. CASE \A f \in Fields : ~Writes(in, <<"read", f>>)
      <3>1. desc'["read"] = desc["read"]
        BY <1>3, <1>4, <2>3
      <3>2. QED
        BY <1>2, <2>2, <3>1
    <2>4. CASE \E f \in Fields : Writes(in, <<"read", f>>)
      <3>1. PICK f \in Fields : Writes(in, <<"read", f>>)
        BY <2>4
      <3>2. f # "tag"
        BY <1>7, <3>1 DEF Doorbell
      <3>3. \A g \in Fields : Writes(in, <<"read", g>>) <=> g = f
        BY <3>1 DEF Writes
      <3>4. in.wr.data % Size[f] \in 0 .. Size[f] - 1
        BY <3>1, <1>w DEF Writes
      <3>5. desc'["read"] = [desc["read"] EXCEPT ![f] = in.wr.data % Size[f]]
        BY <1>3, <1>4, <3>3
      <3>6. QED
        BY <1>2, <2>2, <3>2, <3>4, <3>5
    <2>5. QED
      BY <2>3, <2>4
  <1>8. QED
    BY <1>6, <1>7

(* While a copy is rung its descriptor is left alone, and an edge is at    *)
(* most one step of it.                                                    *)
LEMMA RungMoves ==
    ASSUME Polite, CopyInv, CopyInv', Rung, NEW in \in InWires, NEW offer \in Offers,
           NEW fin \in Engine!Finishes, NEW beats \in SUBSET Streams,
           Edge(in, offer, fin, beats), History(in, offer, fin)
    PROVE  /\ desc'["read"] = desc["read"]
           /\ \/ Stage' = Stage /\ took'["read"] = None /\ ToldTag' = None
              \/ /\ Stage = "rung" /\ Stage' = "running"
                 /\ took'["read"] = desc["read"] /\ ToldTag' = None
              \/ /\ Stage = "running" /\ Stage' \in {"ended", "missed"}
                 /\ took'["read"] = None /\ ToldTag' = None
              \/ /\ Stage = "ended" /\ Stage' = "sampled"
                 /\ took'["read"] = None /\ ToldTag' = None
              \/ /\ Stage = "sampled" /\ Stage' = "idle"
                 /\ took'["read"] = None /\ ToldTag' = Tag
              \/ /\ Stage = "sampled" /\ Stage' = "missed"
                 /\ took'["read"] = None /\ ToldTag' = None
  <1> DEFINE Runs == \E s \in Slots : Running(s)
  <1> USE Constants, WiresOK DEF CopyInv, IInv, StageInv
  <1>d. "read" \in Dirs
    BY DEF Dirs
  <1>t. TypeOK
    OBVIOUS
  <1>h. /\ desc'["read"] = desc["read"] /\ ~Doorbell(in, "read")
        /\ ~Told(in) => Rung'
    BY EdgeOfRead
  <1>s. Stage = IF owed["read"] # None THEN "rung"
                ELSE IF Runs THEN "running"
                ELSE IF unseen["read"] THEN "ended"
                ELSE IF reported["read"] THEN "sampled" ELSE "missed"
    BY DEF Stage, Running
  <1>n. Rung' => Stage' = IF owed'["read"] # None THEN "rung"
                          ELSE IF Runs' THEN "running"
                          ELSE IF unseen'["read"] THEN "ended"
                          ELSE IF reported'["read"] THEN "sampled" ELSE "missed"
    BY DEF Stage, Running
  <1>o. owed'["read"] = IF offer["read"] # None THEN None ELSE owed["read"]
    BY <1>h, EdgeOfHistory
  <1>e. owed["read"] = None => ~descValid["read"] /\ took'["read"] = None /\ owed'["read"] = None
    BY <1>o, EdgeOfHistory DEF OwedStage
  <1>u. /\ unseen'["read"] <=> ~Sample(in, "read") /\ (unseen["read"] \/ fin["read"] # None)
        /\ reported'["read"] <=> Sample(in, "read") /\ irq["read"]
        /\ reported'["read"] => unseen["read"]
        /\ unseen["read"] => irq["read"] /\ ~statusReady["read"]
        /\ Told(in) => irq["read"] /\ statusReady["read"] /\ reported["read"]
    BY EdgeOfHistory, EdgeOfRead
  <1>w. ToldTag' = IF Told(in) THEN Tag ELSE None
    BY EdgeOfHistory
  <1>1. CASE owed["read"] # None
    <2>1. ~Runs /\ ~Told(in) /\ descValid["read"]
      BY <1>1, <1>u DEF RunningStage, FlaggedStage, OwedStage
    <2>2. Rung' /\ ToldTag' = None /\ Stage = "rung"
      BY <1>1, <2>1, <1>h, <1>w, <1>s
    <2>3. CASE offer["read"] = None
      <3>1. Stage' = "rung"
        BY <1>1, <2>2, <2>3, <1>o, <1>n
      <3>2. took'["read"] = None
        BY <2>3, EdgeOfHistory
      <3>3. QED
        BY <1>h, <2>2, <3>1, <3>2
    <2>4. CASE offer["read"] # None
      <3>1. took'["read"] = desc["read"] /\ owed'["read"] = None
        BY <1>1, <2>4, <1>o, EdgeOfHistory
      <3>2. offer["read"] \in Slots /\ fin["read"] # offer["read"]
        BY <2>4, EdgeOfRead DEF Running
      <3>3. Running(offer["read"])'
        <4>1. inflight'["read"][offer["read"]] = Tag
          BY <2>1, <3>2, EdgeOfRead
        <4>2. Tag # None
          BY <1>d DEF TypeOK, ControlTypeOK, Descs, Tag
        <4>3. (inflight["read"][offer["read"]])' # None
          BY <4>1, <4>2
        <4>4. QED
          BY <3>1, <3>2, <4>1, <4>2 DEF Running
      <3>4. Stage' = "running"
        BY <2>2, <3>1, <3>2, <3>3, <1>n
      <3>5. QED
        BY <1>h, <2>2, <3>1, <3>4
    <2>5. QED
      BY <2>3, <2>4
  <1>2. CASE owed["read"] = None /\ Runs
    <2>1. PICK s \in Slots : Running(s)
      BY <1>2
    <2>2. ~irq["read"] /\ ~Told(in) /\ \A t \in Slots : Running(t) => t = s
      BY <2>1, <1>u DEF RunningStage
    <2>3. Rung' /\ ToldTag' = None /\ Stage = "running" /\ took'["read"] = None
          /\ owed'["read"] = None /\ ~reported'["read"]
      BY <1>2, <2>2, <1>h, <1>w, <1>s, <1>e, <1>u
    <2>4. \A t \in Slots : Running(t)' <=> Running(t) /\ t # fin["read"]
      BY <1>2, <1>e, EdgeOfRead DEF Running
    <2>5. CASE fin["read"] = None
      <3>1. Running(s)'
        BY <2>1, <2>4, <2>5
      <3>2. QED
        BY <1>h, <2>3, <3>1, <1>n
    <2>6. CASE fin["read"] # None
      <3>1. fin["read"] = s
        BY <2>2, <2>6, EdgeOfRead
      <3>2. ~Runs'
        BY <2>2, <2>4, <3>1
      <3>3. Stage' \in {"ended", "missed"}
        BY <2>3, <3>2, <1>n
      <3>4. QED
        BY <1>h, <2>3, <3>3
    <2>7. QED
      BY <2>5, <2>6
  <1>3. CASE owed["read"] = None /\ ~Runs
    <2>1. fin["read"] = None
      BY <1>3, EdgeOfRead
    <2>2. ~Runs' /\ took'["read"] = None /\ owed'["read"] = None
      BY <1>3, <1>e, EdgeOfRead DEF Running
    <2>3. CASE unseen["read"]
      <3>1. ~Told(in) /\ Stage = "ended"
        BY <1>3, <2>3, <1>u, <1>s
      <3>2. Rung' /\ ToldTag' = None
        BY <3>1, <1>h, <1>w
      <3>3. Stage' \in {"ended", "sampled"}
        BY <2>2, <2>3, <3>2, <1>u, <1>n
      <3>4. QED
        BY <1>h, <2>2, <3>1, <3>2, <3>3
    <2>4. CASE ~unseen["read"]
      <3>1. ~unseen'["read"] /\ ~reported'["read"]
        BY <2>1, <2>4, <1>u
      <3>2. Stage = IF reported["read"] THEN "sampled" ELSE "missed"
        BY <1>3, <2>4, <1>s
      <3>3. CASE ~Told(in)
        <4>1. Stage' = "missed" /\ ToldTag' = None
          BY <2>2, <3>1, <3>3, <1>h, <1>w, <1>n
        <4>2. QED
          BY <1>h, <2>2, <3>2, <4>1
      <3>4. CASE Told(in)
        <4>1. Stage = "sampled" /\ ToldTag' = Tag
          BY <3>2, <3>4, <1>u, <1>w
        <4>2. ~Rings(in) /\ ~sw'.busy["read"]
          <5>1. sw.busy["read"]
            BY <3>4, <1>u DEF FlaggedStage
          <5>2. ~Rings(in)
            BY <5>1, <1>t DEF Rings, InStep, SampledStage
          <5>3. QED
            BY <3>4, <5>2, EdgeOfRead
        <4>3. ~(sw'.wr # None /\ sw'.wr.addr = Bell)
          <5>1. SUFFICES ASSUME sw'.wr # None, sw'.wr.addr = Bell PROVE FALSE
            OBVIOUS
          <5>2. ~axil.ready /\ sw'.wr = in.wr
            BY <5>1 DEF Edge, Master!Next
          <5>3. Doorbell(in, "read")
            BY <1>t, <5>1, <5>2 DEF InStep, Doorbell, Writes, WriteNow, Bell
          <5>4. QED
            BY <5>3, <1>h
        <4>4. Stage' = "idle"
          BY <4>2, <4>3 DEF Stage, Rung
        <4>5. QED
          BY <1>h, <2>2, <4>1, <4>4
      <3>5. QED
        BY <3>3, <3>4
    <2>5. QED
      BY <2>3, <2>4
  <1>4. QED
    BY <1>1, <1>2, <1>3

(* Polite firmware sees copies: each descriptor that was rung is handed to *)
(* the engine once and as it was set, its end is reported at most once,    *)
(* never early, and with its own tag, whatever else is on the bus, in the  *)
(* table or going on in the other direction.                               *)
THEOREM Refinement == ASSUME Polite PROVE EventsSpec => DoesCopies
  <1>1. ASSUME CopyInv, IInv', StageInv', [EventsNext]_allvars PROVE SampledStage'
    <2>1. CASE EventsNext
      BY <1>1, <2>1, EdgeSampled, Polite DEF EventsNext
    <2>2. CASE UNCHANGED allvars
      BY <1>1, <2>2 DEF CopyInv, SampledStage, Status, Bell, allvars, vars, history
    <2>3. QED
      BY <1>1, <2>1, <2>2
  <1>2. ASSUME CopyInv, CopyInv', [EventsNext]_allvars PROVE [Copy!Next]_(Copy!vars)
    <2>1. CASE EventsNext
      <3>1. PICK in \in InWires, offer \in Offers, fin \in Engine!Finishes,
                 beats \in SUBSET Streams : Edge(in, offer, fin, beats) /\ History(in, offer, fin)
        BY <2>1 DEF EventsNext
      <3>2. CASE ~Rung
        <4>1. Stage = "idle"
          BY <3>2 DEF Stage
        <4>2. \/ Copy!Pause
              \/ \E f \in Fields : \E w \in 0 .. Size[f] - 1 : Copy!Set(f, w)
          BY <1>2, <3>1, <3>2, <4>1, IdleMoves, Polite
             DEF Copy!Pause, Copy!Set, Copy!Moves, Copy!Quiet
        <4>3. QED
          BY <4>2 DEF Copy!Next
      <3>3. CASE Rung
        BY <1>2, <3>1, <3>3, RungMoves, Polite
           DEF Copy!Next, Copy!Pause, Copy!Take, Copy!End, Copy!Sample, Copy!Tell, Copy!Lose,
               Copy!Moves, Copy!Quiet, Tag
      <3>4. QED
        BY <3>2, <3>3
    <2>2. CASE UNCHANGED allvars
      BY <2>2 DEF Copy!vars, Stage, ToldTag, Rung, Status, Bell, allvars, vars, history
    <2>3. QED
      BY <1>2, <2>1, <2>2
  <1>3. CopyInv /\ IInv' /\ StageInv' /\ [EventsNext]_allvars => SampledStage'
    BY <1>1
  <1>4. CopyInv /\ CopyInv' /\ [EventsNext]_allvars => [Copy!Next]_(Copy!vars)
    BY <1>2
  <1>5. EventsSpec => []CopyInv
    BY InitCopy, Invariance, Stages, Polite, <1>3, PTL DEF EventsSpec, CopyInv
  <1>6. QED
    BY InitCopy, <1>4, <1>5, PTL DEF EventsSpec, DoesCopies, Copy!Spec
==============================================================================
