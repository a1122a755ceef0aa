--------------------------- MODULE HLSControlBus ---------------------------
(***************************************************************************)
(* The AXI4-Lite control slave in front of every HLS block of the          *)
(* accelerator ({fetch,load,compute,store}_CONTROL_BUS_s_axi.v): start,    *)
(* done and interrupts of the block, its argument registers, and for       *)
(* compute a result register.  The four files differ in the names and the  *)
(* number of the argument registers only, and in the result.               *)
(*                                                                         *)
(* A word is the set of its bits that are 1.  Software writes whole words, *)
(* so WSTRB is all ones.                                                   *)
(***************************************************************************)
CONSTANTS Block,      \* the block: "fetch", "load", "store" or "compute"
          Bits,       \* the bits of a word
          None

(* The argument registers of each block, and the result.                   *)
FetchRegs == {"insn_count", "insns_V"}
LoadRegs == {"inputs_V", "weights_V"}
StoreRegs == {"outputs_V"}
ComputeRegs == {"done_i", "uops_V", "biases_V"}
DataRegs == CASE Block = "fetch" -> FetchRegs
              [] Block = "load" -> LoadRegs
              [] Block = "store" -> StoreRegs
              [] Block = "compute" -> ComputeRegs
ResultRegs == IF Block = "compute" THEN {"done_o", "done_o_ctrl"} ELSE {}
Addrs == {"AP_CTRL", "GIE", "IER", "ISR"} \cup DataRegs \cup ResultRegs
Words == SUBSET Bits
Channels == {0, 1}   \* the interrupts: ap_done and ap_ready

VARIABLES bus,        \* wstate, waddr, rstate, rdata
          ap,         \* int_ap_start, _done, _idle, _ready and int_auto_restart
          gie, ier, isr, data,
          result      \* int_done_o, int_done_o_ap_vld

busvars == <<bus, ap, gie, ier, isr, data, result>>

BusTypeOK ==
    /\ bus \in [wstate: {"WRIDLE", "WRDATA", "WRRESP", "WRRESET"}, waddr: Addrs \cup {None},
                rstate: {"RDIDLE", "RDDATA", "RDRESET"}, rdata: {None} \cup Words]
    /\ ap \in [start: BOOLEAN, done: BOOLEAN, idle: BOOLEAN, ready: BOOLEAN, auto: BOOLEAN]
    /\ gie \in BOOLEAN
    /\ ier \subseteq Channels /\ isr \subseteq Channels
    /\ data \in [DataRegs -> Words]
    /\ result \in [val: Words, vld: BOOLEAN]

(* After reset.  Reset does not touch waddr and rdata, which nobody looks  *)
(* at before they are loaded: None.                                        *)
Init ==
    /\ bus = [wstate |-> "WRRESET", waddr |-> None, rstate |-> "RDRESET", rdata |-> None]
    /\ ap = [start |-> FALSE, done |-> FALSE, idle |-> FALSE, ready |-> FALSE, auto |-> FALSE]
    /\ gie = FALSE /\ ier = {} /\ isr = {}
    /\ data = [r \in DataRegs |-> {}]
    /\ result = [val |-> {}, vld |-> FALSE]
-----------------------------------------------------------------------------
(* Handshakes of a cycle in which the master drives in.aw, in.w and in.ar  *)
(* (None: valid is low), in.bready and in.rready.                          *)
awHs(in) == in.aw # None /\ bus.wstate = "WRIDLE"
wHs(in) == in.w # None /\ bus.wstate = "WRDATA"
arHs(in) == in.ar # None /\ bus.rstate = "RDIDLE"

Written(in, a) == wHs(in) /\ bus.waddr = a
Sampled(in, a) == arHs(in) /\ in.ar = a

interrupt == gie /\ isr # {}

(* What the registers answer to a read. *)
Answer(a) ==
    CASE a = "AP_CTRL" -> {b \in {0, 1, 2, 3, 7} : \/ b = 0 /\ ap.start
                                                   \/ b = 1 /\ ap.done
                                                   \/ b = 2 /\ ap.idle
                                                   \/ b = 3 /\ ap.ready
                                                   \/ b = 7 /\ ap.auto}
      [] a = "GIE" -> IF gie THEN {0} ELSE {}
      [] a = "IER" -> ier
      [] a = "ISR" -> isr
      [] a \in DataRegs -> data[a]
      [] a = "done_o" -> result.val
      [] a = "done_o_ctrl" -> IF result.vld THEN {0} ELSE {}
      [] OTHER -> {}

(* The write and the read machine, which know nothing of each other. *)
Bus(in) ==
    bus' = [wstate |-> CASE bus.wstate = "WRIDLE" -> IF awHs(in) THEN "WRDATA" ELSE "WRIDLE"
                         [] bus.wstate = "WRDATA" -> IF wHs(in) THEN "WRRESP" ELSE "WRDATA"
                         [] bus.wstate = "WRRESP" -> IF in.bready THEN "WRIDLE" ELSE "WRRESP"
                         [] OTHER -> "WRIDLE",
            waddr  |-> IF awHs(in) THEN in.aw ELSE bus.waddr,
            rstate |-> CASE bus.rstate = "RDIDLE" -> IF arHs(in) THEN "RDDATA" ELSE "RDIDLE"
                         [] bus.rstate = "RDDATA" -> IF in.rready THEN "RDIDLE" ELSE "RDDATA"
                         [] OTHER -> "RDIDLE",
            rdata  |-> IF arHs(in) THEN Answer(in.ar) ELSE bus.rdata]

(* Mutant: a restart is not cleared by the handshake. *)
Start_Sticks(in, ready) ==
    (Written(in, "AP_CTRL") /\ 0 \in in.w) \/ ap.start

(* int_ap_start: set by software, cleared when the block is ready for the  *)
(* next start, unless it restarts by itself.  Setting goes first.          *)
Start(in, ready) ==
    IF Written(in, "AP_CTRL") /\ 0 \in in.w THEN TRUE
    ELSE IF ready THEN ap.auto ELSE ap.start

(* Mutants: clearing on read goes first; a read does not clear. *)
Done_ReadFirst(in, done) == ~Sampled(in, "AP_CTRL") /\ (done \/ ap.done)
Done_Sticks(in, done) == done \/ ap.done

(* int_ap_done: clear on read, and setting goes first.                     *)
Done(in, done) == done \/ (ap.done /\ ~Sampled(in, "AP_CTRL"))

(* Mutant: a toggle goes before an event. *)
Isr_ToggleFirst(in, events) ==
    {c \in Channels : IF Written(in, "ISR") /\ c \in in.w THEN c \notin isr
                      ELSE c \in isr \/ c \in ier \cap events}

(* int_isr: an enabled event sets the bit, else a write of 1 toggles it.   *)
Isr(in, events) ==
    {c \in Channels : IF c \in ier \cap events THEN TRUE
                      ELSE (c \in isr) # (Written(in, "ISR") /\ c \in in.w)}

(* Mutant: every bit that is written is kept. *)
Ier_Unmasked(in) == IF Written(in, "IER") THEN in.w ELSE ier

(* int_ier: two bits of the word. *)
Ier(in) == IF Written(in, "IER") THEN in.w \cap Channels ELSE ier

(* Mutant: a result makes itself valid only the first time. *)
Result_KeepsOld(in, out) ==
    result' = [val |-> IF out # None /\ ~result.vld THEN out ELSE result.val,
               vld |-> out # None \/ (result.vld /\ ~Sampled(in, "done_o_ctrl"))]

(* int_done_o and int_done_o_ap_vld, out being the block's result or None. *)
Result(in, out) ==
    result' = [val |-> IF out # None THEN out ELSE result.val,
               vld |-> out # None \/ (result.vld /\ ~Sampled(in, "done_o_ctrl"))]

(* The clock edge; core.done, core.ready and core.idle are the block's     *)
(* wires, core.out its result.                                             *)
Next(in, core) ==
    LET events == {c \in Channels : IF c = 0 THEN core.done ELSE core.ready}
    IN  /\ Bus(in)
        /\ ap' = [start |-> Start(in, core.ready),
                  done  |-> Done(in, core.done),
                  idle  |-> core.idle,
                  ready |-> core.ready,
                  auto  |-> IF Written(in, "AP_CTRL") THEN 7 \in in.w ELSE ap.auto]
        /\ gie' = IF Written(in, "GIE") THEN 0 \in in.w ELSE gie
        /\ ier' = Ier(in)
        /\ isr' = Isr(in, events)
        /\ data' = [r \in DataRegs |-> IF Written(in, r) THEN in.w ELSE data[r]]
        /\ Result(in, core.out)
=============================================================================
