----------------------------- MODULE HLSDriver -----------------------------
(***************************************************************************)
(* Software on the control bus: the driver of a block (xfetch.c, xload.c,  *)
(* xcompute.c, xstore.c).  Every function reads a register, or writes one, *)
(* or does one after the other, and nothing in it keeps a second context   *)
(* (an interrupt handler, the host) away from the bus in between.          *)
(*                                                                         *)
(* An access is a load or store to device memory: a client goes on when    *)
(* the word or the write response is there.  The interconnect has one read *)
(* and one write under way; as the slave looks at a channel in one state   *)
(* only, an access is put off until then.                                  *)
(*                                                                         *)
(* A Careful client starts the block and sets its arguments only when      *)
(* IsDone, IsIdle or IsReady said that it may, and clears the interrupts   *)
(* it read from the status, once.                                          *)
(***************************************************************************)
CONSTANTS Clients, Program, Careful, Words, None

VARIABLE cpu
(* cpu[c].call and .stage: where client c is; word: what its call has      *)
(* read; free: the client knows the block to be free; status: the          *)
(* interrupts it read and has not cleared.                                 *)

Calls == UNION {Program[c] : c \in Clients}   \* records of fn, reg, val
Stages == {"away", "reading", "toWrite", "writing", "responding"}
Cpus == [call: {None} \cup Calls, stage: Stages, word: Words, free: BOOLEAN, status: Words]

Init == cpu = [c \in Clients |->
                  [call |-> None, stage |-> "away", word |-> {}, free |-> TRUE, status |-> {}]]

(* The register a call reads, None when it only writes. *)
Reads(x) ==
    CASE x.fn \in {"Start", "IsDone", "IsIdle", "IsReady"} -> "AP_CTRL"
      [] x.fn \in {"InterruptEnable", "InterruptDisable", "InterruptGetEnabled"} -> "IER"
      [] x.fn = "InterruptGetStatus" -> "ISR"
      [] x.fn = "Get" -> x.reg
      [] OTHER -> None

(* The register a call writes, None when it only reads. *)
Writes(x) ==
    CASE x.fn \in {"Start", "EnableAutoRestart", "DisableAutoRestart"} -> "AP_CTRL"
      [] x.fn \in {"InterruptGlobalEnable", "InterruptGlobalDisable"} -> "GIE"
      [] x.fn \in {"InterruptEnable", "InterruptDisable"} -> "IER"
      [] x.fn = "InterruptClear" -> "ISR"
      [] x.fn = "Set" -> x.reg
      [] OTHER -> None

(* Mutant: Start forgets that the block restarts by itself. *)
Written_StartOnly(x, word) ==
    CASE x.fn = "EnableAutoRestart" -> {7}
      [] x.fn \in {"Start", "InterruptGlobalEnable"} -> {0}
      [] x.fn = "InterruptEnable" -> word \cup x.val
      [] x.fn = "InterruptDisable" -> word \ x.val
      [] x.fn \in {"InterruptClear", "Set"} -> x.val
      [] OTHER -> {}

(* The word it writes, after it has read word. *)
Written(x, word) ==
    CASE x.fn = "Start" -> (word \cap {7}) \cup {0}
      [] x.fn = "EnableAutoRestart" -> {7}
      [] x.fn = "InterruptGlobalEnable" -> {0}
      [] x.fn = "InterruptEnable" -> word \cup x.val
      [] x.fn = "InterruptDisable" -> word \ x.val
      [] x.fn \in {"InterruptClear", "Set"} -> x.val
      [] OTHER -> {}

(* The driver's answer to a poll that has read word. *)
Says(x, word) ==
    \/ x.fn = "IsDone" /\ 1 \in word
    \/ x.fn = "IsIdle" /\ 2 \in word
    \/ x.fn = "IsReady" /\ 0 \notin word
-----------------------------------------------------------------------------
(* What client c may call next. *)
Menu(c) ==
    {x \in Program[c] : Careful =>
        /\ x.fn \in {"Start", "Set"} => cpu[c].free
        /\ x.fn = "InterruptClear" => x.val # {} /\ x.val \subseteq cpu[c].status}

Accesses(c, calls) == {[client |-> c, call |-> x] : x \in calls}

ReadOffers == UNION {Accesses(c, {x \in Menu(c) : Reads(x) # None}) :
                         c \in {d \in Clients : cpu[d].stage = "away"}}
WriteOffers == UNION {IF cpu[c].stage = "toWrite" THEN Accesses(c, {cpu[c].call})
                      ELSE IF cpu[c].stage = "away"
                           THEN Accesses(c, {x \in Menu(c) : Reads(x) = None})
                           ELSE {} : c \in Clients}

(* What may happen on the bus in a cycle: a read and a write that are      *)
(* offered now; whether the client in the middle of a read or a write goes *)
(* on with it.                                                             *)
Moves(wstate, rstate) ==
    {m \in [read: {None} \cup (IF rstate = "RDIDLE" THEN ReadOffers ELSE {}),
            write: {None} \cup (IF wstate = "WRIDLE" THEN WriteOffers ELSE {}),
            take: IF rstate = "RDDATA" THEN BOOLEAN ELSE {FALSE},
            go: IF wstate \in {"WRDATA", "WRRESP"} THEN BOOLEAN ELSE {FALSE}] :
        m.read # None /\ m.write # None => m.read.client # m.write.client}

(* The word on the bus: that of the client whose write address was taken.  *)
Word == LET c == CHOOSE d \in Clients : cpu[d].stage = "writing"
        IN  Written(cpu[c].call, cpu[c].word)

Wires(m, wstate) ==
    [ar |-> IF m.read = None THEN None ELSE Reads(m.read.call),
     aw |-> IF m.write = None THEN None ELSE Writes(m.write.call),
     w  |-> IF m.go /\ wstate = "WRDATA" THEN Word ELSE None,
     rready |-> m.take, bready |-> m.go /\ wstate = "WRRESP"]

Entered(p, x) ==
    [p EXCEPT !.call = x, !.word = {},
              !.free = p.free /\ x.fn # "Start",
              !.status = IF x.fn = "InterruptClear" THEN p.status \ x.val ELSE p.status]

Returned(p, word) ==
    [p EXCEPT !.call = None, !.stage = "away", !.word = {},
              !.free = p.free \/ Says(p.call, word),
              !.status = IF p.call.fn = "InterruptGetStatus" THEN word ELSE p.status]

Next(m, rdata) ==
    cpu' = [c \in Clients |->
        LET p == cpu[c] IN
        CASE m.read # None /\ m.read.client = c -> [Entered(p, m.read.call) EXCEPT !.stage = "reading"]
          [] m.write # None /\ m.write.client = c ->
                 IF p.stage = "toWrite" THEN [p EXCEPT !.stage = "writing"]
                 ELSE [Entered(p, m.write.call) EXCEPT !.stage = "writing"]
          [] p.stage = "reading" /\ m.take ->
                 IF Writes(p.call) = None THEN Returned(p, rdata)
                 ELSE [p EXCEPT !.stage = "toWrite", !.word = rdata]
          [] p.stage = "writing" /\ m.go -> [p EXCEPT !.stage = "responding"]
          [] p.stage = "responding" /\ m.go -> Returned(p, {})
          [] OTHER -> p]
=============================================================================
