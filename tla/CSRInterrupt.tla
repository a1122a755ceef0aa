---------------------------- MODULE CSRInterrupt ----------------------------
(***************************************************************************)
(* The log of host register writes that interrupts the controller          *)
(* (NVMeCore/CSRInterrupt.scala): a chisel3.util.Queue of queueDepth word  *)
(* addresses, without pipe and without flow.  Its enqueue side has no      *)
(* back-pressure: enq.ready is not looked at, a write that finds the queue *)
(* full leaves no event.                                                   *)
(***************************************************************************)
EXTENDS Naturals, Sequences

CONSTANTS Addrs, QueueDepth

VARIABLE queue

QueueTypeOK == queue \in Seq(Addrs) /\ Len(queue) <= QueueDepth

Init == queue = <<>>

Full == Len(queue) = QueueDepth

(* io.irqReq and csrLog.valid *)
irqReq == queue # <<>>

(* csrLog.bits: the oldest event, or whatever the queue's memory holds at  *)
(* its read pointer when it is empty.                                      *)
LogBits == IF irqReq THEN {Head(queue)} ELSE Addrs

(* Mutants: the log takes an event when it has no room, when the access is *)
(* refused by the arbiter, and only when it is empty.                      *)
Next_Overflows(hostBus, ready, logReady) ==
    LET rest == IF logReady /\ irqReq THEN Tail(queue) ELSE queue
    IN  queue' = IF hostBus.write /\ ready THEN Append(rest, hostBus.addr) ELSE rest

Next_IgnoresReady(hostBus, ready, logReady) ==
    LET rest == IF logReady /\ irqReq THEN Tail(queue) ELSE queue
    IN  queue' = IF hostBus.write /\ ~Full THEN Append(rest, hostBus.addr) ELSE rest

Next_OneEvent(hostBus, ready, logReady) ==
    LET rest == IF logReady /\ irqReq THEN Tail(queue) ELSE queue
    IN  queue' = IF hostBus.write /\ ready /\ ~irqReq THEN Append(rest, hostBus.addr) ELSE rest

(* The clock edge.  Without pipe a full queue takes no event even when it  *)
(* is popped at the same edge; without flow an event is not visible        *)
(* before the next cycle.                                                  *)
Next(hostBus, ready, logReady) ==
    LET rest  == IF logReady /\ irqReq THEN Tail(queue) ELSE queue
        enter == hostBus.write /\ ready /\ ~Full
    IN  queue' = IF enter THEN Append(rest, hostBus.addr) ELSE rest
=============================================================================
