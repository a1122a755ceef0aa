--------------------------- MODULE DoorbellEvents ---------------------------
(***************************************************************************)
(* The way doorbells travel through the register core: the host writes a   *)
(* register, the log interrupts the controller, the controller reads       *)
(* IRQSTA, then IRQDAT, then the register.  The history variables record   *)
(* what the two masters did and know; they follow from the step of the     *)
(* core and change nothing in it.                                          *)
(*                                                                         *)
(* Reading IRQDAT pops the log whoever reads it, so that register is the   *)
(* controller's alone here.                                                *)
(***************************************************************************)
EXTENDS NVMeTop

ASSUME ControllerOwnsLog == IRQDAT \notin HostReads

VARIABLES unread,   \* registers the host wrote, and the controller has not read since
          told,     \* registers the controller got from IRQDAT and has not read since
          missed,   \* registers whose last host write found the log full
          sawValid  \* the controller's last IRQSTA read said VALID, and it has
                    \* not read IRQDAT since

allvars == <<hostCSRAxi, controllerCSRAxi, storage, irqHost, queue, hostAxi, controllerAxi,
             unread, told, missed, sawValid>>

(* The accesses carried out at this clock edge, named by the address the   *)
(* master asked for.                                                       *)
HostWrote == IF hostCSRAxi.state = "sWriteData" /\ hostCSRAxi'.state = "sWriteResp"
             THEN {hostAxi.addr} ELSE {}
CtrlWrote == IF controllerCSRAxi.state = "sWriteData" /\ controllerCSRAxi'.state = "sWriteResp"
             THEN {controllerAxi.addr} ELSE {}
CtrlRead == IF controllerCSRAxi.state = "sReadData" /\ controllerCSRAxi'.state = "sIdle"
            THEN {controllerAxi.addr} ELSE {}

History ==
    /\ unread' = (unread \cup HostWrote) \ (CtrlRead \cup CtrlWrote)
    /\ told' = (told \ CtrlRead) \cup (IF IRQDAT \in CtrlRead THEN {controllerAxi'.rdata} ELSE {})
    /\ missed' = IF Interrupts!Full
                 THEN (missed \cup HostWrote) \ (CtrlRead \cup CtrlWrote)
                 ELSE missed \ (HostWrote \cup CtrlRead \cup CtrlWrote)
    /\ sawValid' = IF IRQSTA \in CtrlRead THEN controllerAxi'.rdata = 1
                   ELSE sawValid /\ IRQDAT \notin CtrlRead

EventsInit == Init /\ unread = {} /\ told = {} /\ missed = {} /\ sawValid = FALSE
EventsNext == Next /\ History
EventsSpec == EventsInit /\ [][EventsNext]_allvars

Logged == {queue[i] : i \in DOMAIN queue}
-----------------------------------------------------------------------------
(* No doorbell is lost behind the controller's back: a register the host   *)
(* wrote and the controller has not read since is in the log, or the       *)
(* controller has been told of it, or its write found the log full.        *)
NoDoorbellLost == unread \subseteq Logged \cup told \cup missed

(* VALID is a promise: however many edges pass between the controller's    *)
(* read of IRQSTA and its read of IRQDAT, the log still holds an event, so *)
(* IRQDAT never returns leftovers to a controller that asked first.        *)
ValidHolds == sawValid => queue # <<>>
=============================================================================
