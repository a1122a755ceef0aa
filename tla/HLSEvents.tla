----------------------------- MODULE HLSEvents -----------------------------
(***************************************************************************)
(* What the clients of an HLS block may rely on: starts, runs and what the *)
(* driver says of them, interrupts, restarts, and the result of compute.   *)
(* The history variables follow from the step of HLSTop and change nothing *)
(* in it.                                                                  *)
(***************************************************************************)
EXTENDS HLSTop, Naturals

VARIABLES run,       \* the run of the last start: "none", "asked", "begun"
          asked,     \* the argument registers when that start was written
          untold,    \* a run has ended, and no read has brought its done since
          finishes,  \* was the last instruction begun a FINISH?
          owed,      \* interrupts that came, and were not cleared since
          restarts,  \* was EnableAutoRestart written after DisableAutoRestart?
          more       \* runs begun since DisableAutoRestart was written, counted
                     \* to 2; None after a start or EnableAutoRestart

ASSUME HLSEventsAssumption == None \notin {0, 1, 2}

history == <<run, asked, untold, finishes, owed, restarts, more>>
allvars == <<vars, history>>

(* A call of one of the functions fns writes its register at this edge.    *)
Lands(c, fns) == /\ cpu[c].stage = "writing" /\ cpu'[c].stage = "responding"
                 /\ cpu[c].call.fn \in fns
Commands(fns) == \E c \in Clients : Lands(c, fns)

Begins == core.state = "state1" /\ core'.state # "state1"
Ends == core.state # "state1" /\ core'.state = "state1"
Raised == IF Ends THEN ier ELSE {}

(* Client c awaits a word of AP_CTRL that says done.                       *)
Awaits(c) == cpu[c].stage = "reading" /\ Driver!Reads(cpu[c].call) = "AP_CTRL" /\ 1 \in bus.rdata
Told == \E c \in Clients : Awaits(c) /\ cpu'[c].stage # "reading"

Cleared == UNION {IF Lands(c, {"InterruptClear"}) THEN cpu[c].call.val ELSE {} : c \in Clients}

HistoryInit ==
    /\ run = "none" /\ asked = data /\ untold = FALSE /\ finishes = FALSE
    /\ owed = {} /\ restarts = FALSE /\ more = None

History ==
    /\ run' = IF Commands({"Start"}) THEN "asked"
              ELSE IF Begins THEN "begun" ELSE IF Ends THEN "none" ELSE run
    /\ asked' = IF Commands({"Start"}) THEN data ELSE asked
    /\ untold' = (Ends \/ (untold /\ ~Told))
    /\ finishes' = IF Begins THEN core'.state = "state80" ELSE finishes
    /\ owed' = (owed \ Cleared) \cup Raised
    /\ restarts' = IF Commands({"EnableAutoRestart"}) THEN TRUE
                   ELSE restarts /\ ~Commands({"DisableAutoRestart"})
    /\ more' = IF Commands({"Start", "EnableAutoRestart"}) THEN None
               ELSE IF Commands({"DisableAutoRestart"}) THEN 0
               ELSE IF Begins /\ more \in {0, 1} THEN more + 1 ELSE more

EventsInit == Init /\ HistoryInit
EventsNext == Next /\ History
EventsSpec == EventsInit /\ [][EventsNext]_allvars

Starters == {c \in Clients : \E x \in Program[c] : x.fn = "Start"}
-----------------------------------------------------------------------------
(* Careful clients, one of which starts the block.                         *)

(* When IsDone, IsIdle or IsReady has told a client that the block is      *)
(* free, it is: nothing runs, nothing waits to run.  IsDone reads a flag   *)
(* that only a read of AP_CTRL clears, and IsIdle one that is a cycle old. *)
FreeWhenTold == \A c \in Starters : cpu[c].free => run = "none" /\ core.state = "state1" /\ ~ap.start

(* Every start is one run: no start falls on a run under way and is        *)
(* swallowed, and the block runs for nothing else.                         *)
OneRunPerStart == [][/\ Commands({"Start"}) => run = "none"
                     /\ Begins => run = "asked"]_allvars

(* A read of AP_CTRL clears done, at the very edge at which a run may end:  *)
(* the end of a run stays in the register or in a word on its way to a     *)
(* client, until one has received it.                                      *)
NoEndUnread == untold => ap.done \/ \E c \in Clients : Awaits(c)

(* A run takes the arguments its start was written with, although the      *)
(* block fetches them only as it leaves state1, when its instruction is    *)
(* there.                                                                  *)
RunsWithItsArguments == [][Begins => core'.args = asked]_allvars

(* With one handler that clears what it has read, a flag is up exactly     *)
(* when its interrupt came and was not cleared since: writing ISR toggles, *)
(* and raises no flag and drops none that came at that very edge.          *)
FlagsAreEvents == isr = owed

(* A client that knows the block to be free reads in done_o whether the    *)
(* last instruction was a FINISH, and never what an earlier one left.      *)
ResultIsOfRun ==
    \A c \in Starters : cpu[c].free => result.val = IF finishes THEN {0} ELSE {}

(* Of all this the client that starts the block sees jobs (HLSJobs): what  *)
(* is on the bus, in AP_CTRL and in the block at any time is some stage of *)
(* one job, and everything the driver does with it one step of a job.      *)
Starter == CHOOSE c \in Clients : c \in Starters
Calling == /\ cpu[Starter].stage \in {"reading", "toWrite", "writing"}
           /\ cpu[Starter].call.fn = "Start"
Jobs == INSTANCE HLSJobs WITH
    Regs <- Ctrl!DataRegs, Words <- Ctrl!Words,
    client <- IF cpu[Starter].free THEN "free" ELSE IF Calling THEN "calling" ELSE "waiting",
    job <- IF core.state # "state1" THEN "begun" ELSE IF ap.start THEN "asked" ELSE "none",
    args <- data, taken <- core.args,
    finish <- core.state = "state80" \/ result.val = {0},
    answer <- IF cpu[Starter].free THEN result.val ELSE None
DoesJobs == Jobs!Spec
-----------------------------------------------------------------------------
(* Clients that start the block whenever they like, one of which switches  *)
(* automatic restart.                                                      *)

(* Start reads AP_CTRL and writes it back: it leaves automatic restart as  *)
(* it was switched last.                                                   *)
RestartAsSwitched == ap.auto = restarts

(* After DisableAutoRestart the block begins at most once more (when it    *)
(* was waiting in state1 to begin), until somebody starts it.              *)
StopsWhenTold == more # 2
=============================================================================
