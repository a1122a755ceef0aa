------------------------------- MODULE HLSTop -------------------------------
(***************************************************************************)
(* One HLS block of the accelerator, its control bus, and the clients that *)
(* drive it.  One step is one clock edge.                                  *)
(***************************************************************************)
CONSTANTS Block, Bits, Clients, Program, Careful, None

VARIABLES bus, ap, gie, ier, isr, data, result,   \* the control slave
          core,                                   \* the block
          cpu                                     \* the clients

vars == <<bus, ap, gie, ier, isr, data, result, core, cpu>>

Ctrl == INSTANCE HLSControlBus
Core == INSTANCE HLSCore
Driver == INSTANCE HLSDriver WITH Words <- SUBSET Bits

ASSUME HLSTopAssumption ==
    /\ Block \in {"fetch", "load", "store", "compute"}
    /\ {0, 1, 2, 3, 7} \subseteq Bits
    /\ Careful \in BOOLEAN
    /\ None \notin Ctrl!Addrs /\ None \notin Driver!Calls
    /\ \A w \in Ctrl!Words : w # None
    /\ \A x \in Driver!Calls : Driver!Reads(x) # None \/ Driver!Writes(x) # None
    /\ \A x \in Driver!Calls :
        x.fn \in {"InterruptEnable", "InterruptDisable", "InterruptClear", "Set"} => x.val \subseteq Bits
    /\ \A x \in Driver!Calls : x.fn = "Set" => x.reg \in Ctrl!DataRegs
    /\ \A x \in Driver!Calls : x.fn = "Get" => x.reg \in Ctrl!DataRegs \cup Ctrl!ResultRegs

Init == Ctrl!Init /\ Core!Init /\ Driver!Init

(* The clock edge of a cycle in which the clients move as m says, the      *)
(* block's surroundings let it go on or not, and the instruction it begins *)
(* is a FINISH or not.                                                     *)
Edge(m, go, finish) ==
    LET in == Driver!Wires(m, bus.wstate)
    IN  /\ Ctrl!Next(in, Core!Wires(go, ap.start))
        /\ Core!Next(go, finish, ap.start, data)
        /\ Driver!Next(m, bus.rdata)

Moves == Driver!Moves(bus.wstate, bus.rstate)

Next == \E m \in Moves, go \in Core!Going(ap.start), finish \in Core!Finishing(ap.start) :
            Edge(m, go, finish)

Spec == Init /\ [][Next]_vars

TypeOK ==
    /\ Ctrl!BusTypeOK
    /\ core \in [state: {"state1", "state80", "running"},
                 args: {None} \cup [Ctrl!DataRegs -> Ctrl!Words]]
    /\ cpu \in [Clients -> Driver!Cpus]
=============================================================================
