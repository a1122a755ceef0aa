--------------------------- MODULE RegBusArbiter ---------------------------
(***************************************************************************)
(* The fixed-priority arbiter between the two masters of the register bus  *)
(* (NVMeCore/CSRArbiter.scala).  It keeps no state: it is a function of    *)
(* the requests a (bus A, the controller) and b (bus B, the host) of one   *)
(* cycle, records with the fields read, write, addr and dataOut.           *)
(***************************************************************************)
Valid(bus) == bus.read \/ bus.write

(* Mutant: B's writes are forgotten. *)
ReadyB_ReadsOnly(a, b) == ~Valid(a) /\ b.read

(* `ready` as bus A and bus B see it.  The register file behind the        *)
(* arbiter is always ready, so a bus is ready exactly when it is           *)
(* connected to outBus.                                                    *)
ReadyA(a, b) == Valid(a)
ReadyB(a, b) == ~Valid(a) /\ Valid(b)

(* What reaches the register file; with no request, addr and dataOut are 0 *)
(* (idleAddr and idleData) and neither strobe is set.                      *)
OutBus(a, b, idleAddr, idleData) ==
    IF Valid(a) THEN a
    ELSE IF Valid(b) THEN b
    ELSE [read |-> FALSE, write |-> FALSE, addr |-> idleAddr, dataOut |-> idleData]
=============================================================================
