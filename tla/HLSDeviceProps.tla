--------------------------- MODULE HLSDeviceProps --------------------------
(***************************************************************************)
(* What a process may rely on that drives the blocks of the accelerator    *)
(* through HLSDevice.                                                      *)
(***************************************************************************)
EXTENDS HLSDevice

(* An instance a call may be made on: every call asserts IsReady, which on *)
(* Linux alone does not say enough (Release leaves it).                    *)
Usable(i) == IF linux THEN held[i] ELSE inst[i].ready

(* A call on an initialised instance reaches the block that Initialize was *)
(* asked for, and in it the register the call is about, whatever was       *)
(* opened, mapped, given back or renumbered since and in between.          *)
ReachesItsRegister ==
    \A i \in Instances : Usable(i) =>
        \A r \in Registers(DriverOf[i]) : Access(i, r) = [dev |-> want[i], reg |-> r]

(* Files are closed and pages unmapped only by who opened and mapped them: *)
(* the numbers that Release takes from its instance and from the static    *)
(* structure are still its own.                                            *)
Acts(owner) == IF owner = App THEN call' = call ELSE call'[owner] # call[owner]
Gone(now, next) == now # None /\ next # now
OnlyItsOwn ==
    [][/\ \A f \in Fds : Gone(files[f], files'[f]) => Acts(files[f].by)
       /\ \A p \in Pages : Gone(pages[p], pages'[p]) => Acts(pages[p].by)]_vars

(* An instance that is not initialised has no file and no page: Release    *)
(* gives back all that Initialize took, and a failed Initialize keeps      *)
(* nothing.                                                                *)
NothingLeft ==
    \A i \in Instances : call[i] = "away" /\ ~held[i] =>
        /\ \A f \in Fds : files[f] = None \/ files[f].by # i
        /\ \A p \in Pages : pages[p] = None \/ pages[p].by # i

(* Initialize asserts the address it got from mmap (xcompute_linux.c:127): *)
(* after XST_SUCCESS the registers are mapped there.                       *)
MappedWhenReady ==
    \A i \in Instances : linux /\ held[i] =>
        /\ inst[i].base \in Pages
        /\ pages[inst[i].base] # None /\ pages[inst[i].base].by = i
=============================================================================
