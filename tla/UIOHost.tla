------------------------------ MODULE UIOHost ------------------------------
(***************************************************************************)
(* What the kernel keeps for the process that drives the accelerator: the  *)
(* class /sys/class/uio, the open files and the address space.  The file   *)
(* table and the address space are shared by all drivers and the rest of   *)
(* the application, and what one gives back another gets.                  *)
(*                                                                         *)
(* An address is the number of its page.  A device is its name; /sys lists *)
(* each at one number.                                                     *)
(***************************************************************************)
EXTENDS Integers, FiniteSets

CONSTANTS Devices,    \* UIO devices
          Size,       \* Size[d]: the pages of map0 of device d
          Nums,       \* the numbers of /dev/uio*
          Fds, Pages, \* file descriptors and pages, sets of naturals
          Owners,     \* the parts of the process
          None

VARIABLES uio,        \* uio[n]: the device with number n, or None
          files,      \* files[f]: whose file f is, and of what device; or None
          pages       \* pages[p]: who mapped page p, and of what device; or None

Holdings == [by: Owners, dev: {None} \cup Devices]

HostTypeOK ==
    /\ uio \in [Nums -> {None} \cup Devices]
    /\ files \in [Fds -> {None} \cup Holdings]
    /\ pages \in [Pages -> {None} \cup Holdings]

Least(S) == CHOOSE n \in S : \A m \in S : n <= m

(* open: the lowest descriptor that is free.  *)
FreeFds == {f \in Fds : files[f] = None}
OpenFile(by, dev) ==
    files' = [files EXCEPT ![Least(FreeFds)] = [by |-> by, dev |-> dev]]

DeviceOf(fd) == IF fd \in Fds /\ files[fd] # None THEN files[fd].dev ELSE None

(* close: of a descriptor that is not open it does nothing. *)
CloseFile(fd) == files' = [f \in Fds |-> IF f = fd THEN None ELSE files[f]]

(* mmap: the first free pages that are enough (Linux looks for them from   *)
(* the top; the direction plays no part).  munmap takes whatever is there. *)
Span(page, size) == page .. (page + size - 1)
Gaps(size) == {p \in Pages : \A q \in Span(p, size) : q \in Pages /\ pages[q] = None}
MapPages(by, dev, page, size) ==
    pages' = [p \in Pages |-> IF p \in Span(page, size) THEN [by |-> by, dev |-> dev]
                               ELSE pages[p]]
UnmapPages(page, size) ==
    pages' = [p \in Pages |-> IF p \in Span(page, size) THEN None ELSE pages[p]]

(* A device comes at the lowest number that is free, and goes.  Its pages  *)
(* stay mapped, its files open.                                            *)
Plug(dev) ==
    /\ \A n \in Nums : uio[n] # dev
    /\ \E n \in Nums : uio[n] = None
    /\ uio' = [uio EXCEPT ![Least({n \in Nums : uio[n] = None})] = dev]
    /\ UNCHANGED <<files, pages>>
Unplug(dev) ==
    /\ \E n \in Nums : uio[n] = dev
    /\ uio' = [n \in Nums |-> IF uio[n] = dev THEN None ELSE uio[n]]
    /\ UNCHANGED <<files, pages>>
=============================================================================
