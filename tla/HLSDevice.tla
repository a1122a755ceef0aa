----------------------------- MODULE HLSDevice -----------------------------
(***************************************************************************)
(* How a driver of the accelerator gets at its block and gives it back:    *)
(* x{fetch,load,store,compute}_linux.c, which looks for the block in       *)
(* /sys/class/uio and maps its registers, and *_sinit.c of a build without *)
(* Linux, which looks it up in a table.  One step is one system call, or   *)
(* the calls that read /sys one after the other; in between, the other     *)
(* drivers and the rest of the process move.                               *)
(*                                                                         *)
(* Every driver keeps one static uio_info for all its instances.  Of what  *)
(* it reads from /sys only the number and the size of map0 are ever used.  *)
(* A failed assertion ends the process: there is no step for it.           *)
(***************************************************************************)
EXTENDS UIOHost, HLSRegisterMap

CONSTANTS Instances,  \* the structures X<Block> of the process
          App,        \* the rest of the process
          DriverOf,   \* DriverOf[i]: the driver, hence the block, of i
          Asks,       \* Asks[i]: the names Initialize is called with
          BlockOf,    \* BlockOf[d]: the block that device d is
          Table,      \* Table[d]: where device d is in a build without Linux
          Faults,     \* what may go wrong: "open", "read", "mmap", "renumber"
          Careful,    \* Initialize and Release by turns
          Word,       \* the pages that 32 bits can address
          Processes   \* the sets of instances that a process may use

Blocks == {"fetch", "load", "store", "compute"}

(* A process asks each driver for devices of its own block.  A 32-bit      *)
(* address holds any page of Pages, and neither NULL nor MAP_FAILED.       *)
ASSUME HLSDeviceAssumption ==
    /\ App \notin Instances /\ Owners = Instances \cup {App}
    /\ DriverOf \in [Instances -> Blocks]
    /\ BlockOf \in [Devices -> Blocks]
    /\ Asks \in [Instances -> SUBSET Devices]
    /\ \A i \in Instances : \A d \in Asks[i] : BlockOf[d] = DriverOf[i]
    /\ Size \in [Devices -> Nat \ {0}]
    /\ Nums \subseteq Nat /\ Nums # {} /\ Fds \subseteq Nat
    /\ Word \in Nat /\ Word > 2 /\ Pages \subseteq 1 .. (Word - 2)
    /\ DOMAIN Table \subseteq Devices
    /\ \A d, e \in DOMAIN Table : Table[d] \in Pages /\ (Table[d] = Table[e] => d = e)
    /\ Processes \subseteq SUBSET Instances
    /\ Careful \in BOOLEAN /\ Faults \subseteq {"open", "read", "mmap", "renumber"}
    /\ None \notin Devices /\ None \notin Holdings /\ None \notin Nat

VARIABLES linux,      \* which build it is
          users,      \* the instances this process uses
          info,       \* info[b]: uio_info of driver b
          inst,       \* inst[i]: Control_bus_BaseAddress and IsReady
          call,       \* call[i]: how far the call under way on i is
          want,       \* want[i]: the name Initialize was called with last
          held        \* held[i]: Initialize returned XST_SUCCESS, no Release since

hostvars == <<uio, files, pages>>
vars == <<hostvars, linux, users, info, inst, call, want, held>>

DeviceTypeOK ==
    /\ HostTypeOK
    /\ linux \in BOOLEAN /\ users \subseteq Instances
    /\ info \in [Blocks -> [fd: Fds \cup {-1, 0}, num: Nums, size: Nat]]
    /\ inst \in [Instances -> [base: 0 .. Word - 1, ready: BOOLEAN]]
    /\ call \in [Instances -> {"away", "scanned", "told", "opened", "unmapped"}]
    /\ want \in [Instances -> {None} \cup Devices]
    /\ held \in [Instances -> BOOLEAN]

(* Linux starts with an empty address space; without it every device of    *)
(* the table is there.                                                     *)
Init ==
    /\ linux \in BOOLEAN
    /\ users \in Processes
    /\ uio = [n \in Nums |-> None]
    /\ files = [f \in Fds |-> None]
    /\ pages = [p \in Pages |-> IF ~linux /\ \E d \in DOMAIN Table : Table[d] = p
                                THEN [by |-> App, dev |-> CHOOSE d \in DOMAIN Table : Table[d] = p]
                                ELSE None]
    /\ info = [b \in Blocks |-> [fd |-> 0, num |-> Least(Nums), size |-> 0]]
    /\ inst = [i \in Instances |-> [base |-> 0, ready |-> FALSE]]
    /\ call = [i \in Instances |-> "away"]
    /\ want = [i \in Instances |-> None]
    /\ held = [i \in Instances |-> FALSE]

Info(i) == info[DriverOf[i]]
Goes(i, stage) == call' = [call EXCEPT ![i] = stage]
Holds(i, yes) == held' = [held EXCEPT ![i] = yes]
-----------------------------------------------------------------------------
(* X<Block>_Initialize on Linux.                                           *)

(* Mutant: the names are not compared. *)
Scan_AnyName(i, d) ==
    /\ linux /\ call[i] = "away" /\ (Careful => ~held[i])
    /\ want' = [want EXCEPT ![i] = d]
    /\ \E n \in Nums :
            /\ uio[n] # None
            /\ info' = [info EXCEPT ![DriverOf[i]].num = n]
            /\ Goes(i, "scanned")
    /\ UNCHANGED <<hostvars, linux, users, inst, held>>

(* scandir: the first entry whose name is the one that is asked for gives  *)
(* the number.  Without one the instance is left as it is.                 *)
Scan(i, d) ==
    /\ linux /\ call[i] = "away" /\ (Careful => ~held[i])
    /\ want' = [want EXCEPT ![i] = d]
    /\ \/ \E n \in Nums :
            /\ uio[n] = d
            /\ info' = [info EXCEPT ![DriverOf[i]].num = n]
            /\ Goes(i, "scanned")
            /\ UNCHANGED held
       \/ /\ \A n \in Nums : uio[n] # d
          /\ Holds(i, FALSE)   \* XST_DEVICE_NOT_FOUND
          /\ UNCHANGED <<info, call>>
    /\ UNCHANGED <<hostvars, linux, users, inst>>

(* The size in the static structure after reading it: one that cannot be   *)
(* read stays what it was.                                                 *)
MapSizes(i) ==
    LET d == uio[Info(i).num]
    IN  (IF d = None THEN {} ELSE {Size[d]})
            \cup (IF d = None \/ "read" \in Faults THEN {Info(i).size} ELSE {})

(* Name, version and maps of that number; the results of reading are not   *)
(* looked at.                                                              *)
ReadMaps(i) ==
    /\ call[i] = "scanned"
    /\ \E size \in MapSizes(i) : info' = [info EXCEPT ![DriverOf[i]].size = size]
    /\ Goes(i, "told")
    /\ UNCHANGED <<hostvars, linux, users, inst, want, held>>

(* open: a failure leaves -1 in the static structure and the instance as   *)
(* it was.                                                                 *)
Open(i) ==
    LET d == uio[Info(i).num] IN
    /\ call[i] = "told"
    /\ \/ /\ d # None /\ FreeFds # {}
          /\ OpenFile(i, d)
          /\ info' = [info EXCEPT ![DriverOf[i]].fd = Least(FreeFds)]
          /\ Goes(i, "opened")
          /\ UNCHANGED held
       \/ /\ d = None \/ FreeFds = {} \/ "open" \in Faults
          /\ info' = [info EXCEPT ![DriverOf[i]].fd = -1]
          /\ Goes(i, "away")
          /\ Holds(i, FALSE)   \* XST_OPEN_DEVICE_FAILED
          /\ UNCHANGED files
    /\ UNCHANGED <<uio, pages, linux, users, inst, want>>

(* MAP_FAILED is the last address of all.                                  *)
MapFailed == Word - 1

(* mmap of the static file and size; the address is cut to 32 bits and     *)
(* must not be 0.  The kernel refuses a size of 0 or beyond the device's.  *)
(* Pages is a bound: a mapping waits for room in it, and the kernel's lack *)
(* of room is the fault "mmap".                                            *)
Map(i) ==
    LET d == DeviceOf(Info(i).fd)
        size == Info(i).size
        refused == d = None \/ size \notin 1 .. Size[d]
        got(page) == inst' = [inst EXCEPT ![i] = [base |-> page % Word, ready |-> TRUE]]
    IN  /\ call[i] = "opened"
        /\ \/ /\ ~refused /\ Gaps(size) # {}
              /\ MapPages(i, d, Least(Gaps(size)), size)
              /\ got(Least(Gaps(size)))
           \/ /\ refused \/ "mmap" \in Faults
              /\ got(MapFailed)
              /\ UNCHANGED pages
        /\ inst'[i].base # 0
        /\ Goes(i, "away")
        /\ Holds(i, TRUE)      \* XST_SUCCESS
        /\ UNCHANGED <<uio, files, linux, users, info, want>>
-----------------------------------------------------------------------------
(* Mutant: one page too many. *)
Unmap_OneMore(i) ==
    /\ linux /\ call[i] = "away" /\ (Careful => held[i])
    /\ inst[i].ready
    /\ UnmapPages(inst[i].base, Info(i).size + 1)
    /\ Goes(i, "unmapped")
    /\ Holds(i, FALSE)
    /\ UNCHANGED <<uio, files, linux, users, info, inst, want>>

(* X<Block>_Release: munmap, then close, of the static size and file.      *)
(* IsReady and the file number stay as they are.                           *)
Unmap(i) ==
    /\ linux /\ call[i] = "away" /\ (Careful => held[i])
    /\ inst[i].ready
    /\ UnmapPages(inst[i].base, Info(i).size)
    /\ Goes(i, "unmapped")
    /\ Holds(i, FALSE)
    /\ UNCHANGED <<uio, files, linux, users, info, inst, want>>

(* Mutant: the file stays open. *)
Close_Not(i) ==
    /\ call[i] = "unmapped"
    /\ Goes(i, "away")
    /\ UNCHANGED <<hostvars, linux, users, info, inst, want, held>>

Close(i) ==
    /\ call[i] = "unmapped"
    /\ CloseFile(Info(i).fd)
    /\ Goes(i, "away")
    /\ UNCHANGED <<uio, pages, linux, users, info, inst, want, held>>
-----------------------------------------------------------------------------
(* X<Block>_LookupConfig and X<Block>_Initialize of a build without Linux. *)
LookupConfig(d) == IF d \in DOMAIN Table THEN Table[d] ELSE None

CfgInitialize(i, base) == inst' = [inst EXCEPT ![i] = [base |-> base, ready |-> TRUE]]

(* Mutant: the NULL of a device that is not in the table is used. *)
InitializeById_Null(i, d) ==
    LET base == LookupConfig(d) IN
    /\ ~linux
    /\ want' = [want EXCEPT ![i] = d]
    /\ CfgInitialize(i, base)
    /\ Holds(i, TRUE)
    /\ UNCHANGED <<hostvars, linux, users, info, call>>

InitializeById(i, d) ==
    LET base == LookupConfig(d) IN
    /\ ~linux
    /\ want' = [want EXCEPT ![i] = d]
    /\ IF base = None THEN inst' = [inst EXCEPT ![i].ready = FALSE] ELSE CfgInitialize(i, base)
    /\ Holds(i, base # None)
    /\ UNCHANGED <<hostvars, linux, users, info, call>>

Step(i) ==
    \/ \E d \in Asks[i] : Scan(i, d)
    \/ ReadMaps(i)
    \/ Open(i)
    \/ Map(i)
    \/ Unmap(i)
    \/ Close(i)
    \/ \E d \in Asks[i] : InitializeById(i, d)

Driver(block) == \E i \in users : DriverOf[i] = block /\ Step(i)
XFetch == Driver("fetch")
XLoad == Driver("load")
XStore == Driver("store")
XCompute == Driver("compute")

(* The register r of its block that a call on instance i reads or writes.  *)
Access(i, r) ==
    LET page == pages[inst[i].base]
    IN  IF inst[i].base \notin Pages \/ page = None \/ page.dev = None THEN None
        ELSE [dev |-> page.dev, reg |-> Decode(BlockOf[page.dev], Offsets(DriverOf[i])[r])]
-----------------------------------------------------------------------------
(* The rest of the process has a file of its own for a while, or a page.   *)
AppFiles == {f \in Fds : files[f] # None /\ files[f].by = App}
AppPages == {p \in Pages : pages[p] # None /\ pages[p].by = App}
AppMoves ==
    /\ linux
    /\ \/ /\ AppFiles \cup AppPages = {} /\ FreeFds # {}
          /\ OpenFile(App, None)
          /\ UNCHANGED pages
       \/ /\ \E f \in AppFiles : CloseFile(f)
          /\ UNCHANGED pages
       \/ /\ AppFiles \cup AppPages = {} /\ Gaps(1) # {}
          /\ MapPages(App, None, Least(Gaps(1)), 1)
          /\ UNCHANGED files
       \/ /\ \E p \in AppPages : UnmapPages(p, 1)
          /\ UNCHANGED files
    /\ UNCHANGED <<uio, linux, users, info, inst, call, want, held>>

(* Devices come and go; unless "renumber" may happen, not between a scan   *)
(* and the open after it.                                                  *)
DevicesMove ==
    /\ linux
    /\ "renumber" \in Faults \/ {i \in Instances : call[i] \in {"scanned", "told"}} = {}
    /\ \E d \in UNION {Asks[i] : i \in users} : Plug(d) \/ Unplug(d)
    /\ UNCHANGED <<linux, users, info, inst, call, want, held>>

Next == XFetch \/ XLoad \/ XStore \/ XCompute \/ AppMoves \/ DevicesMove

Spec == Init /\ [][Next]_vars
=============================================================================
