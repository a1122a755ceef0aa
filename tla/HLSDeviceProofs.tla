-------------------------- MODULE HLSDeviceProofs --------------------------
(***************************************************************************)
(* Proofs about the drivers' way to their blocks, for any devices, files,  *)
(* pages and processes.  What each instance has is a function of how far   *)
(* its call is: HasFile and HasPages say so, and the tables of the kernel  *)
(* agree with it.                                                          *)
(***************************************************************************)
EXTENDS HLSDeviceProps, WellFoundedInduction, TLAPS

(* Callers that initialise and release by turns, one instance per driver.  *)
ByTurns ==
    /\ Careful
    /\ \A P \in Processes : \A i, j \in P : DriverOf[i] = DriverOf[j] => i = j

(* A device keeps its number from the scan to the open after it.           *)
Steady == "renumber" \notin Faults

(* And nothing but open fails.                                             *)
Sound == Faults \subseteq {"open"}

HasFile(i) == linux /\ (held[i] \/ call[i] \in {"opened", "unmapped"})
HasPages(i) == linux /\ held[i]

Opened(f, i) == files[f] # None /\ files[f].by = i
Mapped(p, i) == pages[p] # None /\ pages[p].by = i

(* Where the call on an instance can be.                                   *)
StageOK(i) ==
    /\ i \notin users => call[i] = "away" /\ ~held[i] /\ ~inst[i].ready
    /\ ~linux => call[i] = "away" /\ (held[i] <=> inst[i].ready)
    /\ call[i] # "away" => ~held[i]

(* A file is open for an instance just when it has one, under the number   *)
(* in the static structure; its pages are those that Release will unmap.   *)
FileOK(i) ==
    /\ HasFile(i) => Info(i).fd \in Fds
    /\ \A f \in Fds : Opened(f, i) <=> HasFile(i) /\ f = Info(i).fd
PagesOK(i) ==
    \A p \in Pages : Mapped(p, i) <=> HasPages(i) /\ p \in Span(inst[i].base, Info(i).size)

OwnInv ==
    /\ DeviceTypeOK
    /\ users \in Processes
    /\ \A i \in Instances : StageOK(i) /\ FileOK(i) /\ PagesOK(i)

(* What is found by name, opened and mapped is what was asked for, if it   *)
(* is mapped at all: that takes an mmap which is not refused.              *)
AskedOK(i) ==
    LET d == want[i]
    IN  /\ linux /\ (held[i] \/ call[i] # "away") => d \in Asks[i]
        /\ call[i] \in {"scanned", "told"} => uio[Info(i).num] = d
        /\ "read" \notin Faults /\ call[i] \in {"told", "opened"} => Info(i).size = Size[d]
        /\ call[i] = "opened" => files[Info(i).fd].dev = d
        /\ linux /\ held[i] /\ inst[i].base \in Pages =>
                pages[inst[i].base].dev = d /\ Info(i).size \in Nat \ {0}
        /\ linux /\ held[i] /\ Sound => inst[i].base \in Pages

(* Without Linux every device of the table is where the table says.        *)
TableOK ==
    ~linux => /\ \A d \in DOMAIN Table : pages[Table[d]] = [by |-> App, dev |-> d]
              /\ \A i \in Instances : inst[i].ready =>
                    want[i] \in Asks[i] \cap DOMAIN Table /\ inst[i].base = Table[want[i]]

ReachInv == OwnInv /\ TableOK /\ \A i \in Instances : AskedOK(i)
-----------------------------------------------------------------------------
(* Least of a set of naturals that is not empty is in it.                  *)
LEMMA LeastIn ==
    ASSUME NEW S, S \subseteq Nat, S # {}
    PROVE  Least(S) \in S
  <1>1. PICK n \in S : \A m \in S : ~ (<<m, n>> \in OpToRel(<, Nat))
    BY NatLessThanWellFounded, WFMin
  <1>2. OpToRel(<, Nat) = {ss \in Nat \X Nat : ss[1] < ss[2]}
    BY DEF OpToRel
  <1>3. ASSUME NEW m \in S PROVE n <= m
    <2>1. m \in Nat /\ n \in Nat /\ <<m, n>> \in Nat \X Nat
      OBVIOUS
    <2>2. ~ (m < n)
      BY <1>1, <1>2, <2>1
    <2>3. QED
      BY <2>1, <2>2
  <1>4. QED
    BY <1>3 DEF Least

LEMMA Numbers ==
    /\ Word \in Nat /\ Word > 2 /\ (Word - 1) % Word = Word - 1
    /\ \A p \in Pages : p \in 1 .. Word - 2 /\ p \in Nat /\ p % Word = p
    /\ Fds \subseteq Nat /\ -1 \notin Fds
    /\ Least(Nums) \in Nums
    /\ \A d \in Devices : Size[d] \in Nat \ {0}
    /\ \A d \in DOMAIN Table : d \in Devices /\ Table[d] \in Pages /\ Table[d] # None
    /\ \A i \in Instances : DriverOf[i] \in Blocks /\ i \in Owners /\ i # App
    /\ App \in Owners
    /\ \A i \in Instances : Asks[i] \subseteq Devices
    /\ None \notin Holdings /\ None \notin Devices
    /\ \A P \in Processes : P \subseteq Instances
  <1>0. \A w \in Nat : w > 2 => (w - 1) % w = w - 1
    OBVIOUS
  <1>1. \A p \in Pages : p \in 1 .. Word - 2 /\ p \in Nat /\ p % Word = p
    BY HLSDeviceAssumption DEF HLSDeviceAssumption
  <1>2. Least(Nums) \in Nums
    BY LeastIn, HLSDeviceAssumption DEF HLSDeviceAssumption
  <1>3. ASSUME NEW d \in DOMAIN Table
        PROVE  d \in Devices /\ Table[d] \in Pages /\ Table[d] # None
    <2>1. d \in Devices /\ Table[d] \in Pages
      BY HLSDeviceAssumption DEF HLSDeviceAssumption
    <2>2. Table[d] \in Nat
      BY <1>1, <2>1
    <2>3. QED
      BY <2>1, <2>2, HLSDeviceAssumption DEF HLSDeviceAssumption
  <1>4. Word \in Nat /\ Word > 2
    BY HLSDeviceAssumption DEF HLSDeviceAssumption
  <1>5. (Word - 1) % Word = Word - 1
    BY <1>0, <1>4
  <1>6. QED
    BY <1>1, <1>2, <1>3, <1>4, <1>5, HLSDeviceAssumption DEF HLSDeviceAssumption

(* What mmap and open give out is free, and in the tables.                 *)
LEMMA FreeIsFree ==
    /\ FreeFds # {} => Least(FreeFds) \in FreeFds
    /\ \A size \in Nat : Gaps(size) # {} => Least(Gaps(size)) \in Gaps(size)
  <1>1. FreeFds \subseteq Nat
    BY Numbers DEF FreeFds
  <1>2. ASSUME NEW size PROVE Gaps(size) \subseteq Nat
    <2>1. Gaps(size) \subseteq Pages
      BY DEF Gaps
    <2>2. Pages \subseteq Nat
      BY HLSDeviceAssumption DEF HLSDeviceAssumption
    <2>3. QED
      BY <2>1, <2>2
  <1>3. QED
    BY <1>1, <1>2, LeastIn
-----------------------------------------------------------------------------
(* Types.                                                                  *)
LEMMA InitTypes == Init => DeviceTypeOK
  <1> SUFFICES ASSUME Init PROVE DeviceTypeOK
    OBVIOUS
  <1>1. pages \in [Pages -> {None} \cup Holdings]
    <2>1. ASSUME NEW p \in Pages, \E d \in DOMAIN Table : Table[d] = p
          PROVE  (CHOOSE d \in DOMAIN Table : Table[d] = p) \in Devices
      BY <2>1, Numbers
    <2>2. QED
      BY <2>1, Numbers DEF Init, Holdings
  <1>2. QED
    BY <1>1, Numbers DEF Init, DeviceTypeOK, HostTypeOK

LEMMA StepTypes == ASSUME DeviceTypeOK, NEW i \in Instances, Step(i) PROVE DeviceTypeOK'
  <1> USE DEF DeviceTypeOK, HostTypeOK
  <1>0. DriverOf[i] \in Blocks
    BY Numbers
  <1>1. ASSUME NEW d \in Asks[i], Scan(i, d) PROVE DeviceTypeOK'
    <2>1. info' \in [Blocks -> [fd: Fds \cup {-1, 0}, num: Nums, size: Nat]]
      <3>1. CASE info' = info
        BY <3>1
      <3>2. CASE \E n \in Nums : info' = [info EXCEPT ![DriverOf[i]].num = n]
        BY <1>0, <3>2
      <3>3. QED
        BY <1>1, <3>1, <3>2 DEF Scan
    <2>2. d \in Devices
      BY Numbers
    <2>3. QED
      BY <1>1, <2>1, <2>2 DEF Scan, Goes, Holds, hostvars
  <1>2. ASSUME ReadMaps(i) PROVE DeviceTypeOK'
    <2>1. MapSizes(i) \subseteq Nat
      BY <1>0, Numbers DEF MapSizes, Info
    <2>2. info' \in [Blocks -> [fd: Fds \cup {-1, 0}, num: Nums, size: Nat]]
      <3>1. PICK size \in MapSizes(i) : info' = [info EXCEPT ![DriverOf[i]].size = size]
        BY <1>2 DEF ReadMaps
      <3>2. size \in Nat
        BY <2>1, <3>1
      <3>3. QED
        BY <1>0, <3>1, <3>2
    <2>3. call' \in [Instances -> {"away", "scanned", "told", "opened", "unmapped"}]
      BY <1>2 DEF ReadMaps, Goes
    <2>4. QED
      BY <1>2, <2>2, <2>3 DEF ReadMaps, hostvars
  <1>3. ASSUME Open(i) PROVE DeviceTypeOK'
    <2>1. uio[Info(i).num] \in {None} \cup Devices
      BY <1>0 DEF Info
    <2>2. FreeFds # {} => Least(FreeFds) \in Fds
      BY FreeIsFree DEF FreeFds
    <2>3. files' \in [Fds -> {None} \cup Holdings]
      <3>1. CASE files' = files
        BY <3>1
      <3>2. CASE /\ uio[Info(i).num] # None /\ FreeFds # {}
                 /\ OpenFile(i, uio[Info(i).num])
        <4>1. [by |-> i, dev |-> uio[Info(i).num]] \in Holdings
          BY <2>1, Numbers DEF Holdings
        <4>2. QED
          BY <2>2, <3>2, <4>1 DEF OpenFile
      <3>3. QED
        BY <1>3, <3>1, <3>2 DEF Open
    <2>4. info' \in [Blocks -> [fd: Fds \cup {-1, 0}, num: Nums, size: Nat]]
      <3>1. \E fd \in Fds \cup {-1, 0} : info' = [info EXCEPT ![DriverOf[i]].fd = fd]
        BY <1>3, <2>2 DEF Open
      <3>2. QED
        BY <1>0, <3>1
    <2>5. QED
      BY <1>3, <2>3, <2>4 DEF Open, Goes, Holds
  <1>4. ASSUME Map(i) PROVE DeviceTypeOK'
    <2> DEFINE size == Info(i).size
               dev == DeviceOf(Info(i).fd)
    <2>1. dev \in {None} \cup Devices /\ size \in Nat
      BY <1>0 DEF DeviceOf, Info, Holdings
    <2>2. Gaps(size) # {} => Least(Gaps(size)) \in Pages
      BY <2>1, FreeIsFree DEF Gaps
    <2>3. pages' \in [Pages -> {None} \cup Holdings]
      BY <1>4, <2>1, Numbers DEF Map, MapPages, Holdings
    <2>4. inst' \in [Instances -> [base: 0 .. Word - 1, ready: BOOLEAN]]
      <3>1. \A p \in Pages \cup {MapFailed} : p % Word \in 0 .. Word - 1
        BY Numbers DEF MapFailed
      <3>2. \E p \in Pages \cup {MapFailed} :
                inst' = [inst EXCEPT ![i] = [base |-> p % Word, ready |-> TRUE]]
        BY <1>4, <2>2 DEF Map
      <3>3. QED
        BY <3>1, <3>2
    <2>5. QED
      BY <1>4, <2>3, <2>4 DEF Map, Goes, Holds
  <1>5. ASSUME Unmap(i) PROVE DeviceTypeOK'
    BY <1>5 DEF Unmap, UnmapPages, Goes, Holds
  <1>6. ASSUME Close(i) PROVE DeviceTypeOK'
    BY <1>6 DEF Close, CloseFile, Goes
  <1>7. ASSUME NEW d \in Asks[i], InitializeById(i, d) PROVE DeviceTypeOK'
    <2>1. inst' \in [Instances -> [base: 0 .. Word - 1, ready: BOOLEAN]]
      <3>1. CASE inst' = [inst EXCEPT ![i].ready = FALSE]
        BY <3>1
      <3>2. CASE d \in DOMAIN Table /\ inst' = [inst EXCEPT ![i] = [base |-> Table[d], ready |-> TRUE]]
        <4>1. Table[d] \in 1 .. Word - 2
          BY <3>2, Numbers
        <4>2. Table[d] \in 0 .. Word - 1
          BY <4>1, Numbers
        <4>3. QED
          BY <3>2, <4>2
      <3>3. QED
        BY <1>7, <3>1, <3>2 DEF InitializeById, LookupConfig, CfgInitialize
    <2>2. QED
      BY <1>7, <2>1, Numbers DEF InitializeById, Holds, hostvars
  <1>8. QED
    BY <1>1, <1>2, <1>3, <1>4, <1>5, <1>6, <1>7 DEF Step

LEMMA AppTypes == ASSUME DeviceTypeOK, AppMoves PROVE DeviceTypeOK'
  <1> USE DEF DeviceTypeOK, HostTypeOK
  <1>1. [by |-> App, dev |-> None] \in Holdings
    BY Numbers DEF Holdings
  <1>2. files' \in [Fds -> {None} \cup Holdings]
    BY <1>1 DEF AppMoves, OpenFile, CloseFile
  <1>3. pages' \in [Pages -> {None} \cup Holdings]
    BY <1>1 DEF AppMoves, MapPages, UnmapPages
  <1>4. QED
    BY <1>2, <1>3 DEF AppMoves

LEMMA DevicesTypes == ASSUME DeviceTypeOK, DevicesMove PROVE DeviceTypeOK'
  <1> USE DEF DeviceTypeOK, HostTypeOK
  <1>1. PICK d \in UNION {Asks[i] : i \in users} : Plug(d) \/ Unplug(d)
    BY DEF DevicesMove
  <1>2. d \in Devices
    BY Numbers
  <1>3. uio' \in [Nums -> {None} \cup Devices] /\ UNCHANGED <<files, pages>>
    BY <1>1, <1>2 DEF Plug, Unplug
  <1>4. QED
    BY <1>3 DEF DevicesMove

(* The users of the process are instances, and each step is of one of      *)
(* them, of the rest of the process or of the devices.                     *)
LEMMA Steps ==
    ASSUME Next
    PROVE  (\E i \in users : Step(i)) \/ AppMoves \/ DevicesMove
  BY DEF Next, XFetch, XLoad, XStore, XCompute, Driver

(* Every variable of the drivers and of the kernel's tables keeps its type *)
(* (HLSDevice): no driver keeps a number that open and mmap never give.    *)
THEOREM TypeCorrect == Spec => []DeviceTypeOK
  <1>1. ASSUME DeviceTypeOK, [Next]_vars PROVE DeviceTypeOK'
    <2>1. CASE Next
      BY <1>1, <2>1, Steps, StepTypes, AppTypes, DevicesTypes DEF DeviceTypeOK
    <2>2. CASE UNCHANGED vars
      BY <1>1, <2>2 DEF vars, hostvars, DeviceTypeOK, HostTypeOK
    <2>3. QED
      BY <1>1, <2>1, <2>2
  <1>2. QED
    BY <1>1, InitTypes, PTL DEF Spec
-----------------------------------------------------------------------------
(* Who has what.                                                           *)
LEMMA InitOwn == Init => OwnInv
  <1> SUFFICES ASSUME Init PROVE OwnInv
    OBVIOUS
  <1>1. ASSUME NEW i \in Instances PROVE StageOK(i) /\ FileOK(i)
    BY DEF Init, StageOK, FileOK, HasFile, Opened
  <1>2. ASSUME NEW i \in Instances PROVE PagesOK(i)
    BY Numbers DEF Init, PagesOK, HasPages, Mapped
  <1>3. QED
    BY <1>1, <1>2, InitTypes DEF OwnInv, Init

(* Another instance of the same driver has nothing.                        *)
LEMMA Sole ==
    ASSUME OwnInv, ByTurns, NEW i \in users, NEW j \in Instances, j # i, DriverOf[j] = DriverOf[i]
    PROVE  ~HasFile(j) /\ ~HasPages(j)
  <1>1. j \notin users
    BY DEF ByTurns, OwnInv
  <1>2. QED
    BY <1>1 DEF OwnInv, StageOK, HasFile, HasPages

(* What a step of one instance does to the tables, by action.              *)
LEMMA ScanStep ==
    ASSUME OwnInv, ByTurns, NEW i \in users, NEW d \in Asks[i], Scan(i, d)
    PROVE  /\ linux /\ call[i] = "away" /\ ~held[i] /\ ~held'[i] /\ call'[i] \in {"away", "scanned"}
           /\ UNCHANGED <<files, pages, inst, linux, users>>
           /\ \A j \in Instances \ {i} : call'[j] = call[j] /\ held'[j] = held[j]
           /\ \A b \in Blocks : info'[b].fd = info[b].fd /\ info'[b].size = info[b].size
  <1> USE DEF OwnInv, DeviceTypeOK, ByTurns
  <1>1. i \in Instances /\ DriverOf[i] \in Blocks
    BY Numbers
  <1>2. \A b \in Blocks : info'[b].fd = info[b].fd /\ info'[b].size = info[b].size
    <2>1. CASE info' = info
      BY <2>1
    <2>2. CASE \E n \in Nums : info' = [info EXCEPT ![DriverOf[i]].num = n]
      BY <1>1, <2>2
    <2>3. QED
      BY <2>1, <2>2 DEF Scan
  <1>3. QED
    BY <1>1, <1>2 DEF Scan, Goes, Holds, hostvars

LEMMA ReadMapsStep ==
    ASSUME OwnInv, NEW i \in users, ReadMaps(i)
    PROVE  /\ call[i] = "scanned" /\ call'[i] = "told"
           /\ UNCHANGED <<files, pages, inst, linux, users, held>>
           /\ \A j \in Instances \ {i} : call'[j] = call[j]
           /\ \A b \in Blocks : /\ info'[b].fd = info[b].fd
                                /\ b # DriverOf[i] => info'[b].size = info[b].size
  <1> USE DEF OwnInv, DeviceTypeOK
  <1>1. i \in Instances /\ DriverOf[i] \in Blocks
    BY Numbers
  <1>2. PICK size \in MapSizes(i) : info' = [info EXCEPT ![DriverOf[i]].size = size]
    BY DEF ReadMaps
  <1>3. \A b \in Blocks : info'[b].fd = info[b].fd /\ (b # DriverOf[i] => info'[b].size = info[b].size)
    BY <1>1, <1>2
  <1>4. QED
    BY <1>1, <1>3 DEF ReadMaps, Goes, hostvars

LEMMA OpenStep ==
    ASSUME OwnInv, NEW i \in users, Open(i)
    PROVE  /\ call[i] = "told"
           /\ UNCHANGED <<pages, inst, linux, users>>
           /\ \A j \in Instances \ {i} : call'[j] = call[j] /\ held'[j] = held[j]
           /\ \A b \in Blocks : info'[b].size = info[b].size /\ info'[b].num = info[b].num
           /\ \A b \in Blocks \ {DriverOf[i]} : info'[b].fd = info[b].fd
           /\ \/ /\ call'[i] = "away" /\ files' = files /\ ~held'[i]
              \/ /\ call'[i] = "opened" /\ held'[i] = held[i]
                 /\ \E f \in Fds : /\ files[f] = None /\ info'[DriverOf[i]].fd = f
                                   /\ files' = [files EXCEPT ![f] = [by |-> i, dev |-> uio[Info(i).num]]]
  <1> USE DEF OwnInv, DeviceTypeOK
  <1>1. i \in Instances /\ DriverOf[i] \in Blocks
    BY Numbers
  <1>2. CASE uio[Info(i).num] # None /\ FreeFds # {} /\ OpenFile(i, uio[Info(i).num])
             /\ info' = [info EXCEPT ![DriverOf[i]].fd = Least(FreeFds)]
             /\ Goes(i, "opened") /\ UNCHANGED held
    <2>1. Least(FreeFds) \in Fds /\ files[Least(FreeFds)] = None
      BY <1>2, FreeIsFree DEF FreeFds
    <2>2. /\ \A b \in Blocks : info'[b].size = info[b].size /\ info'[b].num = info[b].num
          /\ \A b \in Blocks \ {DriverOf[i]} : info'[b].fd = info[b].fd
          /\ info'[DriverOf[i]].fd = Least(FreeFds)
      BY <1>1, <1>2
    <2>3. files' = [files EXCEPT ![Least(FreeFds)] = [by |-> i, dev |-> uio[Info(i).num]]]
      BY <1>2 DEF OpenFile
    <2>4. QED
      BY <1>1, <1>2, <2>1, <2>2, <2>3 DEF Open, Goes
  <1>3. CASE info' = [info EXCEPT ![DriverOf[i]].fd = -1] /\ Goes(i, "away") /\ Holds(i, FALSE)
             /\ UNCHANGED files
    <2>1. /\ \A b \in Blocks : info'[b].size = info[b].size /\ info'[b].num = info[b].num
          /\ \A b \in Blocks \ {DriverOf[i]} : info'[b].fd = info[b].fd
      BY <1>1, <1>3
    <2>2. QED
      BY <1>1, <1>3, <2>1 DEF Open, Goes, Holds
  <1>4. QED
    BY <1>2, <1>3 DEF Open

LEMMA MapStep ==
    ASSUME OwnInv, NEW i \in users, Map(i)
    PROVE  /\ call[i] = "opened" /\ call'[i] = "away" /\ held'[i] /\ inst'[i].ready
           /\ UNCHANGED <<files, linux, users, info, uio>>
           /\ \A j \in Instances \ {i} : call'[j] = call[j] /\ held'[j] = held[j] /\ inst'[j] = inst[j]
           /\ \/ /\ inst'[i].base = Word - 1 /\ pages' = pages
                 /\ \/ DeviceOf(Info(i).fd) = None \/ "mmap" \in Faults
                    \/ Info(i).size \notin 1 .. Size[DeviceOf(Info(i).fd)]
              \/ /\ inst'[i].base \in Pages
                 /\ DeviceOf(Info(i).fd) # None /\ Info(i).size \in 1 .. Size[DeviceOf(Info(i).fd)]
                 /\ \A p \in Span(inst'[i].base, Info(i).size) : p \in Pages /\ pages[p] = None
                 /\ pages' = [p \in Pages |->
                                IF p \in Span(inst'[i].base, Info(i).size)
                                THEN [by |-> i, dev |-> DeviceOf(Info(i).fd)] ELSE pages[p]]
  <1> USE DEF OwnInv, DeviceTypeOK
  <1>1. i \in Instances /\ DriverOf[i] \in Blocks
    BY Numbers
  <1>2. Info(i).size \in Nat
    BY <1>1 DEF Info
  <1>3. CASE /\ DeviceOf(Info(i).fd) # None /\ Info(i).size \in 1 .. Size[DeviceOf(Info(i).fd)]
             /\ Gaps(Info(i).size) # {}
             /\ MapPages(i, DeviceOf(Info(i).fd), Least(Gaps(Info(i).size)), Info(i).size)
             /\ inst' = [inst EXCEPT ![i] = [base |-> Least(Gaps(Info(i).size)) % Word, ready |-> TRUE]]
    <2> DEFINE page == Least(Gaps(Info(i).size))
    <2>1. page \in Pages /\ \A q \in Span(page, Info(i).size) : q \in Pages /\ pages[q] = None
      BY <1>2, <1>3, FreeIsFree DEF Gaps
    <2>2. inst'[i].base = page /\ inst'[i].ready
      BY <1>1, <1>3, <2>1, Numbers
    <2> HIDE DEF page
    <2>3. pages' = [p \in Pages |-> IF p \in Span(page, Info(i).size)
                                    THEN [by |-> i, dev |-> DeviceOf(Info(i).fd)] ELSE pages[p]]
      BY <1>3 DEF MapPages, page
    <2>4. /\ UNCHANGED <<files, linux, users, info, uio>> /\ call[i] = "opened" /\ call'[i] = "away" /\ held'[i]
          /\ \A j \in Instances \ {i} : call'[j] = call[j] /\ held'[j] = held[j] /\ inst'[j] = inst[j]
      BY <1>1, <1>3 DEF Map, Goes, Holds
    <2>5. QED
      BY <1>3, <2>1, <2>2, <2>3, <2>4
  <1>4. CASE /\ \/ DeviceOf(Info(i).fd) = None \/ "mmap" \in Faults
                \/ Info(i).size \notin 1 .. Size[DeviceOf(Info(i).fd)]
             /\ inst' = [inst EXCEPT ![i] = [base |-> MapFailed % Word, ready |-> TRUE]]
             /\ UNCHANGED pages
    <2>1. MapFailed % Word = Word - 1
      BY Numbers DEF MapFailed
    <2>2. inst'[i].base = Word - 1 /\ inst'[i].ready
      BY <1>1, <1>4, <2>1
    <2>3. /\ UNCHANGED <<files, linux, users, info, uio>> /\ call[i] = "opened" /\ call'[i] = "away" /\ held'[i]
          /\ \A j \in Instances \ {i} : call'[j] = call[j] /\ held'[j] = held[j] /\ inst'[j] = inst[j]
      BY <1>1, <1>4 DEF Map, Goes, Holds
    <2>4. QED
      BY <1>4, <2>2, <2>3
  <1>5. QED
    BY <1>3, <1>4 DEF Map

LEMMA UnmapStep ==
    ASSUME OwnInv, ByTurns, NEW i \in users, Unmap(i)
    PROVE  /\ linux /\ call[i] = "away" /\ held[i] /\ call'[i] = "unmapped" /\ ~held'[i]
           /\ UNCHANGED <<uio, files, linux, users, info, inst>>
           /\ \A j \in Instances \ {i} : call'[j] = call[j] /\ held'[j] = held[j]
           /\ pages' = [p \in Pages |-> IF p \in Span(inst[i].base, Info(i).size) THEN None ELSE pages[p]]
  BY DEF OwnInv, DeviceTypeOK, ByTurns, Unmap, UnmapPages, Goes, Holds

LEMMA CloseStep ==
    ASSUME OwnInv, NEW i \in users, Close(i)
    PROVE  /\ call[i] = "unmapped" /\ call'[i] = "away"
           /\ UNCHANGED <<uio, pages, linux, users, info, inst, held>>
           /\ \A j \in Instances \ {i} : call'[j] = call[j]
           /\ files' = [f \in Fds |-> IF f = Info(i).fd THEN None ELSE files[f]]
  BY DEF OwnInv, DeviceTypeOK, Close, CloseFile, Goes

LEMMA ByIdStep ==
    ASSUME OwnInv, NEW i \in users, NEW d \in Asks[i], InitializeById(i, d)
    PROVE  /\ ~linux /\ UNCHANGED <<hostvars, linux, users, info, call>>
           /\ held'[i] \in BOOLEAN /\ (held'[i] <=> inst'[i].ready)
           /\ held'[i] => d \in DOMAIN Table /\ inst'[i].base = Table[d]
           /\ want'[i] = d
           /\ \A j \in Instances \ {i} : held'[j] = held[j] /\ inst'[j] = inst[j] /\ want'[j] = want[j]
  <1> USE DEF OwnInv, DeviceTypeOK
  <1>1. CASE d \in DOMAIN Table
    <2>1. Table[d] # None
      BY <1>1, Numbers
    <2>2. inst' = [inst EXCEPT ![i] = [base |-> Table[d], ready |-> TRUE]]
      BY <1>1, <2>1 DEF InitializeById, LookupConfig, CfgInitialize
    <2>3. held' = [held EXCEPT ![i] = TRUE]
      BY <1>1, <2>1 DEF InitializeById, LookupConfig, Holds
    <2>4. QED
      BY <1>1, <2>2, <2>3 DEF InitializeById
  <1>2. CASE d \notin DOMAIN Table
    BY <1>2 DEF InitializeById, LookupConfig, Holds
  <1>3. QED
    BY <1>1, <1>2
-----------------------------------------------------------------------------
(* The other instances keep what they have.                                *)
LEMMA Kept ==
    ASSUME OwnInv, ByTurns, NEW i \in users, NEW j \in Instances \ {i}, 
           call'[j] = call[j], held'[j] = held[j], inst'[j].base = inst[j].base,
           inst'[j].ready = inst[j].ready, linux' = linux, users' = users,
           \A b \in Blocks \ {DriverOf[i]} : info'[b].fd = info[b].fd /\ info'[b].size = info[b].size,
           \A f \in Fds : Opened(f, j)' <=> Opened(f, j),
           \A p \in Pages : Mapped(p, j)' <=> Mapped(p, j)
    PROVE  StageOK(j)' /\ FileOK(j)' /\ PagesOK(j)'
  <1>1. StageOK(j)'
    BY DEF OwnInv, StageOK
  <1>2. (HasFile(j)' <=> HasFile(j)) /\ (HasPages(j)' <=> HasPages(j))
    BY DEF HasFile, HasPages
  <1>3. CASE DriverOf[j] = DriverOf[i]
    BY <1>1, <1>2, <1>3, Sole DEF OwnInv, FileOK, PagesOK
  <1>4. CASE DriverOf[j] # DriverOf[i]
    <2>1. Info(j).fd' = Info(j).fd /\ Info(j).size' = Info(j).size
      BY <1>4, Numbers DEF Info
    <2>2. QED
      BY <1>1, <1>2, <2>1 DEF OwnInv, FileOK, PagesOK
  <1>5. QED
    BY <1>3, <1>4

LEMMA StepOthers ==
    ASSUME OwnInv, ByTurns, NEW i \in users, Step(i), NEW j \in Instances \ {i}
    PROVE  StageOK(j)' /\ FileOK(j)' /\ PagesOK(j)'
  <1>0. /\ i \in Instances
        /\ \A f \in Fds : Opened(f, i) => ~Opened(f, j)
        /\ \A p \in Pages : Mapped(p, i) => ~Mapped(p, j)
    BY DEF OwnInv, DeviceTypeOK, Opened, Mapped
  <1>1. CASE \E d \in Asks[i] : Scan(i, d)
    <2>1. /\ \A f \in Fds : Opened(f, j)' <=> Opened(f, j)
          /\ \A p \in Pages : Mapped(p, j)' <=> Mapped(p, j)
      BY <1>1, ScanStep DEF Opened, Mapped
    <2>2. QED
      BY <1>1, <2>1, ScanStep, Kept
  <1>2. CASE ReadMaps(i)
    <2>1. /\ \A f \in Fds : Opened(f, j)' <=> Opened(f, j)
          /\ \A p \in Pages : Mapped(p, j)' <=> Mapped(p, j)
      BY <1>2, ReadMapsStep DEF Opened, Mapped
    <2>2. QED
      BY <1>2, <2>1, ReadMapsStep, Kept
  <1>3. CASE Open(i)
    <2>1. \A p \in Pages : Mapped(p, j)' <=> Mapped(p, j)
      BY <1>3, OpenStep DEF Mapped
    <2>2. \A f \in Fds : Opened(f, j)' <=> Opened(f, j)
      <3>1. CASE files' = files
        BY <3>1 DEF Opened
      <3>2. CASE \E f \in Fds : /\ files[f] = None
                               /\ files' = [files EXCEPT ![f] = [by |-> i, dev |-> uio[Info(i).num]]]
        BY <1>0, <3>2 DEF OwnInv, DeviceTypeOK, HostTypeOK, Opened
      <3>3. QED
        BY <1>3, <3>1, <3>2, OpenStep
    <2>3. QED
      BY <1>3, <2>1, <2>2, OpenStep, Kept
  <1>4. CASE Map(i)
    <2>1. \A f \in Fds : Opened(f, j)' <=> Opened(f, j)
      BY <1>4, MapStep DEF Opened
    <2>2. \A p \in Pages : Mapped(p, j)' <=> Mapped(p, j)
      BY <1>4, MapStep, Numbers DEF Mapped, Holdings
    <2>3. QED
      BY <1>4, <2>1, <2>2, MapStep, Kept
  <1>5. CASE Unmap(i)
    <2>1. \A f \in Fds : Opened(f, j)' <=> Opened(f, j)
      BY <1>5, UnmapStep DEF Opened
    <2>2. \A p \in Span(inst[i].base, Info(i).size) : p \in Pages => Mapped(p, i)
      BY <1>0, <1>5, UnmapStep DEF OwnInv, PagesOK, HasPages
    <2>3. \A p \in Pages : Mapped(p, j)' <=> Mapped(p, j)
      BY <1>0, <1>5, <2>2, UnmapStep DEF Mapped
    <2>4. QED
      BY <1>5, <2>1, <2>3, UnmapStep, Kept
  <1>6. CASE Close(i)
    <2>1. \A p \in Pages : Mapped(p, j)' <=> Mapped(p, j)
      BY <1>6, CloseStep DEF Mapped
    <2>2. linux /\ Opened(Info(i).fd, i) /\ Info(i).fd \in Fds
      BY <1>0, <1>6, CloseStep DEF OwnInv, StageOK, FileOK, HasFile
    <2>3. \A f \in Fds : Opened(f, j)' <=> Opened(f, j)
      <3>1. ~Opened(Info(i).fd, j)
        BY <1>0, <2>2
      <3>2. files' = [f \in Fds |-> IF f = Info(i).fd THEN None ELSE files[f]]
        BY <1>6, CloseStep
      <3>3. ASSUME NEW f \in Fds PROVE Opened(f, j)' <=> Opened(f, j)
        <4>1. CASE f = Info(i).fd
          BY <3>1, <3>2, <4>1 DEF Opened
        <4>2. CASE f # Info(i).fd
          BY <3>2, <4>2 DEF Opened
        <4>3. QED
          BY <4>1, <4>2
      <3>4. QED
        BY <3>3
    <2>4. QED
      BY <1>6, <2>1, <2>3, CloseStep, Kept
  <1>7. CASE \E d \in Asks[i] : InitializeById(i, d)
    <2>1. /\ \A f \in Fds : Opened(f, j)' <=> Opened(f, j)
          /\ \A p \in Pages : Mapped(p, j)' <=> Mapped(p, j)
      BY <1>7, ByIdStep DEF Opened, Mapped, hostvars
    <2>2. QED
      BY <1>7, <2>1, ByIdStep, Kept
  <1>8. QED
    BY <1>1, <1>2, <1>3, <1>4, <1>5, <1>6, <1>7 DEF Step

(* And the one that moves has what its call has taken until then.          *)
LEMMA StepOwn ==
    ASSUME OwnInv, ByTurns, NEW i \in users, Step(i)
    PROVE  StageOK(i)' /\ FileOK(i)' /\ PagesOK(i)'
  <1>0. /\ i \in Instances /\ DriverOf[i] \in Blocks
        /\ StageOK(i) /\ FileOK(i) /\ PagesOK(i)
        /\ files \in [Fds -> {None} \cup Holdings] /\ pages \in [Pages -> {None} \cup Holdings]
    BY Numbers DEF OwnInv, DeviceTypeOK, HostTypeOK
  <1>1. CASE \E d \in Asks[i] : Scan(i, d)
    <2>1. PICK d \in Asks[i] : Scan(i, d)
      BY <1>1
    <2>2. QED
      BY <1>0, <2>1, ScanStep DEF StageOK, FileOK, PagesOK, HasFile, HasPages, Opened, Mapped, Info
  <1>2. CASE ReadMaps(i)
    BY <1>0, <1>2, ReadMapsStep DEF StageOK, FileOK, PagesOK, HasFile, HasPages, Opened, Mapped, Info
  <1>3. CASE Open(i)
    <2>1. linux /\ ~held[i] /\ ~HasFile(i) /\ ~HasPages(i)
      BY <1>0, <1>3, OpenStep DEF StageOK, HasFile, HasPages
    <2>2. StageOK(i)'
      BY <1>0, <1>3, <2>1, OpenStep DEF StageOK
    <2>3. FileOK(i)'
      <3>1. CASE call'[i] = "away" /\ files' = files /\ ~held'[i]
        <4>1. ~HasFile(i)'
          BY <3>1 DEF HasFile
        <4>2. QED
          BY <1>0, <2>1, <3>1, <4>1 DEF FileOK, Opened
      <3>2. CASE /\ call'[i] = "opened"
                 /\ \E f \in Fds : /\ files[f] = None /\ info'[DriverOf[i]].fd = f
                                   /\ files' = [files EXCEPT ![f] = [by |-> i, dev |-> uio[Info(i).num]]]
        <4>1. PICK f \in Fds : /\ files[f] = None /\ info'[DriverOf[i]].fd = f
                               /\ files' = [files EXCEPT ![f] = [by |-> i, dev |-> uio[Info(i).num]]]
          BY <3>2
        <4>2. HasFile(i)' /\ Info(i).fd' = f
          BY <1>3, <2>1, <3>2, <4>1, OpenStep DEF HasFile, Info
        <4>3. \A g \in Fds : ~Opened(g, i)
          BY <1>0, <2>1 DEF FileOK
        <4>4. f \in Fds /\ files[f] = None /\ [by |-> i, dev |-> uio[Info(i).num]] \in Holdings
          BY <1>0, <4>1, Numbers DEF OwnInv, DeviceTypeOK, HostTypeOK, Info, Holdings
        <4>5. \A g \in Fds : Opened(g, i)' <=> g = f
          BY <1>0, <4>1, <4>3, <4>4, Numbers DEF Opened
        <4>6. QED
          BY <4>2, <4>5 DEF FileOK
      <3>3. QED
        BY <1>3, <3>1, <3>2, OpenStep
    <2>4. PagesOK(i)'
      <3>1. ~HasPages(i)'
        BY <1>3, <2>1, OpenStep DEF HasPages
      <3>2. QED
        BY <1>0, <1>3, <2>1, <3>1, OpenStep DEF PagesOK, Mapped
    <2>5. QED
      BY <2>2, <2>3, <2>4
  <1>4. CASE Map(i)
    <2>1. linux /\ ~held[i] /\ HasFile(i) /\ ~HasPages(i)
      BY <1>0, <1>4, MapStep DEF StageOK, HasFile, HasPages
    <2>2. StageOK(i)' /\ HasFile(i)' /\ HasPages(i)'
      BY <1>0, <1>4, <2>1, MapStep DEF StageOK, HasFile, HasPages, OwnInv
    <2>3. FileOK(i)'
      <3>1. Info(i)' = Info(i) /\ files' = files
        BY <1>4, MapStep DEF Info
      <3>2. QED
        BY <1>0, <2>1, <2>2, <3>1 DEF FileOK, Opened
    <2>4. PagesOK(i)'
      <3>1. CASE inst'[i].base = Word - 1 /\ pages' = pages
        <4>1. \A p \in Pages : p \notin Span(inst[i].base, Info(i).size)'
          BY <3>1, Numbers DEF Span
        <4>2. QED
          BY <1>0, <2>1, <3>1, <4>1 DEF PagesOK, Mapped
      <3>2. CASE /\ \A p \in Span(inst'[i].base, Info(i).size) : p \in Pages /\ pages[p] = None
                 /\ pages' = [p \in Pages |->
                                IF p \in Span(inst'[i].base, Info(i).size)
                                THEN [by |-> i, dev |-> DeviceOf(Info(i).fd)] ELSE pages[p]]
        <4>1. Span(inst[i].base, Info(i).size)' = Span(inst'[i].base, Info(i).size)
          BY <1>4, MapStep DEF Info, Span
        <4>2. [by |-> i, dev |-> DeviceOf(Info(i).fd)] # None
          BY <1>0, <1>4, MapStep, Numbers DEF Holdings, DeviceOf
        <4>3. QED
          BY <1>0, <2>1, <2>2, <3>2, <4>1, <4>2 DEF PagesOK, Mapped
      <3>3. QED
        BY <1>4, <3>1, <3>2, MapStep
    <2>5. QED
      BY <2>2, <2>3, <2>4
  <1>5. CASE Unmap(i)
    BY <1>0, <1>5, UnmapStep DEF StageOK, FileOK, PagesOK, HasFile, HasPages, Opened, Mapped, Info, OwnInv
  <1>6. CASE Close(i)
    <2>1. linux /\ ~held[i] /\ HasFile(i) /\ ~HasPages(i)
      BY <1>0, <1>6, CloseStep DEF StageOK, HasFile, HasPages
    <2>2. ~HasFile(i)' /\ ~HasPages(i)' /\ StageOK(i)'
      BY <1>0, <1>6, <2>1, CloseStep DEF HasFile, HasPages, StageOK
    <2>3. \A f \in Fds : ~Opened(f, i)'
      <3>1. files' = [f \in Fds |-> IF f = Info(i).fd THEN None ELSE files[f]]
        BY <1>6, CloseStep
      <3>2. \A f \in Fds : f # Info(i).fd => ~Opened(f, i)
        BY <1>0, <2>1 DEF FileOK
      <3>3. QED
        BY <3>1, <3>2 DEF Opened
    <2>4. \A p \in Pages : ~Mapped(p, i)'
      BY <1>0, <1>6, <2>1, CloseStep DEF PagesOK, Mapped
    <2>5. QED
      BY <2>2, <2>3, <2>4 DEF FileOK, PagesOK
  <1>7. CASE \E d \in Asks[i] : InitializeById(i, d)
    BY <1>0, <1>7, ByIdStep DEF StageOK, FileOK, PagesOK, HasFile, HasPages, Opened, Mapped, Info, hostvars
  <1>8. QED
    BY <1>1, <1>2, <1>3, <1>4, <1>5, <1>6, <1>7 DEF Step
-----------------------------------------------------------------------------
(* The rest of the process takes what is free and gives back its own.      *)
LEMMA AppStep ==
    ASSUME DeviceTypeOK, AppMoves
    PROVE  /\ linux /\ UNCHANGED <<uio, linux, users, info, inst, call, want, held>>
           /\ \A f \in Fds : \/ files'[f] = files[f]
                             \/ files[f] = None /\ files'[f] = [by |-> App, dev |-> None]
                             \/ files[f] # None /\ files[f].by = App /\ files'[f] = None
           /\ \A p \in Pages : \/ pages'[p] = pages[p]
                               \/ pages[p] = None /\ pages'[p] = [by |-> App, dev |-> None]
                               \/ pages[p] # None /\ pages[p].by = App /\ pages'[p] = None
  <1> USE DEF DeviceTypeOK, HostTypeOK
  <1>1. linux /\ UNCHANGED <<uio, linux, users, info, inst, call, want, held>>
    BY DEF AppMoves
  <1>2. CASE FreeFds # {} /\ OpenFile(App, None) /\ UNCHANGED pages
    BY <1>1, <1>2, FreeIsFree DEF OpenFile, FreeFds
  <1>3. CASE (\E f \in AppFiles : CloseFile(f)) /\ UNCHANGED pages
    BY <1>1, <1>3 DEF AppFiles, CloseFile
  <1>4. CASE Gaps(1) # {} /\ MapPages(App, None, Least(Gaps(1)), 1) /\ UNCHANGED files
    <2>1. \A p \in Span(Least(Gaps(1)), 1) : p \in Pages /\ pages[p] = None
      BY <1>4, FreeIsFree DEF Gaps
    <2>2. QED
      BY <1>1, <1>4, <2>1 DEF MapPages
  <1>5. CASE (\E p \in AppPages : UnmapPages(p, 1)) /\ UNCHANGED files
    <2>1. PICK q \in AppPages : UnmapPages(q, 1)
      BY <1>5
    <2>2. \A p \in Span(q, 1) : p = q
      BY Numbers DEF Span, AppPages
    <2>3. QED
      BY <1>1, <1>5, <2>1, <2>2 DEF UnmapPages, AppPages
  <1>6. QED
    BY <1>2, <1>3, <1>4, <1>5 DEF AppMoves

LEMMA DevicesStep ==
    ASSUME DevicesMove
    PROVE  /\ linux /\ UNCHANGED <<files, pages, linux, users, info, inst, call, want, held>>
           /\ "renumber" \notin Faults =>
                \A i \in Instances : call[i] \notin {"scanned", "told"}
  BY DEF DevicesMove, Plug, Unplug

LEMMA NextOwn == ASSUME OwnInv, ByTurns, [Next]_vars PROVE OwnInv'
  <1>1. CASE \E i \in users : Step(i)
    <2>1. PICK i \in users : Step(i)
      BY <1>1
    <2>2. users' = users /\ i \in Instances
      BY <2>1 DEF Step, Scan, ReadMaps, Open, Map, Unmap, Close, InitializeById, OwnInv, DeviceTypeOK
    <2>3. QED
      BY <2>1, <2>2, StepTypes, StepOwn, StepOthers DEF OwnInv
  <1>2. CASE AppMoves
    <2>1. ASSUME NEW i \in Instances
          PROVE  /\ \A f \in Fds : Opened(f, i)' <=> Opened(f, i)
                 /\ \A p \in Pages : Mapped(p, i)' <=> Mapped(p, i)
      BY <1>2, AppStep, Numbers DEF Opened, Mapped, OwnInv
    <2>2. QED
      BY <1>2, <2>1, AppStep, AppTypes
         DEF OwnInv, StageOK, FileOK, PagesOK, HasFile, HasPages, Info
  <1>3. CASE DevicesMove
    BY <1>3, DevicesStep, DevicesTypes
       DEF OwnInv, StageOK, FileOK, PagesOK, HasFile, HasPages, Opened, Mapped, Info
  <1>4. CASE UNCHANGED vars
    BY <1>4 DEF vars, hostvars, OwnInv, DeviceTypeOK, HostTypeOK, StageOK, FileOK, PagesOK, HasFile, HasPages,
                Opened, Mapped, Info
  <1>5. QED
    BY <1>1, <1>2, <1>3, <1>4, Steps

(* What a step leaves alone, and whose files and pages it takes away.      *)
LEMMA StepFrame ==
    ASSUME OwnInv, ByTurns, NEW i \in users, Step(i)
    PROVE  /\ UNCHANGED <<uio, linux, users>>
           /\ \A j \in Instances \ {i} : /\ want'[j] = want[j] /\ call'[j] = call[j]
                                         /\ held'[j] = held[j] /\ inst'[j] = inst[j]
           /\ \A b \in Blocks \ {DriverOf[i]} : info'[b] = info[b]
           /\ \A f \in Fds : Gone(files[f], files'[f]) => files[f].by = i /\ Acts(i)
           /\ \A p \in Pages : Gone(pages[p], pages'[p]) => pages[p].by = i /\ Acts(i)
  <1>0. i \in Instances /\ i # App /\ FileOK(i) /\ PagesOK(i) /\ StageOK(i)
    BY Numbers DEF OwnInv, DeviceTypeOK
  <1>1. /\ UNCHANGED <<uio, linux, users>>
        /\ \A j \in Instances \ {i} : /\ want'[j] = want[j] /\ call'[j] = call[j]
                                      /\ held'[j] = held[j] /\ inst'[j] = inst[j]
        /\ \A b \in Blocks \ {DriverOf[i]} : info'[b] = info[b]
    BY DEF Step, Scan, ReadMaps, Open, Map, Unmap, Close, InitializeById, CfgInitialize, Goes, Holds, hostvars,
           OwnInv, DeviceTypeOK
  <1>2. CASE (\E d \in Asks[i] : Scan(i, d)) \/ ReadMaps(i) \/ (\E d \in Asks[i] : InitializeById(i, d))
    BY <1>1, <1>2 DEF Scan, ReadMaps, InitializeById, hostvars, Gone
  <1>3. CASE Open(i)
    <2>1. \A f \in Fds : files[f] # None => files'[f] = files[f]
      BY <1>3, OpenStep DEF OwnInv, DeviceTypeOK, HostTypeOK
    <2>2. QED
      BY <1>1, <1>3, <2>1, OpenStep DEF Gone
  <1>4. CASE Map(i)
    BY <1>1, <1>4, MapStep DEF Gone
  <1>5. CASE Unmap(i)
    <2>1. \A p \in Pages : pages'[p] # pages[p] => pages[p].by = i
      BY <1>0, <1>5, UnmapStep DEF PagesOK, HasPages, Mapped
    <2>2. Acts(i) /\ files' = files
      BY <1>0, <1>5, UnmapStep DEF Acts
    <2>3. QED
      BY <1>1, <2>1, <2>2 DEF Gone
  <1>6. CASE Close(i)
    <2>1. linux /\ Opened(Info(i).fd, i)
      BY <1>0, <1>6, CloseStep DEF StageOK, FileOK, HasFile
    <2>2. \A f \in Fds : files'[f] # files[f] => files[f].by = i
      BY <1>6, <2>1, CloseStep DEF Opened
    <2>3. Acts(i) /\ pages' = pages
      BY <1>0, <1>6, CloseStep DEF Acts
    <2>4. QED
      BY <1>1, <2>2, <2>3 DEF Gone
  <1>7. QED
    BY <1>2, <1>3, <1>4, <1>5, <1>6 DEF Step

(* At any time, whatever fails, the kernel's tables agree with how far the *)
(* call on each instance is.                                               *)
THEOREM Ownership == ASSUME ByTurns PROVE Spec => []OwnInv
  <1>1. OwnInv /\ [Next]_vars => OwnInv'
    BY NextOwn
  <1>2. QED
    BY <1>1, InitOwn, PTL DEF Spec

(* Release gives back all that Initialize took, and an Initialize that     *)
(* fails, at whatever step, keeps nothing.                                 *)
THEOREM GivesBack == ASSUME ByTurns PROVE Spec => []NothingLeft
  <1>1. OwnInv => NothingLeft
    BY DEF OwnInv, NothingLeft, FileOK, PagesOK, HasFile, HasPages, Opened, Mapped
  <1>2. QED
    BY <1>1, Ownership, PTL

(* Whatever fails, and whatever the others do, nobody closes a file or     *)
(* unmaps a page of another.                                               *)
THEOREM OwnOnly == ASSUME ByTurns PROVE Spec => OnlyItsOwn
  <1> DEFINE Right == /\ \A f \in Fds : Gone(files[f], files'[f]) => Acts(files[f].by)
                      /\ \A p \in Pages : Gone(pages[p], pages'[p]) => Acts(pages[p].by)
  <1>1. ASSUME OwnInv, NEW i \in users, Step(i) PROVE Right
    BY <1>1, StepFrame
  <1>2. ASSUME OwnInv, AppMoves PROVE Right
    BY <1>2, AppStep DEF OwnInv, Gone, Acts
  <1>3. ASSUME OwnInv, [Next]_vars PROVE [Right]_vars
    BY <1>1, <1>2, <1>3, Steps, DevicesStep DEF Gone
  <1>4. Spec => [][Right]_vars
    <2> HIDE DEF Right
    <2>1. QED
      BY <1>3, Ownership, PTL DEF Spec
  <1>5. QED
    BY <1>4 DEF OnlyItsOwn
-----------------------------------------------------------------------------
(* Where each slave finds what is at the offsets of its driver.            *)
LEMMA FetchMatch == \A r \in DOMAIN FetchOffsets : Decode("fetch", FetchOffsets[r]) = r
  <1>1. WordsOf("fetch") = FetchWords /\ Len(FetchWords) = 8
    BY DEF WordsOf, FetchWords
  <1>2. DOMAIN FetchOffsets = {"AP_CTRL", "GIE", "IER", "ISR", "insn_count", "insns_V"}
    BY DEF FetchOffsets
  <1>3. ASSUME NEW offset, offset % 4 = 0
        PROVE  Decode("fetch", offset) = FetchWords[((offset \div 4) % 8) + 1]
    BY <1>1, <1>3 DEF Decode
  <1>4. /\ 0 % 4 = 0 /\ 4 % 4 = 0 /\ 8 % 4 = 0 /\ 12 % 4 = 0 /\ 16 % 4 = 0
        /\ 24 % 4 = 0
        /\ ((0 \div 4) % 8) + 1 = 1 /\ ((4 \div 4) % 8) + 1 = 2 /\ ((8 \div 4) % 8) + 1 = 3
        /\ ((12 \div 4) % 8) + 1 = 4 /\ ((16 \div 4) % 8) + 1 = 5 /\ ((24 \div 4) % 8) + 1 = 7
    OBVIOUS
  <1>5. /\ Decode("fetch", 0) = FetchWords[1] /\ Decode("fetch", 4) = FetchWords[2]
        /\ Decode("fetch", 8) = FetchWords[3] /\ Decode("fetch", 12) = FetchWords[4]
        /\ Decode("fetch", 16) = FetchWords[5] /\ Decode("fetch", 24) = FetchWords[7]
    BY <1>3, <1>4
  <1>6. QED
    BY <1>2, <1>5 DEF FetchOffsets, FetchWords

LEMMA LoadMatch == \A r \in DOMAIN LoadOffsets : Decode("load", LoadOffsets[r]) = r
  <1>1. WordsOf("load") = LoadWords /\ Len(LoadWords) = 8
    BY DEF WordsOf, LoadWords
  <1>2. DOMAIN LoadOffsets = {"AP_CTRL", "GIE", "IER", "ISR", "inputs_V", "weights_V"}
    BY DEF LoadOffsets
  <1>3. ASSUME NEW offset, offset % 4 = 0
        PROVE  Decode("load", offset) = LoadWords[((offset \div 4) % 8) + 1]
    BY <1>1, <1>3 DEF Decode
  <1>4. /\ 0 % 4 = 0 /\ 4 % 4 = 0 /\ 8 % 4 = 0 /\ 12 % 4 = 0 /\ 16 % 4 = 0
        /\ 24 % 4 = 0
        /\ ((0 \div 4) % 8) + 1 = 1 /\ ((4 \div 4) % 8) + 1 = 2 /\ ((8 \div 4) % 8) + 1 = 3
        /\ ((12 \div 4) % 8) + 1 = 4 /\ ((16 \div 4) % 8) + 1 = 5 /\ ((24 \div 4) % 8) + 1 = 7
    OBVIOUS
  <1>5. /\ Decode("load", 0) = LoadWords[1] /\ Decode("load", 4) = LoadWords[2]
        /\ Decode("load", 8) = LoadWords[3] /\ Decode("load", 12) = LoadWords[4]
        /\ Decode("load", 16) = LoadWords[5] /\ Decode("load", 24) = LoadWords[7]
    BY <1>3, <1>4
  <1>6. QED
    BY <1>2, <1>5 DEF LoadOffsets, LoadWords

LEMMA StoreMatch == \A r \in DOMAIN StoreOffsets : Decode("store", StoreOffsets[r]) = r
  <1>1. WordsOf("store") = StoreWords /\ Len(StoreWords) = 8
    BY DEF WordsOf, StoreWords
  <1>2. DOMAIN StoreOffsets = {"AP_CTRL", "GIE", "IER", "ISR", "outputs_V"}
    BY DEF StoreOffsets
  <1>3. ASSUME NEW offset, offset % 4 = 0
        PROVE  Decode("store", offset) = StoreWords[((offset \div 4) % 8) + 1]
    BY <1>1, <1>3 DEF Decode
  <1>4. /\ 0 % 4 = 0 /\ 4 % 4 = 0 /\ 8 % 4 = 0 /\ 12 % 4 = 0 /\ 16 % 4 = 0
        /\ ((0 \div 4) % 8) + 1 = 1 /\ ((4 \div 4) % 8) + 1 = 2 /\ ((8 \div 4) % 8) + 1 = 3
        /\ ((12 \div 4) % 8) + 1 = 4 /\ ((16 \div 4) % 8) + 1 = 5
    OBVIOUS
  <1>5. /\ Decode("store", 0) = StoreWords[1] /\ Decode("store", 4) = StoreWords[2]
        /\ Decode("store", 8) = StoreWords[3] /\ Decode("store", 12) = StoreWords[4]
        /\ Decode("store", 16) = StoreWords[5]
    BY <1>3, <1>4
  <1>6. QED
    BY <1>2, <1>5 DEF StoreOffsets, StoreWords

LEMMA ComputeMatch == \A r \in DOMAIN ComputeOffsets : Decode("compute", ComputeOffsets[r]) = r
  <1>1. WordsOf("compute") = ComputeWords /\ Len(ComputeWords) = 16
    BY DEF WordsOf, ComputeWords
  <1>2. DOMAIN ComputeOffsets = {"AP_CTRL", "GIE", "IER", "ISR", "done_i", "done_o", "done_o_ctrl", "uops_V", "biases_V"}
    BY DEF ComputeOffsets
  <1>3. ASSUME NEW offset, offset % 4 = 0
        PROVE  Decode("compute", offset) = ComputeWords[((offset \div 4) % 16) + 1]
    BY <1>1, <1>3 DEF Decode
  <1>4. /\ 0 % 4 = 0 /\ 4 % 4 = 0 /\ 8 % 4 = 0 /\ 12 % 4 = 0 /\ 16 % 4 = 0
        /\ 24 % 4 = 0 /\ 28 % 4 = 0 /\ 32 % 4 = 0 /\ 40 % 4 = 0
        /\ ((0 \div 4) % 16) + 1 = 1 /\ ((4 \div 4) % 16) + 1 = 2 /\ ((8 \div 4) % 16) + 1 = 3
        /\ ((12 \div 4) % 16) + 1 = 4 /\ ((16 \div 4) % 16) + 1 = 5 /\ ((24 \div 4) % 16) + 1 = 7
        /\ ((28 \div 4) % 16) + 1 = 8 /\ ((32 \div 4) % 16) + 1 = 9 /\ ((40 \div 4) % 16) + 1 = 11
    OBVIOUS
  <1>5. /\ Decode("compute", 0) = ComputeWords[1] /\ Decode("compute", 4) = ComputeWords[2]
        /\ Decode("compute", 8) = ComputeWords[3] /\ Decode("compute", 12) = ComputeWords[4]
        /\ Decode("compute", 16) = ComputeWords[5] /\ Decode("compute", 24) = ComputeWords[7]
        /\ Decode("compute", 28) = ComputeWords[8] /\ Decode("compute", 32) = ComputeWords[9]
        /\ Decode("compute", 40) = ComputeWords[11]
    BY <1>3, <1>4
  <1>6. QED
    BY <1>2, <1>5 DEF ComputeOffsets, ComputeWords

(* The offsets of the drivers (x*_hw.h) are those of the slaves' decoders, *)
(* block by block: no register is at the address of another.               *)
THEOREM OffsetsMatch == \A b \in Blocks : \A r \in Registers(b) : Decode(b, Offsets(b)[r]) = r
  BY FetchMatch, LoadMatch, StoreMatch, ComputeMatch DEF Blocks, Registers, Offsets
-----------------------------------------------------------------------------
(* What is reached.                                                        *)
LEMMA InitReach == Init => TableOK /\ \A i \in Instances : AskedOK(i)
  <1> SUFFICES ASSUME Init PROVE TableOK /\ \A i \in Instances : AskedOK(i)
    OBVIOUS
  <1>1. TableOK
    <2>1. ASSUME ~linux, NEW d \in DOMAIN Table PROVE pages[Table[d]] = [by |-> App, dev |-> d]
      <3>1. (CHOOSE e \in DOMAIN Table : Table[e] = Table[d]) = d
        BY HLSDeviceAssumption DEF HLSDeviceAssumption
      <3>2. QED
        BY <2>1, <3>1, Numbers DEF Init
    <2>2. QED
      BY <2>1 DEF Init, TableOK
  <1>2. QED
    BY <1>1 DEF Init, AskedOK

(* An instance that does not move.                                         *)
LEMMA AskedKept ==
    ASSUME OwnInv, ByTurns, NEW i \in users, Step(i), NEW j \in Instances \ {i}, AskedOK(j)
    PROVE  AskedOK(j)'
  <1>0. j \in Instances /\ DriverOf[j] \in Blocks /\ FileOK(j) /\ PagesOK(j) /\ StageOK(j)
    BY Numbers DEF OwnInv
  <1>1. CASE DriverOf[j] = DriverOf[i]
    <2>1. call[j] = "away" /\ ~held[j]
      BY <1>1, <1>0 DEF OwnInv, ByTurns, StageOK
    <2>2. QED
      BY <2>1, StepFrame DEF AskedOK
  <1>2. CASE DriverOf[j] # DriverOf[i]
    <2>1. Info(j)' = Info(j)
      BY <1>0, <1>2, StepFrame DEF Info
    <2>2. linux /\ call[j] = "opened" => files'[Info(j).fd] = files[Info(j).fd]
      <3>1. linux /\ call[j] = "opened" =>
                Info(j).fd \in Fds /\ files[Info(j).fd] # None /\ files[Info(j).fd].by = j
        BY <1>0 DEF FileOK, HasFile, Opened
      <3>2. \A f \in Fds : files[f] # None /\ files[f].by = j => files'[f] = files[f]
        BY StepFrame DEF Gone
      <3>3. QED
        BY <3>1, <3>2
    <2>3. linux /\ held[j] /\ inst[j].base \in Pages /\ Info(j).size \in Nat \ {0} =>
              pages'[inst[j].base] = pages[inst[j].base]
      <3>1. inst[j].base \in Pages /\ Info(j).size \in Nat \ {0} => inst[j].base \in Span(inst[j].base, Info(j).size)
        BY Numbers DEF Span
      <3>2. \A p \in Pages : pages[p] # None /\ pages[p].by = j => pages'[p] = pages[p]
        BY StepFrame DEF Gone
      <3>3. QED
        BY <1>0, <3>1, <3>2 DEF PagesOK, HasPages, Mapped
    <2>4. call[j] = "opened" => linux
      BY <1>0 DEF StageOK
    <2>5. QED
      BY <2>1, <2>2, <2>3, <2>4, StepFrame DEF AskedOK
  <1>3. QED
    BY <1>1, <1>2

(* The one that moves.                                                     *)
LEMMA AskedStep ==
    ASSUME OwnInv, ByTurns, Steady, NEW i \in users, Step(i), AskedOK(i)
    PROVE  AskedOK(i)'
  <1>0. /\ i \in Instances /\ DriverOf[i] \in Blocks
        /\ StageOK(i) /\ FileOK(i) /\ PagesOK(i) /\ Asks[i] \subseteq Devices /\ None \notin Devices
    BY Numbers DEF OwnInv, DeviceTypeOK
  <1>1. CASE \E d \in Asks[i] : Scan(i, d)
    <2>1. PICK d \in Asks[i] : Scan(i, d)
      BY <1>1
    <2>2. want'[i] = d /\ uio' = uio /\ ~held'[i]
      BY <1>0, <2>1, ScanStep DEF Scan, hostvars, OwnInv, DeviceTypeOK
    <2>3. call'[i] = "away" \/ (call'[i] = "scanned" /\ uio[info'[DriverOf[i]].num] = d)
      <3>1. CASE \E n \in Nums : /\ uio[n] = d /\ info' = [info EXCEPT ![DriverOf[i]].num = n]
                                /\ Goes(i, "scanned")
        BY <1>0, <3>1 DEF Goes, OwnInv, DeviceTypeOK
      <3>2. CASE call' = call
        BY <2>1, <3>2 DEF Scan
      <3>3. QED
        BY <2>1, <3>1, <3>2 DEF Scan
    <2>4. QED
      BY <2>2, <2>3 DEF AskedOK, Info
  <1>2. CASE ReadMaps(i)
    <2>1. linux /\ want[i] \in Asks[i] /\ uio[Info(i).num] = want[i]
      BY <1>0, <1>2 DEF ReadMaps, StageOK, AskedOK
    <2>2. PICK size \in MapSizes(i) : info' = [info EXCEPT ![DriverOf[i]].size = size]
      BY <1>2 DEF ReadMaps
    <2>3. "read" \notin Faults => size = Size[want[i]]
      BY <1>0, <2>1, <2>2 DEF MapSizes
    <2>4. info'[DriverOf[i]].size = size /\ info'[DriverOf[i]].num = info[DriverOf[i]].num
      BY <1>0, <2>2 DEF OwnInv, DeviceTypeOK
    <2>5. QED
      BY <1>0, <1>2, <2>1, <2>3, <2>4, ReadMapsStep DEF AskedOK, Info, StageOK, ReadMaps, hostvars
  <1>3. CASE Open(i)
    <2>1. linux /\ want[i] \in Asks[i] /\ uio[Info(i).num] = want[i] /\ ~held[i]
          /\ ("read" \notin Faults => Info(i).size = Size[want[i]])
      BY <1>0, <1>3, OpenStep DEF StageOK, AskedOK
    <2>2. want' = want /\ Info(i).size' = Info(i).size
      BY <1>0, <1>3, OpenStep DEF Open, Info
    <2>3. CASE call'[i] = "away" /\ ~held'[i]
      BY <2>3 DEF AskedOK
    <2>4. CASE /\ call'[i] = "opened" /\ held'[i] = held[i]
               /\ \E f \in Fds : /\ info'[DriverOf[i]].fd = f
                                 /\ files' = [files EXCEPT ![f] = [by |-> i, dev |-> uio[Info(i).num]]]
      <3>1. files'[Info(i).fd'].dev = want[i]
        BY <2>1, <2>4 DEF Info, OwnInv, DeviceTypeOK, HostTypeOK
      <3>2. QED
        BY <2>1, <2>2, <2>4, <3>1 DEF AskedOK
    <2>5. QED
      BY <1>3, <2>3, <2>4, OpenStep
  <1>4. CASE Map(i)
    <2>1. /\ linux /\ want[i] \in Asks[i] /\ ("read" \notin Faults => Info(i).size = Size[want[i]])
          /\ Opened(Info(i).fd, i) /\ Info(i).fd \in Fds /\ files[Info(i).fd].dev = want[i]
      BY <1>0, <1>4, MapStep DEF StageOK, AskedOK, FileOK, HasFile
    <2>2. DeviceOf(Info(i).fd) = want[i] /\ want[i] # None
      BY <1>0, <2>1 DEF DeviceOf, Opened
    <2>3. Info(i)' = Info(i) /\ want' = want /\ call'[i] = "away" /\ linux' = linux
      BY <1>4, MapStep DEF Info, Map
    <2>4. ASSUME inst'[i].base \in Pages
          PROVE  pages'[inst'[i].base].dev = want[i] /\ Info(i).size \in Nat \ {0}
      <3>1. /\ Info(i).size \in 1 .. Size[want[i]]
            /\ pages' = [p \in Pages |-> IF p \in Span(inst'[i].base, Info(i).size)
                                         THEN [by |-> i, dev |-> DeviceOf(Info(i).fd)] ELSE pages[p]]
        BY <1>4, <2>2, <2>4, MapStep, Numbers DEF MapFailed
      <3>2. Info(i).size \in Nat \ {0}
        BY <1>0, <2>1, <3>1, Numbers
      <3>3. inst'[i].base \in Span(inst'[i].base, Info(i).size)
        BY <2>4, <3>2, Numbers DEF Span
      <3>4. QED
        BY <2>2, <2>4, <3>1, <3>2, <3>3
    <2>5. ASSUME Sound PROVE inst'[i].base \in Pages
      <3>1. Info(i).size \in 1 .. Size[want[i]]
        BY <1>0, <2>1, <2>5, Numbers DEF Sound
      <3>2. QED
        BY <1>4, <2>2, <2>5, <3>1, MapStep DEF Sound
    <2>6. QED
      BY <2>1, <2>3, <2>4, <2>5 DEF AskedOK
  <1>5. CASE Unmap(i)
    BY <1>0, <1>5, UnmapStep DEF AskedOK, Unmap
  <1>6. CASE Close(i)
    BY <1>0, <1>6, CloseStep DEF AskedOK, StageOK
  <1>7. CASE \E d \in Asks[i] : InitializeById(i, d)
    BY <1>0, <1>7, ByIdStep DEF AskedOK, StageOK
  <1>8. QED
    BY <1>1, <1>2, <1>3, <1>4, <1>5, <1>6, <1>7 DEF Step

LEMMA TableKept == ASSUME OwnInv, TableOK, NEW i \in users, Step(i) PROVE TableOK'
  <1>0. i \in Instances /\ StageOK(i)
    BY DEF OwnInv, DeviceTypeOK
  <1>1. CASE linux
    BY <1>1 DEF TableOK, Step, Scan, ReadMaps, Open, Map, Unmap, Close, InitializeById
  <1>2. CASE ~linux
    <2>1. PICK d \in Asks[i] : InitializeById(i, d)
      BY <1>0, <1>2 DEF Step, Scan, ReadMaps, Open, Map, Unmap, Close, StageOK
    <2>2. pages' = pages /\ linux' = linux
      BY <2>1, ByIdStep DEF hostvars
    <2>3. inst'[i].ready => want'[i] \in Asks[i] \cap DOMAIN Table /\ inst'[i].base = Table[want'[i]]
      BY <2>1, ByIdStep
    <2>4. \A j \in Instances \ {i} : inst'[j] = inst[j] /\ want'[j] = want[j]
      BY <2>1, ByIdStep
    <2>5. QED
      BY <1>2, <2>2, <2>3, <2>4 DEF TableOK
  <1>3. QED
    BY <1>1, <1>2

LEMMA NextReach == ASSUME ReachInv, ByTurns, Steady, [Next]_vars PROVE ReachInv'
  <1>0. OwnInv'
    BY NextOwn DEF ReachInv
  <1>1. CASE \E i \in users : Step(i)
    <2>1. PICK i \in users : Step(i)
      BY <1>1
    <2>2. i \in Instances
      BY DEF ReachInv, OwnInv, DeviceTypeOK
    <2>3. QED
      BY <1>0, <2>1, <2>2, TableKept, AskedKept, AskedStep DEF ReachInv
  <1>2. CASE AppMoves
    <2>1. TableOK'
      BY <1>2, AppStep DEF TableOK, ReachInv, OwnInv
    <2>2. ASSUME NEW i \in Instances PROVE AskedOK(i)'
      <3>0. AskedOK(i) /\ FileOK(i) /\ PagesOK(i) /\ StageOK(i) /\ i # App
        BY Numbers DEF ReachInv, OwnInv
      <3>1. Info(i)' = Info(i) /\ linux /\ UNCHANGED <<uio, linux, inst, call, want, held>>
        BY <1>2, AppStep DEF Info, ReachInv, OwnInv
      <3>2. call[i] = "opened" => files'[Info(i).fd] = files[Info(i).fd]
        <4>1. call[i] = "opened" => Info(i).fd \in Fds /\ Opened(Info(i).fd, i)
          BY <3>0, <3>1 DEF FileOK, HasFile
        <4>2. QED
          BY <1>2, <3>0, <4>1, AppStep DEF Opened, ReachInv, OwnInv
      <3>3. held[i] /\ inst[i].base \in Pages /\ Info(i).size \in Nat \ {0} =>
                pages'[inst[i].base] = pages[inst[i].base]
        <4>1. inst[i].base \in Pages /\ Info(i).size \in Nat \ {0} =>
                  inst[i].base \in Span(inst[i].base, Info(i).size)
          BY Numbers DEF Span
        <4>2. held[i] /\ inst[i].base \in Pages /\ Info(i).size \in Nat \ {0} => Mapped(inst[i].base, i)
          BY <3>0, <3>1, <4>1 DEF PagesOK, HasPages
        <4>3. QED
          BY <1>2, <3>0, <4>2, AppStep DEF Mapped, ReachInv, OwnInv
      <3>4. QED
        BY <3>0, <3>1, <3>2, <3>3 DEF AskedOK
    <2>3. QED
      BY <1>0, <2>1, <2>2 DEF ReachInv
  <1>3. CASE DevicesMove
    <2>1. TableOK'
      BY <1>3, DevicesStep DEF TableOK
    <2>2. ASSUME NEW i \in Instances PROVE AskedOK(i)'
      <3>1. call[i] \notin {"scanned", "told"}
        BY <1>3, DevicesStep DEF Steady
      <3>2. QED
        BY <1>3, <3>1, DevicesStep DEF ReachInv, AskedOK, Info
    <2>3. QED
      BY <1>0, <2>1, <2>2 DEF ReachInv
  <1>4. CASE UNCHANGED vars
    BY <1>0, <1>4 DEF vars, hostvars, ReachInv, TableOK, AskedOK, Info
  <1>5. QED
    BY <1>1, <1>2, <1>3, <1>4, Steps

(* What the scan found by its name is what is opened and mapped, whatever  *)
(* else fails.                                                             *)
THEOREM Reached == ASSUME ByTurns, Steady PROVE Spec => []ReachInv
  <1>1. Init => ReachInv
    BY InitOwn, InitReach DEF ReachInv
  <1>2. ReachInv /\ [Next]_vars => ReachInv'
    BY NextReach
  <1>3. QED
    BY <1>1, <1>2, PTL DEF Spec

(* Where the address of an initialised instance is mapped at all, a call   *)
(* on it reaches the register it is about.                                 *)
LEMMA Arrives ==
    ASSUME ReachInv, NEW i \in Instances, Usable(i), linux => inst[i].base \in Pages,
           NEW r \in Registers(DriverOf[i])
    PROVE  Access(i, r) = [dev |-> want[i], reg |-> r]
  <1>1. inst[i].base \in Pages /\ pages[inst[i].base] # None /\ pages[inst[i].base].dev = want[i]
        /\ want[i] \in Asks[i]
    <2>1. CASE linux
      <3>1. AskedOK(i) /\ PagesOK(i) /\ held[i]
        BY <2>1 DEF ReachInv, OwnInv, Usable
      <3>2. /\ inst[i].base \in Pages /\ Info(i).size \in Nat \ {0} /\ want[i] \in Asks[i]
            /\ pages[inst[i].base].dev = want[i]
        BY <2>1, <3>1 DEF AskedOK
      <3>3. inst[i].base \in Span(inst[i].base, Info(i).size)
        BY <3>2, Numbers DEF Span
      <3>4. QED
        BY <2>1, <3>1, <3>2, <3>3 DEF PagesOK, HasPages, Mapped
    <2>2. CASE ~linux
      <3>1. want[i] \in Asks[i] \cap DOMAIN Table /\ inst[i].base = Table[want[i]]
            /\ pages[Table[want[i]]] = [by |-> App, dev |-> want[i]]
        BY <2>2 DEF ReachInv, TableOK, Usable
      <3>2. [by |-> App, dev |-> want[i]] \in Holdings
        BY <3>1, Numbers DEF Holdings
      <3>3. QED
        BY <3>1, <3>2, Numbers
    <2>3. QED
      BY <2>1, <2>2
  <1>2. want[i] # None /\ BlockOf[want[i]] = DriverOf[i] /\ DriverOf[i] \in Blocks
    BY <1>1, HLSDeviceAssumption, Numbers DEF HLSDeviceAssumption
  <1>3. Decode(BlockOf[want[i]], Offsets(DriverOf[i])[r]) = r
    BY <1>2, OffsetsMatch
  <1>4. QED
    BY <1>1, <1>2, <1>3 DEF Access

(* A register access of an initialised instance that does not reach its    *)
(* register reaches nothing: no other block, and no other register.        *)
ReachesNoOther ==
    \A i \in Instances : Usable(i) =>
        \A r \in Registers(DriverOf[i]) :
            \/ Access(i, r) = [dev |-> want[i], reg |-> r]
            \/ linux /\ Access(i, r) = None

(* It is so when sizes cannot be read and mmap fails, which Initialize     *)
(* does not notice: the access then goes to the page of MAP_FAILED.        *)
THEOREM NoOther == ASSUME ByTurns, Steady PROVE Spec => []ReachesNoOther
  <1>1. ASSUME ReachInv PROVE ReachesNoOther
    <2> SUFFICES ASSUME NEW i \in Instances, Usable(i), NEW r \in Registers(DriverOf[i])
                 PROVE  \/ Access(i, r) = [dev |-> want[i], reg |-> r]
                        \/ linux /\ Access(i, r) = None
      BY DEF ReachesNoOther
    <2>1. CASE linux /\ inst[i].base \notin Pages
      BY <2>1 DEF Access
    <2>2. CASE linux => inst[i].base \in Pages
      BY <1>1, <2>2, Arrives
    <2>3. QED
      BY <2>1, <2>2
  <1>2. QED
    BY <1>1, Reached, PTL

(* Where nothing but open fails, numbers stay.                             *)
LEMMA SoundIsSteady == Sound => Steady
  BY DEF Sound, Steady

(* After XST_SUCCESS the registers are mapped where the instance says: for *)
(* this mmap must not fail, which is all that the violation needs.         *)
THEOREM Ready == ASSUME ByTurns, Sound PROVE Spec => []MappedWhenReady
  <1>1. ASSUME ReachInv PROVE MappedWhenReady
    <2> SUFFICES ASSUME NEW i \in Instances, linux, held[i]
                 PROVE  inst[i].base \in Pages /\ Mapped(inst[i].base, i)
      BY DEF MappedWhenReady, Mapped
    <2>1. AskedOK(i) /\ PagesOK(i)
      BY <1>1 DEF ReachInv, OwnInv
    <2>2. inst[i].base \in Pages /\ Info(i).size \in Nat \ {0}
      BY <2>1 DEF AskedOK
    <2>3. inst[i].base \in Span(inst[i].base, Info(i).size)
      BY <2>2, Numbers DEF Span
    <2>4. QED
      BY <2>1, <2>2, <2>3 DEF PagesOK, HasPages
  <1>2. Spec => []ReachInv
    BY Reached, SoundIsSteady
  <1>3. QED
    BY <1>1, <1>2, PTL

(* A call on an initialised instance reaches the register it is about, in  *)
(* the block that Initialize was asked for, whatever came and went since.  *)
THEOREM Reaches == ASSUME ByTurns, Sound PROVE Spec => []ReachesItsRegister
  <1>1. ASSUME ReachInv, MappedWhenReady PROVE ReachesItsRegister
    <2>1. ASSUME NEW i \in Instances, Usable(i), NEW r \in Registers(DriverOf[i])
          PROVE  Access(i, r) = [dev |-> want[i], reg |-> r]
      <3>1. linux => inst[i].base \in Pages
        BY <1>1, <2>1 DEF Usable, MappedWhenReady
      <3>2. QED
        BY <1>1, <2>1, <3>1, Arrives
    <2>2. QED
      BY <2>1 DEF ReachesItsRegister
  <1>2. Spec => []ReachInv
    BY Reached, SoundIsSteady
  <1>3. QED
    BY <1>1, <1>2, Ready, PTL
=============================================================================
