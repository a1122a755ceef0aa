# Verification of the Alkali CSD hardware

The repository builds the programmable logic of an NVMe computational storage
device on a Zynq UltraScale+.  A host talks to it over PCIe; firmware on the
real-time cores (the controller) serves the NVMe registers; a VTA accelerator
computes.  This directory holds TLA+ models of that logic, the TLC
configurations that check them, and TLAPS proofs about them.

## 1. Inventory

| part | source | state | operations | how it meets the others |
|---|---|---|---|---|
| AXI4-Lite port of the NVMe core | `chisel/.../AXI4LiteCSR.scala` | six-state FSM, five handshake registers, `addr` | one transition per clock | AXI master in front, register bus behind; one port for the host, one for the controller |
| register bus arbiter | `CSRArbiter.scala` | none | grant | fixed priority: controller before host |
| register file | `CSRFile.scala`, `CSR.scala` | storage registers, auto-clearing `IRQHOST` | read, write, pop the log | drives `irqHost` (PCIe MSI), pops the log when `IRQDAT` is read |
| host write log | `CSRInterrupt.scala` | queue of 128 word addresses | enqueue on every host write, dequeue | `irqReq` interrupts the controller |
| DMA control registers | `vivado/src/hdl/rtl_top.v` 511-727 | AXI4-Lite handshake registers, read and write descriptors, interrupt flags | register access, descriptor hand-over, completion | controller on one side, PCIe DMA engine on the other |
| PCIe steering and address decode | `rtl_top.v` 255-380, 1121-1153 | GPIO offset registers | decode by function and BAR | PCIe demultiplexer in front, AXI interconnects behind |
| BAR1 AXI steering | `rtl_top.v` 1155-1271 | one register per AXI wire | copy to HP1, HP2 or RAM | PCIe AXI master in front, DDR ports behind |
| VTA HLS blocks | `vivado/ip_repo/xilinx_com_hls_*` | control registers, dependency queues | start, done, interrupt; fetch, load, compute, store | control bus from the processor, streams between the blocks |
| VTA drivers | `ip_repo/.../drivers/*/src/x*.c` | a mapped register window | Start, IsDone, Interrupt* | read-modify-write over the control bus |
| VTA drivers, Linux and static glue | `x*_linux.c`, `x*_sinit.c`, `x*.h`, `x*_hw.h` | one static `uio_info` per driver; address and `IsReady` per instance | Initialize, Release, LookupConfig | kernel: /sys/class/uio, open files, address space |
| UART, build scripts, block design, constraints | `ip_repo/axi_uartlite*`, `vivado/*.tcl`, `Makefile` | none of their own, or vendored | | |

### What is hard here

* Two masters reach one register file through two ports at once; each port
  latches an address a cycle before its handshake and uses it cycles later.
* The log has no back-pressure: a host write that finds it full leaves no event.
* `IRQSTA` and `IRQDAT` are two reads with other traffic between them, and
  reading `IRQDAT` pops whoever reads it.
* `IRQHOST` holds its value for one cycle, and what follows looks for edges.
* A write that is offered together with a read goes first, every time.
* The DMA registers pulse `status_ready` one cycle after they sampled the
  status, so a completion can arrive in between; handshakes of the read and of
  the write descriptor are separate.
* The address decode uses the function number of the packet at the head of the
  PCIe stream, not of the access in flight.
* The HLS control registers clear on read, toggle on write, and are shared by
  drivers that poll and drivers that take interrupts.
* The Linux glue finds a device by a scan, opens it by number later, and keeps
  file and size in a structure that all instances of a driver share; any step of
  it may fail.
* Fetch, load, compute and store wait for instructions, tokens and room in
  seven bounded queues that form circles.

### What makes each part correct

* Port: one register access per accepted transaction, at the address of its
  own handshake, and every transaction ends.
* Arbiter: one access at a time, and the host waits at most one cycle.
* Register file and log: together with the ports, an atomic register file with
  an in-order log of host writes.
* Doorbells: a register the host wrote and the controller has not read is in
  the log, or the controller was told, or the log was full.
* DMA control: every descriptor written is handed over once; every completion
  is reported; read data stays until it is taken.
* Decode: an access lands in the module the design document gives it.
* HLS control: every start is one run, no end of a run is cleared unread, and
  what the driver says of the block is so.
* Linux glue: a call on an initialised instance reaches the register it names
  in the block that was asked for, and Release gives back what Initialize took.
* VTA pipeline: the four blocks carry out the program in an order that its
  tokens allow, and no program that could run in order brings them to a
  standstill.

## 2. Plan

Most important behaviour first.  Items 1 to 6 are done; section 7 says why 7
and 8 are not.

1. NVMe core: `AXI4LiteCSR`, `RegBusArbiter`, `CSRFile`, `CSRInterrupt`,
   composed with their masters by `AXI4LitePort` and `NVMeTop`; the abstract
   register file `NVMeRegs`; `DoorbellEvents`.  Proofs of type correctness,
   coherence, address integrity, bounded waiting, and of the refinement.
2. DMA control: `DMAControl`, composed with `PCIeDMAEngine` and `DMAMaster` by
   `DMATop`; `DMAEvents`.  Proofs of type correctness, completions, descriptors, and
   of the refinement of the abstract `DMACopy`.
3. HLS control bus: `HLSControlBus`, `HLSCore`, `HLSDriver`, composed by
   `HLSTop`; `HLSEvents`.
4. Proofs about the HLS control bus, `HLSProofs`: every property of `HLSEvents`,
   for any number of clients, and the refinement of the abstract `HLSJobs`.
5. VTA pipeline: `VTAInstructions`, the abstract program `VTAProgram`, the four
   blocks with their queues `VTAPipeline`, shown to implement it, in
   `VTAPipelineProps`.  Proofs of the types, the refinement, and that the blocks
   never come to a standstill.
6. The drivers' way to their blocks: `HLSRegisterMap`, `UIOHost`, `HLSDevice`, and
   the proofs of who has what and which register is reached, `HLSDeviceProofs`.
7. BAR1 steering: `rtl_top.v` 1155-1271.
8. Address decode: `rtl_top.v` 255-380 and 1121-1153.

## 3. Modules

One step of every model is one clock edge.  Combinational wires are operators of
the registers and of what the masters drive in that cycle; a `Next` of a part is
what its registers become.  Environments choose their wires with `\E`.

### NVMe core (`chisel/src/main/scala/NVMeCore`)

| module | models | state |
|---|---|---|
| `AXI4LiteCSR` | the port: `StartWrite` .. `WriteResp` are the arms of `switch(state)`, `Hold` is no arm firing | `port`: `state`, the five handshake registers, `addr` |
| `RegBusArbiter` | `CSRArbiter`: who is ready, whose wires go out | none |
| `CSRFile` | storage, constant and auto-clearing registers, `DataIn`, the log's `ready` | `storage`, `irqHost` |
| `CSRInterrupt` | the log: enqueue and dequeue at one edge, `irqReq` | `queue` |
| `AXI4LiteMaster` | the masters (outside the repository): offers stay until accepted | offers, address under way, word received |
| `AXI4LitePort` | a port with its master, and the part of the invariant that is about them | |
| `NVMeTop` | the composition: `Edge` wires two ports, arbiter, file and log | |
| `NVMeTopProps` | properties and fairness | |
| `NVMeRegs` | the abstract register file: an access is done at once, host writes are appended to the log | `regs`, `pulse`, `log`, the masters' operations |
| `DoorbellEvents` | history: what the host wrote and the controller was told | |

A register that only stores is a member of `StorageRegs`; constant registers are
`ConstRegs`; addresses that are in no register are `Unmapped` and read 0.  The
log holds word addresses; an empty log shows any of them (`LogBits`).

### DMA control (`hdl/rtl_top.v` 511-727)

| module | models | state |
|---|---|---|
| `DMAControl` | the `always @*` block and the registers it feeds; each `*_next` is an operator | AXI handshakes, descriptors, `descValid`, `statusReady`, `irq`, `enable`, counters |
| `PCIeDMAEngine` | the engine (a submodule): takes a descriptor when it is enabled and has a free entry, ends operations in any order, shows the tag of the last one | `inflight`, `lastTag` |
| `DMAMaster` | firmware and interconnect | offers, awaited read, `busy` |
| `DMATop`, `DMAEvents` | composition; history and properties | |
| `DMACopy` | abstract: what polite firmware is promised of a read descriptor | `stage`, `desc`, what is handed over and told in a step |

A register is a pair (direction, field), a packet stream counts to `CountSize`.
`DMATop` wires the enable register to the engine's read and write enable
(`rtl_top.v` 1800-1801): an engine that is not enabled offers no entry
(`Offers`), and goes on with what it has taken.
A `Polite` firmware leaves a descriptor alone from its doorbell to the report of
its completion, a `Patient` master has `rready` up when the answer comes.

### HLS control bus (`vivado/ip_repo/xilinx_com_hls_*`)

| module | models | state |
|---|---|---|
| `HLSControlBus` | `*_CONTROL_BUS_s_axi.v`: both bus machines and every register; `Block` selects the argument registers | `bus`, `ap`, `gie`, `ier`, `isr`, `data`, `result` |
| `HLSCore` | the block as its control bus sees it: waits, takes its arguments, ends | `core` |
| `HLSDriver` | `x*.c`: each call is one read, one write, or a read and then a write | `cpu`: where each client is, what it has read and knows |
| `HLSTop` | the composition: `Edge` wires clients, slave and block | |
| `HLSJobs` | the abstract specification: arguments set, a start, a job begun with them, its end, the client told with the result | `client`, `job`, `args`, `taken`, `finish`, `answer` |
| `HLSEvents` | history; the refinement mapping (from `cpu`, `ap`, `core`, `data` and `result` alone), properties | |

A word is the set of its 1 bits; {0, 1, 2, 3, 7} are those with a meaning.  All
states of a block between state1 and the end are one, `running`, except the
state80 of compute, which sets the result.

### The drivers' way to their blocks (`drivers/*/src/x*_linux.c`, `x*_sinit.c`)

| module | models | state |
|---|---|---|
| `HLSRegisterMap` | the drivers' register offsets (`x*_hw.h`) and the slaves' address decoders | none |
| `UIOHost` | the kernel: device numbers, the file table, the address space | `uio`, `files`, `pages` |
| `HLSDevice` | Initialize and Release, one system call per step: `Scan`, `ReadMaps`, `Open`, `Map`; `Unmap`, `Close`; without Linux `InitializeById` | `info` (the static structure of each driver), `inst`, `call`, `want`, `held` |
| `HLSDeviceProps` | properties | |

Between two steps the other drivers of the process, the rest of it
(`AppMoves`: it opens and closes files, maps and unmaps pages) and the devices
(`DevicesMove`) move.  `Access` is what a read or write of a register reaches:
the page the instance's address is in, the device mapped there, the word that
device's slave finds at the offset.

### VTA pipeline (`hdl/verilog/{fetch,load,compute,store}.v`)

| module | models | state |
|---|---|---|
| `VTAInstructions` | where an instruction goes, the tokens it takes and leaves | none |
| `VTAProgram` | the abstract specification: units, tokens counted from what they have done, no queues, no fetch | `program`, `given`, `last`, `stage`, `todo` |
| `VTAPipeline` | fetch, the three instruction queues, the four dependency queues, the units | `program`, `upto`, `fetching`, `at`, `queue`, `tokens`, `start`, `last`, `stage`, `todo` |
| `VTAPipelineProps` | the refinement mapping (`given` is `upto`), properties | |

An instruction is its place in the program, a token a count.  `Begin` is the
edge at which a block leaves state1 and takes the instruction and all tokens,
`Work` all that is done on memories, `Push` one token left, `End` the last
state, in which the block stays until the slices in front of its queues can be
emptied.

Fetch is a pipeline that moves as one (`fetch.v` 797-803).  The instruction to
be handed out waits in its third stage for its own slice (`ap_block_state12_io`);
the one handed out before it is in the fourth, and stops the pipeline until its
slice would take one more (`ap_block_state13_io`), whatever block the next one is
for.  `Fetch` has both waits as its guard, and `CanFetch` is that guard.  At
the start of a run the fourth stage is empty; the guard then asks nothing,
since fetch ended its last run with room in all slices (`EndFetch`).  Compute
looks at the slice of the token for load again when it leaves the one for store
(`ap_block_state81_io`, in `Free`).

## 4. What is checked

| run | question | bounds |
|---|---|---|
| `nvme_core` | is the core an atomic register file (`ActsAtomically`), with the right addresses, a bounded wait, separate host interrupts; do transactions end, are reads served? | one storage register and a constant one, one data bit, log of 2, both masters patient; the host does not write `IRQHOST` |
| `nvme_doorbells` | can a doorbell be lost, can VALID be wrong? | two doorbells, log of 2 |
| `dma_events` | is a completion lost or told twice, an access done twice? | both directions, one engine entry, tags only, an engine that gets enabled |
| `dma_registers` | do reads return their register, is the descriptor that was rung taken once, is its own tag told, do bus, flags and engine implement `DMACopy` (`DoesCopies`)? | two fields, two words, one stream, a polite and patient firmware |
| `dma_live` | is a rung read descriptor taken, unless the engine is disabled? | both directions, one engine entry, one tag; enable set and cleared at will |
| `dma_write_descriptor` | violation: the write descriptor | |
| `dma_read_data` | violation: a late `rready` | |
| `hls_events` | are polls right, is an end of a run lost, is each start one run with its arguments and its result (`DoesJobs`: do bus, block and driver implement `HLSJobs`), are the flags the events? | compute, one starter, one interrupt handler |
| `hls_restart` | does automatic restart stay as switched, and stop? | load, one starter, one reader |
| `hls_device` | does a call reach its register, is what is taken given back, and by its owner? | two drivers of one process, five devices of two sizes, two device numbers, two files, five pages, `open` may fail; and a build without Linux |
| `hls_map_failed` | violation: a failed `mmap` | as above, `mmap` may fail |
| `vta_pipeline` | do the blocks carry out the program, can they stand still (fetch waiting for the next instruction's slice and for the last one's), does it end, does FINISH come last? | queues of one place and a slice; 3-instruction programs over 13 instructions, two tiles with double buffering, a program longer than the queues, one whose tokens do not match |

Why these bounds are enough: a port holds one transaction at a time, so two
masters with one register of each kind show every interleaving of the machines;
a log of 2 is full, half full and empty, and an event can be behind another; a
second address tells doorbells apart; one entry of the engine makes it refuse,
and two tags tell a report from another's.  Two numbers let a device go and
another come in its place; two files and five pages are taken, given back and
taken by another.  A queue with one place is full when the next instruction of
the same unit comes, and `Behind` and `Astray` overfill instruction and
dependency queues.  In `Behind` the next instruction is for load, whose slice is
free, while fetch waits for the full slice of compute, which has the one before.
`dma_live` lets firmware raise and drop enable at any time, as every descriptor
waits for it.  Counter widths, the log's 128 entries and the depths of the
queues are constants of the models and of the proofs.

`CHECK_DEADLOCK FALSE` is in `MCVTAPipeline.cfg` only: a program that has ended,
or one whose tokens do not match (`Astray`), stops.  `NeverStuck` says that
nothing else does.

### Findings

* `rtl_top.v:610` withdraws the write descriptor when the engine's *read* port
  is ready.  `dma_write_descriptor` shows a descriptor that the engine never
  takes; the read direction (`rtl_top.v:603`) is right, and proved so.
* `rtl_top.v:595` clears `rdata` one edge after it was loaded while `rvalid`
  stays up.  `dma_read_data` shows a master that is a cycle late and gets 0.
* `xcompute_linux.c:127` (and its three siblings) asserts that the address from
  `mmap` is not 0; a failure is `MAP_FAILED`, which is not 0.  `hls_map_failed`
  shows `Initialize` returning XST_SUCCESS for an instance without registers.

### Limits one should know

* A completion in the very cycle in which its status register is sampled sets the
  flag after the sample and is cleared a cycle later with it
  (`rtl_top.v:577-586`): nobody is told. `CompletionSticks` leaves that cycle out
  (`unseen` in `DMAEvents`), and `DMACopy` lets a copy end as `missed`; the tag
  in the sampled word may already be its own.
* Several host writes of one register before the controller reads it are one
  doorbell: the register has the last value.  `NoDoorbellLost` says that such a
  doorbell is still known, not that each write is seen.
* The interrupt flags of an HLS block are exact for one handler.  A second
  handler that clears the same flag raises it again (ISR toggles), and a second
  client that switches interrupts or restarts may be undone by a
  read-modify-write of the driver.
* IsDone is for one way of polling: IsIdle, IsReady and Start read AP_CTRL too and
  clear done.  `NoEndUnread` says that a read brings it, not which: of two
  clients that wait for IsDone one may wait for ever.
* The Linux glue is right for callers that initialise and release by turns
  (`Careful`) and for one instance of a driver in a process.  Release does not
  clear `IsReady` and takes size and file from the driver's static structure: a
  second Release, or a second instance, closes and unmaps what is another's.
  A device that goes away between `open` and `mmap` is the fault `mmap`; one
  that is renumbered between the scan and `open` (fault `renumber`) is not told
  from the right one.  A process that has no room left in its address space is
  the fault `mmap` too; `Pages` is only a bound.
* The engine takes nothing until firmware sets enable (`rtl_top.v:1800`), and
  nothing reports it: a read descriptor rung before stays on offer until then.
* A unit of the pipeline takes one instruction per start.  Software that starts
  a unit less often than it has instructions, and leaves auto-restart off, waits
  for ever; `ProgramEnds` assumes that it does not.
* An `Orderly` program could run one instruction after the other with the room
  there is for tokens.  A program that is not may still end, but nothing is said
  of it.

## 5. Fairness

`nvme_core`: the clock goes on, and a master that has begun a transaction goes on
with it (offers its word, raises its ready).  Nothing is assumed of the arbiter.
Its masters are `Patient` (ready when the answer comes); safety for the others
is proved, not run.
`dma_live`: the clock goes on, the engine ends what it has begun and is ready
when it is enabled and has a free entry; firmware may do what it likes, and
`ReadDescriptorTaken` asks for nothing once it has disabled the engine.  An
engine that is not enabled is not assumed to take anything: the fair step is
one of `Offers`, which has no entry then.  The masters and the
engine are outside the repository; without these assumptions an AXI transfer
has no promise at all.
`vta_pipeline`: each block goes on when it can (it is clocked logic, and the
memories answer), and software goes on starting fetch and the units (or left
auto-restart on, which `End` chooses freely).  Weak fairness is enough: nothing
that a block waits for is taken away by another.
The other runs state no fairness: their properties are safety.

## 6. What is proved

For every value of the constants that satisfies the named assumptions
(`NVMeTopAssumption`, `DMATopAssumption`, `HLSTopAssumption`,
`VTAPipelineAssumption`, `HLSDeviceAssumption` and those they rest on: the kinds
of registers are disjoint, `None` is none of the values, tags fit below the done
bit, the calls of a program name registers that exist, 32 bits hold the address
of every page but not 0 and `MAP_FAILED`).  Theorems that hold only for some
callers or firmware name them as a hypothesis: `Polite` and `Patient` firmware of
the DMA, one `Careful` client of a block, `ByTurns`.

* `AXI4LitePort`: lemmas about one port and its master, for any addresses and
  words, used for the host's port and for the controller's.
* `NVMeTopProofs`: the invariant `IInv` says, for each port, that state,
  handshake registers, latched address and the offers still held agree.
  `TypeOK` alone is not inductive: a port writes to the address it latched, and
  only coherence tells that it is a host register.  From it: `TypeCorrect`,
  `AddressKept`, and `HostBound` (a refused host access finds the controller's
  port in the state after its access, where it asks for nothing).
* `NVMeTopRefinement`: each edge is, seen through the mapping of `NVMeTopProps`,
  one step of `NVMeRegs` or a stutter; the cases are nobody granted, controller
  granted, host granted.
* `DoorbellProofs`: the history changes nothing, so `IInv` carries over; then the
  log only grows by host writes and shrinks by reads of `IRQDAT`.  `Pulses`
  assumes that the host does not write `IRQHOST`.
* `DMAProofs`: `IInv` says that an offer held after an edge was carried out at
  that edge, and that a flag is what the history says but for the cycle between
  sample and clear.  From it the type, completions, and one execution per offer.
  `StageInv`: a polite firmware's read descriptor is in one stage at a time
  (rung, running, flagged, told); from it the two descriptor theorems.
  `Refinement` adds `SampledStage`: the word that says done stands in the one cycle
  after its sample.  Then what an edge does is one step of `DMACopy` or none: while
  no copy is rung only the registers change (`IdleMoves`), while one is they do not
  and it moves by at most one stage (`RungMoves`).  A `Patient` master is not
  assumed: a late one loses the word, which `DMACopy` calls `Lose`.
* `HLSProofs`: `BusInv` says who is on the bus: a channel in its data or response
  state has exactly one client, and the latched address is of its call.  `TypeOK`
  alone is not inductive, as the word that is written is that of the client
  whose address was taken.  From it `StepChanges`: what an edge does to every
  register, in terms of the calls that read or write it at that edge (`Samples`,
  `Lands`) instead of wires.  Then, for any programs: `EndsAreRead` and `Stops`.
  For programs in which one client s alone does the calls in question, which
  each theorem names: `StartKeepsRestart` (what s has read of the restart bit is
  still so when it is written back), `Flags` (what the handler has read and not
  cleared is still up), and, from `StarterInv`, `Free`, `Runs`, `Arguments` and
  `Results`.  `StarterInv` says that ap.start is up from the write of a start to
  the end of its run; that done and idle, when up, are about a block that is
  quiet, but for the idle of the cycle of a start, which s cannot read yet; and
  that what s knows, or is about to be told, stays so until s starts the block.
  `Refinement`: at each edge the client s makes one of five moves (`StarterMoves`)
  and the block one of four (`BlockMoves`); while a job is under way s can only
  wait, and while none is the block can only stay, so no edge is two steps of
  `HLSJobs`.
* `VTAPipelineProofs`: `IInv` says that the queues hold, in order, what was handed
  out and not begun; that a queue has as many tokens as were left and not taken;
  and that a slice holds a token only while the unit that put it there has not
  ended.  From it the types (`Typed`), the `Refinement` of `VTAProgram` step by
  step, and `FinishIsLast`.  `NotStuck`: of all instructions under way or next in
  line take the first of the program; it never waits, since all that could leave
  it a token or take one out of its way stand before it in the program and are
  through.  If fetch has yet to hand it out, all queues are empty, so that
  neither the slice of that instruction nor that of the one before holds fetch
  up.

* `HLSDeviceProofs`: what an instance has is a function of how far its call is:
  a file (`HasFile`) from the open to the close, pages (`HasPages`) from
  `XST_SUCCESS` to the munmap.  `OwnInv` says that the kernel's tables agree with
  that, under the number and the size that the static structure keeps, which
  `NothingLeft` alone does not say: a Release takes both from there.  It needs
  `ByTurns` (an instance is initialised and released by turns, and a process has
  one instance per driver) and no assumption on what fails; from it `GivesBack`
  and `OwnOnly`.  `ReachInv` adds which device is behind each stage: found by its
  name, read, opened, mapped.  It needs that a number found by the scan still is
  the device's when it is opened (`Steady`).  From it `NoOther`: an access may
  reach nothing, if mmap failed, but never another register or block.  If
  moreover nothing but open fails (`Sound`), `Ready` and `Reaches`: a refused mmap
  is thus all that the violation `MappedWhenReady` rests on.  `OffsetsMatch`
  compares the drivers' offsets with the slaves' decoders, register by register.

Only model-checked: liveness (`TransactionsEnd`, `ReadsGoAfterWrites`,
`ReadDescriptorTaken`, `ProgramEnds`: out of the prover's reach) and the three
violations.

## 7. What is not modelled

* Reset (the models start after it), byte strobes (they do not exist in the NVMe
  core, and software writes whole words to the others), response codes
  (constant 0).
* The arithmetic, local memories and memory ports of the HLS blocks: one step,
  `Work`.
* The BAR1 steering (`rtl_top.v` 1155-1271) registers every wire of an AXI bus, in
  both directions, between a master and three memories that it chooses by both
  addresses at once.  Whether a beat is lost or done twice depends on when the
  master raises valid and the memories ready.  The master is in a submodule
  that is not in the tree, the memories behind are ports of the processor: a
  model would check an assumption about them and not this code.
* The address decode (`rtl_top.v` 255-380, 1121-1153) is a function of the address
  and of `func_no_out`, the function number of the PCIe packet the demultiplexer
  shows.  When that changes against the access under way is decided in the same
  submodule.
* The Chisel VTA and the UART (generated or vendored), the PCIe core and its
  multiplexers (submodules), the block design and the build.
