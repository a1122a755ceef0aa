-------------------------- MODULE VTAInstructions --------------------------
(***************************************************************************)
(* What fetch, load, compute and store read from an instruction: where it  *)
(* goes, and the dependency queues it takes a token from and puts one in.  *)
(***************************************************************************)
EXTENDS Naturals, Sequences, FiniteSets

Opcodes == {"load", "store", "gemm", "finish", "alu"}
Memories == {"uop", "wgt", "inp", "acc"}
Instruction == [op: Opcodes, mem: Memories, popPrev: BOOLEAN, popNext: BOOLEAN,
                pushPrev: BOOLEAN, pushNext: BOOLEAN]

Units == {"load", "compute", "store"}

(* Loads of micro-ops and of accumulators are for compute.                 *)
Destination(insn) ==
    IF insn.op = "store" THEN "store"
    ELSE IF insn.op = "load" /\ insn.mem \in {"wgt", "inp"} THEN "load"
    ELSE "compute"

(* The dependency queues.                                                  *)
Channels == {"l2g", "g2l", "g2s", "s2g"}
Producer == [l2g |-> "load", g2l |-> "compute", g2s |-> "compute", s2g |-> "store"]
Consumer == [l2g |-> "compute", g2l |-> "load", g2s |-> "store", s2g |-> "compute"]
Forward == {"l2g", "g2s"}

(* Each unit looks at the bits of the queues it has.                       *)
Pops(insn) ==
    {c \in Channels : Consumer[c] = Destination(insn)
                      /\ IF c \in Forward THEN insn.popPrev ELSE insn.popNext}
Pushes(insn) ==
    {c \in Channels : Producer[c] = Destination(insn)
                      /\ IF c \in Forward THEN insn.pushNext ELSE insn.pushPrev}

Pushers(program, c) == {i \in 1 .. Len(program) : c \in Pushes(program[i])}
Poppers(program, c) == {i \in 1 .. Len(program) : c \in Pops(program[i])}
=============================================================================
