--------------------------- MODULE MCVTAPipeline ---------------------------
EXTENDS VTAPipelineProps

(* An instruction by its opcode, its memory and the letters of its bits:   *)
(* p and n for the tokens it takes from the unit before and after its own, *)
(* P and N for those it leaves there.                                      *)
Insn(op, mem, bits) ==
    [op |-> op, mem |-> mem, popPrev |-> "p" \in bits, popNext |-> "n" \in bits,
     pushPrev |-> "P" \in bits, pushNext |-> "N" \in bits]
Loads == {Insn("load", "inp", bits) : bits \in {{}, {"n"}, {"N"}, {"n", "N"}}}
Gemms == {Insn("gemm", "uop", bits) : bits \in {{"p"}, {"P", "N"}, {"p", "N"}, {"n", "P"}}}
Stores == {Insn("store", "acc", bits) : bits \in {{}, {"p"}, {"p", "P"}}}
Others == {Insn("load", "acc", {}), Insn("finish", "uop", {"n"})}
Short == {p \in [1 .. 3 -> Loads \cup Gemms \cup Stores \cup Others] : Orderly(p)}

(* Two tiles through both halves of the memory of load, and the end.       *)
Tiles ==
    <<Insn("load", "inp", {"N"}), Insn("gemm", "uop", {"p", "P"}),
      Insn("load", "wgt", {"n", "N"}), Insn("alu", "uop", {"p", "N"}),
      Insn("store", "acc", {"p", "P"}), Insn("finish", "uop", {"n"})>>
(* More instructions of one unit than its queue holds, in front of one of  *)
(* another unit that the last of them does not wait for.                   *)
Behind ==
    <<Insn("load", "uop", {}), Insn("load", "acc", {"N"}), Insn("gemm", "uop", {}),
      Insn("alu", "uop", {}), Insn("load", "inp", {"N"}), Insn("store", "acc", {"p"}),
      Insn("finish", "uop", {"p"})>>
(* More tokens than there is room for, and a token that never comes.       *)
Astray == <<Insn("load", "inp", {"N"}), Insn("load", "inp", {"N"}), Insn("load", "inp", {"N"}),
            Insn("store", "acc", {"p"})>>
MCPrograms == Short \cup {Tiles, Behind, Astray}
=============================================================================
