-------------------------- MODULE HLSRegisterMap ---------------------------
(***************************************************************************)
(* Where the registers of the HLS blocks are: the offsets the drivers use  *)
(* (x*_hw.h), and what the control slaves make of the low bits of an       *)
(* address ({fetch,load,store,compute}_CONTROL_BUS_s_axi.v).               *)
(***************************************************************************)
EXTENDS Naturals, Sequences

FetchOffsets == [AP_CTRL |-> 0, GIE |-> 4, IER |-> 8, ISR |-> 12,
                 insn_count |-> 16, insns_V |-> 24]
LoadOffsets == [AP_CTRL |-> 0, GIE |-> 4, IER |-> 8, ISR |-> 12,
                inputs_V |-> 16, weights_V |-> 24]
StoreOffsets == [AP_CTRL |-> 0, GIE |-> 4, IER |-> 8, ISR |-> 12, outputs_V |-> 16]
ComputeOffsets == [AP_CTRL |-> 0, GIE |-> 4, IER |-> 8, ISR |-> 12, done_i |-> 16, done_o |-> 24,
                   done_o_ctrl |-> 28, uops_V |-> 32, biases_V |-> 40]

Offsets(block) ==
    CASE block = "fetch" -> FetchOffsets
      [] block = "load" -> LoadOffsets
      [] block = "store" -> StoreOffsets
      [] block = "compute" -> ComputeOffsets

Registers(block) == DOMAIN Offsets(block)

(* The words of a slave in the order of their addresses; "" is a word with *)
(* nothing behind it.                                                      *)
FetchWords == <<"AP_CTRL", "GIE", "IER", "ISR", "insn_count", "", "insns_V", "">>
LoadWords == <<"AP_CTRL", "GIE", "IER", "ISR", "inputs_V", "", "weights_V", "">>
StoreWords == <<"AP_CTRL", "GIE", "IER", "ISR", "outputs_V", "", "", "">>
ComputeWords == <<"AP_CTRL", "GIE", "IER", "ISR", "done_i", "", "done_o", "done_o_ctrl",
                  "uops_V", "", "biases_V", "", "", "", "", "">>

WordsOf(block) ==
    CASE block = "fetch" -> FetchWords
      [] block = "load" -> LoadWords
      [] block = "store" -> StoreWords
      [] block = "compute" -> ComputeWords

(* The register a slave finds at an offset of its window: it looks at the  *)
(* low ADDR_BITS of the address, and knows only addresses of words.        *)
Decode(block, offset) ==
    LET words == WordsOf(block)
    IN  IF offset % 4 = 0 THEN words[((offset \div 4) % Len(words)) + 1] ELSE ""
=============================================================================
