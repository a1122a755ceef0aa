------------------------------ MODULE CSRFile ------------------------------
(***************************************************************************)
(* The register file of the NVMe core (NVMeCore/CSRFile.scala and the      *)
(* register kinds of NVMeCore/CSR.scala).  Addresses are word addresses,   *)
(* grouped by the kind of register behind them; a register the file has    *)
(* several of (the doorbells) is any member of StorageRegs.                *)
(***************************************************************************)
EXTENDS Naturals

CONSTANTS StorageRegs,            \* plain storage: doorbells, CC, AQA, ...
          ConstRegs,              \* read-only words with a fixed value: CAP, VS
          ConstVal,               \* their values
          Unmapped,               \* addresses with no register
          IRQSTA, IRQDAT, IRQHOST,\* the three custom registers
          Data                    \* the words masters write

CSRFileAssumption ==
    /\ 0 \in Data
    /\ ConstVal \in [ConstRegs -> Nat]
    /\ IRQSTA \notin StorageRegs /\ IRQDAT \notin StorageRegs /\ IRQHOST \notin StorageRegs
    /\ IRQSTA # IRQDAT /\ IRQSTA # IRQHOST /\ IRQDAT # IRQHOST
    /\ ConstRegs \cap (StorageRegs \cup {IRQSTA, IRQDAT, IRQHOST}) = {}
    /\ Unmapped \cap (StorageRegs \cup ConstRegs \cup {IRQSTA, IRQDAT, IRQHOST}) = {}

Addrs == StorageRegs \cup ConstRegs \cup Unmapped \cup {IRQSTA, IRQDAT, IRQHOST}

(* What a read returns: a stored word, a fixed word, VALID or, from IRQDAT, *)
(* a logged word address.                                                  *)
Words == Data \cup {ConstVal[r] : r \in ConstRegs} \cup {0, 1} \cup Addrs

VARIABLES storage,   \* the storage registers
          irqHost    \* the auto-clearing register behind io.irqHost

FileTypeOK == storage \in [StorageRegs -> Data] /\ irqHost \in Data

Init == storage = [r \in StorageRegs |-> 0] /\ irqHost = 0

(* io.bus.reg.dataIn for a bus at address a, while the log shows           *)
(* logValid and logBits.                                                   *)
DataIn(a, logValid, logBits) ==
    CASE a \in StorageRegs -> storage[a]
      [] a \in ConstRegs   -> ConstVal[a]
      [] a = IRQSTA        -> IF logValid THEN 1 ELSE 0
      [] a = IRQDAT        -> logBits
      [] a = IRQHOST       -> irqHost
      [] OTHER             -> 0

(* Mutant: the pop sits on the status register, one word too low. *)
LogReady_OnStatus(bus) == bus.read /\ bus.addr = IRQSTA

(* io.csrLog.ready: whoever reads IRQDAT pops the log. *)
LogReady(bus) == bus.read /\ bus.addr = IRQDAT

(* Mutant: IRQHOST is a plain storage register. *)
Next_NoClear(bus) ==
    /\ storage' = IF bus.write /\ bus.addr \in StorageRegs
                  THEN [storage EXCEPT ![bus.addr] = bus.dataOut]
                  ELSE storage
    /\ irqHost' = IF bus.write /\ bus.addr = IRQHOST THEN bus.dataOut ELSE irqHost

(* The clock edge: a write lands in the addressed register, and IRQHOST    *)
(* falls back to 0 unless it is being written.                             *)
Next(bus) ==
    /\ storage' = IF bus.write /\ bus.addr \in StorageRegs
                  THEN [storage EXCEPT ![bus.addr] = bus.dataOut]
                  ELSE storage
    /\ irqHost' = IF bus.write /\ bus.addr = IRQHOST THEN bus.dataOut ELSE 0
=============================================================================
