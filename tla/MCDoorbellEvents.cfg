SPECIFICATION EventsSpec
CONSTANTS
  cap = cap
  StorageRegs = {sq, cq}
  ConstRegs = {cap}
  ConstVal <- MCConstVal
  Unmapped = {}
  IRQSTA = IRQSTA
  IRQDAT = IRQDAT
  IRQHOST = IRQHOST
  Data = {0}
  Addr0 = cap
  None = None
  QueueDepth = 2
  HostWrites = {sq, cq}
  HostReads = {}
  CtrlWrites = {}
  CtrlReads = {sq, IRQSTA, IRQDAT}
  Patient = FALSE
INVARIANTS
  NoDoorbellLost
  ValidHolds
