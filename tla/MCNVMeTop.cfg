SPECIFICATION FairSpec
CONSTANTS
  cap = cap
  StorageRegs = {db}
  ConstRegs = {cap}
  ConstVal <- MCConstVal
  Unmapped = {}
  IRQSTA = IRQSTA
  IRQDAT = IRQDAT
  IRQHOST = IRQHOST
  Data = {0, 1}
  Addr0 = cap
  None = None
  QueueDepth = 2
  HostWrites = {db}
  HostReads = {db, IRQDAT, IRQHOST}
  CtrlWrites = {db, IRQHOST}
  CtrlReads = {db, IRQSTA, IRQDAT, IRQHOST, cap}
  Patient = TRUE
INVARIANTS
  TypeOK
  AddressIsMasters
PROPERTIES
  HostWaitsOnce
  ActsAtomically
  PulsesApart
  TransactionsEnd
  ReadsGoAfterWrites
