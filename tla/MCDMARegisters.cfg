SPECIFICATION EventsSpec
CONSTANTS
  Size <- MCSize
  DoneBit = 2
  CountSize = 2
  None = None
  Slots = {s1}
  Fields = {"len", "tag"}
  Data = {1, 2}
  Streams = {"rq"}
  Unmapped <- MCUnmapped
  WriteAddrs <- WriteBasics
  ReadAddrs <- ReadBasics
  Patient = TRUE
  Polite = TRUE
INVARIANTS
  TypeOK
PROPERTIES
  ReadDataKept
  ReadDescriptorHandedOver
  OwnTagReported
  DoesCopies
