SPECIFICATION EventsSpec
CONSTANTS
  Size <- MCSize
  DoneBit = 2
  CountSize = 2
  None = None
  Slots = {s1}
  Fields = {"tag"}
  Data = {1}
  Streams = {}
  Unmapped = {}
  WriteAddrs <- BellsAndEnable
  ReadAddrs <- Statuses
  Patient = TRUE
  Polite = TRUE
PROPERTIES
  WriteDescriptorHandedOver
