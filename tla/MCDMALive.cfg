SPECIFICATION FairSpec
CONSTANTS
  Size <- OneTag
  DoneBit = 2
  CountSize = 2
  None = None
  Slots = {s1}
  Fields = {"tag"}
  Data = {0, 1}
  Streams = {}
  Unmapped = {}
  WriteAddrs <- BellsAndEnable
  ReadAddrs <- ReadStatus
  Patient = TRUE
  Polite = FALSE
PROPERTIES
  ReadDescriptorTaken
