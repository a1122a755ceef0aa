SPECIFICATION EventsSpec
CONSTANTS
  main = main
  irq = irq
  None = None
  Block = "compute"
  Bits = {0, 1, 2, 3, 7}
  Clients <- MCClients
  Program <- Handled
  Careful = TRUE
INVARIANTS
  TypeOK
  FreeWhenTold
  NoEndUnread
  FlagsAreEvents
  ResultIsOfRun
PROPERTIES
  OneRunPerStart
  RunsWithItsArguments
  DoesJobs
