SPECIFICATION EventsSpec
CONSTANTS
  main = main
  irq = irq
  None = None
  Block = "load"
  Bits = {0, 1, 2, 3, 7}
  Clients <- MCClients
  Program <- Restarts
  Careful = FALSE
INVARIANTS
  RestartAsSwitched
  StopsWhenTold
