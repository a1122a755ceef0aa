SPECIFICATION Spec
CONSTANTS
  None = None
  fetch = fetch
  load = load
  store = store
  compute = compute
  app = app
  f0 = f0
  f1 = f1
  l0 = l0
  s0 = s0
  c0 = c0
  App = app
  Instances <- MCInstances
  Owners <- MCOwners
  DriverOf <- MCDriverOf
  Devices <- MCDevices
  BlockOf <- MCBlockOf
  Asks <- MCAsks
  Table <- MCTable
  Size <- MCSize
  Nums = {0, 1}
  Fds = {0, 1}
  Pages = {1, 2, 3, 4, 5}
  Word = 16
  Processes <- Pairs
  Faults = {"read", "mmap"}
  Careful = TRUE
INVARIANT MappedWhenReady
