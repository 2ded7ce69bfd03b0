SPECIFICATION AllSpec
CONSTANTS
  h1 = h1  h2 = h2  h3 = h3  b1 = b1  b2 = b2
  e1 = e1  e2 = e2  k1 = k1  k2 = k2
  Launchers = {l1, l2}  MaxDead = 2
  Processes = {p1, p2}  Confirmations = {c1, c2}  Issued <- InTurn  Recoverers = {"recoverer"}
  Commands = {"rebuild", "rotate", "restore"}  Ttl = 1  MaxTime = 1  MaxFaults = 1
  Operations = {"o1", "o2"}  MaxHead = 5  MaxKilled = 2
  p1 = p1  p2 = p2  c1 = c1  c2 = c2
  NoHost = NoHost
  Hosts <- ThreeHosts
  Bootstraps <- TwoBootstraps
  Overlap = FALSE
  MaxFence = 5
SYMMETRY Sym
CHECK_DEADLOCK FALSE
INVARIANTS OneWriter SpoolSound JournalSound HostIsFound
PROPERTIES LeaseIsKept HeadProviderSpec OperatorSound
