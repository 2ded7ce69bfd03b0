SPECIFICATION Spec
CONSTANTS
  Hosts = {h1, h2, h3}
  Bootstraps = {b1, b2}
  NoHost = NoHost
  Overlap = TRUE
  MaxFence = 3
CHECK_DEADLOCK FALSE
INVARIANTS OneWriter
