\* One relayed file at a time on Linux and on Windows, none dies.
CONSTANTS
  Plans <- RelayPlans
  Slots = {1}
  Pairs = {p1}
  MaxOverlaps = 0
  MaxTears = 0
SPECIFICATION Spec
INVARIANTS RelayCarries
