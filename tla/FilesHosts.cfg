\* Runs of write_hosts one after the other, none dies.
CONSTANTS
  Plans <- HostsPlans
  Slots = {1}
  Pairs = {p1}
  MaxOverlaps = 0
  MaxTears = 0
SPECIFICATION Spec
INVARIANTS RerunReplaces
