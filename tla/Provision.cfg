\* Two scripts at once, two overlapping deliveries, one fault.
CONSTANTS
  Plans <- MCPlans
  Slots = {1, 2}
  MaxFaults = 1
  MaxOverlaps = 2
SPECIFICATION FairSpec
INVARIANTS TypeOK   TasksCleaned ServiceComesBack
PROPERTIES  Converges
