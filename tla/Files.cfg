\* Every group of commands, two scripts at once, an overlap and a death.
CONSTANTS
  Plans <- MCPlans
  Slots = {1, 2}
  Pairs = {p1, p2, p3, p4, p5}
  MaxOverlaps = 1
  MaxTears = 1
SPECIFICATION Spec
INVARIANTS TypeOK DigestMatches WrittenIsThere OwnLinesKept OneBlock 
