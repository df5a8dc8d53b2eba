\* The service, its next incarnation, and two `connect` runs.
CONSTANTS
  Services = {s1, s2}
  Connects = {c1, c2}
  NoOne = NoOne
SPECIFICATION FairSpec
INVARIANTS TypeOK OneLoop LockImpliesLoop
 
