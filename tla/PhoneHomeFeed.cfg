\* Two jobs on one pool thread or two, two commands unread, one crash; no symmetry,
\* as two properties are temporal.
CONSTANTS
  Jobs = {j1, j2}
  PoolSizes = {1, 2}
  MaxDispatch = 1
  MaxInbound = 2
  MaxCrashes = 1
SPECIFICATION FairSpec
INVARIANTS TypeOK OwedInOrder InFlightInOrder ConcludedJobsFinished
PROPERTIES InOrder FeedSpec Drains TasksConclude
