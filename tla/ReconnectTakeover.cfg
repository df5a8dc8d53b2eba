\* Two agents with one vm_id, scaled down: the order of the constants is kept.
CONSTANTS
  Agents = {a1, a2}
  Delays <- ShortDelays
  SupersededDelay = 4
  Healthy = 3
SPECIFICATION FairSpec
INVARIANTS TypeOK
PROPERTIES TakeoversSpaced BackoffGrows Recovers
