\* Two agents with one vm_id, the first of which may miss its 4409.
CONSTANTS
  Agents = {a1, a2}
  Delays <- ShortDelays
  SupersededDelay = 6
  Healthy = 4
SPECIFICATION Spec
PROPERTIES TakeoversAlwaysSpaced
