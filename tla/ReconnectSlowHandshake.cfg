\* One agent, the numbers of the program.
CONSTANTS
  Agents = {a1}
  Delays <- RealDelays
  SupersededDelay = 300
  Healthy = 60
SPECIFICATION Spec
PROPERTIES OnlyHealthyResets
