\* One job, no crash: only the socket is lost.
CONSTANTS
  Jobs = {j1}
  PoolSizes = {1}
  MaxDispatch = 1
  MaxInbound = 1
  MaxCrashes = 0
SPECIFICATION Spec
INVARIANTS ResultsSurvive
