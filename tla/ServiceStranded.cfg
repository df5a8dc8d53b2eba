\* The service beside one manual `connect` run.
CONSTANTS
  Services = {s1}
  Connects = {c1}
  NoOne = NoOne
SPECIFICATION FairSpec
PROPERTIES ServiceFailsFast
