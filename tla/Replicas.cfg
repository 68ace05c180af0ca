SPECIFICATION FairReplicasSpec
CONSTANTS
  Keys <- OneKey
  Fields = {"f"}
  Values = {"low"}
  Specs <- OneSpec
  ValidOverrides <- MCValidOverrides
  Uncomparable = {}
  InitialSpecs <- MCInitialSpecs
  InitialCMs = {}
  Limit <- MCLimit
  Absent = Absent
  NoKey = NoKey
  Foreign = {Foreign}
  NoHash = NoHash
  NoBody = NoBody
  MaxLag = 3
  MaxEdits = 1
  MaxCrashes = 1
INVARIANT LeaderServes
PROPERTY HandoverConverges
CHECK_DEADLOCK FALSE
