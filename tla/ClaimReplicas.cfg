SPECIFICATION ReplicasSpec
CONSTANTS
  Keys <- OneKey
  Fields = {"f"}
  Values = {"low"}
  Specs <- OneSpec
  ValidOverrides <- MCValidOverrides
  Uncomparable = {}
  InitialSpecs <- MCInitialSpecs
  InitialCMs = {}
  Limit <- MCLimit
  Absent = Absent
  NoKey = NoKey
  Foreign = {Foreign}
  NoHash = NoHash
  NoBody = NoBody
  MaxLag = 3
  MaxEdits = 2
  MaxCrashes = 1
INVARIANT ConfigMapAlwaysExists
CHECK_DEADLOCK FALSE
