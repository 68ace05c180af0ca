SPECIFICATION FairOperatorSpec
CONSTANTS
  Keys <- TwoKeys
  MimirKeys <- OneKey
  Fields = {"f"}
  Values <- MCValues
  Specs <- Streams
  MimirSpecs <- Low
  ValidOverrides <- MCValidOverrides
  Uncomparable <- MCUncomparable
  InitialSpecs <- MCInitialSpecs
  MimirInitialSpecs <- MCMimirInitialSpecs
  InitialCMs = {Absent, Foreign}
  Limit <- MCLimit
  Absent = Absent
  NoKey = NoKey
  Foreign = {Foreign}
  NoHash = NoHash
  NoBody = NoBody
  MaxCrashes = 2
INVARIANT BothServe
PROPERTY MimirConverges
PROPERTY LokiConverges
CHECK_DEADLOCK FALSE
