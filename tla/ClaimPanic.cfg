SPECIFICATION FairSpec
CONSTANTS
  Keys <- MCKeys
  Fields <- MCFields
  Values <- MCValues
  Specs <- Streams
  ValidOverrides <- MCValidOverrides
  Uncomparable <- MCUncomparable
  InitialSpecs <- NoCRs
  InitialCMs = {Absent}
  Limit <- MCLimit
  Absent = Absent
  NoKey = NoKey
  Foreign = {Foreign}
  NoHash = NoHash
  NoBody = NoBody
  NoView = NoView
  MaxEdits = 2
  MaxTampers = 0
  MaxCrashes = 0
  MaxFaults = 0
  MaxStatusErrors = 0
  MaxRelistCRs = 0
  MaxRelistCMs = 0
PROPERTY Convergence
CHECK_DEADLOCK FALSE
