SPECIFICATION Spec
CONSTANTS
  Keys <- OneKey
  Fields <- MCFields
  Values <- MCValues
  Specs <- Layers
  ValidOverrides <- MCValidOverrides
  Uncomparable <- MCUncomparable
  InitialSpecs <- OneCR
  InitialCMs = {Absent, Foreign}
  Limit <- MCLimit
  Absent = Absent
  NoKey = NoKey
  Foreign = {Foreign}
  NoHash = NoHash
  NoBody = NoBody
  NoView = NoView
  MaxEdits = 1
  MaxTampers = 1
  MaxCrashes = 0
  MaxFaults = 0
  MaxStatusErrors = 1
  MaxRelistCRs = 1
  MaxRelistCMs = 1
INVARIANT SettledConverged
CHECK_DEADLOCK FALSE
