SPECIFICATION Spec
CONSTANTS
  Keys <- MCKeys
  Fields <- MCFields
  Values <- MCValues
  Specs <- Layers
  ValidOverrides <- MCValidOverrides
  Uncomparable <- MCUncomparable
  InitialSpecs <- OneCR
  InitialCMs = {Absent}
  Limit <- MCLimit
  Absent = Absent
  NoKey = NoKey
  Foreign = {Foreign}
  NoHash = NoHash
  NoBody = NoBody
  NoView = NoView
  MaxEdits = 2
  MaxTampers = 0
  MaxCrashes = 0
  MaxFaults = 0
  MaxStatusErrors = 0
  MaxRelistCRs = 1
  MaxRelistCMs = 0
INVARIANT SettledConverged
CHECK_DEADLOCK FALSE
