SPECIFICATION FairSpec
CONSTANTS
  Keys <- MCKeys
  Fields <- MCFields
  Values <- MCValues
  Specs <- Layers
  ValidOverrides <- MCValidOverrides
  Uncomparable <- MCUncomparable
  InitialSpecs <- OneCR
  InitialCMs = {Absent}
  Limit <- MCLimit
  Absent = Absent
  NoKey = NoKey
  Foreign = {Foreign}
  NoHash = NoHash
  NoBody = NoBody
  NoView = NoView
  MaxEdits = 1
  MaxTampers = 0
  MaxCrashes = 1
  MaxFaults = 1
  MaxStatusErrors = 0
  MaxRelistCRs = 0
  MaxRelistCMs = 0
PROPERTY ServesTheService
PROPERTY Convergence
INVARIANT FirstEditInStatus
CHECK_DEADLOCK FALSE
