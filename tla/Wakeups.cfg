SPECIFICATION Spec
CONSTANTS
  Keys <- MCKeys
  Fields <- MCFields
  Values <- MCValues
  Specs <- Layers
  ValidOverrides <- MCValidOverrides
  Uncomparable <- MCUncomparable
  InitialSpecs <- OneCR
  InitialCMs = {NoKey}
  Limit <- MCLimit
  Absent = Absent
  NoKey = NoKey
  Foreign = {Foreign}
  NoHash = NoHash
  NoBody = NoBody
  NoView = NoView
  MaxEdits = 2
  MaxTampers = 0
  MaxCrashes = 0
  MaxFaults = 0
  MaxStatusErrors = 0
  MaxRelistCRs = 0
  MaxRelistCMs = 0
PROPERTY ServesTheService
INVARIANT TypeOK
INVARIANT WakeupInv
INVARIANT SettledConverged
INVARIANT SettledObserved
CHECK_DEADLOCK FALSE
