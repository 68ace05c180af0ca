SPECIFICATION AdmissionSpec
CONSTANTS
  Keys <- MCKeys
  Fields <- MCFields
  Values <- MCValues
  Specs <- MCSpecs
  ValidOverrides <- MCValidOverrides
  Uncomparable = {}
  InitialSpecs <- HalfClash
  InitialCMs = {Foreign}
  Limit <- MCLimit
  crossNamespaceNamespaces = {2}
  Absent = Absent
  NoKey = NoKey
  Foreign = {Foreign}
  NoHash = NoHash
  NoBody = NoBody
  MaxEdits = 2
  MaxStatusErrors = 1
  MaxRelistCRs = 1
INVARIANT OutputSafe
INVARIANT StatusTruthful
INVARIANT ContributorsEntitled
INVARIANT CheckedNotRejected
CHECK_DEADLOCK FALSE
