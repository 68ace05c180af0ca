SPECIFICATION FairSpec
CONSTANTS
  Names = {n1, n2}
  Specs = {s1, s2}
  InitialCRs <- MCInitialCRs
  Absent = Absent
  Limit <- MCLimit
  MaxEdits = 2
  MaxCrashes = 1
  MaxFaults = 1
INVARIANT SettledMarked
INVARIANT NeverAhead
PROPERTY EventuallyMarked
CHECK_DEADLOCK FALSE
