SPECIFICATION MCSpec
CONSTANTS
  Documents <- MCDocuments
  Groups <- MCGroups
  LeavesOf <- Leaves
  Merge <- DeepMerge
  Compare <- leafValuesEqual
  Hides <- HidesPath
  Managers <- MCManagers
  ourManager = "operator"
  shortName <- MCShortName
  EntryTimes = {1, 2}
  NoTime = NoTime
  MaxEntries = 4
INVARIANT MergeIsLayering
INVARIANT ConflictsExplainOutput
INVARIANT ReportIsOfGroup
INVARIANT MostRecentOtherBlamed
CHECK_DEADLOCK FALSE
