SPECIFICATION MapSpec
CONSTANTS
  MaxRecords = 4
  Sections <- MCSections
  Valid = {10, 11, 12, 20, 30, 31}
  Executable = {12, 20, 30, 31}
  Analyst = {30}
  Files <- MCFiles
INVARIANTS ContributedAsMapped AnalystNamesFirst
PROPERTY RejectedLeavesNothing
