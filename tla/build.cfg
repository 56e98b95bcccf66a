SPECIFICATION Spec
CONSTANTS
    Tags = {"7", "2014"}
    TagOrder <- MCTagOrder
    ToolFiles = {"stage", "naming"}
    Tracked = {"stage", "naming"}
    Versions = {1, 2}
    ArchiveFirst = TRUE
    EditsDuringRun = FALSE
    Pinned = Pinned
    Absent = Absent
    Broken = Broken
    MaxUpsets = 3
INVARIANTS
    CurrentIsBuilt
    ReportIsTrue
PROPERTIES
    KeepsContract
    BuiltInTheEnd
