SPECIFICATION Spec
CONSTANTS
    Tags = {"7", "2014"}
    TagOrder <- MCTagOrder
    ToolFiles = {"stage", "naming"}
    Tracked = {"stage"}
    Versions = {1, 2}
    ArchiveFirst = FALSE
    EditsDuringRun = FALSE
    Pinned = Pinned
    Absent = Absent
    Broken = Broken
    MaxUpsets = 3
INVARIANTS
    CurrentIsBuilt
