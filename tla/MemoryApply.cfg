SPECIFICATION MemorySpec
CONSTANTS
    Paths <- MCPaths
    Pieces <- MCPieces
    Original <- MCOriginal
    Proposals <- MCProposals
    Policies <- MCPolicies
    MaxApprovals = 2
    MaxEdits = 1
    MaxFaults = 2
    MaxLength = 3
INVARIANTS
    MemoryTypeOK ApprovedOnly NeverLost RestoreUndoesApply ReportIsTrue
PROPERTY NoBlindOverwrite
CHECK_DEADLOCK FALSE
