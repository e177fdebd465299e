\* Two appends to one file, applied as one proposal.
SPECIFICATION MemorySpec
CONSTANTS
    Paths <- MCPaths
    Pieces <- MCPieces
    Original <- MCOriginal
    Proposals <- MCAppends
    Policies <- MCPolicies
    MaxApprovals = 2
    MaxEdits = 1
    MaxFaults = 2
    MaxLength = 3
INVARIANT SucceededAsApproved
CHECK_DEADLOCK FALSE
