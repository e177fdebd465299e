\* Two proposals, two commands after them, one edit.
CONSTANTS
  Absent = Absent  Torn = Torn
  Policies <- MCPolicies
  Configs <- MCConfigs
  Runtimes <- MCRuntimes
  Drafts <- MCDrafts
  Starts <- MCStarts
  MaxNoise = 1
  MaxProposals = 2
  MaxCommands = 2
  MaxSmokes = 1
  MaxEdits = 1
  MaxKills = 1
SPECIFICATION FairSpec
INVARIANTS McpTypeOK RecordedAnswer CallWithinApproval
PROPERTIES BundleTruth CommandEnds
CHECK_DEADLOCK FALSE
