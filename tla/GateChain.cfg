\* The whole chain, from the retrieved chunks to the preimplementation gate.
SPECIFICATION FairSpec
CONSTANTS
  Stage <- ActivationStage
  Chain <- WholeChain
  Carries <- NoHashes
  Contents <- RenderedTexts
  Unread <- Unopened
  Loose <- Uncompared
  Mixed <- TextsUncompared
  MaxFaults = 1
INVARIANTS
  Coherent
  VouchesForReady
PROPERTIES
  Completes
CHECK_DEADLOCK FALSE
