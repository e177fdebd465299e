\* From the governance bundle to the release gate, disturbed twice.
SPECIFICATION Spec
CONSTANTS
  Stage <- ProviderStage
  Chain <- ReleaseChain
  Carries <- Governed
  Contents <- RenderedTexts
  Unread <- Unopened
  Loose <- Uncompared
  Mixed <- TextsUncompared
  MaxFaults = 2
INVARIANT SameContent
CHECK_DEADLOCK FALSE
