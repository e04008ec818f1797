SPECIFICATION Spec
CONSTANTS
  Stages <- MCStages
  Mutating <- MCMutating
  Hooks <- MCHooks
  Artifacts <- MCArtifacts
  Mutations <- MCMutations
  Process = {p1, p2}
  Produced <- MCProduced
  MaxDeaths = 1
  MaxEdits = 1
  MaxCalls = 2
  MaxResolutions = 1
INVARIANTS TagFollowsExtensions TagCarriesPlannedBytes SequentialWalksRunOnce
SYMMETRY Symmetry
CHECK_DEADLOCK FALSE
