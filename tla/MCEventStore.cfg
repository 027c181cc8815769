CONSTANTS
    Ids = {1, 2, 3, 4, 5}
    TS <- MCTS
    Key <- MCKey
    NoKey = NoKey
    NumColumns = {"gen_ms"}
    TextColumns = {"cwd", "repo"}
    LogColumns = {"duration_ms"}
    Devices = {dev, mirror}
    Sources = {"proxy", "codex", "claude-code"}
    Providers <- MCProviders
    Values = {0, 1, 2}
    Deployments = {"forks", "merge"}
    Traffic <- MCTraffic
    Legacy <- MCLegacy
    k = k
    dev = dev
    mirror = mirror
SPECIFICATION Spec
INVARIANTS GatesAreNoOps EarliestCopySurvives ReplayChangesNothing MutatedIffChanged StrongestEvidenceWins
PROPERTY RowsOnlyGain
