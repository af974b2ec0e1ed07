\* The ncurses printer with --runs=3 and a user pressing any keys.
SPECIFICATION Spec
CONSTANTS
  Runs = 3
  Keys = {"help", "view", "esc", "fields", "setting", "q", "ctrlC"}
  AwaitTimesOut = TRUE
INVARIANTS TypeOK CollectLag NothingDropped PauseLatency MainWaitsForAll
PROPERTIES EveryRoundCollected RefreshServed EndsUnlessPaused ImplementsRounds
