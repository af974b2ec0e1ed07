\* The text printer with --runs=2.
SPECIFICATION Spec
CONSTANTS
  Runs = 2
  Keys = {}
  AwaitTimesOut = TRUE
INVARIANT RunsExact
