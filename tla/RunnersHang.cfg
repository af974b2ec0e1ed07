\* An overlay opened by the last print keeps discovery paused for ever.
SPECIFICATION Spec
CONSTANTS
  Runs = 1
  Keys = {"help", "fields"}
  AwaitTimesOut = TRUE
PROPERTY EndsAfterPrinter
