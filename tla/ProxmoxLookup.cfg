\* Two VMs, one with a configuration that comes and goes, restarts included.
SPECIFICATION Spec
CONSTANTS
  VMs = {v1, v2}
  Pids = {1, 2}
  Unstable = {v2}
  MaxPending = 1
INVARIANTS TypeOK MirrorsListing NeverFlickers
PROPERTIES HistoryKept RatesAppear VanishedForgotten
