\* Two guests with distinct names that start, stop and restart.
SPECIFICATION Spec
CONSTANTS
  VMs = {v1, v2}
  Pids = {1, 2, 3}
  NamedIn <- DistinctNames
INVARIANTS HandlesCover StaysCached OwnPid
PROPERTIES VanishedForgotten
