\* A slow or silent QEMU, events, and both caches, over a few seconds.
SPECIFICATION Spec
CONSTANTS
  QmpTTL = 1
  StatusTTL = 2
  Timeout = 2
  MaxClock = 4
  MaxLines = 1
INVARIANTS AnswersOwn
PROPERTIES AnswersRecent CountersGrow LookupEnds
