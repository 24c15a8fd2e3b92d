\* Delays that differ, so that jitter matters, and a queue that fills up.
CONSTANTS
  MinDelay = 2
  MaxDelay = 4
  MaxQueueSize = 3
  MaxJobs = 7
SPECIFICATION FairSpec
INVARIANT NotStranded
PROPERTIES
  Spacing
  EveryMessageIsSent
  ImplementsOutbox
