\* Two identities, so that one can be paired after the other, and two updates of
\* each, so that one can be pending behind another; no leftovers, to which no
\* progress is owed.
CONSTANTS
  Devices = {d1, d2}
  NoDevice = none
  MaxVersion = 2
  MaxDeletes = 1
  MaxAwaiting = 4
  MaxLeft = 0
  Callers = {c1}
SPECIFICATION FairSpec
PROPERTIES
  EveryQrCallerAnswered
  DroppedSessionComesBack
