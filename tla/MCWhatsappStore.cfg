\* Three identities: one stored, one on its way from a process that has ended, one
\* that starts afresh; two updates of each, so that one can be pending behind another.
CONSTANTS
  Devices = {d1, d2, d3}
  NoDevice = none
  MaxVersion = 2
  MaxDeletes = 1
  MaxAwaiting = 4
  MaxLeft = 1
  Callers = {c1}
SPECIFICATION Spec
SYMMETRY Symmetry
INVARIANTS
  NoOrphanWaiter
  LastUpdateOnItsWay
  WipedStayWiped
  SocketIsUpToDate
