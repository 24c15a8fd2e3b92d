\* A wipe beside an upload or a start under way.
CONSTANTS
  Devices = {d1, d2}
  NoDevice = none
  MaxVersion = 2
  MaxDeletes = 1
  MaxAwaiting = 4
  MaxLeft = 0
  Callers = {c1}
SPECIFICATION Spec
INVARIANT WipedNeverReturn
