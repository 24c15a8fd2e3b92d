\* Two handlers racing on the tokens of one principal; a token can expire and
\* be pruned while its successor is still valid.
CONSTANTS
  Principals = {alice}
  Requests = {r1, r2}
  NoPrincipal = nobody
  TTL = 2
  MaxId = 3
  MaxNow = 3
SPECIFICATION Spec
SYMMETRY Symmetry
INVARIANTS
  SingleSuccessor
  NoDanglingReplacement
  EndedSessionsStayEnded
  DeadlocksSpareRotations
PROPERTY ImplementsSessions
