\* The claim of the service comment about revokeAllForUser.
CONSTANTS
  Principals = {alice}
  Requests = {r1, r2}
  NoPrincipal = nobody
  TTL = 1
  MaxId = 3
  MaxNow = 1
SPECIFICATION Spec
SYMMETRY Symmetry
INVARIANT
  RevokeAllKillsEverySession
