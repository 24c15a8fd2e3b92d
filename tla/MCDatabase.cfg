\* Two cities to move areas between and to clash in; two replicas; pages of up
\* to three of five rows.
CONSTANTS
  Requests = {r1, r2}
  Cities = {c1, c2}
  Areas = {a1, a2}
  Names = {n1, n2}
  Nothing = nothing
  MaxId = 5
  MaxDeletes = 2
  MAX_LIMIT = 3
  Replicas = {p1, p2}
  RETRY_ATTEMPTS = 3
  MaxFaults = 1
  MaxReverts = 2
SPECIFICATION DatabaseSpec
SYMMETRY Symmetry
CHECK_DEADLOCK FALSE
INVARIANTS
  GenericErrorOnlyIfRaced
  DeletedStaysDeletedUnlessRaced
  WalkSeesEachRowOnce
  SchemaFollowsRecord
  GivesUpOnlyIfBroken
