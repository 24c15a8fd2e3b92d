\* Two requests at a time, and a photo that replaces another.
CONSTANTS
  Requests = {r1, r2}
  Photos = {p1, p2}
  NoPhoto = none
  MaxCred = 2
SPECIFICATION Spec
SYMMETRY Symmetry
INVARIANTS
  StalePrincipalOnlyIfRaced
  NoLostUpdateUnlessRaced
  PhotoStoredUnlessRaced
  OldSessionsEndUnlessRaced
