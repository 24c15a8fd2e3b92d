\* One request after another of a user who has only just appeared.
CONSTANTS
  Requests = {r1}
  Photos = {p1, p2}
  NoPhoto = none
  MaxCred = 2
SPECIFICATION Spec
INVARIANT UnfinishedProfilesBlocked
