\* A deactivation beside another mutation of the user.
CONSTANTS
  Requests = {r1, r2}
  Photos = {p1, p2}
  NoPhoto = none
  MaxCred = 2
SPECIFICATION Spec
PROPERTY DeactivationSticks
