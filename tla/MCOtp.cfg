\* Two handlers, three codes, a lock window longer than the issue window.
CONSTANTS
  Requests = {r1, r2}
  TTL = 1
  Cooldown = 1
  MaxAttempts = 1
  LockWindow = 2
  MaxFailures = 2
  IssueWindow = 1
  MaxIssues = 1
  MaxId = 3
  MaxNow = 3
SPECIFICATION Spec
SYMMETRY Symmetry
INVARIANTS
  AttemptsBounded
  FailuresBounded
  IssuesBounded
  OneCodeUnlessConcurrent
  SingleUseUnlessRaced
PROPERTY
  PruneKeepsCounts
