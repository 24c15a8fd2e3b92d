\* Calls of two files or keys, names that may collide; batches of two; links to
\* three keys with a clock that runs on; zones of either sign; two
\* seed cities and an id beyond them; two variables changed in an environment.
CONSTANTS
  Callers = {u1, u2}
  Names = {n1, n2}
  MaxBatch = 2
  MaxCalls = 3
  PublicKeys = {p1}
  PrivateKeys = {k1, k2}
  MaxLinks = 3
  Second = 2
  TTL = 2
  MaxNow = 4
  QUALITY = 80
  MIN_QUALITY = 50
  STEP = 5
  MaxOffset = 4
  MaxJump = 2
  Day = 6
  Span = 9
  Subscribers = {s1, s2}
  Malformed = {m}
  MULTICAST_BATCH_SIZE = 2
  MaxTokens = 5
  Reference = en
  Others = {ar}
  Namespaces = {common, auth}
  TextNames = {a}
  SeedCities = 2
  MaxCityId = 3
  MaxUserId = 1
  Numbers = {phone}
  MaxEdits = 2
SPECIFICATION PartsSpec
SYMMETRY Symmetry
CHECK_DEADLOCK FALSE
INVARIANTS
  AnswerNamesItsObjects
  DeletedIsGone
  LinksHonest
  PhotosHonest
  LocalTimesHonest
  
  FailuresPointAtTheirTokens
  AcceptedTextsServe
  ErrorsHonest
  SeedsHonest
