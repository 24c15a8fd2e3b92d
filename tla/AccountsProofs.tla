--------------------------- MODULE AccountsProofs ---------------------------
(***************************************************************************)
(* Proofs that the properties of Accounts hold for any number of concurrent *)
(* requests, photos and passwords.                                         *)
(*                                                                         *)
(* Every property excepts a race, and `late` tells who takes part in one.   *)
(* So the invariant says what a copy of the row is worth while its holder   *)
(* is not late, and that the photo a request uploaded is nobody else's.     *)
(***************************************************************************)
EXTENDS Accounts, TLAPS

\* A request that changes the row it loaded: what it holds is that row.
Loaded == {"upload", "deleteOld", "save"}
GoodCopy(q) ==
  /\ q.pc \in Loaded => q.held \in Row /\ (q.late \/ q.held = row)
  /\ q.pc = "fill" => q.held \in Principals /\ (q.late \/ q.held = Principal(row))
  /\ q.pc = "issue" => q.held \in Row
  /\ q.pc \in {"upload", "deleteOld"} => q.op = "uploadPhoto"
CopiesGood == \A r \in Requests : GoodCopy(req[r])

\* A photo about to become that of the row: stored, and named nowhere else.
HasPhoto(r) == req[r].op = "uploadPhoto" /\ req[r].pc \in {"deleteOld", "save"}
KeysOwn ==
  \A r \in Requests : HasPhoto(r) =>
    /\ req[r].key \in objects
    /\ req[r].key \notin {row.photo, cache.photo}
    /\ \A s \in Requests : req[r].key # req[s].held.photo
    /\ \A s \in Requests \ {r} : req[r].key # req[s].key

\* Nothing comes before the account.
NothingBefore ==
  row = NoRow => cache = NoRow /\ sessions = {} /\ \A r \in Requests : req[r].held = NoRow

IInv ==
  /\ TypeOK
  /\ CopiesGood
  /\ KeysOwn
  /\ NothingBefore
  /\ StalePrincipalOnlyIfRaced
  /\ NoLostUpdateUnlessRaced
  /\ PhotoStoredUnlessRaced
  /\ OldSessionsEndUnlessRaced

-----------------------------------------------------------------------------
(* Rows and principals.                                                    *)

LEMMA RowsAndPrincipals ==
  /\ NoRow \notin Row /\ NoRow \notin Principals /\ NoRow.photo = NoPhoto
  /\ \A copy \in Row : Principal(copy) \in Principals /\ Principal(copy).photo = copy.photo
  /\ \A copy \in Row \union Principals \union {NoRow} : copy.photo \in Photos \union {NoPhoto}
<1>1. NoRow \notin Row
  <2> SUFFICES ASSUME NoRow \in Row PROVE FALSE
    OBVIOUS
  <2>1. NoRow.cred \in 1..MaxCred /\ NoRow.cred = MaxCred + 1
    BY DEF Row, NoRow
  <2> QED
    BY <2>1, AccountsAssumption
<1>2. NoRow \notin Principals
  <2> SUFFICES ASSUME NoRow \in Principals PROVE FALSE
    OBVIOUS
  <2>1. NoRow.cred = 0 /\ NoRow.cred = MaxCred + 1
    BY DEF Principals, NoRow
  <2> QED
    BY <2>1, AccountsAssumption
<1>3. ASSUME NEW copy \in Row
      PROVE  Principal(copy) \in Principals /\ Principal(copy).photo = copy.photo
  BY DEF Row, Principals, Principal
<1>4. NoRow.photo = NoPhoto
  BY DEF NoRow
<1>5. \A copy \in Row \union Principals : copy.photo \in Photos \union {NoPhoto}
  BY DEF Row, Principals
<1> QED
  BY <1>1, <1>2, <1>3, <1>4, <1>5

\* A request that goes on with a copy of what it read.
LEMMA Holding ==
  ASSUME req \in [Requests -> Request], NEW r \in Requests,
         NEW copy \in Row \union Principals \union {NoRow},
         NEW pc \in {"fill", "upload", "save", "issue", "check"}, NEW flag \in BOOLEAN,
         \/ req' = [req EXCEPT ![r].pc = pc, ![r].held = copy, ![r].late = flag]
         \/ req' = [req EXCEPT ![r].pc = pc, ![r].held = copy, ![r].hit = flag]
  PROVE  /\ req' \in [Requests -> Request] /\ \A s \in Requests \ {r} : req'[s] = req[s]
         /\ req'[r].pc = pc /\ req'[r].held = copy /\ req'[r].key = req[r].key
         /\ req'[r].op = req[r].op
<1>1. PICK f : f = [req EXCEPT ![r].pc = pc]
  OBVIOUS
<1>2. PICK g : g = [f EXCEPT ![r].held = copy]
  OBVIOUS
<1>3. req' = [g EXCEPT ![r].late = flag] \/ req' = [g EXCEPT ![r].hit = flag]
  BY <1>1, <1>2
<1>4. f \in [Requests -> Request] /\ (\A s \in Requests \ {r} : f[s] = req[s])
      /\ f[r].pc = pc /\ f[r].key = req[r].key /\ f[r].op = req[r].op
  BY <1>1 DEF Request
<1>5. g \in [Requests -> Request] /\ (\A s \in Requests \ {r} : g[s] = req[s])
      /\ g[r].pc = pc /\ g[r].held = copy /\ g[r].key = req[r].key /\ g[r].op = req[r].op
  BY <1>2, <1>4 DEF Request
<1>6. CASE req' = [g EXCEPT ![r].late = flag]
  BY <1>5, <1>6 DEF Request
<1>7. CASE req' = [g EXCEPT ![r].hit = flag]
  BY <1>5, <1>7 DEF Request
<1> QED
  BY <1>3, <1>6, <1>7

\* A step of one request that leaves the row alone.
LEMMA OneRequestKeeps ==
  ASSUME IInv, NEW r \in Requests,
         req' \in [Requests -> Request], \A s \in Requests \ {r} : req'[s] = req[s],
         GoodCopy(req'[r]),
         req'[r].held.photo \in {NoPhoto, row.photo, cache.photo, req[r].held.photo},
         req'[r].key \in {NoPhoto, req[r].key}, HasPhoto(r)' => HasPhoto(r) /\ req'[r].key = req[r].key,
         row' = row, cache'.photo \in {NoPhoto, cache.photo, req[r].held.photo},
         \A t \in Requests : HasPhoto(t) => req[t].key \in objects'
  PROVE  CopiesGood' /\ KeysOwn'
<1>1. CopiesGood'
  <2>1. \A s \in Requests : GoodCopy(req'[s])
    BY DEF IInv, CopiesGood
  <2> QED
    BY <2>1 DEF CopiesGood, GoodCopy
<1>2. KeysOwn'
  <2> SUFFICES ASSUME NEW t \in Requests, HasPhoto(t)'
               PROVE  /\ req'[t].key \in objects'
                      /\ req'[t].key \notin {row'.photo, cache'.photo}
                      /\ \A s \in Requests : req'[t].key # req'[s].held.photo
                      /\ \A s \in Requests \ {t} : req'[t].key # req'[s].key
    BY DEF KeysOwn
  <2>1. HasPhoto(t) /\ req'[t].key = req[t].key
    BY DEF HasPhoto
  <2>2. req[t].key # NoPhoto
    BY <2>1, AccountsAssumption DEF IInv, KeysOwn, TypeOK
  <2> QED
    BY <2>1, <2>2 DEF IInv, KeysOwn
<1> QED
  BY <1>1, <1>2

\* A step of one request that touches nothing else.
LEMMA OneRequest ==
  ASSUME IInv, NEW r \in Requests,
         req' \in [Requests -> Request], \A s \in Requests \ {r} : req'[s] = req[s],
         GoodCopy(req'[r]), row = NoRow => req'[r].held = NoRow,
         req'[r].held.photo \in {NoPhoto, row.photo, cache.photo, req[r].held.photo},
         req'[r].key \in {NoPhoto, req[r].key},
         ~(req'[r].op = "uploadPhoto" /\ req'[r].pc \in {"deleteOld", "save"}),
         req[r].pc \notin {"revoke", "invalidate"},
         ~(req[r].op = "uploadPhoto" /\ req[r].pc = "save"),
         UNCHANGED <<dbVars, history>>
  PROVE  IInv'
<1> USE DEF dbVars, history
<1>1. TypeOK'
  BY DEF IInv, TypeOK
<1>2. CopiesGood' /\ KeysOwn'
  BY OneRequestKeeps DEF HasPhoto, IInv, KeysOwn
<1>3. NothingBefore'
  BY DEF IInv, NothingBefore
<1>4. StalePrincipalOnlyIfRaced'
  BY DEF IInv, StalePrincipalOnlyIfRaced
<1>5. NoLostUpdateUnlessRaced'
  BY DEF IInv, NoLostUpdateUnlessRaced
<1>6. PhotoStoredUnlessRaced'
  BY DEF IInv, PhotoStoredUnlessRaced, At
<1>7. OldSessionsEndUnlessRaced'
  BY DEF IInv, OldSessionsEndUnlessRaced, At
<1> QED
  BY <1>1, <1>2, <1>3, <1>4, <1>5, <1>6, <1>7 DEF IInv

\* What a request is between two steps.
LEMMA RequestFacts ==
  ASSUME IInv, NEW r \in Requests
  PROVE  /\ req \in [Requests -> Request]
         /\ req[r] \in Request /\ req[r].held \in Row \union Principals \union {NoRow}
         /\ req[r].held.photo \in Photos \union {NoPhoto} /\ req[r].key \in Photos \union {NoPhoto}
         /\ req[r].late \in BOOLEAN
         /\ GoodCopy(req[r]) /\ (row = NoRow => req[r].held = NoRow)
         /\ Idle \in Request /\ row \in Row \union {NoRow} /\ row = intended
  <1>1. req \in [Requests -> Request] /\ req[r] \in Request /\ GoodCopy(req[r]) /\ (row = NoRow => req[r].held = NoRow)
        /\ row \in Row \union {NoRow} /\ row = intended
    BY DEF IInv, TypeOK, CopiesGood, NothingBefore, NoLostUpdateUnlessRaced
  <1>2. req[r].held \in Row \union Principals \union {NoRow}
        /\ req[r].key \in Photos \union {NoPhoto} /\ req[r].late \in BOOLEAN
    BY <1>1 DEF Request
  <1>3. Idle \in Request
    BY DEF Idle, Request
  <1> QED
    BY <1>1, <1>2, <1>3, RowsAndPrincipals

LEMMA AnswerStep ==
  ASSUME IInv, NEW r \in Requests, Answer(r),
         req[r].pc \notin {"revoke", "invalidate"},
         ~(req[r].op = "uploadPhoto" /\ req[r].pc = "save"),
         UNCHANGED <<dbVars, history>>
  PROVE  IInv'
<1>1. Idle.pc = "idle" /\ Idle.op = "none" /\ Idle.held = NoRow /\ Idle.key = NoPhoto
  BY DEF Idle
<1> QED
  BY <1>1, RequestFacts, RowsAndPrincipals, OneRequest DEF Answer, GoodCopy, Loaded

LEMMA GuardStep ==
  ASSUME IInv, NEW r \in Requests,
         StartAdminMutation(r) \/ CacheGet(r) \/ Resolve(r) \/ Admit(r) \/ Serve(r)
  PROVE  IInv'
<1> USE DEF At, Go, Answer, Hold
<1>1. CASE StartAdminMutation(r)
  <2>1. PICK op \in {"activate", "deactivate"} :
               req' = [req EXCEPT ![r].op = op, ![r].pc = "load"]
    BY <1>1 DEF StartAdminMutation
  <2> QED
    BY <1>1, <2>1, RequestFacts, OneRequest
       DEF StartAdminMutation, GoodCopy, Loaded, Request, Unguarded
<1>2. CASE CacheGet(r)
  <2>1. req[r].pc = "idle" /\ UNCHANGED <<dbVars, history>>
    BY <1>2 DEF CacheGet
  <2>2. CASE cache # NoRow
    <3>1. req' = [req EXCEPT ![r].pc = "check", ![r].held = cache, ![r].hit = TRUE]
      BY <1>2, <2>2 DEF CacheGet
    <3>2. cache \in Row \union Principals \union {NoRow} /\ (row = NoRow => cache = NoRow)
      BY DEF IInv, TypeOK, NothingBefore
    <3>3. /\ req' \in [Requests -> Request] /\ \A s \in Requests \ {r} : req'[s] = req[s]
          /\ req'[r].pc = "check" /\ req'[r].held = cache /\ req'[r].key = req[r].key
      BY <3>1, <3>2, RequestFacts, Holding
    <3> QED
      BY <2>1, <3>2, <3>3, RequestFacts, OneRequest DEF GoodCopy, Loaded
  <2>3. CASE cache = NoRow
    <3>1. req' = [req EXCEPT ![r].pc = "resolve"]
      BY <1>2, <2>3 DEF CacheGet
    <3> QED
      BY <2>1, <3>1, RequestFacts, OneRequest DEF GoodCopy, Loaded, Request
  <2> QED
    BY <2>2, <2>3
<1>3. CASE Resolve(r)
  <2>1. req[r].pc = "resolve" /\ UNCHANGED <<dbVars, history>>
    BY <1>3 DEF Resolve
  <2>2. CASE row = NoRow
    BY <1>3, <2>1, <2>2, AnswerStep DEF Resolve
  <2>3. CASE row # NoRow
    <3>1. PICK copy : copy = Principal(row)
      OBVIOUS
    <3>2. copy \in Principals /\ copy.photo = row.photo
      BY <2>3, <3>1, RowsAndPrincipals, RequestFacts
    <3>3. req' = [req EXCEPT ![r].pc = "fill", ![r].held = copy, ![r].late = FALSE]
      BY <1>3, <2>3, <3>1 DEF Resolve
    <3>4. /\ req' \in [Requests -> Request] /\ \A s \in Requests \ {r} : req'[s] = req[s]
          /\ req'[r].pc = "fill" /\ req'[r].held = copy /\ req'[r].key = req[r].key
      BY <3>2, <3>3, RequestFacts, Holding
    <3> QED
      BY <2>1, <2>3, <3>1, <3>2, <3>4, RequestFacts, OneRequest DEF GoodCopy, Loaded
  <2> QED
    BY <2>2, <2>3
<1>4. CASE Admit(r)
  <2>1. req[r].pc = "check" /\ UNCHANGED <<dbVars, history>>
    BY <1>4 DEF Admit
  <2>2. \/ Answer(r)
        \/ \E op \in Guarded(role) : req' = [req EXCEPT ![r] = [Idle EXCEPT !.op = op,
                                                                          !.pc = "load"]]
        \/ req' = [req EXCEPT ![r].pc = "served"]
    BY <1>4 DEF Admit
  <2>3. CASE Answer(r)
    BY <2>1, <2>3, AnswerStep
  <2>4. ASSUME NEW op \in Guarded(role),
               req' = [req EXCEPT ![r] = [Idle EXCEPT !.op = op, !.pc = "load"]]
        PROVE  IInv'
    <3>1. PICK q : q = [Idle EXCEPT !.op = op, !.pc = "load"]
      OBVIOUS
    <3>2. op \in Guarded("user") \union Guarded("admin")
      BY DEF IInv, TypeOK
    <3>3. q \in Request /\ q.pc = "load" /\ q.held = NoRow /\ q.key = NoPhoto
      BY <3>1, <3>2, RequestFacts DEF Request, Idle
    <3> QED
      BY <2>1, <2>4, <3>1, <3>3, RowsAndPrincipals, RequestFacts, OneRequest DEF GoodCopy, Loaded
  <2>5. CASE req' = [req EXCEPT ![r].pc = "served"]
    BY <2>1, <2>5, RequestFacts, OneRequest DEF GoodCopy, Loaded, Request
  <2> QED
    BY <2>2, <2>3, <2>4, <2>5
<1>5. CASE Serve(r)
  BY <1>5, AnswerStep DEF Serve
<1> QED
  BY <1>1, <1>2, <1>3, <1>4, <1>5

LEMMA LoginStep ==
  ASSUME IInv, NEW r \in Requests, NEW op \in {"login", "create"}, Find(r, op)
  PROVE  IInv'
<1>1. req' = [req EXCEPT ![r].op = op,
                         ![r].pc = IF row = NoRow THEN "insert" ELSE "issue",
                         ![r].held = row]
      /\ req[r].pc = "idle" /\ UNCHANGED <<dbVars, history>>
  BY DEF Find, At
<1> QED
  BY <1>1, RequestFacts, OneRequest DEF GoodCopy, Loaded, Request, Unguarded

LEMMA LoadStep ==
  ASSUME IInv, NEW r \in Requests, Load(r)
  PROVE  IInv'
<1>1. req[r].pc = "load" /\ UNCHANGED <<dbVars, history>>
  BY DEF Load, At
<1>2. CASE Answer(r)
  BY <1>1, <1>2, AnswerStep
<1>3. CASE ~Answer(r)
  <2>1. PICK pc \in {"upload", "save"} :
          /\ req' = [req EXCEPT ![r].pc = pc, ![r].held = row, ![r].late = FALSE]
          /\ pc = "upload" <=> req[r].op = "uploadPhoto"
    BY <1>3 DEF Load, Hold
  <2>2. row # NoRow
    BY <1>3 DEF Load
  <2>3. /\ req' \in [Requests -> Request] /\ \A s \in Requests \ {r} : req'[s] = req[s]
        /\ req'[r].pc = pc /\ req'[r].held = row /\ req'[r].key = req[r].key
        /\ req'[r].op = req[r].op
    BY <2>1, RequestFacts, Holding
  <2> QED
    BY <1>1, <2>1, <2>2, <2>3, RequestFacts, OneRequest DEF GoodCopy, Loaded
<1> QED
  BY <1>2, <1>3

-----------------------------------------------------------------------------
(* Steps on the cache and the sessions.                                    *)

LEMMA CacheStep ==
  ASSUME IInv, CacheExpires \/ \E r \in Requests : CacheSet(r)
  PROVE  IInv'
<1>1. CASE CacheExpires
  <2>1. cache' = NoRow /\ UNCHANGED <<role, row, objects, sessions, req, intended, photoLost,
                                      leaked>> /\ tainted' = FALSE
    BY <1>1 DEF CacheExpires
  <2>2. TypeOK'
    BY <2>1 DEF IInv, TypeOK
  <2>3. CopiesGood'
    BY <2>1 DEF IInv, CopiesGood, GoodCopy
  <2>4. KeysOwn'
    BY <2>1, RowsAndPrincipals, AccountsAssumption DEF IInv, TypeOK, KeysOwn, HasPhoto
  <2>5. NothingBefore' /\ StalePrincipalOnlyIfRaced' /\ NoLostUpdateUnlessRaced'
    BY <2>1 DEF IInv, NothingBefore, StalePrincipalOnlyIfRaced, NoLostUpdateUnlessRaced
  <2>6. PhotoStoredUnlessRaced' /\ OldSessionsEndUnlessRaced'
    BY <2>1 DEF IInv, PhotoStoredUnlessRaced, OldSessionsEndUnlessRaced, At
  <2> QED
    BY <2>2, <2>3, <2>4, <2>5, <2>6 DEF IInv
<1>2. ASSUME NEW r \in Requests, CacheSet(r) PROVE IInv'
  <2>1. /\ req[r].pc = "fill" /\ cache' = req[r].held /\ tainted' = req[r].late
        /\ req' = [req EXCEPT ![r].pc = "check", ![r].late = FALSE]
        /\ UNCHANGED <<role, row, objects, sessions, intended, photoLost, leaked>>
    BY <1>2 DEF CacheSet, At
  <2>2. req[r].held \in Principals /\ (req[r].late \/ req[r].held = Principal(row))
    BY <2>1, RequestFacts DEF GoodCopy
  <2>3. /\ req' \in [Requests -> Request] /\ \A s \in Requests \ {r} : req'[s] = req[s]
        /\ req'[r].pc = "check" /\ req'[r].held = req[r].held /\ req'[r].key = req[r].key
    <3>1. PICK f : f = [req EXCEPT ![r].pc = "check"]
      OBVIOUS
    <3>2. /\ f \in [Requests -> Request] /\ \A s \in Requests \ {r} : f[s] = req[s]
          /\ f[r].pc = "check" /\ f[r].held = req[r].held /\ f[r].key = req[r].key
      BY <3>1, RequestFacts DEF Request
    <3>3. PICK flag \in BOOLEAN : req' = [f EXCEPT ![r].late = flag]
      BY <2>1, <3>1
    <3> QED
      BY <3>2, <3>3 DEF Request
  <2>4. TypeOK'
    BY <2>1, <2>2, <2>3, RequestFacts DEF IInv, TypeOK
  <2>5. CopiesGood' /\ KeysOwn'
    BY <2>1, <2>3, OneRequestKeeps DEF GoodCopy, Loaded, HasPhoto, IInv, KeysOwn
  <2>6. NothingBefore' /\ NoLostUpdateUnlessRaced'
    BY <2>1, <2>3 DEF IInv, NothingBefore, NoLostUpdateUnlessRaced
  <2>7. StalePrincipalOnlyIfRaced'
    BY <2>1, <2>2 DEF StalePrincipalOnlyIfRaced
  <2>8. PhotoStoredUnlessRaced' /\ OldSessionsEndUnlessRaced'
    BY <2>1, <2>3 DEF IInv, PhotoStoredUnlessRaced, OldSessionsEndUnlessRaced, At
  <2> QED
    BY <2>4, <2>5, <2>6, <2>7, <2>8 DEF IInv
<1> QED
  BY <1>1, <1>2

\* A step after which the request is over, or has only the cache to remove.
LEMMA EndingStep ==
  ASSUME IInv, NEW r \in Requests,
         Issue(r) \/ Revoke(r) \/ Invalidate(r) \/ Abort(r)
  PROVE  IInv'
<1>1. /\ \A s \in Requests \ {r} : req'[s] = req[s]
      /\ req' \in [Requests -> Request]
      /\ \/ req'[r] = Idle
         \/ Revoke(r) /\ req'[r].pc = "invalidate" /\ req'[r].held = req[r].held
              /\ req'[r].key = req[r].key
  BY RequestFacts DEF Issue, Revoke, Invalidate, Abort, Answer, Go, Request
<1>2. /\ Idle.pc = "idle" /\ Idle.op = "none" /\ Idle.held = NoRow /\ Idle.key = NoPhoto
  BY DEF Idle
<1>3. row' = row /\ intended' = intended /\ objects' = objects /\ role' = role
      /\ cache' \in {cache, NoRow}
  BY DEF Issue, Revoke, Invalidate, Abort, dbVars
<1>4. CopiesGood' /\ KeysOwn'
  BY <1>1, <1>2, <1>3, RowsAndPrincipals, OneRequestKeeps DEF GoodCopy, Loaded, HasPhoto, IInv, KeysOwn
<1>5. NoLostUpdateUnlessRaced'
  BY <1>3 DEF IInv, NoLostUpdateUnlessRaced
<1>6. TypeOK' /\ NothingBefore'
  <2>1. CASE Issue(r)
    <3>1. req[r].pc = "issue" /\ req[r].held \in Row /\ row # NoRow
      BY <2>1, RequestFacts, RowsAndPrincipals DEF Issue, At, GoodCopy
    <3>2. req[r].held.cred \in 1..MaxCred
      BY <3>1 DEF Row
    <3> QED
      BY <1>1, <1>3, <2>1, <3>1, <3>2 DEF Issue, IInv, TypeOK, NothingBefore
  <2>2. CASE Revoke(r) \/ Invalidate(r) \/ Abort(r)
    BY <1>1, <1>2, <1>3, <2>2 DEF Revoke, Invalidate, Abort, dbVars, IInv, TypeOK, NothingBefore
  <2> QED
    BY <2>1, <2>2
<1>7. StalePrincipalOnlyIfRaced'
  <2>1. CASE Revoke(r)
    BY <1>1, <1>2, <2>1 DEF StalePrincipalOnlyIfRaced, Revoke, Go, At
  <2>2. CASE Invalidate(r)
    BY <2>2 DEF StalePrincipalOnlyIfRaced, Invalidate
  <2>3. CASE Issue(r) \/ Abort(r)
    BY <1>1, <2>3 DEF IInv, StalePrincipalOnlyIfRaced, Issue, Abort, At, dbVars
  <2> QED
    BY <2>1, <2>2, <2>3
<1>8. PhotoStoredUnlessRaced'
  <2>1. CASE Abort(r)
    BY <1>1, <1>3, <2>1 DEF IInv, PhotoStoredUnlessRaced, Abort, At
  <2>2. CASE Issue(r) \/ Revoke(r) \/ Invalidate(r)
    BY <1>1, <1>3, <2>2 DEF IInv, PhotoStoredUnlessRaced, Issue, Revoke, Invalidate, At
  <2> QED
    BY <2>1, <2>2
<1>9. OldSessionsEndUnlessRaced'
  <2>1. CASE Revoke(r)
    BY <2>1 DEF OldSessionsEndUnlessRaced, Revoke
  <2>2. CASE Issue(r)
    BY <1>1, <1>3, <2>2 DEF IInv, OldSessionsEndUnlessRaced, Issue, At
  <2>3. CASE Abort(r) \/ Invalidate(r)
    BY <1>1, <1>3, <2>3 DEF IInv, OldSessionsEndUnlessRaced, Abort, Invalidate, At, dbVars
  <2> QED
    BY <2>1, <2>2, <2>3
<1> QED
  BY <1>4, <1>5, <1>6, <1>7, <1>8, <1>9 DEF IInv

-----------------------------------------------------------------------------
(* Steps on the photos and the row.                                        *)

LEMMA PhotoStep ==
  ASSUME IInv, NEW r \in Requests, Upload(r) \/ DeleteOld(r)
  PROVE  IInv'
<1>1. /\ UNCHANGED <<role, row, cache, sessions, history>>
      /\ req[r].pc \in {"upload", "deleteOld"} /\ req[r].op = "uploadPhoto"
      /\ req[r].held \in Row
  BY RequestFacts DEF Upload, DeleteOld, At, GoodCopy, Loaded
<1>2. CASE DeleteOld(r)
  <2>1. /\ req' \in [Requests -> Request] /\ \A s \in Requests \ {r} : req'[s] = req[s]
        /\ req'[r].pc = "save" /\ req'[r].held = req[r].held /\ req'[r].key = req[r].key
        /\ req'[r].late = req[r].late /\ req'[r].op = req[r].op
    BY <1>2, RequestFacts DEF DeleteOld, Go, Request
  <2>2. objects' \in {objects, objects \ {req[r].held.photo}} /\ req[r].pc = "deleteOld"
    BY <1>2 DEF DeleteOld, At
  <2>3. \A t \in Requests : HasPhoto(t) => req[t].key \in objects'
    BY <2>2 DEF IInv, KeysOwn
  <2>4. CopiesGood' /\ KeysOwn'
    BY <1>1, <2>1, <2>2, <2>3, RequestFacts, OneRequestKeeps DEF GoodCopy, Loaded, HasPhoto
  <2>5. PhotoStoredUnlessRaced'
    BY <1>1, <2>1 DEF PhotoStoredUnlessRaced, At
  <2>6. TypeOK'
    BY <1>1, <2>1, <2>2 DEF IInv, TypeOK, history
  <2>7. NothingBefore' /\ StalePrincipalOnlyIfRaced'
    BY <1>1, <2>1, <2>2 DEF IInv, NothingBefore, StalePrincipalOnlyIfRaced, history
  <2>8. NoLostUpdateUnlessRaced' /\ OldSessionsEndUnlessRaced'
    BY <1>1, <2>1, <2>2 DEF IInv, NoLostUpdateUnlessRaced, OldSessionsEndUnlessRaced, history, At
  <2> QED
    BY <2>4, <2>5, <2>6, <2>7, <2>8 DEF IInv
<1>3. CASE Upload(r)
  <2>1. PICK k \in Photos \ KeysInUse :
          /\ objects' = objects \union {k}
          /\ req' = [req EXCEPT ![r].key = k,
                                ![r].pc = IF req[r].held.photo = NoPhoto
                                            THEN "save" ELSE "deleteOld"]
    BY <1>3 DEF Upload
  <2>2. /\ req' \in [Requests -> Request] /\ \A s \in Requests \ {r} : req'[s] = req[s]
        /\ req'[r].pc \in {"save", "deleteOld"} /\ req'[r].held = req[r].held
        /\ req'[r].key = k /\ req'[r].late = req[r].late /\ req'[r].op = req[r].op
    <3>1. PICK f : f = [req EXCEPT ![r].key = k]
      OBVIOUS
    <3>2. /\ f \in [Requests -> Request] /\ \A s \in Requests \ {r} : f[s] = req[s]
          /\ f[r].held = req[r].held /\ f[r].key = k /\ f[r].late = req[r].late
          /\ f[r].op = req[r].op
      BY <3>1, RequestFacts DEF Request
    <3>3. PICK pc \in {"save", "deleteOld"} : req' = [f EXCEPT ![r].pc = pc]
      BY <2>1, <3>1
    <3> QED
      BY <3>2, <3>3 DEF Request
  <2>3. /\ k \notin objects /\ k \notin {row.photo, cache.photo}
        /\ \A s \in Requests : k # req[s].held.photo /\ k # req[s].key
    BY <2>1 DEF KeysInUse
  <2>4. CopiesGood'
    <3>1. \A s \in Requests : GoodCopy(req'[s])
      BY <1>1, <2>2, RequestFacts DEF IInv, CopiesGood, GoodCopy, Loaded
    <3> QED
      BY <1>1, <3>1 DEF CopiesGood, GoodCopy
  <2>5. KeysOwn'
    <3> SUFFICES ASSUME NEW t \in Requests, HasPhoto(t)'
                 PROVE  /\ req'[t].key \in objects'
                        /\ req'[t].key \notin {row'.photo, cache'.photo}
                        /\ \A s \in Requests : req'[t].key # req'[s].held.photo
                        /\ \A s \in Requests \ {t} : req'[t].key # req'[s].key
      BY DEF KeysOwn
    <3>1. CASE t = r
      BY <1>1, <2>1, <2>2, <2>3, <3>1
    <3>2. CASE t # r
      <4>1. HasPhoto(t)
        BY <2>2, <3>2 DEF HasPhoto
      <4> QED
        BY <1>1, <2>1, <2>2, <2>3, <3>2, <4>1 DEF IInv, KeysOwn, HasPhoto
    <3> QED
      BY <3>1, <3>2
  <2>6. PhotoStoredUnlessRaced'
    BY <1>1, <2>1, <2>2 DEF IInv, PhotoStoredUnlessRaced, At, history
  <2>7. TypeOK'
    BY <1>1, <2>1, <2>2 DEF IInv, TypeOK, history
  <2>8. NothingBefore' /\ StalePrincipalOnlyIfRaced'
    BY <1>1, <2>1, <2>2 DEF IInv, NothingBefore, StalePrincipalOnlyIfRaced, history
  <2>9. NoLostUpdateUnlessRaced' /\ OldSessionsEndUnlessRaced'
    BY <1>1, <2>1, <2>2 DEF IInv, NoLostUpdateUnlessRaced, OldSessionsEndUnlessRaced, history, At
  <2> QED
    BY <2>4, <2>5, <2>6, <2>7, <2>8, <2>9 DEF IInv
<1> QED
  BY <1>2, <1>3

\* The first row of the account.
LEMMA InsertStep ==
  ASSUME IInv, NEW r \in Requests, Insert(r)
  PROVE  IInv'
<1>1. CASE row # NoRow
  BY <1>1, AnswerStep DEF Insert, At, dbVars, history
<1>2. CASE row = NoRow
  <2>1. /\ req[r].pc = "insert" /\ row' = FreshUser(req[r].op = "create") /\ intended' = row'
        /\ IF req[r].op = "create" THEN Answer(r) ELSE Hold(r, row', "issue")
        /\ UNCHANGED <<role, cache, objects, sessions, tainted, photoLost, leaked>>
    BY <1>2 DEF Insert, At
  <2>2. row' \in Row /\ row'.photo = NoPhoto /\ row' # NoRow
    <3>1. 1 \in 1..MaxCred
      BY AccountsAssumption
    <3>2. row' \in Row /\ row'.photo = NoPhoto
      BY <2>1, <3>1 DEF FreshUser, Row
    <3> QED
      BY <3>2, RowsAndPrincipals
  <2>3. /\ req' \in [Requests -> Request] /\ \A s \in Requests \ {r} : req'[s] = req[s]
        /\ req'[r] = Idle \/ (req'[r].pc = "issue" /\ req'[r].held = row')
    <3>1. CASE Answer(r)
      BY <3>1, RequestFacts DEF Answer
    <3>2. CASE Hold(r, row', "issue")
      <4>1. PICK copy \in Row : copy = row'
        BY <2>2
      <4>2. req' = [req EXCEPT ![r].pc = "issue", ![r].held = copy, ![r].late = FALSE]
        BY <3>2, <4>1 DEF Hold
      <4> QED
        BY <4>1, <4>2, RequestFacts, Holding
    <3> QED
      BY <2>1, <3>1, <3>2
  <2>4. \A s \in Requests : req[s].pc \notin {"fill", "issue"} \union Loaded
    BY <1>2, RequestFacts, RowsAndPrincipals DEF GoodCopy
  <2>5. \A s \in Requests : req'[s].pc \notin {"fill"} \union Loaded
    BY <2>3, <2>4 DEF Idle, Loaded
  <2>6. TypeOK'
    BY <2>1, <2>2, <2>3 DEF IInv, TypeOK
  <2>7. CopiesGood'
    BY <2>2, <2>3, <2>4, <2>5 DEF CopiesGood, GoodCopy, Idle, Loaded
  <2>8. KeysOwn' /\ NothingBefore'
    BY <2>2, <2>5 DEF KeysOwn, NothingBefore, HasPhoto, Loaded
  <2>9. StalePrincipalOnlyIfRaced' /\ NoLostUpdateUnlessRaced'
    BY <1>2, <2>1 DEF IInv, NothingBefore, StalePrincipalOnlyIfRaced, NoLostUpdateUnlessRaced
  <2>10. PhotoStoredUnlessRaced' /\ OldSessionsEndUnlessRaced'
    BY <1>2, <2>1, <2>2 DEF IInv, NothingBefore, PhotoStoredUnlessRaced, OldSessionsEndUnlessRaced
  <2> QED
    BY <2>6, <2>7, <2>8, <2>9, <2>10 DEF IInv
<1> QED
  BY <1>1, <1>2

\* What a mutation makes of its copy.
LEMMA Merging ==
  ASSUME IInv, NEW r \in Requests, req[r].pc = "save",
         req[r].op = "changeCredentials" => row.cred < MaxCred
  PROVE  /\ row \in Row /\ Merged(r) \in Row
         /\ Merged(r).photo = IF req[r].op = "uploadPhoto" THEN req[r].key
                                                           ELSE req[r].held.photo
         /\ ~req[r].late => Merged(r) = Change(r, row)
<1> DEFINE held == req[r].held
<1>1. held \in Row /\ row \in Row /\ (req[r].late \/ held = row)
  BY RequestFacts, RowsAndPrincipals DEF GoodCopy, Loaded
<1>2. row.cred \in 1..MaxCred /\ req[r].key \in Photos \union {NoPhoto}
  BY <1>1, RequestFacts DEF Row
<1>3. CASE req[r].op = "uploadPhoto"
  <2>1. PICK copy : copy = [held EXCEPT !.photo = req[r].key]
    OBVIOUS
  <2>2. copy \in Row /\ copy.photo = req[r].key
    BY <1>1, <1>2, <2>1 DEF Row
  <2>3. Merged(r) = [copy EXCEPT !.cred = row.cred]
    BY <1>3, <2>1 DEF Merged, Change
  <2>4. Merged(r) \in Row /\ Merged(r).photo = req[r].key
    BY <1>2, <2>2, <2>3 DEF Row
  <2>5. ~req[r].late => Merged(r) = Change(r, row)
    <3> SUFFICES ASSUME ~req[r].late PROVE [copy EXCEPT !.cred = row.cred] = copy
      BY <1>1, <1>3, <2>1, <2>3 DEF Change
    <3>1. copy.cred = row.cred
      BY <1>1, <2>1 DEF Row
    <3> QED
      BY <2>2, <3>1 DEF Row
  <2> QED
    BY <1>1, <1>3, <2>4, <2>5
<1>4. CASE req[r].op # "uploadPhoto"
  <2>1. Merged(r) = Change(r, held)
    BY <1>4 DEF Merged
  <2>2. CASE req[r].op = "changeCredentials"
    <3>1. row.cred + 1 \in 1..MaxCred
      BY <1>2, <2>2, AccountsAssumption
    <3>2. Change(r, held) = [held EXCEPT !.cred = row.cred + 1]
      BY <2>2 DEF Change
    <3>3. PICK n \in 1..MaxCred : n = row.cred + 1
      BY <3>1
    <3>4. Change(r, held) \in Row /\ Change(r, held).photo = held.photo
      BY <1>1, <3>2, <3>3 DEF Row
    <3> QED
      BY <1>1, <1>4, <2>1, <3>4
  <2>3. CASE req[r].op # "changeCredentials"
    <3>1. Change(r, held) \in Row /\ Change(r, held).photo = held.photo
      BY <1>1, <1>4, <2>3 DEF Row, Change
    <3> QED
      BY <1>1, <1>4, <2>1, <3>1
  <2> QED
    BY <2>2, <2>3
<1> QED
  BY <1>3, <1>4

LEMMA SaveStep ==
  ASSUME IInv, NEW r \in Requests, Save(r)
  PROVE  IInv'
<1>1. /\ req[r].pc = "save" /\ row' = Merged(r)
      /\ intended' = IF req[r].late THEN row' ELSE Change(r, intended)
      /\ photoLost' = IF req[r].op = "uploadPhoto" THEN FALSE
                      ELSE photoLost \/ row'.photo # row.photo
      /\ leaked' = (leaked \/ (req[r].op # "changeCredentials" /\ row'.cred # row.cred))
      /\ UNCHANGED <<role, cache, objects, sessions, tainted>>
  BY DEF Save, At
<1>2. /\ row \in Row /\ row' \in Row
      /\ row'.photo = IF req[r].op = "uploadPhoto" THEN req[r].key ELSE req[r].held.photo
      /\ ~req[r].late => row' = Change(r, row)
  BY <1>1, Merging DEF Save
<1>3. /\ req'[r].pc \in {"revoke", "invalidate"} /\ req'[r].held = NoRow
      /\ req'[r].key = NoPhoto /\ req'[r] \in Request
      /\ req[r].op = "changeCredentials" => req'[r].pc = "revoke"
  <2>1. PICK pc \in {"revoke", "invalidate"} :
          /\ req'[r] = [Idle EXCEPT !.op = req[r].op, !.pc = pc]
          /\ req[r].op = "changeCredentials" => pc = "revoke"
    BY DEF Save
  <2>2. PICK q : q = [Idle EXCEPT !.op = req[r].op]
    OBVIOUS
  <2>3. q \in Request /\ q.held = NoRow /\ q.key = NoPhoto
    BY <2>2, RequestFacts DEF Idle, Request
  <2>4. req'[r] = [q EXCEPT !.pc = pc]
    BY <2>1, <2>2
  <2> QED
    BY <2>1, <2>3, <2>4 DEF Request
<1>4. ASSUME NEW s \in Requests \ {r}
      PROVE  /\ req'[s] \in Request /\ req'[s].pc = req[s].pc /\ req'[s].op = req[s].op
             /\ req'[s].held = req[s].held /\ req'[s].key = req[s].key
             /\ ~req'[s].late => ~req[s].late /\ (req[s].held = NoRow \/ row' = row)
  <2>1. req'[s] = [req[s] EXCEPT !.late = @ \/ (req[s].held # NoRow /\ row' # row)]
    BY DEF Save
  <2>2. PICK flag \in BOOLEAN : flag = (req[s].late \/ (req[s].held # NoRow /\ row' # row))
    OBVIOUS
  <2>3. req'[s] = [req[s] EXCEPT !.late = flag]
    BY <2>1, <2>2
  <2>4. /\ req'[s] \in Request /\ req'[s].pc = req[s].pc /\ req'[s].op = req[s].op
        /\ req'[s].held = req[s].held /\ req'[s].key = req[s].key /\ req'[s].late = flag
    BY <2>3, RequestFacts DEF Request
  <2> QED
    BY <2>2, <2>4
<1>5. req' \in [Requests -> Request]
  BY <1>3, <1>4 DEF Save
<1>6. TypeOK' /\ NothingBefore' /\ NoLostUpdateUnlessRaced'
  <2>1. row' = intended'
    BY <1>1, <1>2, RequestFacts
  <2>2. NothingBefore' /\ NoLostUpdateUnlessRaced'
    BY <1>2, <2>1, RowsAndPrincipals DEF NothingBefore, NoLostUpdateUnlessRaced
  <2>3. TypeOK'
    BY <1>1, <1>2, <1>5, <2>1 DEF IInv, TypeOK
  <2> QED
    BY <2>2, <2>3
<1>7. CopiesGood'
  <2> SUFFICES ASSUME NEW s \in Requests PROVE GoodCopy(req[s])'
    BY DEF CopiesGood
  <2>1. CASE s = r
    BY <1>3, <2>1 DEF GoodCopy, Loaded
  <2>2. CASE s # r
    <3>1. GoodCopy(req[s]) /\ NoRow \notin Row /\ NoRow \notin Principals
      BY RequestFacts, RowsAndPrincipals
    <3> QED
      BY <1>4, <2>2, <3>1 DEF GoodCopy
  <2> QED
    BY <2>1, <2>2
<1>8. KeysOwn'
  <2> SUFFICES ASSUME NEW t \in Requests, HasPhoto(t)'
               PROVE  /\ req'[t].key \in objects'
                      /\ req'[t].key \notin {row'.photo, cache'.photo}
                      /\ \A s \in Requests : req'[t].key # req'[s].held.photo
                      /\ \A s \in Requests \ {t} : req'[t].key # req'[s].key
    BY DEF KeysOwn
  <2>1. t # r /\ HasPhoto(t) /\ req'[t].key = req[t].key
    BY <1>3, <1>4 DEF HasPhoto
  <2>2. /\ req[t].key \in objects /\ req[t].key \notin {NoPhoto, row.photo, cache.photo}
        /\ \A s \in Requests : req[t].key # req[s].held.photo
        /\ \A s \in Requests \ {t} : req[t].key # req[s].key
    BY <2>1, AccountsAssumption DEF IInv, KeysOwn, TypeOK
  <2>3. row'.photo # req[t].key
    BY <1>2, <2>1, <2>2
  <2>4. \A s \in Requests : req'[s].held.photo \in {NoPhoto, req[s].held.photo}
                            /\ req'[s].key \in {NoPhoto, req[s].key}
    BY <1>3, <1>4, RowsAndPrincipals
  <2> QED
    BY <1>1, <2>1, <2>2, <2>3, <2>4
<1>9. StalePrincipalOnlyIfRaced'
  BY <1>3 DEF StalePrincipalOnlyIfRaced
<1>10. PhotoStoredUnlessRaced'
  <2>1. CASE req[r].op = "uploadPhoto"
    BY <1>1, <1>2, <2>1 DEF IInv, KeysOwn, HasPhoto, PhotoStoredUnlessRaced
  <2>2. CASE req[r].op # "uploadPhoto"
    BY <1>1, <1>4, <2>2 DEF IInv, TypeOK, PhotoStoredUnlessRaced, At
  <2> QED
    BY <2>1, <2>2
<1>11. OldSessionsEndUnlessRaced'
  <2>1. CASE req[r].op = "changeCredentials"
    BY <1>3, <2>1 DEF OldSessionsEndUnlessRaced, At
  <2>2. CASE req[r].op # "changeCredentials"
    BY <1>1, <1>4, <2>2 DEF IInv, TypeOK, OldSessionsEndUnlessRaced, At
  <2> QED
    BY <2>1, <2>2
<1> QED
  BY <1>6, <1>7, <1>8, <1>9, <1>10, <1>11 DEF IInv

-----------------------------------------------------------------------------
(* The theorems.                                                           *)

\* The invariant: what copies of the row are worth, whose a new photo is, and
\* the four properties.
THEOREM AccountsInvariance == Spec => []IInv
<1>1. Init => IInv
  <2> SUFFICES ASSUME Init PROVE IInv
    OBVIOUS
  <2>1. Idle \in Request /\ Idle.pc = "idle" /\ Idle.held = NoRow
    BY DEF Idle, Request
  <2>2. row \in Row \union {NoRow} /\ row.photo = NoPhoto
    <3>1. 1 \in 1..MaxCred
      BY AccountsAssumption
    <3>2. FreshUser(TRUE) \in Row /\ FreshUser(TRUE).photo = NoPhoto
      BY <3>1 DEF FreshUser, Row
    <3> QED
      BY <3>2, RowsAndPrincipals DEF Init
  <2>3. TypeOK /\ NothingBefore
    BY <2>1, <2>2 DEF Init, TypeOK, NothingBefore
  <2>4. CopiesGood /\ KeysOwn
    BY <2>1 DEF Init, CopiesGood, GoodCopy, Loaded, KeysOwn, HasPhoto
  <2>5. StalePrincipalOnlyIfRaced /\ NoLostUpdateUnlessRaced /\ PhotoStoredUnlessRaced
        /\ OldSessionsEndUnlessRaced
    BY <2>2 DEF Init, StalePrincipalOnlyIfRaced, NoLostUpdateUnlessRaced,
                PhotoStoredUnlessRaced, OldSessionsEndUnlessRaced
  <2> QED
    BY <2>3, <2>4, <2>5 DEF IInv
<1>2. IInv /\ [Next]_vars => IInv'
  <2> SUFFICES ASSUME IInv, [Next]_vars PROVE IInv'
    OBVIOUS
  <2>1. ASSUME NEW r \in Requests, Step(r) PROVE IInv'
    BY <2>1, GuardStep, CacheStep, LoginStep, InsertStep, EndingStep, LoadStep, PhotoStep,
       SaveStep DEF Step
  <2>2. CASE CacheExpires
    BY <2>2, CacheStep
  <2>3. CASE UNCHANGED vars
    <3> USE <2>3 DEF vars, dbVars, history
    <3>1. TypeOK' /\ KeysOwn' /\ NothingBefore'
      BY DEF IInv, TypeOK, KeysOwn, HasPhoto, NothingBefore
    <3>2. CopiesGood'
      BY DEF IInv, CopiesGood, GoodCopy
    <3>3. StalePrincipalOnlyIfRaced' /\ NoLostUpdateUnlessRaced'
      BY DEF IInv, StalePrincipalOnlyIfRaced, NoLostUpdateUnlessRaced
    <3>4. PhotoStoredUnlessRaced' /\ OldSessionsEndUnlessRaced'
      BY DEF IInv, PhotoStoredUnlessRaced, OldSessionsEndUnlessRaced, At
    <3> QED
      BY <3>1, <3>2, <3>3, <3>4 DEF IInv
  <2> QED
    BY <2>1, <2>2, <2>3 DEF Next
<1> QED
  BY <1>1, <1>2, PTL DEF Spec

\* Every variable has its type: no save makes a row that is none.
THEOREM AccountTypes == Spec => []TypeOK
<1>1. IInv => TypeOK
  BY DEF IInv
<1> QED
  BY <1>1, AccountsInvariance, PTL

\* The principal that the guard finds in the cache is the row's, unless the
\* mutation of it has still to remove it, was cut short before, or the guard
\* stored what it had read before a save.
THEOREM PrincipalsStaleOnlyIfRaced == Spec => []StalePrincipalOnlyIfRaced
<1>1. IInv => StalePrincipalOnlyIfRaced
  BY DEF IInv
<1> QED
  BY <1>1, AccountsInvariance, PTL

\* Every change survives the saves of whole rows that follow, except where a
\* save writes back a copy loaded before another.
THEOREM UpdatesLostOnlyIfRaced == Spec => []NoLostUpdateUnlessRaced
<1>1. IInv => NoLostUpdateUnlessRaced
  BY DEF IInv
<1> QED
  BY <1>1, AccountsInvariance, PTL

\* The photo of the row is in storage, whatever uploads overlap, except as
\* their deletions and failures allow.
THEOREM PhotosStored == Spec => []PhotoStoredUnlessRaced
<1>1. IInv => PhotoStoredUnlessRaced
  BY DEF IInv
<1> QED
  BY <1>1, AccountsInvariance, PTL

\* A change of password ends every session opened under another, except as a
\* login under way, a copy written back or an interruption allows.
THEOREM OldSessionsEnd == Spec => []OldSessionsEndUnlessRaced
<1>1. IInv => OldSessionsEndUnlessRaced
  BY DEF IInv
<1> QED
  BY <1>1, AccountsInvariance, PTL

\* What remains of "blocks future authentication": a deactivated account
\* becomes active by an activation, or by the save of a copy loaded before
\* another save, and by nothing else.
Reactivation ==
  row # NoRow /\ ~row.active /\ row'.active =>
    \E r \in Requests : Save(r) /\ (req[r].op = "activate" \/ req[r].late)

THEOREM ReactivatedOnlyIfRaced == Spec => [][Reactivation]_vars
<1>1. IInv /\ [Next]_vars => [Reactivation]_vars
  <2> SUFFICES ASSUME IInv, Next, row # NoRow, ~row.active, row'.active
               PROVE  \E r \in Requests : Save(r) /\ (req[r].op = "activate" \/ req[r].late)
    BY DEF Reactivation
  <2>1. PICK r \in Requests : Save(r)
    <3>1. CASE CacheExpires
      BY <3>1 DEF CacheExpires
    <3>2. ASSUME NEW r \in Requests, Step(r), ~Save(r) PROVE row' = row
      BY <3>2 DEF Step, StartAdminMutation, CacheGet, Resolve, CacheSet, Admit, Serve, Find,
                  Insert, Issue, Load, Upload, DeleteOld, Revoke, Invalidate, Abort, dbVars
    <3> QED
      BY <3>1, <3>2 DEF Next
  <2>2. req[r].late \/ row' = Change(r, row)
    BY <2>1, Merging DEF Save, At
  <2>3. row \in Row
    BY RequestFacts
  <2>4. Change(r, row).active => req[r].op = "activate"
    BY <2>3 DEF Change, Row
  <2> QED
    BY <2>1, <2>2, <2>4
<1> QED
  BY <1>1, AccountsInvariance, PTL DEF Spec
=============================================================================
