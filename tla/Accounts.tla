------------------------------ MODULE Accounts ------------------------------
(***************************************************************************)
(* One account of the service: a user (UserService, UserAuthService) or an  *)
(* admin (AdminService, AdminAuthService), its row, the principal that      *)
(* JwtAuthGuard caches in Redis, its photos in storage and its sessions.    *)
(*                                                                         *)
(* Requests run concurrently; each await is a step.  A mutation loads the   *)
(* row, changes the loaded copy and saves it whole: TypeORM's save writes   *)
(* every loaded column that differs from the row by then, so what changed   *)
(* meanwhile is written back.                                               *)
(***************************************************************************)
EXTENDS Naturals, FiniteSets

CONSTANTS
  Requests,  \* requests served concurrently
  Photos,    \* storage keys of photos
  NoPhoto,
  MaxCred    \* bound: passwords an admin ever has

ASSUME AccountsAssumption == NoPhoto \notin Photos /\ MaxCred \in Nat \ {0}

Row   == [active : BOOLEAN, completed : BOOLEAN,
          photo : Photos \union {NoPhoto}, cred : 1..MaxCred]
\* No row and no principal: its password is neither of the two's.
NoRow == [active |-> FALSE, completed |-> FALSE, photo |-> NoPhoto,
          cred |-> MaxCred + 1]

\* What the guard works on: the default read, which leaves the password out.
Principals == [active : BOOLEAN, completed : BOOLEAN,
               photo : Photos \union {NoPhoto}, cred : {0}]
Principal(copy) == [copy EXCEPT !.cred = 0]

VARIABLES
  role,      \* "user" or "admin", for the whole behaviour
  row,       \* the row, NoRow before the account exists
  cache,     \* the entry auth:user:<role>:<id>, NoRow when there is none
  objects,   \* photos in storage
  sessions,  \* passwords under which a live session was opened (1 for users)
  req,       \* [Requests -> Request]
  \* History of the run, read by no guard:
  intended,  \* the row, had every save since the last clobbering one changed
             \* the row of that moment
  tainted,   \* the cached principal was read before a save, or its removal
             \* was cut short
  photoLost, \* a save wrote back an earlier photo, or an upload ended between
             \* deleting the old photo and saving the new
  leaked     \* since the last revocation: a login opened a session under a
             \* password since replaced, a save wrote back an earlier password,
             \* or a revocation was cut short

dbVars  == <<role, row, cache, objects, sessions>>
history == <<intended, tainted, photoLost, leaked>>
vars    == <<dbVars, req, history>>

Guarded(kind) == IF kind = "user"
  THEN {"route", "updateMe", "uploadPhoto", "completeProfile"}
  ELSE {"route", "updateMe", "uploadPhoto", "changeCredentials"}
Unguarded == {"login", "create", "activate", "deactivate"}

Request ==
  [op   : Guarded("user") \union Guarded("admin") \union Unguarded
            \union {"none"},             \* a guarded one shows once admitted
   pc   : {"idle", "resolve", "fill", "check", "served", "insert", "issue",
           "load", "upload", "deleteOld", "save", "revoke", "invalidate"},
   held : Row \union Principals \union {NoRow},  \* the copy this request works on
   hit  : BOOLEAN,                      \* the principal came from the cache
   late : BOOLEAN,                      \* the row was saved since the load
   key  : Photos \union {NoPhoto}]      \* the photo it uploaded
Idle == [op |-> "none", pc |-> "idle", held |-> NoRow, hit |-> FALSE,
         late |-> FALSE, key |-> NoPhoto]

TypeOK ==
  /\ role \in {"user", "admin"}
  /\ {row, intended} \subseteq Row \union {NoRow}
  /\ cache \in Principals \union {NoRow}
  /\ objects \subseteq Photos /\ sessions \subseteq 1..MaxCred
  /\ req \in [Requests -> Request]
  /\ {tainted, photoLost, leaked} \subseteq BOOLEAN

FreshUser(completed) == [active |-> TRUE, completed |-> completed,
                         photo |-> NoPhoto, cred |-> 1]

\* Users appear with their first login; the admin is seeded.
Init ==
  /\ role \in {"user", "admin"}
  /\ row = IF role = "user" THEN NoRow ELSE FreshUser(TRUE)
  /\ cache = NoRow /\ objects = {} /\ sessions = {}
  /\ req = [r \in Requests |-> Idle]
  /\ intended = row
  /\ tainted = FALSE /\ photoLost = FALSE /\ leaked = FALSE

At(r, pc) == req[r].pc = pc
Go(r, pc) == req' = [req EXCEPT ![r].pc = pc]
Hold(r, copy, pc) ==
  req' = [req EXCEPT ![r].pc = pc, ![r].held = copy, ![r].late = FALSE]
Answer(r) == req' = [req EXCEPT ![r] = Idle]

\* A mutation by an admin arrives; its own guard concerns another account.
StartAdminMutation(r) ==
  /\ At(r, "idle") /\ role = "user"
  /\ \E op \in {"activate", "deactivate"} :
       req' = [req EXCEPT ![r].op = op, ![r].pc = "load"]
  /\ UNCHANGED <<dbVars, history>>

-----------------------------------------------------------------------------
(* JwtAuthGuard and ProfileCompletionGuard                                  *)

\* A guarded request arrives.  getOrSet: the cached principal, if any ...
CacheGet(r) ==
  /\ At(r, "idle")
  /\ req' = IF cache # NoRow
              THEN [req EXCEPT ![r].pc = "check", ![r].held = cache,
                               ![r].hit = TRUE]
              ELSE [req EXCEPT ![r].pc = "resolve"]
  /\ UNCHANGED <<dbVars, history>>

\* ... else the row (401 without one) ...
Resolve(r) ==
  /\ At(r, "resolve")
  /\ IF row = NoRow THEN Answer(r) ELSE Hold(r, Principal(row), "fill")
  /\ UNCHANGED <<dbVars, history>>

\* ... which is then stored, as read.
CacheSet(r) ==
  /\ At(r, "fill")
  /\ cache' = req[r].held
  /\ tainted' = req[r].late
  /\ req' = [req EXCEPT ![r].pc = "check", ![r].late = FALSE]
  /\ UNCHANGED <<role, row, objects, sessions, intended, photoLost, leaked>>

\* AUTH_USER_SECONDS have passed.
CacheExpires ==
  /\ cache # NoRow
  /\ cache' = NoRow /\ tainted' = FALSE
  /\ UNCHANGED <<role, row, objects, sessions, req, intended, photoLost,
                 leaked>>

\* A principal that came from the cache is plain JSON: `role`, a getter of
\* the entity, is absent from it.
RoleSeen(r) == IF req[r].hit THEN "undefined" ELSE role
ProfileGuardPasses(r) == RoleSeen(r) # "user" \/ req[r].held.completed

\* Mutant: a mutation works on the principal instead of a reloaded row.
AdmitBug(r) ==
  /\ At(r, "check") /\ req[r].held.active
  /\ \E op \in {"updateMe", "completeProfile"} \intersect Guarded(role) :
       req' = [req EXCEPT ![r].op = op, ![r].pc = "save"]
  /\ UNCHANGED <<dbVars, history>>

\* The guards decide; "route" is one behind @RequireCompletedProfile.
Admit(r) ==
  /\ At(r, "check")
  /\ IF ~req[r].held.active
       THEN Answer(r)
       ELSE \E op \in Guarded(role) :
              IF op # "route"
                THEN req' = [req EXCEPT ![r] = [Idle EXCEPT !.op = op,
                                                            !.pc = "load"]]
                ELSE IF ProfileGuardPasses(r) THEN Go(r, "served")
                                              ELSE Answer(r)
  /\ UNCHANGED <<dbVars, history>>

Serve(r) ==
  /\ At(r, "served")
  /\ Answer(r)
  /\ UNCHANGED <<dbVars, history>>

-----------------------------------------------------------------------------
(* Login and creation                                                       *)

\* verifyOtp's findOneOrCreateByPhone, createByAdmin's check (409 when the
\* phone is taken), the admin's lookup with the password check.
Find(r, op) ==
  /\ At(r, "idle")
  /\ op = "create" => role = "user" /\ row = NoRow
  /\ req' = [req EXCEPT ![r].op = op,
                        ![r].pc = IF row = NoRow THEN "insert" ELSE "issue",
                        ![r].held = row]
  /\ UNCHANGED <<dbVars, history>>

\* The unique index on the phone refuses a second row.
Insert(r) ==
  /\ At(r, "insert")
  /\ IF row # NoRow
       THEN Answer(r) /\ UNCHANGED <<row, intended>>
       ELSE /\ row' = FreshUser(req[r].op = "create")
            /\ intended' = row'
            /\ IF req[r].op = "create" THEN Answer(r) ELSE Hold(r, row', "issue")
  /\ UNCHANGED <<role, cache, objects, sessions, tainted, photoLost, leaked>>

Issue(r) ==
  /\ At(r, "issue")
  /\ sessions' = sessions \union {req[r].held.cred}
  /\ leaked' = (leaked \/ req[r].held.cred # row.cred)
  /\ Answer(r)
  /\ UNCHANGED <<role, row, cache, objects, intended, tainted,
                 photoLost>>

-----------------------------------------------------------------------------
(* Mutations                                                                *)

\* reloadManaged, findByIdOrFail and findByIdWithPassword; 404 without a row,
\* 400 for a profile completed already.
Load(r) ==
  /\ At(r, "load")
  /\ IF row = NoRow \/ (req[r].op = "completeProfile" /\ row.completed)
       THEN Answer(r)
       ELSE Hold(r, row, IF req[r].op = "uploadPhoto" THEN "upload" ELSE "save")
  /\ UNCHANGED <<dbVars, history>>

\* A photo goes to a fresh key.
KeysInUse == objects \union {row.photo, cache.photo, intended.photo}
               \union {req[r].held.photo : r \in Requests}
               \union {req[r].key : r \in Requests}
Upload(r) ==
  /\ At(r, "upload")
  /\ \E k \in Photos \ KeysInUse :
       /\ objects' = objects \union {k}
       /\ req' = [req EXCEPT ![r].key = k,
                             ![r].pc = IF req[r].held.photo = NoPhoto
                                         THEN "save" ELSE "deleteOld"]
  /\ UNCHANGED <<role, row, cache, sessions, history>>

\* Mutant: the key deleted is the new one.
DeleteOldBug(r) ==
  /\ At(r, "deleteOld")
  /\ objects' = objects \ {req[r].key}
  /\ Go(r, "save")
  /\ UNCHANGED <<role, row, cache, sessions, history>>

\* The old photo goes; an error of that deletion is swallowed.
DeleteOld(r) ==
  /\ At(r, "deleteOld")
  /\ objects' \in {objects, objects \ {req[r].held.photo}}
  /\ Go(r, "save")
  /\ UNCHANGED <<role, row, cache, sessions, history>>

\* What an operation changes in a copy of the row.
Change(r, copy) ==
  CASE req[r].op = "uploadPhoto"       -> [copy EXCEPT !.photo = req[r].key]
    [] req[r].op = "completeProfile"   -> [copy EXCEPT !.completed = TRUE]
    [] req[r].op = "activate"          -> [copy EXCEPT !.active = TRUE]
    [] req[r].op = "deactivate"        -> [copy EXCEPT !.active = FALSE]
    [] req[r].op = "changeCredentials" -> [copy EXCEPT !.cred = row.cred + 1]
    [] OTHER                           -> copy

\* mergeAndSave.  The default read of an admin leaves the password out, so
\* uploadPhoto does not write it back; updateMe reads it.
Merged(r) ==
  IF req[r].op = "uploadPhoto"
    THEN [Change(r, req[r].held) EXCEPT !.cred = row.cred]
    ELSE Change(r, req[r].held)
Save(r) ==
  /\ At(r, "save")
  /\ req[r].op = "changeCredentials" => row.cred < MaxCred
  /\ row' = Merged(r)
  /\ intended' = IF req[r].late THEN row' ELSE Change(r, intended)
  /\ photoLost' = IF req[r].op = "uploadPhoto" THEN FALSE
                  ELSE photoLost \/ row'.photo # row.photo
  /\ leaked' = (leaked \/ (req[r].op # "changeCredentials"
                              /\ row'.cred # row.cred))
  /\ req' = [s \in Requests |->
               IF s = r
                 THEN [Idle EXCEPT !.op = req[r].op, !.pc =
                         IF req[r].op \in {"deactivate", "changeCredentials"}
                           THEN "revoke" ELSE "invalidate"]
                 ELSE [req[s] EXCEPT !.late = @ \/ (req[s].held # NoRow
                                                      /\ row' # row)]]
  /\ UNCHANGED <<role, cache, objects, sessions, tainted>>

\* Mutant: an admin's sessions are left alone.
RevokeBug(r) ==
  /\ At(r, "revoke")
  /\ sessions' = IF role = "user" THEN {} ELSE sessions
  /\ leaked' = FALSE
  /\ Go(r, "invalidate")
  /\ UNCHANGED <<role, row, cache, objects, intended, tainted, photoLost>>

\* revokeAllForUser.
Revoke(r) ==
  /\ At(r, "revoke")
  /\ sessions' = {} /\ leaked' = FALSE
  /\ Go(r, "invalidate")
  /\ UNCHANGED <<role, row, cache, objects, intended, tainted, photoLost>>

\* Mutant: the removal misses the key that the guard filled.
InvalidateBug(r) ==
  /\ At(r, "invalidate")
  /\ Answer(r)
  /\ UNCHANGED <<dbVars, history>>

\* invalidateAuthCache, the last step of every mutation.
Invalidate(r) ==
  /\ At(r, "invalidate")
  /\ cache' = NoRow /\ tainted' = FALSE
  /\ Answer(r)
  /\ UNCHANGED <<role, row, objects, sessions, intended, photoLost, leaked>>

\* A call the request awaits fails (database, Redis, storage, a check that
\* answers 4xx), or the process dies: the request goes no further.
Abort(r) ==
  /\ ~At(r, "idle")
  /\ Answer(r)
  /\ tainted'  = (tainted \/ req[r].pc \in {"revoke", "invalidate"})
  /\ leaked'   = (leaked \/ At(r, "revoke"))
  /\ photoLost' = (photoLost \/ (req[r].op = "uploadPhoto" /\ At(r, "save")))
  /\ UNCHANGED <<dbVars, intended>>

Step(r) ==
  \/ StartAdminMutation(r) \/ CacheGet(r) \/ Resolve(r) \/ CacheSet(r) \/ Admit(r) \/ Serve(r)
  \/ \E op \in {"login", "create"} : Find(r, op)
  \/ Insert(r) \/ Issue(r)
  \/ Load(r) \/ Upload(r) \/ DeleteOld(r) \/ Save(r) \/ Revoke(r)
  \/ Invalidate(r) \/ Abort(r)

Next == CacheExpires \/ \E r \in Requests : Step(r)

Spec == Init /\ [][Next]_vars

-----------------------------------------------------------------------------
(* Properties                                                               *)

\* The cached principal is the row, so that a deactivation, an activation or
\* a changed profile shows on the next request: unless a mutation has still
\* to remove it, or a guard filled the cache with what it read before a save,
\* or the removal was cut short.
StalePrincipalOnlyIfRaced ==
  cache # NoRow /\ cache # Principal(row) =>
    \/ tainted
    \/ \E r \in Requests : req[r].pc \in {"revoke", "invalidate"}

\* The row is what its mutations make of it one after the other: every change
\* survives, except where a save wrote back a copy loaded before another save
\* (`intended` starts again from there).
NoLostUpdateUnlessRaced == row = intended

\* The photo of the row is in storage, unless its replacement is about to be
\* saved or was cut short, or a copy loaded before another upload was written
\* back.
PhotoStoredUnlessRaced ==
  row.photo = NoPhoto \/ row.photo \in objects \/ photoLost
    \/ \E r \in Requests : req[r].op = "uploadPhoto" /\ At(r, "save")

\* "Rotated credentials kill every active session": a live session was opened
\* under the password of the row, unless a login that had checked the old one
\* was still to open its session, or the revocation is to come or was cut
\* short, or a save wrote back the old password.
OldSessionsEndUnlessRaced ==
  \/ leaked
  \/ \A c \in sessions : c = row.cred
  \/ \E r \in Requests : At(r, "revoke")

\* deactivateByAdmin "blocks future authentication": only an activation makes
\* the row active again.
DeactivationSticks ==
  [][row # NoRow /\ ~row.active /\ row'.active =>
       \E r \in Requests : req[r].op = "activate" /\ Save(r)]_vars

\* ProfileCompletionGuard "blocks USER requests whose profile is not yet
\* completed": no route behind it serves a user it saw without one.
UnfinishedProfilesBlocked ==
  \A r \in Requests : At(r, "served") /\ role = "user" => req[r].held.completed
=============================================================================
