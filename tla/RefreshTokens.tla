--------------------------- MODULE RefreshTokens ---------------------------
(***************************************************************************)
(* The refresh-token authority: RefreshTokenService and its repository,    *)
(* run by concurrent request handlers against one PostgreSQL table.        *)
(*                                                                         *)
(* Every await is a step boundary, so the handlers interleave between      *)
(* statements.  The database is READ COMMITTED: a statement works on the   *)
(* rows that were committed when it began (its snapshot), one at a time:   *)
(* it waits for a row that another open transaction has locked, then       *)
(* re-evaluates its predicate on the committed version, and keeps its own  *)
(* locks until it ends.  Rows of an open transaction are invisible.        *)
(*                                                                         *)
(* A token is its row id (the bigserial column); plaintext and hash are    *)
(* one-to-one with it.  Id 0 stands for SQL NULL.                          *)
(***************************************************************************)
EXTENDS Integers, FiniteSets

CONSTANTS Principals,   \* (userId, role) pairs
          Requests,     \* concurrent handlers: HTTP requests and the nightly job
          TTL,          \* JWT_REFRESH_EXPIRES_IN_SECONDS
          NoPrincipal,  \* placeholder of an idle handler
          MaxId,        \* bound: number of row ids the sequence hands out
          MaxNow        \* bound: last clock value

ASSUME RefreshTokensAssumption ==
  /\ TTL \in Nat \ {0}
  /\ MaxId \in Nat
  /\ MaxNow \in Nat
  /\ NoPrincipal \notin Principals

Id   == 1..MaxId
Null == 0

VARIABLES
  now,         \* the clock shared by the application and the database
  nextId,      \* refresh_tokens_id_seq; a rollback does not give an id back
  rows,        \* ids of the committed rows
  owner,       \* id -> principal           (written by INSERT, immutable)
  expiresAt,   \* id -> time                (written by INSERT, immutable)
  revoked,     \* ids with revokedAt set
  replacedBy,  \* id -> replacedById
  pc,          \* handler -> the statement it sends next
  who,         \* handler -> principal it works for
  row,         \* handler -> row read by findByToken
  newId,       \* handler -> row its open transaction inserted
  at,          \* handler -> time captured earlier (expiry to write, prune cutoff)
  snap,        \* handler -> rows its running statement selected and has still to lock
  held,        \* handler -> rows its running statement has locked
  \* history
  parent,      \* id -> the token it was minted from, Null for a login
  session,     \* id -> the login token its rotation chain starts from
  victims,     \* handler -> sessions its running statement is to end
  swept,       \* sessions a finished revokeAllForUser was to end
  loggedOut,   \* sessions a finished revoke was to end
  slipped      \* sessions rotated while a statement was ending them

inserted == <<nextId, owner, expiresAt, parent, session>>
table    == <<rows, revoked, replacedBy>>
ended    == <<swept, loggedOut>>
locals   == <<pc, who, row, newId, at, snap, held, victims>>
vars     == <<now, inserted, table, locals, ended, slipped>>

Live == rows \ revoked

Init ==
  /\ now = 0
  /\ nextId = 1
  /\ rows = {}
  /\ owner = [i \in Id |-> NoPrincipal]
  /\ expiresAt = [i \in Id |-> 0]
  /\ revoked = {}
  /\ replacedBy = [i \in Id |-> Null]
  /\ parent = [i \in Id |-> Null]
  /\ session = [i \in Id |-> Null]
  /\ pc = [r \in Requests |-> "idle"]
  /\ who = [r \in Requests |-> NoPrincipal]
  /\ row = [r \in Requests |-> Null]
  /\ newId = [r \in Requests |-> Null]
  /\ at = [r \in Requests |-> 0]
  /\ snap = [r \in Requests |-> {}]
  /\ held = [r \in Requests |-> {}]
  /\ victims = [r \in Requests |-> {}]
  /\ swept = {}
  /\ loggedOut = {}
  /\ slipped = {}

-----------------------------------------------------------------------------
(* Statements and their building blocks.                                   *)

\* The handler goes to label l with these local variables; a statement that
\* begins or ends holds no row yet, or no longer.
Goto(r, l, p, i, n, t, s, v) ==
  /\ pc' = [pc EXCEPT ![r] = l]
  /\ who' = [who EXCEPT ![r] = p]
  /\ row' = [row EXCEPT ![r] = i]
  /\ newId' = [newId EXCEPT ![r] = n]
  /\ at' = [at EXCEPT ![r] = t]
  /\ snap' = [snap EXCEPT ![r] = s]
  /\ held' = [held EXCEPT ![r] = {}]
  /\ victims' = [victims EXCEPT ![r] = v]

\* The handler answers, normally or with an exception, and forgets its locals.
Return(r) == Goto(r, "idle", NoPrincipal, Null, Null, 0, {}, {})

\* The id sequence is bounded: a handler that will insert starts only while
\* an id is left for it.
HasRoom == nextId + Cardinality({r \in Requests : pc[r] \in {"issue", "insert"}}) <= MaxId

\* INSERT of a row with the next id; visible at once or at the commit.
Insert(p, t, par) ==
  /\ nextId <= MaxId
  /\ nextId' = nextId + 1
  /\ owner' = [owner EXCEPT ![nextId] = p]
  /\ expiresAt' = [expiresAt EXCEPT ![nextId] = t]
  /\ parent' = [parent EXCEPT ![nextId] = par]
  /\ session' = [session EXCEPT ![nextId] = IF par = Null THEN nextId ELSE session[par]]

\* The row locks a handler has: those of the running statement, or that of
\* rotate's UPDATE, kept until the transaction ends.
Locks(r) == held[r] \cup (IF pc[r] = "commit" THEN {row[r]} ELSE {})
Locked(i) == \E r \in Requests : i \in Locks(r)

\* Mutant: a statement that does not wait for the row lock.
BugWritable(i) == i \in Id
Writable(i) == ~Locked(i)

\* Mutant: rotate's UPDATE without "revokedAt IS NULL".
BugUnspent(i) == i \in rows
Unspent(i) == i \in Live

\* Mutant: a prune that spares the rows already revoked.
BugStale(i, t) == i \in Live /\ expiresAt[i] < t
Stale(i, t) == i \in rows /\ expiresAt[i] < t

\* A statement over many rows comes to one of them, in the order of its plan,
\* and locks it if it `still` matches the condition.
LockRow(r, i, still) ==
  /\ i \in snap[r]
  /\ Writable(i)
  /\ snap' = [snap EXCEPT ![r] = @ \ {i}]
  /\ held' = [held EXCEPT ![r] = @ \cup ({i} \cap still)]
  /\ UNCHANGED <<now, inserted, table, pc, who, row, newId, at, victims, ended, slipped>>

\* The rows a handler cannot go on without, and whom it waits for.
Wanted(r) ==
  CASE pc[r] \in {"update", "revoke"}       -> {row[r]}
    [] pc[r] \in {"revokingAll", "pruning"} -> snap[r]
    [] OTHER                                -> {}
WaitsFor(r, q) == Wanted(r) \cap Locks(q) # {}

\* It waits in a circle: C is strongly connected.
Deadlocked(r) ==
  \E C \in SUBSET Requests :
    /\ r \in C
    /\ \A D \in SUBSET C \ {{}} :
         \E p \in D, q \in (IF D = C THEN C ELSE C \ D) : WaitsFor(p, q)

\* The sessions a set of rows belongs to.
SessionsOf(S) == {session[i] : i \in S}

-----------------------------------------------------------------------------
(* issue: one autocommitted INSERT after a login.                          *)

Issue(r, p) ==
  /\ pc[r] = "idle"
  /\ HasRoom
  /\ Goto(r, "issue", p, Null, Null, now + TTL, {}, {})
  /\ UNCHANGED <<now, inserted, table, ended, slipped>>

IssueInsert(r) ==
  /\ pc[r] = "issue"
  /\ Insert(who[r], at[r], Null)
  /\ rows' = rows \cup {nextId}
  /\ Return(r)
  /\ UNCHANGED <<now, revoked, replacedBy, ended, slipped>>

-----------------------------------------------------------------------------
(* rotate: lookup, then either scorched earth, a rejection, or one         *)
(* transaction: INSERT the successor, UPDATE the old row, COMMIT.          *)
(* A lookup that finds no row, or a revoked or expired one, only throws.   *)

RotateReuse(r, i) ==
  /\ pc[r] = "idle"
  /\ i \in rows \cap revoked
  /\ replacedBy[i] # Null
  /\ Goto(r, "revokeAll", owner[i], Null, Null, 0, {}, {})
  /\ UNCHANGED <<now, inserted, table, ended, slipped>>

RotateLookup(r, i) ==
  /\ pc[r] = "idle"
  /\ i \in Live
  /\ expiresAt[i] > now
  /\ HasRoom
  /\ Goto(r, "insert", owner[i], i, Null, now + TTL, {}, {})
  /\ UNCHANGED <<now, inserted, table, ended, slipped>>

RotateInsert(r) ==
  /\ pc[r] = "insert"
  /\ Insert(who[r], at[r], row[r])
  /\ Goto(r, "update", who[r], row[r], nextId, at[r], {}, {})
  /\ UNCHANGED <<now, table, ended, slipped>>

\* The conditional UPDATE matched one row: the transaction now holds its lock.
RotateUpdate(r) ==
  /\ pc[r] = "update"
  /\ Writable(row[r])
  /\ Unspent(row[r])
  /\ Goto(r, "commit", who[r], row[r], newId[r], at[r], {}, {})
  /\ UNCHANGED <<now, inserted, table, ended, slipped>>

\* It matched none: throw, the transaction and its inserted row are gone.
RotateLose(r) ==
  /\ pc[r] = "update"
  /\ Writable(row[r])
  /\ ~Unspent(row[r])
  /\ Return(r)
  /\ UNCHANGED <<now, inserted, table, ended, slipped>>

RotateCommit(r) ==
  /\ pc[r] = "commit"
  /\ rows' = rows \cup {newId[r]}
  /\ revoked' = revoked \cup {row[r]}
  /\ replacedBy' = [replacedBy EXCEPT ![row[r]] = newId[r]]
  /\ slipped' = slipped \cup
       ({session[row[r]]} \cap UNION {victims[q] : q \in Requests})
  /\ Return(r)
  /\ UNCHANGED <<now, inserted, ended>>

-----------------------------------------------------------------------------
(* revoke: a read, then an UPDATE by id that repeats no condition.         *)

RevokeLookup(r, i) ==
  /\ pc[r] = "idle"
  /\ i \in Live
  /\ Goto(r, "revoke", owner[i], i, Null, 0, {}, SessionsOf({i}))
  /\ UNCHANGED <<now, inserted, table, ended, slipped>>

\* Mutant: logout ends every session of its owner, row by row in a transaction.
BugRevokeUpdate(r) ==
  /\ pc[r] = "revoke"
  /\ Writable(row[r])
  /\ \E i \in Live \ (held[r] \cup {row[r]}) :
       owner[i] = who[r] /\ row' = [row EXCEPT ![r] = i]
  /\ held' = [held EXCEPT ![r] = @ \cup {row[r]}]
  /\ UNCHANGED <<now, inserted, table, pc, who, newId, at, snap, victims, ended, slipped>>

RevokeUpdate(r) ==
  /\ pc[r] = "revoke"
  /\ Writable(row[r])
  /\ revoked' = revoked \cup ({row[r]} \cap rows)
  /\ loggedOut' = loggedOut \cup victims[r]
  /\ Return(r)
  /\ UNCHANGED <<now, inserted, rows, replacedBy, swept, slipped>>

-----------------------------------------------------------------------------
(* revokeAllForUser: one UPDATE over the principal's live rows.            *)

RevokeAllForUser(r, p) ==
  /\ pc[r] = "idle"
  /\ Goto(r, "revokeAll", p, Null, Null, 0, {}, {})
  /\ UNCHANGED <<now, inserted, table, ended, slipped>>

RevokeAllBegin(r) ==
  /\ pc[r] = "revokeAll"
  /\ LET mine == {i \in Live : owner[i] = who[r]}
     IN  Goto(r, "revokingAll", who[r], Null, Null, 0, mine, SessionsOf(mine))
  /\ UNCHANGED <<now, inserted, table, ended, slipped>>

RevokeAllRow(r, i) == pc[r] = "revokingAll" /\ LockRow(r, i, Live)

RevokeAllEnd(r) ==
  /\ pc[r] = "revokingAll"
  /\ snap[r] = {}
  /\ revoked' = revoked \cup held[r]
  /\ swept' = swept \cup victims[r]
  /\ Return(r)
  /\ UNCHANGED <<now, inserted, rows, replacedBy, loggedOut, slipped>>

-----------------------------------------------------------------------------
(* pruneExpiredTokens: one DELETE of the rows expired at its start.        *)

PruneBegin(r) ==
  /\ pc[r] = "idle"
  /\ \E i \in Id : Stale(i, now)
  /\ Goto(r, "pruning", NoPrincipal, Null, Null, now, {i \in Id : Stale(i, now)}, {})
  /\ UNCHANGED <<now, inserted, table, ended, slipped>>

PruneRow(r, i) == pc[r] = "pruning" /\ LockRow(r, i, rows)

PruneEnd(r) ==
  /\ pc[r] = "pruning"
  /\ snap[r] = {}
  /\ rows' = rows \ held[r]
  /\ Return(r)
  /\ UNCHANGED <<now, inserted, revoked, replacedBy, ended, slipped>>

-----------------------------------------------------------------------------
(* The environment: time passes; a handler dies or loses its connection,   *)
(* and the database rolls its transaction back.                            *)

Tick ==
  /\ now < MaxNow
  /\ now' = now + 1
  /\ UNCHANGED <<inserted, table, locals, ended, slipped>>

Abort(r) ==
  /\ pc[r] # "idle"
  /\ Return(r)
  /\ UNCHANGED <<now, inserted, table, ended, slipped>>

\* PostgreSQL ends a statement that waits in a circle (40P01).
DeadlockDetected(r) ==
  /\ Deadlocked(r)
  /\ Return(r)
  /\ UNCHANGED <<now, inserted, table, ended, slipped>>

Start(r) ==
  \/ \E p \in Principals : Issue(r, p) \/ RevokeAllForUser(r, p)
  \/ \E i \in Id : RotateReuse(r, i) \/ RotateLookup(r, i) \/ RevokeLookup(r, i)
  \/ PruneBegin(r)

Continue(r) ==
  \/ IssueInsert(r)
  \/ RotateInsert(r) \/ RotateUpdate(r) \/ RotateLose(r) \/ RotateCommit(r)
  \/ RevokeUpdate(r)
  \/ RevokeAllBegin(r) \/ RevokeAllEnd(r)
  \/ PruneEnd(r)
  \/ \E i \in Id : RevokeAllRow(r, i) \/ PruneRow(r, i)
  \/ DeadlockDetected(r)

Next ==
  \/ Tick
  \/ \E r \in Requests : Start(r) \/ Continue(r) \/ Abort(r)

Spec == Init /\ [][Next]_vars

-----------------------------------------------------------------------------
(* Properties.                                                             *)

Labels == {"idle", "issue", "insert", "update", "commit",
           "revoke", "revokeAll", "revokingAll", "pruning"}

\* Every variable has its type.
TypeOK ==
  /\ now \in Nat
  /\ nextId \in 1..(MaxId + 1)
  /\ rows \subseteq Id
  /\ owner \in [Id -> Principals \cup {NoPrincipal}]
  /\ expiresAt \in [Id -> Nat]
  /\ revoked \subseteq Id
  /\ replacedBy \in [Id -> Id \cup {Null}]
  /\ parent \in [Id -> Id \cup {Null}]
  /\ session \in [Id -> Id \cup {Null}]
  /\ pc \in [Requests -> Labels]
  /\ who \in [Requests -> Principals \cup {NoPrincipal}]
  /\ row \in [Requests -> Id \cup {Null}]
  /\ newId \in [Requests -> Id \cup {Null}]
  /\ at \in [Requests -> Nat]
  /\ snap \in [Requests -> SUBSET Id]
  /\ held \in [Requests -> SUBSET Id]
  /\ victims \in [Requests -> SUBSET (Id \cup {Null})]
  /\ swept \subseteq Id \cup {Null}
  /\ loggedOut \subseteq Id \cup {Null}
  /\ slipped \subseteq Id \cup {Null}

\* However handlers race, a login never has two tokens that are not revoked:
\* rotate replaces the one it was given.
OneLiveTokenPerSession ==
  \A i, j \in Live : session[i] = session[j] => i = j

\* No double spend: two rotations of one token never both leave a row, not
\* even when the old row has been pruned in between.
SingleSuccessor ==
  \A i, j \in rows : parent[i] = parent[j] /\ parent[i] # Null => i = j

\* A rotation that fails leaves no orphan: a visible successor is the one its
\* predecessor points at, and that predecessor is revoked.
NoOrphanedSuccessor ==
  \A i \in rows : parent[i] \in rows =>
    replacedBy[parent[i]] = i /\ parent[i] \in revoked

\* Pruning follows the chain: replacedById of a row still stored never dangles,
\* because a successor expires no earlier than its predecessor.
NoDanglingReplacement ==
  \A i \in rows : replacedBy[i] # Null => replacedBy[i] \in rows

\* Sessions ended by revoke or revokeAllForUser stay ended, unless one of their
\* tokens was rotated between the read or snapshot that chose them and the end
\* of the call.
EndedSessionsStayEnded ==
  \A i \in Live : session[i] \notin (swept \cup loggedOut) \ slipped

\* A stored token that was exchanged stays revoked and keeps its successor;
\* reuse detection reads exactly these two columns.
ExchangeIsFinal ==
  [][\A i \in rows \cap rows' : replacedBy[i] # Null =>
       replacedBy'[i] = replacedBy[i] /\ i \in revoked']_vars

\* Rows and open transactions, seen as sessions: a live row is a token that is
\* good, and the row of an open transaction has not been handed out.
Unpublished == {newId[r] : r \in {q \in Requests : pc[q] \in {"update", "commit"}}}
Holds       == {<<session[i], i>> : i \in Live}
Used        == (1..(nextId - 1)) \ Unpublished

Authority == INSTANCE Sessions WITH Tokens <- Id, holds <- Holds, used <- Used

\* The handlers, racing on the table, together do what the abstract authority
\* does one call at a time: every exchange takes a good token out of use in the
\* step that brings its successor, and nothing brings back a token or a session.
ImplementsSessions == Authority!Spec

\* Whoever waits in a circle for row locks runs a sweep or a prune, which lock row
\* by row in any order: however transactions and statements overlap, the database
\* never has to end a login, a rotation or a logout to break a deadlock.
DeadlocksSpareRotations ==
  \A r \in Requests : Deadlocked(r) => pc[r] \in {"revokingAll", "pruning"}

\* As documented, revokeAllForUser "kills every session for a principal".
RevokeAllKillsEverySession ==
  \A i \in Live : session[i] \notin swept

-----------------------------------------------------------------------------
(* The strengthening that makes the invariants above inductive.            *)

Allocated == 1..(nextId - 1)

\* Rows were allocated; a token is younger than its predecessor, no older than
\* the login its chain starts from, and not valid longer than TTL from now.
RowsWellFormed ==
  /\ rows \subseteq Allocated /\ revoked \subseteq Allocated
  /\ \A i \in Allocated :
       session[i] \in 1..i /\ parent[i] < i /\ expiresAt[i] <= now + TTL

\* A successor is written with the revocation and outlives its predecessor.
ReplacementsWellFormed ==
  \A i \in Id : replacedBy[i] # Null =>
    /\ i \in revoked
    /\ replacedBy[i] \in Allocated
    /\ expiresAt[i] <= expiresAt[replacedBy[i]]

\* What a handler inside rotate knows of the row it replaces and the row it
\* inserted.
RotationsWellFormed ==
  \A r \in Requests :
    /\ pc[r] \in {"issue", "insert"} => at[r] <= now + TTL
    /\ pc[r] \in {"insert", "update", "commit"} => row[r] \in Allocated
    /\ pc[r] = "insert" => expiresAt[row[r]] <= at[r]
    /\ pc[r] \in {"update", "commit"} =>
         /\ newId[r] \in Allocated \ (rows \cup revoked)
         /\ parent[newId[r]] = row[r]
         /\ \A i \in Allocated : parent[i] # newId[r]
         /\ session[newId[r]] = session[row[r]]
         /\ expiresAt[row[r]] <= expiresAt[newId[r]]
    /\ pc[r] = "commit" => row[r] \in Live

\* Open transactions inserted different rows, replace none of them, and lock
\* different rows.
TransactionsDisjoint ==
  \A r, q \in Requests : r # q =>
    /\ pc[r] \in {"update", "commit"} /\ pc[q] \in {"update", "commit"} => newId[r] # newId[q]
    /\ pc[r] \in {"insert", "update", "commit"} /\ pc[q] \in {"update", "commit"} =>
         row[r] # newId[q]
    /\ pc[r] = "commit" /\ pc[q] = "commit" => row[r] # row[q]

\* What a running statement selected: a prune takes a token along with its
\* successor and no row of an open transaction.
SnapshotsWellFormed ==
  \A r \in Requests :
    /\ snap[r] \subseteq Allocated
    /\ pc[r] = "pruning" =>
         /\ \A i \in rows : replacedBy[i] \in snap[r] \cup held[r] => i \in snap[r] \cup held[r]
         /\ \A q \in Requests : pc[q] \in {"update", "commit"} => newId[q] \notin snap[r] \cup held[r]

\* Row locks: only statements over many rows keep any besides the UPDATE of
\* rotate, on rows that exist, and no row is locked twice.
LocksWellFormed ==
  \A r \in Requests :
    /\ held[r] \subseteq rows
    /\ held[r] # {} => pc[r] \in {"revokingAll", "pruning"}
    /\ pc[r] = "commit" => row[r] \in rows
    /\ \A q \in Requests \ {r} : Locks(r) \cap Locks(q) = {}

\* A session a statement is ending has no live token but those it selected,
\* unless it slipped.
VictimsCovered ==
  /\ swept \subseteq Allocated /\ loggedOut \subseteq Allocated
  /\ \A r \in Requests :
       /\ victims[r] \subseteq Allocated
       /\ \A i \in Live : session[i] \in victims[r] \ slipped =>
            \/ pc[r] = "revoke" /\ i = row[r]
            \/ pc[r] = "revokingAll" /\ i \in snap[r] \cup held[r]

\* The inductive invariant: the safety properties and what they rest on.
IInv ==
  /\ TypeOK
  /\ RowsWellFormed
  /\ ReplacementsWellFormed
  /\ RotationsWellFormed
  /\ TransactionsDisjoint
  /\ SnapshotsWellFormed
  /\ LocksWellFormed
  /\ VictimsCovered
  /\ OneLiveTokenPerSession
  /\ SingleSuccessor
  /\ NoOrphanedSuccessor
  /\ NoDanglingReplacement
  /\ EndedSessionsStayEnded
=============================================================================
