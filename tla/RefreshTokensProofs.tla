------------------------ MODULE RefreshTokensProofs ------------------------
(***************************************************************************)
(* Proofs that the safety properties of RefreshTokens hold for every set   *)
(* of handlers and principals and every bound on ids and clock.            *)
(*                                                                         *)
(* One lemma per action shows that it preserves IInv; the theorems at the  *)
(* end are its consequences.                                               *)
(***************************************************************************)
EXTENDS RefreshTokens, TLAPS

\* The local variables a handler may hold.
LocalsOK ==
  /\ pc \in [Requests -> Labels]
  /\ who \in [Requests -> Principals \cup {NoPrincipal}]
  /\ row \in [Requests -> Id \cup {Null}]
  /\ newId \in [Requests -> Id \cup {Null}]
  /\ at \in [Requests -> Nat]
  /\ snap \in [Requests -> SUBSET Id]
  /\ held \in [Requests -> SUBSET Id]
  /\ victims \in [Requests -> SUBSET (Id \cup {Null})]

\* The other variables.
TableOK ==
  /\ now \in Nat
  /\ nextId \in 1..(MaxId + 1)
  /\ rows \subseteq Id
  /\ owner \in [Id -> Principals \cup {NoPrincipal}]
  /\ expiresAt \in [Id -> Nat]
  /\ revoked \subseteq Id
  /\ replacedBy \in [Id -> Id \cup {Null}]
  /\ parent \in [Id -> Id \cup {Null}]
  /\ session \in [Id -> Id \cup {Null}]
  /\ swept \subseteq Id \cup {Null}
  /\ loggedOut \subseteq Id \cup {Null}
  /\ slipped \subseteq Id \cup {Null}

LEMMA TypeSplit == TypeOK <=> TableOK /\ LocalsOK
BY DEF TypeOK, TableOK, LocalsOK

LEMMA TypeSplitPrimed == TypeOK' <=> TableOK' /\ LocalsOK'
BY DEF TypeOK, TableOK, LocalsOK

\* An INSERT allocates the next id and leaves the other rows alone.
LEMMA InsertEffect ==
  ASSUME TypeOK, NEW p \in Principals \cup {NoPrincipal}, NEW t \in Nat,
         NEW par \in Id \cup {Null}, Insert(p, t, par)
  PROVE  /\ nextId \in Id \ Allocated
         /\ Allocated' = Allocated \cup {nextId}
         /\ nextId' \in 1..(MaxId + 1)
         /\ owner' \in [Id -> Principals \cup {NoPrincipal}]
         /\ expiresAt' \in [Id -> Nat]
         /\ parent' \in [Id -> Id \cup {Null}]
         /\ session' \in [Id -> Id \cup {Null}]
         /\ expiresAt'[nextId] = t
         /\ parent'[nextId] = par
         /\ session'[nextId] = IF par = Null THEN nextId ELSE session[par]
         /\ \A i \in Allocated : /\ expiresAt'[i] = expiresAt[i]
                                 /\ parent'[i] = parent[i]
                                 /\ session'[i] = session[i]
<1> USE RefreshTokensAssumption DEF TypeOK, Insert, Id, Null, Allocated
<1>1. nextId \in Id \ Allocated /\ Allocated' = Allocated \cup {nextId} /\ nextId' \in 1..(MaxId + 1)
  OBVIOUS
<1>2. /\ owner' \in [Id -> Principals \cup {NoPrincipal}]
      /\ expiresAt' \in [Id -> Nat]
      /\ parent' \in [Id -> Id \cup {Null}]
      /\ session' \in [Id -> Id \cup {Null}]
  BY <1>1
<1>3. /\ expiresAt'[nextId] = t
      /\ parent'[nextId] = par
      /\ session'[nextId] = IF par = Null THEN nextId ELSE session[par]
  BY <1>1
<1>4. \A i \in Allocated : /\ expiresAt'[i] = expiresAt[i]
                           /\ parent'[i] = parent[i]
                           /\ session'[i] = session[i]
  BY <1>1
<1> QED
  BY <1>1, <1>2, <1>3, <1>4

-----------------------------------------------------------------------------
\* A step that writes neither the table nor the history keeps every invariant
\* about them.
LEMMA Frame ==
  ASSUME IInv, UNCHANGED <<now, inserted, table, ended, slipped>>
  PROVE  /\ RowsWellFormed' /\ ReplacementsWellFormed' /\ OneLiveTokenPerSession'
         /\ SingleSuccessor' /\ NoOrphanedSuccessor' /\ NoDanglingReplacement'
         /\ EndedSessionsStayEnded'
BY DEF IInv, inserted, table, ended, Live, Allocated, RowsWellFormed,
       ReplacementsWellFormed, OneLiveTokenPerSession, SingleSuccessor, NoOrphanedSuccessor,
       NoDanglingReplacement, EndedSessionsStayEnded

\* A step after which the handler is in no transaction, or has locked nothing yet,
\* leaves it without locks, and the others with theirs.
LEMMA Unlocks ==
  ASSUME IInv, NEW r \in Requests, NEW l \in Labels \ {"commit"}, NEW i,
         pc' = [pc EXCEPT ![r] = l], row' = [row EXCEPT ![r] = i],
         held' = [held EXCEPT ![r] = {}],
         \A q \in Requests \ {r} : Locks(q) \subseteq rows'
  PROVE  LocksWellFormed'
<1> USE DEF IInv, TypeOK
<1>1. Locks(r)' = {} /\ held'[r] = {} /\ pc'[r] # "commit"
  BY DEF Locks
<1>2. ASSUME NEW q \in Requests \ {r}
      PROVE  Locks(q)' = Locks(q) /\ held'[q] = held[q] /\ pc'[q] = pc[q] /\ row'[q] = row[q]
  BY <1>2 DEF Locks
<1>3. ASSUME NEW q \in Requests \ {r}
      PROVE  held[q] \subseteq rows' /\ (pc[q] = "commit" => row[q] \in rows')
  BY <1>3 DEF Locks
<1> QED
  BY <1>1, <1>2, <1>3 DEF LocksWellFormed

\* Nobody else's locks are in danger where no row is deleted.
LEMMA LocksStored ==
  ASSUME IInv, NEW q \in Requests
  PROVE  Locks(q) \subseteq rows
BY DEF IInv, LocksWellFormed, Locks

\* issue captures its expiry.
LEMMA IssueStep ==
  ASSUME IInv, NEW r \in Requests, NEW p \in Principals, Issue(r, p)
  PROVE  IInv'
<1> USE RefreshTokensAssumption DEF Issue, Goto, inserted, table, ended, IInv
<1>1. TypeOK'
  <2>1. TableOK /\ LocalsOK /\ now + TTL \in Nat
    BY TypeSplit DEF TableOK
  <2>2. LocalsOK'
    BY <2>1 DEF TableOK, LocalsOK, Labels, Null
  <2>3. TableOK'
    BY <2>1 DEF TableOK
  <2> QED
    BY <2>2, <2>3, TypeSplitPrimed
<1>2. RotationsWellFormed'
  BY DEF TypeOK, RotationsWellFormed, Allocated, Live
<1>3. TransactionsDisjoint'
  BY DEF TypeOK, TransactionsDisjoint
<1>4. SnapshotsWellFormed'
  BY DEF TypeOK, SnapshotsWellFormed, Allocated, Live
<1>4a. LocksWellFormed'
  <2>1. /\ pc' = [pc EXCEPT ![r] = "issue"]
        /\ row' = [row EXCEPT ![r] = Null]
        /\ held' = [held EXCEPT ![r] = {}]
        /\ UNCHANGED rows
    OBVIOUS
  <2>2. "issue" \in Labels \ {"commit"}
    BY DEF Labels
  <2> HIDE DEF Issue, Goto
  <2> QED
    BY <2>1, <2>2, LocksStored, Unlocks
<1>5. VictimsCovered'
  BY DEF TypeOK, VictimsCovered, Allocated, Live
<1> QED
  BY Frame, <1>1, <1>2, <1>3, <1>4, <1>5, <1>4a

\* revokeAllForUser is called.
LEMMA RevokeAllForUserStep ==
  ASSUME IInv, NEW r \in Requests, NEW p \in Principals, RevokeAllForUser(r, p)
  PROVE  IInv'
<1> USE RefreshTokensAssumption DEF RevokeAllForUser, Goto, inserted, table, ended, IInv
<1>1. TypeOK'
  BY DEF TypeOK, Id, Null, Labels
<1>2. RotationsWellFormed'
  BY DEF TypeOK, RotationsWellFormed, Allocated, Live
<1>3. TransactionsDisjoint'
  BY DEF TypeOK, TransactionsDisjoint
<1>4. SnapshotsWellFormed'
  BY DEF TypeOK, SnapshotsWellFormed, Allocated, Live
<1>4a. LocksWellFormed'
  <2>1. /\ pc' = [pc EXCEPT ![r] = "revokeAll"]
        /\ row' = [row EXCEPT ![r] = Null]
        /\ held' = [held EXCEPT ![r] = {}]
        /\ UNCHANGED rows
    OBVIOUS
  <2>2. "revokeAll" \in Labels \ {"commit"}
    BY DEF Labels
  <2> HIDE DEF RevokeAllForUser, Goto
  <2> QED
    BY <2>1, <2>2, LocksStored, Unlocks
<1>5. VictimsCovered'
  BY DEF TypeOK, VictimsCovered, Allocated, Live
<1> QED
  BY Frame, <1>1, <1>2, <1>3, <1>4, <1>5, <1>4a

\* rotate is given a token already exchanged and turns to revokeAllForUser.
LEMMA RotateReuseStep ==
  ASSUME IInv, NEW r \in Requests, NEW i \in Id, RotateReuse(r, i)
  PROVE  IInv'
<1> USE RefreshTokensAssumption DEF RotateReuse, Goto, inserted, table, ended, IInv
<1>1. TypeOK'
  BY DEF TypeOK, Id, Null, Labels
<1>2. RotationsWellFormed'
  <2>1. pc'[r] = "revokeAll" /\ row'[r] = Null /\ newId'[r] = Null
        /\ \A q \in Requests \ {r} :
             pc'[q] = pc[q] /\ row'[q] = row[q] /\ newId'[q] = newId[q] /\ at'[q] = at[q]
    BY DEF TypeOK
  <2>2. Allocated' = Allocated /\ Live' = Live
    BY DEF Allocated, Live
  <2> HIDE DEF RotateReuse, Goto
  <2>3. UNCHANGED <<now, rows, revoked, parent, session, expiresAt>>
    BY DEF RotateReuse
  <2> QED
    BY <2>1, <2>2, <2>3 DEF RotationsWellFormed
<1>3. TransactionsDisjoint'
  BY DEF TypeOK, TransactionsDisjoint
<1>4. SnapshotsWellFormed'
  BY DEF TypeOK, SnapshotsWellFormed, Allocated, Live
<1>4a. LocksWellFormed'
  <2>1. /\ pc' = [pc EXCEPT ![r] = "revokeAll"]
        /\ row' = [row EXCEPT ![r] = Null]
        /\ held' = [held EXCEPT ![r] = {}]
        /\ UNCHANGED rows
    OBVIOUS
  <2>2. "revokeAll" \in Labels \ {"commit"}
    BY DEF Labels
  <2> HIDE DEF RotateReuse, Goto
  <2> QED
    BY <2>1, <2>2, LocksStored, Unlocks
<1>5. VictimsCovered'
  BY DEF TypeOK, VictimsCovered, Allocated, Live
<1> QED
  BY Frame, <1>1, <1>2, <1>3, <1>4, <1>5, <1>4a

\* rotate reads a token it will try to exchange.
LEMMA RotateLookupStep ==
  ASSUME IInv, NEW r \in Requests, NEW i \in Id, RotateLookup(r, i)
  PROVE  IInv'
<1> USE RefreshTokensAssumption DEF RotateLookup, Live, Goto, inserted, table, ended, IInv
<1>1. TypeOK'
  <2>1. TableOK /\ LocalsOK /\ now + TTL \in Nat
    BY TypeSplit DEF TableOK
  <2>2. LocalsOK'
    BY <2>1 DEF TableOK, LocalsOK, Labels, Null
  <2>3. TableOK'
    BY <2>1 DEF TableOK
  <2> QED
    BY <2>2, <2>3, TypeSplitPrimed
<1>2. RotationsWellFormed'
  BY DEF TypeOK, RowsWellFormed, RotationsWellFormed, TransactionsDisjoint, Allocated
<1>3. TransactionsDisjoint'
  BY DEF TypeOK, RotationsWellFormed, TransactionsDisjoint
<1>4. SnapshotsWellFormed'
  BY DEF TypeOK, SnapshotsWellFormed, Allocated
<1>4a. LocksWellFormed'
  <2>1. /\ pc' = [pc EXCEPT ![r] = "insert"]
        /\ row' = [row EXCEPT ![r] = i]
        /\ held' = [held EXCEPT ![r] = {}]
        /\ UNCHANGED rows
    OBVIOUS
  <2>2. "insert" \in Labels \ {"commit"}
    BY DEF Labels
  <2> HIDE DEF RotateLookup, Goto
  <2> QED
    BY <2>1, <2>2, LocksStored, Unlocks
<1>5. VictimsCovered'
  BY DEF TypeOK, VictimsCovered, Allocated
<1> QED
  BY Frame, <1>1, <1>2, <1>3, <1>4, <1>5, <1>4a

\* revoke reads a live token; it is the only one of its session.
LEMMA RevokeLookupStep ==
  ASSUME IInv, NEW r \in Requests, NEW i \in Id, RevokeLookup(r, i)
  PROVE  IInv'
<1> USE RefreshTokensAssumption DEF RevokeLookup, SessionsOf, Live, Goto, inserted, table,
    ended, IInv
<1>1. TypeOK'
  <2>1. TableOK /\ LocalsOK /\ now + TTL \in Nat
    BY TypeSplit DEF TableOK
  <2>2. LocalsOK'
    BY <2>1 DEF TableOK, LocalsOK, Labels, Null
  <2>3. TableOK'
    BY <2>1 DEF TableOK
  <2> QED
    BY <2>2, <2>3, TypeSplitPrimed
<1>2. RotationsWellFormed'
  BY DEF TypeOK, RotationsWellFormed, Allocated
<1>3. TransactionsDisjoint'
  BY DEF TypeOK, TransactionsDisjoint
<1>4. SnapshotsWellFormed'
  BY DEF TypeOK, SnapshotsWellFormed, Allocated
<1>4a. LocksWellFormed'
  <2>1. /\ pc' = [pc EXCEPT ![r] = "revoke"]
        /\ row' = [row EXCEPT ![r] = i]
        /\ held' = [held EXCEPT ![r] = {}]
        /\ UNCHANGED rows
    OBVIOUS
  <2>2. "revoke" \in Labels \ {"commit"}
    BY DEF Labels
  <2> HIDE DEF RevokeLookup, Goto
  <2> QED
    BY <2>1, <2>2, LocksStored, Unlocks
<1>5. VictimsCovered'
  BY DEF TypeOK, RowsWellFormed, RotationsWellFormed, TransactionsDisjoint, VictimsCovered,
      OneLiveTokenPerSession, Allocated
<1> QED
  BY Frame, <1>1, <1>2, <1>3, <1>4, <1>5, <1>4a

\* pruneExpiredTokens selects a predecessor whenever it selects its successor.
LEMMA PruneBeginStep ==
  ASSUME IInv, NEW r \in Requests, PruneBegin(r)
  PROVE  IInv'
<1> USE RefreshTokensAssumption DEF PruneBegin, Stale, Goto, inserted, table, ended, IInv
<1>1. TypeOK'
  BY DEF TypeOK, Id, Null, Labels
<1>2. RotationsWellFormed'
  BY DEF TypeOK, RotationsWellFormed, Allocated, Live
<1>3. TransactionsDisjoint'
  BY DEF TypeOK, TransactionsDisjoint
<1>4. SnapshotsWellFormed'
  <2> DEFINE stale == {i \in Id : Stale(i, now)}
  <2>1. /\ snap' = [snap EXCEPT ![r] = stale]
        /\ held' = [held EXCEPT ![r] = {}]
        /\ pc' = [pc EXCEPT ![r] = "pruning"]
        /\ newId' = [newId EXCEPT ![r] = Null]
        /\ UNCHANGED <<rows, replacedBy, nextId>>
    OBVIOUS
  <2>2. stale \subseteq rows /\ stale \subseteq Allocated /\ Allocated' = Allocated
    BY DEF RowsWellFormed, Allocated
  <2>3. ASSUME NEW i \in rows, replacedBy[i] \in stale PROVE i \in stale
    <3>1. i \in Id /\ replacedBy[i] \in Id /\ replacedBy[i] # Null
      BY <2>3 DEF TypeOK, Id, Null
    <3>2. expiresAt[i] <= expiresAt[replacedBy[i]] /\ expiresAt[replacedBy[i]] < now
      BY <2>3, <3>1 DEF ReplacementsWellFormed
    <3>3. expiresAt[i] \in Nat /\ expiresAt[replacedBy[i]] \in Nat /\ now \in Nat
      BY <3>1 DEF TypeOK
    <3> QED
      BY <3>1, <3>2, <3>3
  <2>4. \A q \in Requests : pc[q] \in {"update", "commit"} => newId[q] \notin stale
    BY <2>2 DEF RotationsWellFormed
  <2>5. /\ snap'[r] = stale /\ held'[r] = {}
        /\ \A q \in Requests \ {r} :
             /\ snap'[q] = snap[q] /\ held'[q] = held[q]
             /\ pc'[q] = pc[q] /\ newId'[q] = newId[q]
        /\ pc'[r] = "pruning"
    BY <2>1 DEF TypeOK
  <2> HIDE DEF PruneBegin, Stale, Goto, stale
  <2> QED
    BY <2>1, <2>2, <2>3, <2>4, <2>5 DEF SnapshotsWellFormed
<1>4a. LocksWellFormed'
  <2>1. /\ pc' = [pc EXCEPT ![r] = "pruning"]
        /\ row' = [row EXCEPT ![r] = Null]
        /\ held' = [held EXCEPT ![r] = {}]
        /\ UNCHANGED rows
    OBVIOUS
  <2>2. "pruning" \in Labels \ {"commit"}
    BY DEF Labels
  <2> HIDE DEF PruneBegin, Goto
  <2> QED
    BY <2>1, <2>2, LocksStored, Unlocks
<1>5. VictimsCovered'
  BY DEF TypeOK, VictimsCovered, Allocated, Live
<1> QED
  BY Frame, <1>1, <1>2, <1>3, <1>4, <1>5, <1>4a

\* The conditional UPDATE takes the lock of a live row nobody else has locked.
LEMMA RotateUpdateStep ==
  ASSUME IInv, NEW r \in Requests, RotateUpdate(r)
  PROVE  IInv'
<1> USE RefreshTokensAssumption DEF RotateUpdate, Goto, inserted, table, ended, IInv
<1>1. TypeOK'
  BY DEF TypeOK, Id, Null, Labels
<1>2. RotationsWellFormed'
  <2>1. pc'[r] = "commit" /\ row'[r] = row[r] /\ newId'[r] = newId[r]
        /\ \A q \in Requests \ {r} :
             pc'[q] = pc[q] /\ row'[q] = row[q] /\ newId'[q] = newId[q] /\ at'[q] = at[q]
    BY DEF TypeOK
  <2>2. Allocated' = Allocated /\ Live' = Live /\ row[r] \in Live /\ pc[r] = "update"
    BY DEF Allocated, Live, Unspent
  <2> HIDE DEF RotateUpdate, Goto
  <2>3. UNCHANGED <<now, rows, revoked, parent, session, expiresAt>>
    BY DEF RotateUpdate
  <2> QED
    BY <2>1, <2>2, <2>3 DEF RotationsWellFormed
<1>3. TransactionsDisjoint'
  BY DEF TypeOK, TransactionsDisjoint, Id, Null, Labels, Allocated, Live, Writable, Locked,
      Locks, Unspent
<1>4. SnapshotsWellFormed'
  BY DEF TypeOK, SnapshotsWellFormed, Allocated, Live
<1>4a. LocksWellFormed'
  <2>1. /\ pc'[r] = "commit" /\ row'[r] = row[r] /\ held'[r] = {}
        /\ \A q \in Requests \ {r} :
             pc'[q] = pc[q] /\ row'[q] = row[q] /\ held'[q] = held[q]
        /\ row[r] \in rows /\ UNCHANGED rows
    BY DEF TypeOK, Unspent, Live
  <2>2. \A q \in Requests : row[r] \notin Locks(q)
    BY DEF Writable, Locked
  <2> HIDE DEF RotateUpdate, Goto
  <2>3. Locks(r)' = {row[r]} /\ \A q \in Requests \ {r} : Locks(q)' = Locks(q)
    BY <2>1 DEF Locks
  <2> QED
    BY <2>1, <2>2, <2>3 DEF LocksWellFormed
<1>5. VictimsCovered'
  BY DEF TypeOK, VictimsCovered, Allocated, Live
<1> QED
  BY Frame, <1>1, <1>2, <1>3, <1>4, <1>4a, <1>5

\* The loser's transaction disappears.
LEMMA RotateLoseStep ==
  ASSUME IInv, NEW r \in Requests, RotateLose(r)
  PROVE  IInv'
<1> USE RefreshTokensAssumption DEF RotateLose, Goto, Return, inserted, table, ended, IInv
<1>1. TypeOK'
  BY DEF TypeOK, Id, Null, Labels
<1>2. RotationsWellFormed'
  BY DEF TypeOK, RotationsWellFormed, Allocated, Live
<1>3. TransactionsDisjoint'
  BY DEF TypeOK, TransactionsDisjoint
<1>4. SnapshotsWellFormed'
  BY DEF TypeOK, SnapshotsWellFormed, Allocated, Live
<1>4a. LocksWellFormed'
  <2>1. /\ pc' = [pc EXCEPT ![r] = "idle"]
        /\ row' = [row EXCEPT ![r] = Null]
        /\ held' = [held EXCEPT ![r] = {}]
        /\ UNCHANGED rows
    OBVIOUS
  <2>2. "idle" \in Labels \ {"commit"}
    BY DEF Labels
  <2> HIDE DEF RotateLose, Goto, Return
  <2> QED
    BY <2>1, <2>2, LocksStored, Unlocks
<1>5. VictimsCovered'
  BY DEF TypeOK, VictimsCovered, Allocated, Live
<1> QED
  BY Frame, <1>1, <1>2, <1>3, <1>4, <1>5, <1>4a

\* revoke ends its session: the row it read was the only live one.
LEMMA RevokeUpdateStep ==
  ASSUME IInv, NEW r \in Requests, RevokeUpdate(r)
  PROVE  IInv'
<1> USE RefreshTokensAssumption DEF RevokeUpdate, Goto, Return, inserted, table, ended, IInv
<1>1. TypeOK'
  BY DEF TypeOK, Id, Null, Labels
<1>2. RowsWellFormed'
  BY DEF TypeOK, RowsWellFormed, Allocated, Live
<1>3. ReplacementsWellFormed'
  BY DEF TypeOK, ReplacementsWellFormed, Allocated, Live
<1>4. RotationsWellFormed'
  BY DEF TypeOK, RotationsWellFormed, Id, Null, Labels, Allocated, Live, Writable, Locked, Locks, LocksWellFormed
<1>5. TransactionsDisjoint'
  BY DEF TypeOK, TransactionsDisjoint
<1>6. SnapshotsWellFormed'
  BY DEF TypeOK, SnapshotsWellFormed, Allocated, Live
<1>4a. LocksWellFormed'
  <2>1. /\ pc' = [pc EXCEPT ![r] = "idle"]
        /\ row' = [row EXCEPT ![r] = Null]
        /\ held' = [held EXCEPT ![r] = {}]
        /\ UNCHANGED rows
    OBVIOUS
  <2>2. "idle" \in Labels \ {"commit"}
    BY DEF Labels
  <2> HIDE DEF RevokeUpdate, Goto, Return
  <2> QED
    BY <2>1, <2>2, LocksStored, Unlocks
<1>7. VictimsCovered'
  <2>1. /\ Live' = Live \ {row[r]}
        /\ loggedOut' = loggedOut \cup victims[r]
        /\ victims' = [victims EXCEPT ![r] = {}]
        /\ row' = [row EXCEPT ![r] = Null]
        /\ snap' = [snap EXCEPT ![r] = {}]
        /\ held' = [held EXCEPT ![r] = {}]
        /\ pc' = [pc EXCEPT ![r] = "idle"]
        /\ UNCHANGED <<nextId, session, swept, slipped>>
    BY DEF Live
  <2> HIDE DEF RevokeUpdate, Goto, Return
  <2> QED
    BY <2>1 DEF TypeOK, VictimsCovered, Allocated
<1>8. OneLiveTokenPerSession'
  BY DEF TypeOK, OneLiveTokenPerSession, Allocated, Live
<1>9. SingleSuccessor'
  BY DEF TypeOK, SingleSuccessor
<1>10. NoOrphanedSuccessor'
  BY DEF TypeOK, NoOrphanedSuccessor
<1>11. NoDanglingReplacement'
  BY DEF TypeOK, NoDanglingReplacement
<1>12. EndedSessionsStayEnded'
  BY DEF TypeOK, RowsWellFormed, RotationsWellFormed, VictimsCovered,
      EndedSessionsStayEnded, Allocated, Live
<1> QED
  BY <1>1, <1>2, <1>3, <1>4, <1>5, <1>4a, <1>6, <1>7, <1>8, <1>9, <1>10, <1>11, <1>12

\* revokeAllForUser selects every live row of the sessions it is to end.
LEMMA RevokeAllBeginStep ==
  ASSUME IInv, NEW r \in Requests, RevokeAllBegin(r)
  PROVE  IInv'
<1> USE RefreshTokensAssumption DEF RevokeAllBegin, SessionsOf, Live, Goto, inserted,
    table, ended, IInv
<1>1. TypeOK'
  <2>1. TableOK /\ LocalsOK /\ now + TTL \in Nat
    BY TypeSplit DEF TableOK
  <2>2. LocalsOK'
    BY <2>1 DEF TableOK, LocalsOK, Labels, Null
  <2>3. TableOK'
    BY <2>1 DEF TableOK
  <2> QED
    BY <2>2, <2>3, TypeSplitPrimed
<1>2. RotationsWellFormed'
  BY DEF TypeOK, RotationsWellFormed, Allocated
<1>3. TransactionsDisjoint'
  BY DEF TypeOK, TransactionsDisjoint
<1>4. SnapshotsWellFormed'
  <2> DEFINE mine == {i \in Live : owner[i] = who[r]}
  <2>1. /\ snap'[r] = mine /\ pc'[r] = "revokingAll"
        /\ \A q \in Requests \ {r} :
             /\ snap'[q] = snap[q] /\ held'[q] = held[q]
             /\ pc'[q] = pc[q] /\ newId'[q] = newId[q]
        /\ UNCHANGED <<rows, replacedBy, nextId>>
    BY DEF TypeOK
  <2>2. mine \subseteq Allocated /\ Allocated' = Allocated
    BY DEF RowsWellFormed, Allocated
  <2> HIDE DEF RevokeAllBegin, Goto, mine
  <2> QED
    BY <2>1, <2>2 DEF SnapshotsWellFormed
<1>4a. LocksWellFormed'
  <2>1. /\ pc' = [pc EXCEPT ![r] = "revokingAll"]
        /\ row' = [row EXCEPT ![r] = Null]
        /\ held' = [held EXCEPT ![r] = {}]
        /\ UNCHANGED rows
    OBVIOUS
  <2>2. "revokingAll" \in Labels \ {"commit"}
    BY DEF Labels
  <2> HIDE DEF RevokeAllBegin, Goto
  <2> QED
    BY <2>1, <2>2, LocksStored, Unlocks
<1>5. VictimsCovered'
  BY DEF TypeOK, RowsWellFormed, RotationsWellFormed, TransactionsDisjoint, VictimsCovered,
      OneLiveTokenPerSession, Allocated
<1> QED
  BY Frame, <1>1, <1>2, <1>3, <1>4, <1>5, <1>4a

\* revokeAllForUser ends its sessions: what it selected is revoked.
LEMMA RevokeAllEndStep ==
  ASSUME IInv, NEW r \in Requests, RevokeAllEnd(r)
  PROVE  IInv'
<1> USE RefreshTokensAssumption DEF RevokeAllEnd, Goto, Return, inserted, table, ended, IInv
<1>1. TypeOK'
  BY DEF TypeOK, Id, Null, Labels
<1>2. RowsWellFormed'
  BY DEF TypeOK, RowsWellFormed, LocksWellFormed, Allocated, Live
<1>3. ReplacementsWellFormed'
  BY DEF TypeOK, ReplacementsWellFormed, Allocated, Live
<1>4. RotationsWellFormed'
  BY DEF TypeOK, RotationsWellFormed, Id, Null, Labels, Allocated, Live, Writable, Locked, Locks, LocksWellFormed
<1>5. TransactionsDisjoint'
  BY DEF TypeOK, TransactionsDisjoint
<1>6. SnapshotsWellFormed'
  BY DEF TypeOK, SnapshotsWellFormed, Allocated, Live
<1>4a. LocksWellFormed'
  <2>1. /\ pc' = [pc EXCEPT ![r] = "idle"]
        /\ row' = [row EXCEPT ![r] = Null]
        /\ held' = [held EXCEPT ![r] = {}]
        /\ UNCHANGED rows
    OBVIOUS
  <2>2. "idle" \in Labels \ {"commit"}
    BY DEF Labels
  <2> HIDE DEF RevokeAllEnd, Goto, Return
  <2> QED
    BY <2>1, <2>2, LocksStored, Unlocks
<1>7. VictimsCovered'
  <2>1. /\ Live' = Live \ held[r]
        /\ swept' = swept \cup victims[r]
        /\ victims' = [victims EXCEPT ![r] = {}]
        /\ row' = [row EXCEPT ![r] = Null]
        /\ snap[r] = {}
        /\ snap' = [snap EXCEPT ![r] = {}]
        /\ held' = [held EXCEPT ![r] = {}]
        /\ pc' = [pc EXCEPT ![r] = "idle"]
        /\ UNCHANGED <<nextId, session, loggedOut, slipped>>
    BY DEF Live
  <2> HIDE DEF RevokeAllEnd, Goto, Return
  <2> QED
    BY <2>1 DEF TypeOK, VictimsCovered, Allocated
<1>8. OneLiveTokenPerSession'
  BY DEF TypeOK, OneLiveTokenPerSession, Allocated, Live
<1>9. SingleSuccessor'
  BY DEF TypeOK, SingleSuccessor
<1>10. NoOrphanedSuccessor'
  BY DEF TypeOK, NoOrphanedSuccessor
<1>11. NoDanglingReplacement'
  BY DEF TypeOK, NoDanglingReplacement
<1>12. EndedSessionsStayEnded'
  BY DEF TypeOK, RowsWellFormed, RotationsWellFormed, VictimsCovered,
      EndedSessionsStayEnded, Allocated, Live
<1> QED
  BY <1>1, <1>2, <1>3, <1>4, <1>5, <1>4a, <1>6, <1>7, <1>8, <1>9, <1>10, <1>11, <1>12

\* A statement over many rows locks one of them, or passes over one that no longer
\* matches: no row it passes over is live, or stored.
LEMMA LockRowStep ==
  ASSUME IInv, NEW r \in Requests, NEW i \in Id, RevokeAllRow(r, i) \/ PruneRow(r, i)
  PROVE  IInv'
<1> USE RefreshTokensAssumption DEF IInv
<1>1. \E still \in {Live, rows} :
        /\ \/ still = Live /\ pc[r] = "revokingAll"
           \/ still = rows /\ pc[r] = "pruning"
        /\ LockRow(r, i, still)
  BY DEF RevokeAllRow, PruneRow
<1>2. PICK still \in {Live, rows} :
        /\ \/ still = Live /\ pc[r] = "revokingAll"
           \/ still = rows /\ pc[r] = "pruning"
        /\ LockRow(r, i, still)
  BY <1>1
<1>3. /\ i \in snap[r] /\ \A q \in Requests : i \notin Locks(q)
      /\ snap'[r] = snap[r] \ {i} /\ held'[r] = held[r] \cup ({i} \cap still)
      /\ \A q \in Requests \ {r} : snap'[q] = snap[q] /\ held'[q] = held[q]
      /\ snap' \in [Requests -> SUBSET Id] /\ held' \in [Requests -> SUBSET Id]
      /\ UNCHANGED <<now, inserted, table, pc, who, row, newId, at, victims, ended, slipped>>
  BY <1>2 DEF LockRow, Writable, Locked, TypeOK
<1>4. /\ UNCHANGED <<nextId, owner, expiresAt, parent, session, rows, revoked, replacedBy,
                     swept, loggedOut, Live, Allocated>>
      /\ still \subseteq rows
  BY <1>3 DEF inserted, table, ended, Live, Allocated
<1>5. TypeOK'
  BY <1>3, <1>4 DEF TypeOK
<1>6. RotationsWellFormed' /\ TransactionsDisjoint'
  BY <1>3, <1>4 DEF RotationsWellFormed, TransactionsDisjoint
<1>7. SnapshotsWellFormed'
  <2>1. ASSUME NEW q \in Requests
        PROVE  /\ snap'[q] \subseteq snap[q]
               /\ snap'[q] \cup held'[q] \subseteq snap[q] \cup held[q]
    BY <1>3
  <2>2. ASSUME NEW q \in Requests, pc[q] = "pruning", NEW j \in rows,
               replacedBy[j] \in snap'[q] \cup held'[q]
        PROVE  j \in snap'[q] \cup held'[q]
    <3>1. j \in snap[q] \cup held[q]
      BY <2>1, <2>2 DEF SnapshotsWellFormed
    <3> QED
      BY <1>2, <1>3, <2>2, <3>1
  <2> QED
    BY <1>3, <1>4, <2>1, <2>2 DEF SnapshotsWellFormed
<1>8. LocksWellFormed'
  <2>1. Locks(r)' \subseteq Locks(r) \cup {i} /\ \A q \in Requests \ {r} : Locks(q)' = Locks(q)
    BY <1>3 DEF Locks
  <2>2. ASSUME NEW q \in Requests, NEW p \in Requests \ {q}
        PROVE  Locks(q)' \cap Locks(p)' = {}
    BY <1>3, <2>1 DEF LocksWellFormed
  <2>3. held'[r] \subseteq rows /\ pc[r] \in {"revokingAll", "pruning"}
    BY <1>2, <1>3, <1>4 DEF LocksWellFormed
  <2> QED
    BY <1>3, <1>4, <2>2, <2>3 DEF LocksWellFormed
<1>9. VictimsCovered'
  <2>1. ASSUME pc[r] = "revokingAll", NEW j \in Live, j \in snap[r] \cup held[r]
        PROVE  j \in snap'[r] \cup held'[r]
    BY <1>2, <1>3, <2>1
  <2> QED
    BY <1>3, <1>4, <2>1 DEF VictimsCovered
<1> QED
  BY Frame, <1>3, <1>5, <1>6, <1>7, <1>8, <1>9

\* The prune deletes what it selected, none of it locked.
LEMMA PruneEndStep ==
  ASSUME IInv, NEW r \in Requests, PruneEnd(r)
  PROVE  IInv'
<1> USE RefreshTokensAssumption DEF PruneEnd, Goto, Return, inserted, table, ended, IInv
<1>1. TypeOK'
  BY DEF TypeOK, Id, Null, Labels
<1>2. RowsWellFormed'
  BY DEF TypeOK, RowsWellFormed, Allocated, Live
<1>3. ReplacementsWellFormed'
  BY DEF TypeOK, ReplacementsWellFormed, Allocated, Live
<1>4. RotationsWellFormed'
  BY DEF TypeOK, RotationsWellFormed, Id, Null, Labels, Allocated, Live, Writable, Locked, Locks, LocksWellFormed
<1>5. TransactionsDisjoint'
  BY DEF TypeOK, TransactionsDisjoint
<1>6. SnapshotsWellFormed'
  BY DEF TypeOK, SnapshotsWellFormed, Allocated, Live
<1>6a. LocksWellFormed'
  <2>1. /\ pc' = [pc EXCEPT ![r] = "idle"]
        /\ row' = [row EXCEPT ![r] = Null]
        /\ held' = [held EXCEPT ![r] = {}]
        /\ rows' = rows \ held[r]
    OBVIOUS
  <2>2. "idle" \in Labels \ {"commit"}
    BY DEF Labels
  <2>3. \A q \in Requests \ {r} : Locks(q) \subseteq rows'
    BY <2>1, LocksStored DEF LocksWellFormed, Locks
  <2> HIDE DEF PruneEnd, Goto, Return
  <2> QED
    BY <2>1, <2>2, <2>3, Unlocks
<1>7. VictimsCovered'
  BY DEF TypeOK, VictimsCovered, Allocated, Live
<1>8. OneLiveTokenPerSession'
  BY DEF TypeOK, OneLiveTokenPerSession, Allocated, Live
<1>9. SingleSuccessor'
  BY DEF TypeOK, SingleSuccessor
<1>10. NoOrphanedSuccessor'
  BY DEF TypeOK, NoOrphanedSuccessor
<1>11. NoDanglingReplacement'
  BY DEF TypeOK, ReplacementsWellFormed, RotationsWellFormed, SnapshotsWellFormed,
      NoDanglingReplacement, RowsWellFormed
<1>12. EndedSessionsStayEnded'
  BY DEF TypeOK, EndedSessionsStayEnded, Allocated, Live
<1> QED
  BY <1>1, <1>2, <1>3, <1>4, <1>5, <1>6, <1>6a, <1>7, <1>8, <1>9, <1>10, <1>11, <1>12

\* A handler dies, or the database ends its statement.
LEMMA AbortStep ==
  ASSUME IInv, NEW r \in Requests, Abort(r) \/ DeadlockDetected(r)
  PROVE  IInv'
<1> USE RefreshTokensAssumption DEF Goto, Return, inserted, table, ended, IInv
<1>0. Return(r) /\ UNCHANGED <<now, inserted, table, ended, slipped>>
  BY DEF Abort, DeadlockDetected
<1>1. TypeOK'
  BY <1>0 DEF TypeOK, Id, Null, Labels
<1>2. RotationsWellFormed'
  BY <1>0 DEF TypeOK, RotationsWellFormed, Allocated, Live
<1>3. TransactionsDisjoint'
  BY <1>0 DEF TypeOK, TransactionsDisjoint
<1>4. SnapshotsWellFormed'
  BY <1>0 DEF TypeOK, SnapshotsWellFormed, Allocated, Live
<1>4a. LocksWellFormed'
  <2>1. /\ pc' = [pc EXCEPT ![r] = "idle"]
        /\ row' = [row EXCEPT ![r] = Null]
        /\ held' = [held EXCEPT ![r] = {}]
        /\ UNCHANGED rows
    BY <1>0
  <2>2. "idle" \in Labels \ {"commit"}
    BY DEF Labels
  <2> HIDE DEF Goto, Return
  <2> QED
    BY <2>1, <2>2, LocksStored, Unlocks
<1>5. VictimsCovered'
  BY <1>0 DEF TypeOK, VictimsCovered, Allocated, Live
<1> QED
  BY <1>0, Frame, <1>1, <1>2, <1>3, <1>4, <1>5, <1>4a

\* The INSERT of a login starts a session of its own.
LEMMA IssueInsertStep ==
  ASSUME IInv, NEW r \in Requests, IssueInsert(r)
  PROVE  IInv'
<1> DEFINE n == nextId
<1> USE RefreshTokensAssumption DEF IInv
<1>1. /\ who[r] \in Principals \cup {NoPrincipal} /\ at[r] \in Nat /\ Null \in Id \cup {Null}
      /\ Insert(who[r], at[r], Null) /\ TypeOK
  BY DEF TypeOK, IssueInsert
<1>2. /\ n \in Id \ Allocated
      /\ Allocated' = Allocated \cup {n}
      /\ nextId' \in 1..(MaxId + 1)
      /\ owner' \in [Id -> Principals \cup {NoPrincipal}]
      /\ expiresAt' \in [Id -> Nat]
      /\ parent' \in [Id -> Id \cup {Null}]
      /\ session' \in [Id -> Id \cup {Null}]
      /\ expiresAt'[n] = at[r]
      /\ parent'[n] = Null
      /\ session'[n] = n
      /\ \A i \in Allocated : /\ expiresAt'[i] = expiresAt[i]
                              /\ parent'[i] = parent[i]
                              /\ session'[i] = session[i]
  BY <1>1, InsertEffect
<1>3. /\ pc[r] = "issue"
      /\ rows' = rows \cup {n}
      /\ UNCHANGED <<now, revoked, replacedBy, swept, loggedOut, slipped>>
      /\ pc' = [pc EXCEPT ![r] = "idle"]
      /\ who' = [who EXCEPT ![r] = NoPrincipal]
      /\ row' = [row EXCEPT ![r] = Null]
      /\ newId' = [newId EXCEPT ![r] = Null]
      /\ at' = [at EXCEPT ![r] = 0]
      /\ snap' = [snap EXCEPT ![r] = {}]
      /\ held' = [held EXCEPT ![r] = {}]
      /\ victims' = [victims EXCEPT ![r] = {}]
  BY DEF IssueInsert, Return, Goto, ended
<1>4. Live' = Live \cup {n} /\ rows \subseteq Allocated /\ revoked \subseteq Allocated
  BY <1>2, <1>3 DEF RowsWellFormed, Live
<1>5. TypeOK'
  BY <1>2, <1>3 DEF TypeOK, Labels, Null
<1>6. RowsWellFormed'
  <2>1. rows' \subseteq Allocated' /\ revoked' \subseteq Allocated'
    BY <1>2, <1>3, <1>4
  <2>2. \A i \in Allocated :
          session'[i] \in 1..i /\ parent'[i] < i /\ expiresAt'[i] <= now' + TTL
    BY <1>2, <1>3 DEF RowsWellFormed
  <2>3. session'[n] \in 1..n /\ parent'[n] < n /\ expiresAt'[n] <= now' + TTL
    BY <1>2, <1>3 DEF RotationsWellFormed, Id, Null
  <2> QED
    BY <1>2, <2>1, <2>2, <2>3 DEF RowsWellFormed
<1>7. ReplacementsWellFormed'
  BY <1>2, <1>3, <1>4 DEF ReplacementsWellFormed
<1>8. RotationsWellFormed'
  <2>1. pc'[r] = "idle" /\ \A q \in Requests \ {r} :
          pc'[q] = pc[q] /\ row'[q] = row[q] /\ newId'[q] = newId[q] /\ at'[q] = at[q]
    BY <1>3 DEF TypeOK
  <2>2. \A q \in Requests : pc[q] \in {"update", "commit"} => newId[q] # n /\ newId[q] # Null
    BY <1>2 DEF RotationsWellFormed, Allocated, Null
  <2> HIDE DEF n
  <2> QED
    BY <1>2, <1>3, <1>4, <2>1, <2>2 DEF RotationsWellFormed
<1>9. TransactionsDisjoint'
  BY <1>3 DEF TypeOK, TransactionsDisjoint
<1>10. SnapshotsWellFormed'
  <2>1. replacedBy[n] = Null /\ Null \notin Allocated
    BY <1>2, <1>4 DEF ReplacementsWellFormed, Allocated, Null
  <2>2. /\ pc'[r] = "idle" /\ snap'[r] = {} /\ held'[r] = {}
        /\ \A q \in Requests \ {r} :
             /\ snap'[q] = snap[q] /\ held'[q] = held[q]
             /\ pc'[q] = pc[q] /\ newId'[q] = newId[q]
    BY <1>3 DEF TypeOK
  <2>3. \A q \in Requests : held[q] \subseteq Allocated /\ snap[q] \subseteq Allocated
    BY <1>4 DEF LocksWellFormed, SnapshotsWellFormed
  <2>4. ASSUME NEW q \in Requests \ {r}, pc[q] = "pruning", NEW i \in rows',
               replacedBy'[i] \in snap'[q] \cup held'[q]
        PROVE  i \in snap'[q] \cup held'[q]
    <3>1. i # n
      BY <1>3, <2>1, <2>2, <2>3, <2>4
    <3> QED
      BY <1>3, <2>2, <2>4, <3>1 DEF SnapshotsWellFormed
  <2> HIDE DEF n
  <2> QED
    BY <1>2, <1>3, <2>2, <2>3, <2>4 DEF SnapshotsWellFormed
<1>10a. LocksWellFormed'
  <2>1. "idle" \in Labels \ {"commit"}
    BY DEF Labels
  <2> QED
    BY <1>3, <2>1, LocksStored, Unlocks
<1>11. VictimsCovered'
  <2>1. ASSUME NEW q \in Requests, NEW i \in Live', session'[i] \in victims'[q] \ slipped'
        PROVE  \/ pc'[q] = "revoke" /\ i = row'[q]
               \/ pc'[q] = "revokingAll" /\ i \in snap'[q] \cup held'[q]
    <3>1. /\ q # r /\ victims'[q] = victims[q] /\ pc'[q] = pc[q] /\ row'[q] = row[q]
          /\ snap'[q] = snap[q] /\ held'[q] = held[q]
      BY <1>3, <2>1 DEF TypeOK
    <3>2. i # n
      BY <1>2, <2>1, <3>1 DEF VictimsCovered
    <3> QED
      BY <1>2, <1>3, <1>4, <2>1, <3>1, <3>2 DEF VictimsCovered, Live
  <2> QED
    BY <1>2, <1>3, <2>1 DEF TypeOK, VictimsCovered
<1>12. OneLiveTokenPerSession'
  <2>1. \A i \in Live : session'[i] = session[i] /\ session[i] # n
    BY <1>2, <1>4 DEF RowsWellFormed, Live, Allocated
  <2> QED
    BY <1>2, <1>4, <2>1 DEF OneLiveTokenPerSession
<1>13. SingleSuccessor'
  BY <1>2, <1>3, <1>4 DEF SingleSuccessor
<1>14. NoOrphanedSuccessor'
  <2>1. parent'[n] = Null /\ Null \notin rows'
    BY <1>2, <1>3, <1>4 DEF Allocated, Null
  <2>2. ASSUME NEW i \in rows PROVE parent'[i] = parent[i] /\ parent[i] # n
    <3>1. i \in Allocated /\ parent[i] < i /\ parent[i] \in Id \cup {Null}
      BY <1>1, <1>4 DEF RowsWellFormed, Allocated, TypeOK
    <3>2. parent[i] \in Allocated \/ parent[i] = Null
      BY <1>1, <3>1 DEF TypeOK, Allocated, Id, Null
    <3>3. n \notin Allocated /\ n # Null
      BY <1>2 DEF Id, Null
    <3> QED
      BY <1>2, <3>1, <3>2, <3>3
  <2> QED
    BY <1>3, <2>1, <2>2 DEF NoOrphanedSuccessor
<1>15. NoDanglingReplacement'
  BY <1>2, <1>3, <1>4 DEF NoDanglingReplacement, ReplacementsWellFormed
<1>16. EndedSessionsStayEnded'
  BY <1>2, <1>3, <1>4 DEF EndedSessionsStayEnded, VictimsCovered, Live
<1> QED
  BY <1>5, <1>6, <1>7, <1>8, <1>9, <1>10, <1>10a, <1>11, <1>12, <1>13, <1>14, <1>15, <1>16

\* The INSERT of a successor stays invisible and points at the token presented.
LEMMA RotateInsertStep ==
  ASSUME IInv, NEW r \in Requests, RotateInsert(r)
  PROVE  IInv'
<1> DEFINE n == nextId
           a == row[r]
<1> USE RefreshTokensAssumption DEF IInv
<1>1. /\ who[r] \in Principals \cup {NoPrincipal} /\ at[r] \in Nat /\ a \in Id \cup {Null}
      /\ pc[r] = "insert"
      /\ Insert(who[r], at[r], a) /\ TypeOK
  BY DEF TypeOK, RotateInsert
<1>1a. a \in Allocated /\ a # Null /\ expiresAt[a] <= at[r]
  BY <1>1 DEF RotationsWellFormed, Allocated, Null
<1>2. /\ n \in Id \ Allocated
      /\ Allocated' = Allocated \cup {n}
      /\ nextId' \in 1..(MaxId + 1)
      /\ owner' \in [Id -> Principals \cup {NoPrincipal}]
      /\ expiresAt' \in [Id -> Nat]
      /\ parent' \in [Id -> Id \cup {Null}]
      /\ session' \in [Id -> Id \cup {Null}]
      /\ expiresAt'[n] = at[r]
      /\ parent'[n] = a
      /\ session'[n] = session[a]
      /\ \A i \in Allocated : /\ expiresAt'[i] = expiresAt[i]
                              /\ parent'[i] = parent[i]
                              /\ session'[i] = session[i]
  BY <1>1, <1>1a, InsertEffect
<1>3. /\ UNCHANGED <<now, rows, revoked, replacedBy, swept, loggedOut, slipped>>
      /\ pc' = [pc EXCEPT ![r] = "update"]
      /\ who' = [who EXCEPT ![r] = who[r]]
      /\ row' = [row EXCEPT ![r] = a]
      /\ newId' = [newId EXCEPT ![r] = n]
      /\ at' = [at EXCEPT ![r] = at[r]]
      /\ snap' = [snap EXCEPT ![r] = {}]
      /\ held' = [held EXCEPT ![r] = {}]
      /\ victims' = [victims EXCEPT ![r] = {}]
  BY DEF RotateInsert, Goto, ended, table
<1>4. Live' = Live /\ rows \subseteq Allocated /\ revoked \subseteq Allocated
  BY <1>3 DEF RowsWellFormed, Live
<1>5. TypeOK'
  BY <1>1, <1>2, <1>3 DEF TypeOK, Labels
<1>6. RowsWellFormed'
  <2>1. session[a] \in 1..n /\ a < n
    BY <1>1a DEF RowsWellFormed, Allocated, TypeOK, Id
  <2>2. at[r] <= now + TTL
    BY <1>1 DEF RotationsWellFormed
  <2> HIDE DEF n, a
  <2> QED
    BY <1>2, <1>3, <1>4, <2>1, <2>2 DEF RowsWellFormed
<1>7. ReplacementsWellFormed'
  BY <1>2, <1>3, <1>4 DEF ReplacementsWellFormed
<1>8. RotationsWellFormed'
  <2>1. /\ pc'[r] = "update" /\ row'[r] = a /\ newId'[r] = n
        /\ \A q \in Requests \ {r} :
             pc'[q] = pc[q] /\ row'[q] = row[q] /\ newId'[q] = newId[q] /\ at'[q] = at[q]
    BY <1>3 DEF TypeOK
  <2>2. \A q \in Requests : pc[q] \in {"update", "commit"} =>
          newId[q] # n /\ (q # r => newId[q] # a)
    BY <1>1, <1>2 DEF RotationsWellFormed, TransactionsDisjoint
  <2>3. a # n /\ \A i \in Allocated : parent'[i] # n
    BY <1>1a, <1>2 DEF RowsWellFormed, Allocated, TypeOK
  <2> HIDE DEF n, a
  <2>4. ASSUME NEW q \in Requests \ {r}, pc[q] \in {"update", "commit"}
        PROVE  /\ newId[q] \in Allocated' \ (rows' \cup revoked')
               /\ parent'[newId[q]] = row[q]
               /\ \A i \in Allocated' : parent'[i] # newId[q]
               /\ session'[newId[q]] = session'[row[q]]
               /\ expiresAt'[row[q]] <= expiresAt'[newId[q]]
    BY <1>2, <1>3, <2>2, <2>4 DEF RotationsWellFormed
  <2>5. /\ n \in Allocated' \ (rows' \cup revoked')
        /\ parent'[n] = a
        /\ \A i \in Allocated' : parent'[i] # n
        /\ session'[n] = session'[a]
        /\ expiresAt'[a] <= expiresAt'[n]
    BY <1>1a, <1>2, <1>3, <1>4, <2>3
  <2> QED
    BY <1>1a, <1>2, <1>3, <1>4, <2>1, <2>4, <2>5 DEF RotationsWellFormed
<1>9. TransactionsDisjoint'
  <2>1. /\ pc'[r] = "update" /\ row'[r] = a /\ newId'[r] = n
        /\ \A q \in Requests \ {r} :
             pc'[q] = pc[q] /\ row'[q] = row[q] /\ newId'[q] = newId[q]
    BY <1>3 DEF TypeOK
  <2>2. \A q \in Requests \ {r} :
          /\ pc[q] \in {"update", "commit"} => newId[q] # n /\ newId[q] # a
          /\ pc[q] \in {"insert", "update", "commit"} => row[q] # n
    BY <1>1, <1>2 DEF RotationsWellFormed, TransactionsDisjoint
  <2> HIDE DEF n, a
  <2> QED
    BY <2>1, <2>2 DEF TransactionsDisjoint
<1>10. SnapshotsWellFormed'
  BY <1>2, <1>3, <1>4 DEF TypeOK, SnapshotsWellFormed, LocksWellFormed
<1>10a. LocksWellFormed'
  <2>1. "update" \in Labels \ {"commit"}
    BY DEF Labels
  <2> QED
    BY <1>3, <2>1, LocksStored, Unlocks
<1>11. VictimsCovered'
  BY <1>1, <1>2, <1>3, <1>4 DEF TypeOK, VictimsCovered, Live
<1>12. OneLiveTokenPerSession'
  BY <1>2, <1>4 DEF OneLiveTokenPerSession, Live
<1>13. SingleSuccessor'
  BY <1>2, <1>3, <1>4 DEF SingleSuccessor
<1>14. NoOrphanedSuccessor'
  BY <1>2, <1>3, <1>4 DEF NoOrphanedSuccessor
<1>15. NoDanglingReplacement'
  BY <1>3 DEF NoDanglingReplacement
<1>16. EndedSessionsStayEnded'
  BY <1>2, <1>3, <1>4 DEF EndedSessionsStayEnded, Live
<1> QED
  BY <1>5, <1>6, <1>7, <1>8, <1>9, <1>10, <1>10a, <1>11, <1>12, <1>13, <1>14, <1>15, <1>16

\* The commit replaces the session's only live token by its successor.
LEMMA RotateCommitStep ==
  ASSUME IInv, NEW r \in Requests, RotateCommit(r)
  PROVE  IInv'
<1> DEFINE n == newId[r]
           a == row[r]
<1> USE RefreshTokensAssumption DEF IInv
<1>1. /\ pc[r] = "commit"
      /\ rows' = rows \cup {n}
      /\ revoked' = revoked \cup {a}
      /\ replacedBy' = [replacedBy EXCEPT ![a] = n]
      /\ slipped' = slipped \cup ({session[a]} \cap UNION {victims[q] : q \in Requests})
      /\ UNCHANGED <<now, nextId, owner, expiresAt, parent, session, swept, loggedOut>>
      /\ pc' = [pc EXCEPT ![r] = "idle"]
      /\ who' = [who EXCEPT ![r] = NoPrincipal]
      /\ row' = [row EXCEPT ![r] = Null]
      /\ newId' = [newId EXCEPT ![r] = Null]
      /\ at' = [at EXCEPT ![r] = 0]
      /\ snap' = [snap EXCEPT ![r] = {}]
      /\ held' = [held EXCEPT ![r] = {}]
      /\ victims' = [victims EXCEPT ![r] = {}]
  BY DEF RotateCommit, Return, Goto, inserted, ended
<1>2. /\ a \in Live /\ a \in Allocated
      /\ n \in Allocated \ (rows \cup revoked)
      /\ parent[n] = a /\ session[n] = session[a] /\ expiresAt[a] <= expiresAt[n]
      /\ a # n
  BY <1>1 DEF RotationsWellFormed, Live
<1>3. /\ Live' = (Live \ {a}) \cup {n}
      /\ Allocated' = Allocated /\ Allocated \subseteq Id
      /\ rows \subseteq Allocated /\ revoked \subseteq Allocated
  <2>1. Live' = (Live \ {a}) \cup {n}
    BY <1>1, <1>2 DEF Live
  <2>2. Allocated' = Allocated
    BY <1>1 DEF Allocated
  <2>3. Allocated \subseteq Id
    BY DEF TypeOK, Allocated, Id
  <2>4. rows \subseteq Allocated /\ revoked \subseteq Allocated
    BY DEF RowsWellFormed
  <2> QED
    BY <2>1, <2>2, <2>3, <2>4
<1>4. /\ replacedBy'[a] = n
      /\ \A i \in Id \ {a} : replacedBy'[i] = replacedBy[i]
      /\ replacedBy[a] = Null
  BY <1>1, <1>2, <1>3 DEF TypeOK, ReplacementsWellFormed, Live
<1>5. TypeOK'
  <2>1. slipped' \subseteq Id \cup {Null}
    BY <1>1, <1>2, <1>3 DEF TypeOK
  <2> QED
    BY <1>1, <1>2, <1>3, <2>1 DEF TypeOK, Labels, Null
<1>6. RowsWellFormed'
  BY <1>1, <1>2, <1>3 DEF RowsWellFormed
<1>7. ReplacementsWellFormed'
  BY <1>1, <1>2, <1>3, <1>4 DEF ReplacementsWellFormed
<1>8. RotationsWellFormed'
  BY <1>1, <1>2, <1>3 DEF TypeOK, RotationsWellFormed, TransactionsDisjoint, Live
<1>9. TransactionsDisjoint'
  BY <1>1 DEF TypeOK, TransactionsDisjoint
<1>10. SnapshotsWellFormed'
  <2>1. \A q \in Requests : pc[q] = "pruning" => n \notin snap[q] \cup held[q]
    BY <1>1 DEF SnapshotsWellFormed
  <2>2. Null \notin Allocated /\ replacedBy[n] = Null
    BY <1>2, <1>3 DEF Allocated, Null, ReplacementsWellFormed
  <2>3. \A q \in Requests : held[q] \subseteq Allocated /\ snap[q] \subseteq Allocated
    BY <1>3 DEF LocksWellFormed, SnapshotsWellFormed
  <2>4. /\ pc'[r] = "idle" /\ snap'[r] = {} /\ held'[r] = {}
        /\ \A q \in Requests \ {r} :
             /\ snap'[q] = snap[q] /\ held'[q] = held[q]
             /\ pc'[q] = pc[q] /\ newId'[q] = newId[q]
    BY <1>1 DEF TypeOK
  <2>5. ASSUME NEW q \in Requests \ {r}, pc[q] = "pruning", NEW i \in rows',
               replacedBy'[i] \in snap'[q] \cup held'[q]
        PROVE  i \in snap'[q] \cup held'[q]
    <3>1. replacedBy'[i] \in snap[q] \cup held[q]
      BY <2>4, <2>5
    <3>2. i # a
      BY <1>4, <2>1, <2>5, <3>1
    <3>3. i # n
      BY <1>2, <1>3, <1>4, <2>2, <2>3, <3>1, <3>2
    <3>4. i \in rows /\ replacedBy'[i] = replacedBy[i]
      BY <1>1, <1>3, <1>4, <2>5, <3>2, <3>3
    <3> QED
      BY <2>4, <2>5, <3>1, <3>4 DEF SnapshotsWellFormed
  <2> HIDE DEF n, a
  <2> QED
    BY <1>1, <1>3, <2>3, <2>4, <2>5 DEF SnapshotsWellFormed
<1>10a. LocksWellFormed'
  <2>1. "idle" \in Labels \ {"commit"}
    BY DEF Labels
  <2> QED
    BY <1>1, <2>1, LocksStored, Unlocks
<1>11. VictimsCovered'
  <2>1. ASSUME NEW q \in Requests, NEW i \in Live', session'[i] \in victims'[q] \ slipped'
        PROVE  \/ pc'[q] = "revoke" /\ i = row'[q]
               \/ pc'[q] = "revokingAll" /\ i \in snap'[q] \cup held'[q]
    <3>1. /\ q # r /\ victims'[q] = victims[q] /\ pc'[q] = pc[q] /\ row'[q] = row[q]
          /\ snap'[q] = snap[q] /\ held'[q] = held[q]
      BY <1>1, <2>1 DEF TypeOK
    <3>2. session[i] # session[a]
      BY <1>1, <2>1, <3>1
    <3>3. i \in Live
      BY <1>2, <1>3, <3>2
    <3> QED
      BY <1>1, <2>1, <3>1, <3>3 DEF VictimsCovered
  <2>2. \A q \in Requests : victims'[q] \subseteq Allocated'
    BY <1>1, <1>3 DEF TypeOK, VictimsCovered
  <2> QED
    BY <1>1, <1>3, <2>1, <2>2 DEF VictimsCovered
<1>12. OneLiveTokenPerSession'
  BY <1>1, <1>2, <1>3 DEF OneLiveTokenPerSession
<1>13. SingleSuccessor'
  <2>1. ASSUME NEW j \in rows PROVE parent[j] # a
    BY <1>2 DEF NoOrphanedSuccessor, Live
  <2> QED
    BY <1>1, <1>2, <2>1 DEF SingleSuccessor
<1>14. NoOrphanedSuccessor'
  <2>1. ASSUME NEW j \in rows PROVE parent[j] # a /\ parent[j] # n
    BY <1>1, <1>2, <1>3 DEF NoOrphanedSuccessor, Live, RotationsWellFormed
  <2> QED
    BY <1>1, <1>2, <1>3, <1>4, <2>1 DEF NoOrphanedSuccessor
<1>15. NoDanglingReplacement'
  BY <1>1, <1>2, <1>3, <1>4 DEF NoDanglingReplacement, ReplacementsWellFormed
<1>16. EndedSessionsStayEnded'
  BY <1>1, <1>2, <1>3 DEF EndedSessionsStayEnded
<1> QED
  BY <1>5, <1>6, <1>7, <1>8, <1>9, <1>10, <1>10a, <1>11, <1>12, <1>13, <1>14, <1>15, <1>16

-----------------------------------------------------------------------------
LEMMA InitInvariant == Init => IInv
BY RefreshTokensAssumption
   DEF Init, IInv, TypeOK, Id, Null, Labels, Allocated, Live, RowsWellFormed,
       ReplacementsWellFormed, RotationsWellFormed, TransactionsDisjoint, SnapshotsWellFormed,
       VictimsCovered, LocksWellFormed, Locks, OneLiveTokenPerSession, SingleSuccessor, NoOrphanedSuccessor,
       NoDanglingReplacement, EndedSessionsStayEnded

\* Time passing only makes the bound on expiry times looser.
LEMMA TickStep ==
  ASSUME IInv, Tick
  PROVE  IInv'
<1> USE RefreshTokensAssumption DEF IInv, Tick, inserted, table, ended, locals
<1>1. TypeOK'
  BY DEF TypeOK
<1>2. RowsWellFormed' /\ RotationsWellFormed'
  BY DEF TypeOK, RowsWellFormed, RotationsWellFormed, Allocated, Live, Id
<1>3. ReplacementsWellFormed' /\ TransactionsDisjoint' /\ SnapshotsWellFormed' /\ VictimsCovered'
      /\ LocksWellFormed'
  BY DEF ReplacementsWellFormed, TransactionsDisjoint, SnapshotsWellFormed, VictimsCovered,
         LocksWellFormed, Locks,
         Allocated, Live
<1>4. /\ OneLiveTokenPerSession' /\ SingleSuccessor' /\ NoOrphanedSuccessor'
      /\ NoDanglingReplacement' /\ EndedSessionsStayEnded'
  BY DEF OneLiveTokenPerSession, SingleSuccessor, NoOrphanedSuccessor, NoDanglingReplacement,
         EndedSessionsStayEnded, Live
<1> QED
  BY <1>1, <1>2, <1>3, <1>4

LEMMA StutterStep ==
  ASSUME IInv, UNCHANGED vars
  PROVE  IInv'
BY DEF vars, inserted, table, ended, locals, IInv, TypeOK, Allocated, Live, RowsWellFormed,
       ReplacementsWellFormed, RotationsWellFormed, TransactionsDisjoint, SnapshotsWellFormed,
       VictimsCovered, LocksWellFormed, Locks, OneLiveTokenPerSession, SingleSuccessor, NoOrphanedSuccessor,
       NoDanglingReplacement, EndedSessionsStayEnded

\* The inductive invariant holds of every behaviour of the token service.
THEOREM Invariance == Spec => []IInv
<1>1. IInv /\ [Next]_vars => IInv'
  <2> SUFFICES ASSUME IInv, [Next]_vars PROVE IInv'
    OBVIOUS
  <2>1. CASE Tick
    BY <2>1, TickStep
  <2>2. ASSUME NEW r \in Requests, Start(r) PROVE IInv'
    BY <2>2, IssueStep, RevokeAllForUserStep, RotateReuseStep, RotateLookupStep,
       RevokeLookupStep, PruneBeginStep DEF Start
  <2>3. ASSUME NEW r \in Requests, Continue(r) PROVE IInv'
    BY <2>3, IssueInsertStep, RotateInsertStep, RotateUpdateStep, RotateLoseStep,
       RotateCommitStep, RevokeUpdateStep, RevokeAllBeginStep, RevokeAllEndStep,
       PruneEndStep, LockRowStep, AbortStep DEF Continue
  <2>4. ASSUME NEW r \in Requests, Abort(r) PROVE IInv'
    BY <2>4, AbortStep
  <2>5. CASE UNCHANGED vars
    BY <2>5, StutterStep
  <2> QED
    BY <2>1, <2>2, <2>3, <2>4, <2>5 DEF Next
<1> QED
  BY InitInvariant, <1>1, PTL DEF Spec

\* Every variable of the token service always has its type.
THEOREM TypeCorrect == Spec => []TypeOK
<1>1. IInv => TypeOK
  BY DEF IInv
<1> QED
  BY <1>1, Invariance, PTL

\* No interleaving of rotations, logouts, revocations and prunes leaves a
\* login with two tokens that are not revoked.
THEOREM OneLiveToken == Spec => []OneLiveTokenPerSession
<1>1. IInv => OneLiveTokenPerSession
  BY DEF IInv
<1> QED
  BY <1>1, Invariance, PTL

\* No token is ever exchanged twice.
THEOREM NoDoubleSpend == Spec => []SingleSuccessor
<1>1. IInv => SingleSuccessor
  BY DEF IInv
<1> QED
  BY <1>1, Invariance, PTL

\* A failed rotation leaves no token behind.
THEOREM NoOrphans == Spec => []NoOrphanedSuccessor
<1>1. IInv => NoOrphanedSuccessor
  BY DEF IInv
<1> QED
  BY <1>1, Invariance, PTL

\* The nightly prune never cuts a rotation chain in the middle.
THEOREM PruneKeepsChains == Spec => []NoDanglingReplacement
<1>1. IInv => NoDanglingReplacement
  BY DEF IInv
<1> QED
  BY <1>1, Invariance, PTL

\* A session that was ended, and not rotated meanwhile, never comes back.
THEOREM EndedStayEnded == Spec => []EndedSessionsStayEnded
<1>1. IInv => EndedSessionsStayEnded
  BY DEF IInv
<1> QED
  BY <1>1, Invariance, PTL

\* Of a circle of waiters each keeps a lock and wants another: only a sweep and a
\* prune do both.
LEMMA CirclesOfSweeps == LocksWellFormed => DeadlocksSpareRotations
<1> SUFFICES ASSUME LocksWellFormed, NEW r \in Requests, Deadlocked(r)
             PROVE  pc[r] \in {"revokingAll", "pruning"}
  BY DEF DeadlocksSpareRotations
<1>1. PICK C \in SUBSET Requests :
        /\ r \in C
        /\ \A D \in SUBSET C \ {{}} :
             \E p \in D, q \in (IF D = C THEN C ELSE C \ D) : WaitsFor(p, q)
  BY DEF Deadlocked
<1>2. Wanted(r) # {}
  <2>1. {r} \in SUBSET C \ {{}}
    BY <1>1
  <2>2. \E q \in Requests : WaitsFor(r, q)
    BY <1>1, <2>1
  <2> QED
    BY <2>2 DEF WaitsFor
<1>3. Locks(r) # {}
  <2>1. CASE C = {r}
    BY <1>1, <2>1 DEF WaitsFor
  <2>2. CASE C # {r}
    <3>1. C \ {r} \in SUBSET C \ {{}} /\ C \ {r} # C /\ C \ (C \ {r}) = {r}
      BY <1>1, <2>2
    <3>2. \E p \in C : WaitsFor(p, r)
      BY <1>1, <3>1
    <3> QED
      BY <3>2 DEF WaitsFor
  <2> QED
    BY <2>1, <2>2
<1>4. pc[r] # "commit"
  BY <1>2 DEF Wanted
<1>5. held[r] # {}
  BY <1>3, <1>4 DEF Locks
<1> QED
  BY <1>5 DEF LocksWellFormed

\* The database never ends a login, a rotation or a logout to break a deadlock.
THEOREM DeadlocksAreOfSweeps == Spec => []DeadlocksSpareRotations
<1>1. IInv => DeadlocksSpareRotations
  BY CirclesOfSweeps DEF IInv
<1> QED
  BY <1>1, Invariance, PTL

\* The record of an exchange is never rewritten while its row is stored.
THEOREM ExchangesAreFinal == Spec => ExchangeIsFinal
<1> DEFINE Final == \A i \in rows \cap rows' : replacedBy[i] # Null =>
                      replacedBy'[i] = replacedBy[i] /\ i \in revoked'
<1>1. IInv /\ [Next]_vars => [Final]_vars
  <2> SUFFICES ASSUME IInv, Next PROVE Final
    OBVIOUS
  <2> USE DEF IInv
  <2>1. \A i \in rows : replacedBy[i] # Null => i \in revoked
    BY DEF ReplacementsWellFormed, TypeOK
  <2>2. ASSUME UNCHANGED replacedBy, revoked \subseteq revoked' PROVE Final
    BY <2>1, <2>2
  <2>3. ASSUME NEW r \in Requests, RotateCommit(r) PROVE Final
    <3>1. row[r] \in Live
      BY <2>3 DEF RotationsWellFormed, RotateCommit
    <3> QED
      BY <2>1, <2>3, <3>1 DEF RotateCommit, TypeOK, Live
  <2>4. ASSUME NEW r \in Requests, Continue(r), ~RotateCommit(r) PROVE Final
    <3>1. UNCHANGED replacedBy /\ revoked \subseteq revoked'
      BY <2>4 DEF Continue, IssueInsert, RotateInsert, RotateUpdate, RotateLose, RevokeUpdate,
                  RevokeAllBegin, RevokeAllEnd, PruneEnd, RevokeAllRow, PruneRow,
                  LockRow, DeadlockDetected, table
    <3> QED
      BY <2>2, <3>1
  <2>5. ASSUME NEW r \in Requests, Start(r) PROVE Final
    <3>1. UNCHANGED <<replacedBy, revoked>>
      BY <2>5 DEF Start, Issue, RevokeAllForUser, RotateReuse, RotateLookup, RevokeLookup,
                  PruneBegin, table
    <3> QED
      BY <2>2, <3>1
  <2>6. ASSUME NEW r \in Requests, Abort(r) PROVE Final
    BY <2>2, <2>6 DEF Abort, table
  <2>7. CASE Tick
    BY <2>2, <2>7 DEF Tick, table
  <2> QED
    BY <2>3, <2>4, <2>5, <2>6, <2>7 DEF Next
<1> QED
  BY <1>1, Invariance, PTL DEF Spec, ExchangeIsFinal

-----------------------------------------------------------------------------
(* The handlers implement the abstract authority of Sessions: each step is   *)
(* one of its steps or changes nothing that its callers see.                *)

\* A step that touches no row and no open transaction is a stutter.
LEMMA QuietStep ==
  ASSUME UNCHANGED <<inserted, table, Unpublished>>
  PROVE  UNCHANGED Authority!vars
BY DEF Authority!vars, Holds, Used, Live, inserted, table

\* A handler that goes to a label outside its transaction leaves the rows of
\* the others unpublished, and its own if it was in one.
LEMMA LeaveTransaction ==
  ASSUME IInv, NEW r \in Requests, UNCHANGED <<inserted, table>>,
         pc' = [pc EXCEPT ![r] = "idle"],
         \A q \in Requests \ {r} : newId'[q] = newId[q]
  PROVE  [Authority!Next]_(Authority!vars)
<1> USE DEF IInv, TypeOK
<1>1. CASE pc[r] \in {"update", "commit"}
  <2>1. newId[r] \in Allocated
    BY <1>1 DEF RotationsWellFormed
  <2>2. Unpublished' = Unpublished \ {newId[r]}
    BY <1>1 DEF Unpublished, TransactionsDisjoint
  <2>3. Used' = Used \cup {newId[r]}
    BY <2>1, <2>2 DEF Used, Allocated, inserted
  <2>4. UNCHANGED Holds
    BY DEF Holds, Live, inserted, table
  <2>5. newId[r] \in Id
    BY <2>1, RefreshTokensAssumption DEF Allocated, Id
  <2> QED
    BY <2>3, <2>4, <2>5 DEF Authority!Next, Authority!Discard
<1>2. CASE pc[r] \notin {"update", "commit"}
  <2>1. UNCHANGED Unpublished
    BY <1>2 DEF Unpublished
  <2> QED
    BY <2>1, QuietStep
<1> QED
  BY <1>1, <1>2

\* A handler that starts, or goes on without writing.
LEMMA StartRefines ==
  ASSUME IInv, NEW r \in Requests,
         \/ Start(r) \/ RotateUpdate(r) \/ RevokeAllBegin(r)
  PROVE  UNCHANGED Authority!vars
<1> USE DEF IInv, TypeOK
<1>1. UNCHANGED <<inserted, table>>
  BY DEF Start, Issue, RevokeAllForUser, RotateReuse, RotateLookup, RevokeLookup,
         PruneBegin, RotateUpdate, RevokeAllBegin
<1>2. CASE Start(r)
  <2>1. /\ pc[r] = "idle"
        /\ \E l \in Labels \ {"update", "commit"} : pc' = [pc EXCEPT ![r] = l]
        /\ \A q \in Requests \ {r} : newId'[q] = newId[q]
    BY <1>2 DEF Start, Issue, RevokeAllForUser, RotateReuse, RotateLookup,
                RevokeLookup, PruneBegin, Goto, Labels
  <2>2. UNCHANGED Unpublished
    BY <2>1 DEF Unpublished
  <2> QED
    BY <1>1, <2>2, QuietStep
<1>3. CASE RotateUpdate(r)
  <2>1. /\ pc[r] = "update" /\ pc' = [pc EXCEPT ![r] = "commit"]
        /\ newId' = [newId EXCEPT ![r] = newId[r]]
    BY <1>3 DEF RotateUpdate, Goto
  <2>2. UNCHANGED Unpublished
    BY <2>1 DEF Unpublished
  <2> QED
    BY <1>1, <2>2, QuietStep
<1>4. CASE RevokeAllBegin(r)
  <2>1. /\ pc[r] = "revokeAll" /\ pc' = [pc EXCEPT ![r] = "revokingAll"]
        /\ \A q \in Requests \ {r} : newId'[q] = newId[q]
    BY <1>4 DEF RevokeAllBegin, Goto
  <2>2. UNCHANGED Unpublished
    BY <2>1 DEF Unpublished
  <2> QED
    BY <1>1, <2>2, QuietStep
<1> QED
  BY <1>2, <1>3, <1>4

\* A statement that only revokes or deletes ends sessions.
LEMMA EndRefines ==
  ASSUME IInv, NEW r \in Requests,
         \/ RevokeUpdate(r) \/ RevokeAllEnd(r) \/ PruneEnd(r)
  PROVE  Authority!Next
<1> USE DEF IInv, TypeOK
<1>1. /\ pc[r] \notin {"update", "commit"} /\ pc' = [pc EXCEPT ![r] = "idle"]
      /\ \A q \in Requests \ {r} : newId'[q] = newId[q]
  BY DEF RevokeUpdate, RevokeAllEnd, PruneEnd, Return, Goto
<1>2. UNCHANGED Unpublished
  BY <1>1 DEF Unpublished
<1>3. UNCHANGED inserted /\ Live' \subseteq Live
  BY DEF RevokeUpdate, RevokeAllEnd, PruneEnd, Live
<1>4. Holds' \subseteq Holds /\ UNCHANGED Used
  BY <1>2, <1>3 DEF Holds, Used, inserted
<1> QED
  BY <1>4 DEF Authority!Next, Authority!End

\* The INSERT of issue is a login.
LEMMA IssueRefines ==
  ASSUME IInv, NEW r \in Requests, IssueInsert(r)
  PROVE  Authority!Next
<1> USE DEF IInv
<1>1. TypeOK /\ at[r] \in Nat /\ who[r] \in Principals \cup {NoPrincipal}
  BY DEF TypeOK
<1>2. Insert(who[r], at[r], Null) /\ Null \in Id \cup {Null}
  BY DEF IssueInsert
<1>3. /\ nextId \in Id \ Allocated /\ Allocated' = Allocated \cup {nextId}
      /\ session'[nextId] = nextId
      /\ \A i \in Allocated : session'[i] = session[i]
  BY <1>1, <1>2, InsertEffect
<1>4. Live' = Live \cup {nextId} /\ Live \subseteq Allocated
  BY <1>3 DEF IssueInsert, Live, RowsWellFormed
<1>5. Holds' = Holds \cup {<<nextId, nextId>>}
  BY <1>3, <1>4 DEF Holds
<1>6. UNCHANGED Unpublished
  BY <1>1 DEF Unpublished, IssueInsert, Return, Goto, TypeOK
<1>7. nextId \notin Unpublished
  BY <1>3 DEF Unpublished, RotationsWellFormed
<1>8. Used' = Used \cup {nextId} /\ nextId \notin Used
  BY <1>3, <1>6, <1>7 DEF Used, Allocated
<1> QED
  BY <1>3, <1>5, <1>8 DEF Authority!Next, Authority!LogIn

\* The INSERT of rotate hands nothing out yet.
LEMMA RotateInsertRefines ==
  ASSUME IInv, NEW r \in Requests, RotateInsert(r)
  PROVE  UNCHANGED Authority!vars
<1> USE DEF IInv
<1>1. /\ TypeOK /\ at[r] \in Nat /\ who[r] \in Principals \cup {NoPrincipal}
      /\ row[r] \in Id \cup {Null}
  BY DEF TypeOK
<1>2. Insert(who[r], at[r], row[r])
  BY DEF RotateInsert
<1>3. /\ nextId \in Id \ Allocated /\ Allocated' = Allocated \cup {nextId}
      /\ \A i \in Allocated : session'[i] = session[i]
  BY <1>1, <1>2, InsertEffect
<1>4. UNCHANGED Live /\ Live \subseteq Allocated
  BY DEF RotateInsert, Live, RowsWellFormed, table
<1>5. UNCHANGED Holds
  BY <1>3, <1>4 DEF Holds
<1>6. /\ pc[r] = "insert" /\ pc' = [pc EXCEPT ![r] = "update"]
      /\ newId' = [newId EXCEPT ![r] = nextId]
  BY DEF RotateInsert, Goto
<1>7. Unpublished' = Unpublished \cup {nextId}
  BY <1>1, <1>6 DEF Unpublished, TypeOK
<1>8. UNCHANGED Used
  BY <1>3, <1>7 DEF Used, Allocated
<1> QED
  BY <1>5, <1>8 DEF Authority!vars

\* The COMMIT of rotate exchanges one token for the other in one step.
LEMMA CommitRefines ==
  ASSUME IInv, NEW r \in Requests, RotateCommit(r)
  PROVE  Authority!Next
<1> DEFINE old == row[r]  new == newId[r]
<1> USE DEF IInv
<1>1. pc[r] = "commit" /\ TypeOK
  BY DEF RotateCommit
<1>2. /\ old \in Live /\ old \in Allocated
      /\ new \in Allocated \ (rows \cup revoked)
      /\ session[new] = session[old]
  BY <1>1 DEF RotationsWellFormed
<1>3. Live' = (Live \ {old}) \cup {new} /\ old # new
  BY <1>2 DEF RotateCommit, Live
<1>4. Holds' = (Holds \ {<<session[old], old>>}) \cup {<<session[old], new>>}
  BY <1>2, <1>3 DEF Holds, RotateCommit, inserted
<1>5. Unpublished' = Unpublished \ {new}
  BY <1>1 DEF Unpublished, RotateCommit, Return, Goto, TypeOK, TransactionsDisjoint
<1>6. new \in Unpublished
  BY <1>1 DEF Unpublished
<1>7. Used' = Used \cup {new} /\ new \notin Used
  BY <1>2, <1>5, <1>6 DEF Used, Allocated, RotateCommit, inserted
<1>8. session[old] \in Id /\ old \in Id /\ new \in Id
  BY <1>1, <1>2, RefreshTokensAssumption DEF Allocated, Id, TypeOK, RowsWellFormed
<1>9. <<session[old], old>> \in Holds
  BY <1>2 DEF Holds
<1>10. Authority!Exchange(session[old], old, new)
  BY <1>4, <1>7, <1>9 DEF Authority!Exchange
<1> QED
  BY <1>8, <1>10 DEF Authority!Next

\* However requests interleave, crash and wait, the table behaves as if every
\* exchange, logout and sweep were one step on sessions: this is what the other
\* modules may rely on when they call the refresh-token service.
THEOREM Refinement == Spec => ImplementsSessions
<1>1. Init => Authority!Init
  <2> SUFFICES ASSUME Init PROVE Authority!Init
    OBVIOUS
  <2>1. Live = {} /\ nextId = 1
    BY DEF Init, Live
  <2> QED
    BY <2>1 DEF Authority!Init, Holds, Used
<1>2. IInv /\ [Next]_vars => [Authority!Next]_(Authority!vars)
  <2> SUFFICES ASSUME IInv, [Next]_vars PROVE [Authority!Next]_(Authority!vars)
    OBVIOUS
  <2>1. CASE UNCHANGED vars
    <3>1. UNCHANGED <<inserted, table, Unpublished>>
      BY <2>1 DEF vars, inserted, table, locals, Unpublished
    <3> QED
      BY <3>1, QuietStep
  <2>2. CASE Tick
    <3>1. UNCHANGED <<inserted, table, Unpublished>>
      BY <2>2 DEF Tick, locals, Unpublished
    <3> QED
      BY <3>1, QuietStep
  <2>3. ASSUME NEW r \in Requests, Abort(r) \/ RotateLose(r) \/ DeadlockDetected(r)
        PROVE [Authority!Next]_(Authority!vars)
    <3>1. /\ UNCHANGED <<inserted, table>> /\ pc' = [pc EXCEPT ![r] = "idle"]
          /\ \A q \in Requests \ {r} : newId'[q] = newId[q]
      BY <2>3 DEF Abort, RotateLose, DeadlockDetected, Return, Goto, IInv, TypeOK
    <3> QED
      BY <3>1, LeaveTransaction
  <2>4. ASSUME NEW r \in Requests, NEW i \in Id, RevokeAllRow(r, i) \/ PruneRow(r, i)
        PROVE [Authority!Next]_(Authority!vars)
    <3>1. UNCHANGED <<inserted, table, Unpublished>>
      BY <2>4 DEF RevokeAllRow, PruneRow, LockRow, Unpublished
    <3> QED
      BY <3>1, QuietStep
  <2> QED
    BY <2>1, <2>2, <2>3, <2>4, StartRefines, EndRefines, IssueRefines,
       RotateInsertRefines, CommitRefines DEF Next, Continue
<1> QED
  BY <1>1, <1>2, Invariance, PTL DEF Spec, ImplementsSessions, Authority!Spec
=============================================================================
