-------------------------------- MODULE Otp --------------------------------
(***************************************************************************)
(* The one-time passwords of one phone and purpose: OtpService.issue,      *)
(* verify and pruneStaleOtps over the otps table.  Every query of the      *)
(* repository filters on phone and purpose, so other phones do not         *)
(* interfere.                                                              *)
(*                                                                         *)
(* Each repository call is one autocommitted statement and one step: the   *)
(* handlers interleave between them, and what one has read may be stale    *)
(* when it writes.  A code is its row; whether the code presented has the  *)
(* hash of the row found is a choice.                                      *)
(***************************************************************************)
EXTENDS Integers, FiniteSets, FiniteSetsExt

CONSTANTS Requests,       \* concurrent handlers
          TTL,            \* OTP_TTL_SECONDS
          Cooldown,       \* OTP_RESEND_COOLDOWN_SECONDS
          MaxAttempts,    \* OTP_MAX_VERIFY_ATTEMPTS
          LockWindow,     \* OTP_PHONE_LOCK_WINDOW_SECONDS
          MaxFailures,    \* OTP_PHONE_MAX_FAILURES_PER_WINDOW
          IssueWindow,    \* OTP_ISSUE_WINDOW_SECONDS
          MaxIssues,      \* OTP_MAX_ISSUES_PER_WINDOW
          MaxId,          \* bound: rows ever inserted
          MaxNow          \* bound: last clock value

ASSUME OtpAssumption ==
  /\ \A c \in {TTL, Cooldown, MaxAttempts, LockWindow, MaxFailures, IssueWindow, MaxIssues} :
       c \in Nat \ {0}
  /\ MaxId \in Nat /\ MaxNow \in Nat
  /\ IsFiniteSet(Requests)

Id == 1..MaxId

VARIABLES
  now,        \* the clock shared by the application and the database
  nextId,     \* otps_id_seq
  rows,       \* ids stored
  createdAt,  \* id -> time of the INSERT
  expiresAt,  \* id -> time
  attempts,   \* id -> failed verifications
  consumed,   \* ids with consumedAt set
  pc,         \* handler -> the statement it sends next
  row,        \* handler -> the row verify found, 0 if none
  expiry,     \* handler -> the expiresAt issue computed
  \* history
  began,      \* handler -> the next id when its call of issue began, 0 outside of one
  since,      \* id -> began of the call that issued it
  accepted,   \* id -> number of verifications answered with success
  raced       \* ids two handlers were accepting at the same time

codes  == <<nextId, createdAt, expiresAt, since>>
locals == <<pc, row, expiry, began>>
vars   == <<now, codes, rows, attempts, consumed, locals, accepted, raced>>

Init ==
  /\ now = 0
  /\ nextId = 1
  /\ rows = {}
  /\ createdAt = [i \in Id |-> 0]
  /\ expiresAt = [i \in Id |-> 0]
  /\ attempts = [i \in Id |-> 0]
  /\ consumed = {}
  /\ pc = [r \in Requests |-> "idle"]
  /\ row = [r \in Requests |-> 0]
  /\ expiry = [r \in Requests |-> 0]
  /\ began = [r \in Requests |-> 0]
  /\ since = [i \in Id |-> 0]
  /\ accepted = [i \in Id |-> 0]
  /\ raced = {}

-----------------------------------------------------------------------------
(* What the queries return.                                                *)

Unconsumed == rows \ consumed

\* The failed attempts of the rows in the lock window ending now, numbered per
\* row; sumFailedAttemptsSince counts them.
FailedAttempts ==
  UNION {{i} \X (1..attempts[i]) : i \in {j \in rows : createdAt[j] >= now - LockWindow}}

Failures == Cardinality(FailedAttempts)

\* countRequestsSince over the issue window ending now.
Issues == Cardinality({i \in rows : createdAt[i] > now - IssueWindow})

\* Mutants: the phone lock, the issue cap, the per-code cap are not enforced.
BugPhoneLocked == FALSE
BugIssueRateExceeded == FALSE
BugExhausted(i) == FALSE

PhoneLocked == Failures >= MaxFailures
IssueRateExceeded == Issues >= MaxIssues
Exhausted(i) == attempts[i] >= MaxAttempts

\* findLatestByPhoneAndPurpose rejects the call while its row cools down.
CoolingDown == \E i \in Unconsumed : i = Max(rows) /\ now - createdAt[i] < Cooldown

\* Mutant: the query forgets consumedAt.
BugActive == {i \in rows : expiresAt[i] > now}
Active == {i \in Unconsumed : expiresAt[i] > now}

\* Mutant: the retention is the shorter window.
BugRetention == IF LockWindow < IssueWindow THEN LockWindow ELSE IssueWindow
Retention == IF LockWindow > IssueWindow THEN LockWindow ELSE IssueWindow

-----------------------------------------------------------------------------
Goto(r, l, i, t) ==
  /\ pc' = [pc EXCEPT ![r] = l]
  /\ row' = [row EXCEPT ![r] = i]
  /\ expiry' = [expiry EXCEPT ![r] = t]
  /\ began' = [began EXCEPT ![r] = CASE l = "rate" -> nextId
                                     [] l = "idle" -> 0
                                     [] OTHER      -> @]

\* The handler answers, normally or with an exception.
Return(r) == Goto(r, "idle", 0, 0)

\* A check that passes sends the handler to the next statement; one that
\* fails throws.
Check(r, from, rejected, to) ==
  /\ pc[r] = from
  /\ IF rejected THEN Return(r) ELSE Goto(r, to, 0, 0)
  /\ UNCHANGED <<now, codes, rows, attempts, consumed, accepted, raced>>

(* issue                                                                   *)

\* The ids are bounded: a call starts only while one is left for it.
Issuing == {r \in Requests : pc[r] \in {"rate", "latest", "invalidate", "save"}}

IssueStart(r) ==
  /\ nextId + Cardinality(Issuing) <= MaxId
  /\ Check(r, "idle", PhoneLocked, "rate")

IssueCheckRate(r) == Check(r, "rate", IssueRateExceeded, "latest")

IssueCheckCooldown(r) == Check(r, "latest", CoolingDown, "invalidate")

\* Mutant: a new code leaves the old ones valid.
BugIssueInvalidate(r) ==
  /\ pc[r] = "invalidate"
  /\ Goto(r, "save", 0, now + TTL)
  /\ UNCHANGED <<now, codes, rows, attempts, consumed, accepted, raced>>

IssueInvalidate(r) ==
  /\ pc[r] = "invalidate"
  /\ consumed' = consumed \cup rows
  /\ Goto(r, "save", 0, now + TTL)
  /\ UNCHANGED <<now, codes, rows, attempts, accepted, raced>>

\* The INSERT; then the message is dispatched, and whether that succeeds,
\* fails or times out only decides if the answer carries a warning.
IssueSave(r) ==
  /\ pc[r] = "save"
  /\ rows' = rows \cup {nextId}
  /\ nextId' = nextId + 1
  /\ createdAt' = [createdAt EXCEPT ![nextId] = now]
  /\ expiresAt' = [expiresAt EXCEPT ![nextId] = expiry[r]]
  /\ since' = [since EXCEPT ![nextId] = began[r]]
  /\ Return(r)
  /\ UNCHANGED <<now, attempts, consumed, accepted, raced>>

(* verify                                                                  *)

VerifyStart(r) == Check(r, "idle", PhoneLocked, "find")

\* findActiveByPhoneAndPurpose takes the newest; the handler then decides.
VerifyFind(r) ==
  /\ pc[r] = "find"
  /\ IF Active = {}
     THEN Return(r) /\ UNCHANGED raced
     ELSE LET i == Max(Active)
          IN  IF Exhausted(i)
              THEN Goto(r, "exhaust", i, 0) /\ UNCHANGED raced
              ELSE \/ Goto(r, "miss", i, 0) /\ UNCHANGED raced
                   \/ /\ Goto(r, "hit", i, 0)
                      /\ raced' = raced \cup
                           {j \in {i} : \E q \in Requests : pc[q] = "hit" /\ row[q] = j}
  /\ UNCHANGED <<now, codes, rows, attempts, consumed, accepted>>

\* The code presented is wrong: an atomic increment, then reject.
VerifyMiss(r) ==
  /\ pc[r] = "miss"
  /\ attempts' = [attempts EXCEPT ![row[r]] = IF row[r] \in rows THEN @ + 1 ELSE @]
  /\ Return(r)
  /\ UNCHANGED <<now, codes, rows, consumed, accepted, raced>>

\* The code presented is right: consume the row, accept.
VerifyHit(r) ==
  /\ pc[r] = "hit"
  /\ consumed' = consumed \cup {row[r]}
  /\ accepted' = [accepted EXCEPT ![row[r]] = @ + 1]
  /\ Return(r)
  /\ UNCHANGED <<now, codes, rows, attempts, raced>>

\* Too many attempts: consume the row, reject.
VerifyExhaust(r) ==
  /\ pc[r] = "exhaust"
  /\ consumed' = consumed \cup {row[r]}
  /\ Return(r)
  /\ UNCHANGED <<now, codes, rows, attempts, accepted, raced>>

(* pruneStaleOtps, time, and a handler that dies or loses the database.    *)

PruneStaleOtps ==
  /\ \E i \in rows : createdAt[i] < now - Retention
  /\ rows' = {i \in rows : createdAt[i] >= now - Retention}
  /\ UNCHANGED <<now, codes, attempts, consumed, locals, accepted, raced>>

Tick ==
  /\ now < MaxNow
  /\ now' = now + 1
  /\ UNCHANGED <<codes, rows, attempts, consumed, locals, accepted, raced>>

Abort(r) ==
  /\ pc[r] # "idle"
  /\ Return(r)
  /\ UNCHANGED <<now, codes, rows, attempts, consumed, accepted, raced>>

Next ==
  \/ Tick
  \/ PruneStaleOtps
  \/ \E r \in Requests :
       \/ IssueStart(r) \/ IssueCheckRate(r) \/ IssueCheckCooldown(r)
       \/ IssueInvalidate(r) \/ IssueSave(r)
       \/ VerifyStart(r) \/ VerifyFind(r)
       \/ VerifyMiss(r) \/ VerifyHit(r) \/ VerifyExhaust(r)
       \/ Abort(r)

Spec == Init /\ [][Next]_vars

-----------------------------------------------------------------------------
(* Properties.  The checks read before they write, so N concurrent calls   *)
(* can pass a limit together: a limit L is really L - 1 + N.               *)

Overshoot(limit) == limit - 1 + Cardinality(Requests)

\* Every variable has its type.
TypeOK ==
  /\ now \in 0..MaxNow
  /\ nextId \in 1..(MaxId + 1)
  /\ rows \subseteq Id
  /\ createdAt \in [Id -> Nat]
  /\ expiresAt \in [Id -> Nat]
  /\ attempts \in [Id -> Nat]
  /\ consumed \subseteq Id
  /\ pc \in [Requests -> {"idle", "rate", "latest", "invalidate", "save",
                          "find", "miss", "hit", "exhaust"}]
  /\ row \in [Requests -> Id \cup {0}]
  /\ expiry \in [Requests -> Nat]
  /\ began \in [Requests -> Nat]
  /\ since \in [Id -> Nat]
  /\ accepted \in [Id -> Nat]
  /\ raced \subseteq Id

\* One code never takes more wrong guesses than OTP_MAX_VERIFY_ATTEMPTS allows
\* one caller, plus one for each other caller that was already past the check.
AttemptsBounded == \A i \in Id : attempts[i] <= Overshoot(MaxAttempts)

\* Asking for fresh codes does not buy more guesses: over all codes of the lock
\* window the failures stay within the phone's limit and the same overshoot.
FailuresBounded == Failures <= Overshoot(MaxFailures)

\* The codes sent in an issue window stay within the cap and the overshoot.
IssuesBounded == Issues <= Overshoot(MaxIssues)

\* A new code invalidates the previous ones: an older code is unconsumed beside a
\* newer one only if it was saved while the newer one's issue was under way (ids
\* are given out in the order of the INSERTs).
OneCodeUnlessConcurrent ==
  \A i, j \in Unconsumed : i < j => since[j] <= i

\* A code is accepted twice only if two handlers were accepting it at once.
SingleUseUnlessRaced == \A i \in Id : accepted[i] > 1 => i \in raced

\* Housekeeping resets no rolling count, wherever the windows stand.
PruneKeepsCounts ==
  [][rows' \subseteq rows /\ now' = now /\ attempts' = attempts =>
       Failures' = Failures /\ Issues' = Issues]_vars
=============================================================================
