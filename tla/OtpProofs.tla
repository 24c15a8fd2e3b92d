----------------------------- MODULE OtpProofs -----------------------------
(***************************************************************************)
(* Proofs that the limits of Otp hold, up to the overshoot of concurrent   *)
(* callers, for every number of handlers, every limit and every window.    *)
(*                                                                         *)
(* A limit is read by one statement and spent by a later one.  The         *)
(* inductive invariant counts what was spent together with the handlers    *)
(* that have passed the check and may still spend.                         *)
(***************************************************************************)
EXTENDS Otp, FiniteSetTheorems, WellFoundedInduction, TLAPS

\* Handlers that may still make a wrong guess at code i, at some code of the
\* phone, or send one more code.
Missing(i) == {r \in Requests : pc[r] = "miss" /\ row[r] = i}
Guessing == {r \in Requests : pc[r] \in {"find", "miss"}}
Sending == {r \in Requests : pc[r] \in {"latest", "invalidate", "save"}}

\* Handlers about to accept code i.
Hitting(i) == {r \in Requests : pc[r] = "hit" /\ row[r] = i}

\* Every handler that issues has an id left.
IdsReserved == nextId + Cardinality(Issuing) <= MaxId + 1

\* A handler that writes a row holds one.
RowsHeld == \A r \in Requests : pc[r] \in {"miss", "hit", "exhaust"} => row[r] \in Id

\* Ids are given out in order, and one not given out has no failures.
RowsInserted ==
  /\ \A i \in rows : i < nextId
  /\ \A i \in Id : i >= nextId => attempts[i] = 0

\* What was spent and what may still be.
AttemptsSlack == \A i \in Id : attempts[i] + Cardinality(Missing(i)) <= Overshoot(MaxAttempts)
FailuresSlack == Failures + Cardinality(Guessing) <= Overshoot(MaxFailures)
IssuesSlack == Issues + Cardinality(Sending) <= Overshoot(MaxIssues)

\* When a handler is about to save, the codes that were there when its call began
\* are consumed.
SaversInvalidated ==
  \A r \in Requests :
    /\ began[r] <= nextId
    /\ pc[r] = "save" => \A i \in rows \ consumed : began[r] <= i

\* An accepted code is consumed, and handlers accept it later only if they had
\* found it together with the one that did.
AcceptancesRaced ==
  /\ \A i \in Id : accepted[i] > 0 => i \in consumed /\ (Hitting(i) # {} => i \in raced)
  /\ \A r, q \in Requests : pc[r] = "hit" /\ pc[q] = "hit" /\ row[r] = row[q] /\ r # q
                              => row[r] \in raced

IInv ==
  /\ TypeOK
  /\ IdsReserved
  /\ RowsHeld
  /\ RowsInserted
  /\ AttemptsSlack
  /\ FailuresSlack
  /\ IssuesSlack
  /\ SaversInvalidated
  /\ OneCodeUnlessConcurrent
  /\ AcceptancesRaced
  /\ SingleUseUnlessRaced

-----------------------------------------------------------------------------
(* Counting handlers, failures and codes.                                  *)

Labels == {"idle", "rate", "latest", "invalidate", "save", "find", "miss", "hit", "exhaust"}

LEMMA Limits ==
  /\ TTL \in Nat /\ Cooldown \in Nat /\ LockWindow \in Nat /\ IssueWindow \in Nat
  /\ MaxAttempts \in Nat \ {0} /\ MaxFailures \in Nat \ {0} /\ MaxIssues \in Nat \ {0}
  /\ MaxId \in Nat /\ MaxNow \in Nat
  /\ IsFiniteSet(Requests) /\ Cardinality(Requests) \in Nat
BY OtpAssumption, FS_CardinalityType

\* Sets of handlers are counted as one expects.
LEMMA HandlerCounts ==
  ASSUME NEW S \in SUBSET Requests
  PROVE  /\ IsFiniteSet(S)
         /\ Cardinality(S) \in Nat
         /\ Cardinality(S) <= Cardinality(Requests)
BY Limits, FS_Subset, FS_CardinalityType

LEMMA Fewer ==
  ASSUME NEW S, IsFiniteSet(S), NEW T \in SUBSET S
  PROVE  /\ IsFiniteSet(T)
         /\ Cardinality(S) \in Nat /\ Cardinality(T) \in Nat
         /\ Cardinality(T) <= Cardinality(S)
<1>1. IsFiniteSet(T) /\ Cardinality(T) <= Cardinality(S)
  BY FS_Subset
<1> QED
  BY <1>1, FS_CardinalityType

LEMMA OneFewer ==
  ASSUME NEW S, IsFiniteSet(S), NEW x \in S, NEW T \in SUBSET (S \ {x})
  PROVE  Cardinality(T) + 1 <= Cardinality(S)
<1>1. IsFiniteSet(S \ {x}) /\ Cardinality(S \ {x}) = Cardinality(S) - 1
  BY FS_RemoveElement
<1>2. /\ Cardinality(S) \in Nat /\ Cardinality(T) \in Nat
      /\ Cardinality(T) <= Cardinality(S \ {x})
  BY <1>1, Fewer, FS_CardinalityType
<1> QED
  BY <1>1, <1>2

LEMMA OneMore ==
  ASSUME NEW S, IsFiniteSet(S), NEW x, NEW T \in SUBSET (S \cup {x})
  PROVE  /\ IsFiniteSet(T)
         /\ Cardinality(T) \in Nat /\ Cardinality(S) \in Nat
         /\ Cardinality(T) <= Cardinality(S) + 1
<1>1. IsFiniteSet(S \cup {x}) /\ Cardinality(S \cup {x}) <= Cardinality(S) + 1
      /\ Cardinality(S) \in Nat
  BY FS_AddElement, FS_CardinalityType
<1>2. /\ IsFiniteSet(T) /\ Cardinality(T) \in Nat /\ Cardinality(S \cup {x}) \in Nat
      /\ Cardinality(T) <= Cardinality(S \cup {x})
  BY <1>1, Fewer
<1> QED
  BY <1>1, <1>2

LEMMA IdFinite == IsFiniteSet(Id)
BY Limits, FS_Interval DEF Id

\* A nonempty set of ids has a largest one.
LEMMA MaxInSet ==
  ASSUME NEW S \in SUBSET Id, S # {}
  PROVE  Max(S) \in S
<1> DEFINE Above(i) == {j \in S : j > i}
           Tails == {A \in SUBSET Id : \E i \in S : A = Above(i)}
<1>1. /\ \A i \in S : i \in Int
      /\ Tails \subseteq FiniteSubsetsOf(Id)
  BY IdFinite, FS_FiniteSubsetsOfFinite, Limits DEF Id
<1>2. PICK k \in S : Above(k) \in Tails
  OBVIOUS
<1>3. PICK A \in Tails : \A B \in Tails : <<B, A>> \notin StrictSubsetOrdering(Id)
  <2> HIDE DEF Tails
  <2> QED
    BY <1>1, <1>2, FS_StrictSubsetOrderingWellFounded, WFMin
<1>4. PICK i \in S : A = Above(i)
  BY <1>3
<1>5. \A j \in S : i >= j
  <2> SUFFICES ASSUME NEW j \in S, j > i PROVE FALSE
    BY <1>1
  <2>1. Above(j) \subseteq A /\ j \in A /\ j \notin Above(j)
    BY <1>1, <1>4
  <2>2. Above(j) \in Tails /\ Above(j) \in SUBSET Id /\ A \in SUBSET Id
    BY <1>4
  <2> QED
    BY <1>3, <2>1, <2>2 DEF StrictSubsetOrdering
<1> QED
  BY <1>5 DEF Max

\* The failures of the phone are finitely many.
LEMMA FailuresFinite ==
  ASSUME TypeOK, AttemptsSlack
  PROVE  IsFiniteSet(FailedAttempts) /\ Failures \in Nat
<1>1. Overshoot(MaxAttempts) \in Nat
  BY Limits DEF Overshoot
<1>2. /\ IsFiniteSet(Id) /\ IsFiniteSet(1..Overshoot(MaxAttempts))
      /\ Overshoot(MaxAttempts) \in Nat
  BY <1>1, IdFinite, FS_Interval
<1>3. IsFiniteSet(Id \X (1..Overshoot(MaxAttempts)))
  BY <1>2, FS_Product
<1>4. \A i \in Id : attempts[i] \in Nat /\ attempts[i] <= Overshoot(MaxAttempts)
  <2> TAKE i \in Id
  <2>1. Cardinality(Missing(i)) \in Nat
    BY HandlerCounts DEF Missing
  <2> QED
    BY <2>1, <1>2 DEF TypeOK, AttemptsSlack
<1>5. FailedAttempts \subseteq Id \X (1..Overshoot(MaxAttempts))
  BY <1>2, <1>4 DEF FailedAttempts, TypeOK
<1> QED
  BY <1>3, <1>5, Fewer DEF Failures

\* The codes of the issue window.
Recent == {i \in rows : createdAt[i] > now - IssueWindow}

LEMMA RecentFinite ==
  ASSUME TypeOK
  PROVE  /\ IsFiniteSet(Recent) /\ Issues \in Nat
         /\ Issues = Cardinality(Recent) /\ Issues' = Cardinality(Recent')
<1>1. IsFiniteSet(Id) /\ Recent \in SUBSET Id
  BY IdFinite DEF Recent, TypeOK
<1> QED
  BY <1>1, Fewer DEF Issues, Recent

-----------------------------------------------------------------------------
(* What keeps each part of the invariant.                                  *)

\* What a jump to statement l does to the locals.
LEMMA GotoEffect ==
  ASSUME TypeOK, NEW r \in Requests, NEW l \in Labels, NEW i \in Id \cup {0},
         NEW t \in Nat, Goto(r, l, i, t)
  PROVE  /\ pc' \in [Requests -> Labels]
         /\ row' \in [Requests -> Id \cup {0}]
         /\ expiry' \in [Requests -> Nat] /\ began' \in [Requests -> Nat]
         /\ pc'[r] = l /\ row'[r] = i /\ expiry'[r] = t
         /\ \A q \in Requests : began'[q] \in {0, nextId, began[q]}
         /\ \A q \in Requests \ {r} :
              pc'[q] = pc[q] /\ row'[q] = row[q] /\ began'[q] = began[q]
BY DEF TypeOK, Goto, Labels

\* A step that inserts nothing, brings nobody to the INSERT and gives back no code.
LEMMA SaversStep ==
  ASSUME IInv, rows' \subseteq rows, nextId' = nextId, since' = since,
         consumed \subseteq consumed',
         \A q \in Requests : /\ began'[q] \in {0, nextId, began[q]}
                             /\ pc'[q] = "save" => pc[q] = "save" /\ began'[q] = began[q]
  PROVE  SaversInvalidated' /\ OneCodeUnlessConcurrent'
<1>1. nextId \in Nat
  BY Limits DEF IInv, TypeOK
<1> QED
  BY <1>1 DEF IInv, SaversInvalidated, OneCodeUnlessConcurrent, Unconsumed

LEMMA IdsStep ==
  ASSUME IInv, nextId' = nextId, Issuing' \subseteq Issuing
  PROVE  IdsReserved'
<1>1. /\ Cardinality(Issuing) \in Nat /\ Cardinality(Issuing') \in Nat
      /\ Cardinality(Issuing') <= Cardinality(Issuing)
  <2>1. Issuing \in SUBSET Requests
    BY DEF Issuing
  <2> QED
    BY <2>1, HandlerCounts, Fewer
<1>2. nextId \in Nat /\ MaxId \in Nat
  BY Limits DEF IInv, TypeOK
<1> QED
  BY <1>1, <1>2 DEF IInv, IdsReserved

LEMMA AttemptsStep ==
  ASSUME IInv, attempts' = attempts, \A i \in Id : Missing(i)' \subseteq Missing(i)
  PROVE  AttemptsSlack'
<1> SUFFICES ASSUME NEW i \in Id
             PROVE  attempts[i] + Cardinality(Missing(i)') <= Overshoot(MaxAttempts)
  BY DEF AttemptsSlack, Overshoot
<1>1. /\ Cardinality(Missing(i)) \in Nat /\ Cardinality(Missing(i)') \in Nat
      /\ Cardinality(Missing(i)') <= Cardinality(Missing(i))
  <2>1. Missing(i) \in SUBSET Requests
    BY DEF Missing
  <2> QED
    BY <2>1, HandlerCounts, Fewer
<1>2. attempts[i] \in Nat /\ Overshoot(MaxAttempts) \in Nat
  BY Limits DEF IInv, TypeOK, Overshoot
<1> QED
  BY <1>1, <1>2 DEF IInv, AttemptsSlack

LEMMA FailuresStep ==
  ASSUME IInv, FailedAttempts' \subseteq FailedAttempts, Guessing' \subseteq Guessing
  PROVE  FailuresSlack'
<1>1. /\ Cardinality(Guessing) \in Nat /\ Cardinality(Guessing') \in Nat
      /\ Cardinality(Guessing') <= Cardinality(Guessing)
  <2>1. Guessing \in SUBSET Requests
    BY DEF Guessing
  <2> QED
    BY <2>1, HandlerCounts, Fewer
<1>2. Failures \in Nat /\ Failures' \in Nat /\ Failures' <= Failures
  BY FailuresFinite, Fewer DEF IInv, Failures
<1>3. Overshoot(MaxFailures) \in Nat
  BY Limits DEF Overshoot
<1> QED
  BY <1>1, <1>2, <1>3 DEF IInv, FailuresSlack, Overshoot

LEMMA IssuesStep ==
  ASSUME IInv, Recent' \subseteq Recent, Sending' \subseteq Sending
  PROVE  IssuesSlack'
<1>1. /\ Cardinality(Sending) \in Nat /\ Cardinality(Sending') \in Nat
      /\ Cardinality(Sending') <= Cardinality(Sending)
  <2>1. Sending \in SUBSET Requests
    BY DEF Sending
  <2> QED
    BY <2>1, HandlerCounts, Fewer
<1>2. Issues \in Nat /\ Issues' \in Nat /\ Issues' <= Issues
  BY RecentFinite, Fewer DEF IInv
<1>3. Overshoot(MaxIssues) \in Nat
  BY Limits DEF Overshoot
<1> QED
  BY <1>1, <1>2, <1>3 DEF IInv, IssuesSlack, Overshoot

-----------------------------------------------------------------------------
(* One lemma per action, or for the actions that only move a handler.      *)

\* A handler that only goes on, answers or dies keeps the invariant, provided it
\* passed the check that guards what it may now spend.
LEMMA MoveStep ==
  ASSUME IInv, NEW r \in Requests, NEW l \in Labels \ {"save", "hit"}, NEW i \in Id \cup {0},
         Goto(r, l, i, 0),
         UNCHANGED <<now, codes, rows, attempts, consumed, accepted, raced>>,
         l \in {"miss", "exhaust"} => i \in Id,
         l \in {"rate", "latest", "invalidate"} =>
           r \in Issuing \/ nextId + Cardinality(Issuing) <= MaxId,
         l \in {"find", "miss"} => r \in Guessing \/ Failures < MaxFailures,
         l \in {"latest", "invalidate"} => r \in Sending \/ Issues < MaxIssues,
         l = "miss" => attempts[i] < MaxAttempts
  PROVE  IInv'
<1> USE DEF codes
<1>1. /\ pc' \in [Requests -> Labels]
      /\ row' \in [Requests -> Id \cup {0}]
      /\ expiry' \in [Requests -> Nat] /\ began' \in [Requests -> Nat]
      /\ pc'[r] = l /\ row'[r] = i
      /\ \A q \in Requests : began'[q] \in {0, nextId, began[q]}
      /\ \A q \in Requests \ {r} :
           pc'[q] = pc[q] /\ row'[q] = row[q] /\ began'[q] = began[q]
  BY GotoEffect DEF IInv
<1>2. TypeOK'
  BY <1>1 DEF IInv, TypeOK, Labels
<1>3. IdsReserved'
  <2>1. CASE Issuing' \subseteq Issuing
    BY <2>1, IdsStep
  <2>2. CASE ~ (Issuing' \subseteq Issuing)
    <3>1. nextId + Cardinality(Issuing) <= MaxId /\ Issuing' \subseteq Issuing \cup {r}
      BY <1>1, <2>2 DEF Issuing
    <3>2. /\ Cardinality(Issuing') <= Cardinality(Issuing) + 1
          /\ Cardinality(Issuing') \in Nat /\ Cardinality(Issuing) \in Nat
      <4>1. Issuing \in SUBSET Requests
        BY DEF Issuing
      <4> QED
        BY <3>1, <4>1, HandlerCounts, OneMore
    <3> QED
      BY <3>1, <3>2, Limits DEF IInv, TypeOK, IdsReserved
  <2> QED
    BY <2>1, <2>2
<1>4. RowsHeld' /\ RowsInserted' /\ SaversInvalidated' /\ OneCodeUnlessConcurrent'
      /\ SingleUseUnlessRaced'
  BY <1>1, SaversStep DEF IInv, TypeOK, RowsHeld, RowsInserted, SingleUseUnlessRaced
<1>5. AttemptsSlack'
  <2> SUFFICES ASSUME NEW j \in Id
               PROVE  attempts[j] + Cardinality(Missing(j)') <= Overshoot(MaxAttempts)
    BY DEF AttemptsSlack, Overshoot
  <2>1. Missing(j) \in SUBSET Requests /\ Missing(j)' \in SUBSET Requests
    BY DEF Missing
  <2>2. /\ Cardinality(Missing(j)) \in Nat /\ Cardinality(Missing(j)') \in Nat
        /\ Cardinality(Missing(j)') <= Cardinality(Requests)
        /\ attempts[j] \in Nat
    BY <2>1, HandlerCounts DEF IInv, TypeOK
  <2>3. CASE Missing(j)' \subseteq Missing(j)
    <3>1. Cardinality(Missing(j)') <= Cardinality(Missing(j))
      BY <2>1, <2>3, HandlerCounts, Fewer
    <3> QED
      BY <2>2, <3>1, Limits DEF IInv, AttemptsSlack, Overshoot
  <2>4. CASE ~ (Missing(j)' \subseteq Missing(j))
    <3>1. attempts[j] < MaxAttempts
      BY <1>1, <2>4 DEF Missing
    <3> QED
      BY <2>2, <3>1, Limits DEF Overshoot
  <2> QED
    BY <2>3, <2>4
<1>6. FailuresSlack'
  <2>1. Guessing' \in SUBSET Requests /\ FailedAttempts' = FailedAttempts /\ Failures' = Failures
    BY DEF Guessing, FailedAttempts, Failures
  <2>2. CASE Guessing' \subseteq Guessing
    BY <2>1, <2>2, FailuresStep
  <2>3. CASE ~ (Guessing' \subseteq Guessing)
    <3>1. Failures < MaxFailures
      BY <1>1, <2>3 DEF Guessing
    <3>2. Failures \in Nat /\ Cardinality(Guessing') \in Nat
          /\ Cardinality(Guessing') <= Cardinality(Requests)
      BY <2>1, HandlerCounts, FailuresFinite DEF IInv
    <3> QED
      BY <2>1, <3>1, <3>2, Limits DEF FailuresSlack, Overshoot
  <2> QED
    BY <2>2, <2>3
<1>7. IssuesSlack'
  <2>1. Sending' \in SUBSET Requests /\ Recent' = Recent /\ Issues' = Issues
    BY DEF Sending, Recent, Issues
  <2>2. CASE Sending' \subseteq Sending
    BY <2>1, <2>2, IssuesStep
  <2>3. CASE ~ (Sending' \subseteq Sending)
    <3>1. Issues < MaxIssues
      BY <1>1, <2>3 DEF Sending
    <3>2. Issues \in Nat /\ Cardinality(Sending') \in Nat
          /\ Cardinality(Sending') <= Cardinality(Requests)
      BY <2>1, HandlerCounts, RecentFinite DEF IInv
    <3> QED
      BY <2>1, <3>1, <3>2, Limits DEF IssuesSlack, Overshoot
  <2> QED
    BY <2>2, <2>3
<1>8. AcceptancesRaced'
  <2>1. \A q \in Requests : pc'[q] = "hit" => pc[q] = "hit" /\ row'[q] = row[q]
    BY <1>1
  <2>2. \A j : Hitting(j)' \subseteq Hitting(j)
    BY <2>1 DEF Hitting
  <2> QED
    BY <2>1, <2>2 DEF IInv, AcceptancesRaced
<1> QED
  BY <1>2, <1>3, <1>4, <1>5, <1>6, <1>7, <1>8 DEF IInv

\* A handler that takes no further part: its steps that write only shrink the
\* sets of handlers that may spend.
LEMMA LeaveEffect ==
  ASSUME IInv, NEW r \in Requests, NEW l \in {"idle", "hit"}, NEW i \in Id \cup {0},
         Goto(r, l, i, 0)
  PROVE  /\ Issuing' \subseteq Issuing \ {r}
         /\ Guessing' \subseteq Guessing \ {r}
         /\ Sending' \subseteq Sending \ {r}
         /\ \A j \in Id : Missing(j)' \subseteq Missing(j) \ {r}
<1>1. l \in Labels
  BY DEF Labels
<1>2. pc'[r] = l /\ \A q \in Requests \ {r} : pc'[q] = pc[q] /\ row'[q] = row[q]
  BY <1>1, GotoEffect DEF IInv
<1> QED
  BY <1>2 DEF Issuing, Guessing, Sending, Missing

\* The code found is right.
LEMMA HitFoundStep ==
  ASSUME IInv, NEW r \in Requests, Active # {}, pc[r] = "find",
         Goto(r, "hit", Max(Active), 0),
         raced' = raced \cup
           {j \in {Max(Active)} : \E q \in Requests : pc[q] = "hit" /\ row[q] = j},
         UNCHANGED <<now, codes, rows, attempts, consumed, accepted>>
  PROVE  IInv'
<1> DEFINE m == Max(Active)
<1> USE DEF codes
<1>1. m \in Active /\ m \in Id /\ m \in rows \ consumed
  <2>1. Active \in SUBSET Id
    BY DEF Active, Unconsumed, IInv, TypeOK
  <2>2. m \in Active
    BY <2>1, MaxInSet
  <2> QED
    BY <2>1, <2>2 DEF Active, Unconsumed
<1> HIDE DEF m
<1>2. /\ pc' \in [Requests -> Labels]
      /\ row' \in [Requests -> Id \cup {0}]
      /\ expiry' \in [Requests -> Nat] /\ began' \in [Requests -> Nat]
      /\ pc'[r] = "hit" /\ row'[r] = m
      /\ \A q \in Requests : began'[q] \in {0, nextId, began[q]}
      /\ \A q \in Requests \ {r} :
           pc'[q] = pc[q] /\ row'[q] = row[q] /\ began'[q] = began[q]
  BY <1>1, GotoEffect DEF IInv, Labels, m
<1>3. raced' = raced \cup {j \in {m} : \E q \in Requests : pc[q] = "hit" /\ row[q] = j}
  BY DEF m
<1>4. TypeOK'
  BY <1>1, <1>2, <1>3 DEF IInv, TypeOK, Labels
<1>5. /\ Issuing' \subseteq Issuing /\ Guessing' \subseteq Guessing /\ Sending' \subseteq Sending
      /\ \A j \in Id : Missing(j)' \subseteq Missing(j)
  BY <1>1, LeaveEffect DEF m
<1>6. IdsReserved' /\ AttemptsSlack' /\ FailuresSlack' /\ IssuesSlack'
  <2>1. FailedAttempts' = FailedAttempts /\ Recent' = Recent
    BY DEF FailedAttempts, Recent
  <2> QED
    BY <1>5, <2>1, IdsStep, AttemptsStep, FailuresStep, IssuesStep
<1>7. RowsHeld' /\ RowsInserted' /\ SaversInvalidated' /\ OneCodeUnlessConcurrent'
      /\ SingleUseUnlessRaced'
  BY <1>1, <1>2, <1>3, SaversStep
     DEF IInv, TypeOK, RowsHeld, RowsInserted, SingleUseUnlessRaced
<1>8. AcceptancesRaced'
  <2>1. ~ (accepted[m] > 0)
    BY <1>1 DEF IInv, AcceptancesRaced
  <2>2. ASSUME NEW j \in Id, accepted'[j] > 0
        PROVE  j \in consumed' /\ (Hitting(j)' # {} => j \in raced')
    <3>1. Hitting(j)' = Hitting(j)
      BY <1>2, <2>1, <2>2 DEF Hitting, IInv, TypeOK
    <3> QED
      BY <1>3, <2>2, <3>1 DEF IInv, AcceptancesRaced
  <2>3. ASSUME NEW p \in Requests, NEW q \in Requests,
               pc'[p] = "hit", pc'[q] = "hit", row'[p] = row'[q], p # q
        PROVE  row'[p] \in raced'
    <3>1. CASE p # r /\ q # r
      BY <1>2, <1>3, <2>3, <3>1 DEF IInv, AcceptancesRaced
    <3>2. CASE p = r
      BY <1>2, <1>3, <2>3, <3>2
    <3>3. CASE q = r
      BY <1>2, <1>3, <2>3, <3>3
    <3> QED
      BY <3>1, <3>2, <3>3
  <2> QED
    BY <2>2, <2>3 DEF AcceptancesRaced
<1> QED
  BY <1>4, <1>6, <1>7, <1>8 DEF IInv

\* A wrong guess is counted.
LEMMA VerifyMissStep ==
  ASSUME IInv, NEW r \in Requests, VerifyMiss(r)
  PROVE  IInv'
<1> DEFINE i == row[r]
<1> USE DEF codes, VerifyMiss, Return
<1>1. i \in Id /\ r \in Missing(i) /\ r \in Guessing
  BY DEF IInv, RowsHeld, Missing, Guessing
<1>2. /\ attempts' \in [Id -> Nat]
      /\ attempts'[i] = IF i \in rows THEN attempts[i] + 1 ELSE attempts[i]
      /\ \A j \in Id \ {i} : attempts'[j] = attempts[j]
  BY <1>1 DEF IInv, TypeOK
<1>3. /\ pc' \in [Requests -> Labels]
      /\ row' \in [Requests -> Id \cup {0}]
      /\ expiry' \in [Requests -> Nat] /\ began' \in [Requests -> Nat]
      /\ pc'[r] = "idle" /\ row'[r] = 0
      /\ \A q \in Requests : began'[q] \in {0, nextId, began[q]}
      /\ \A q \in Requests \ {r} :
           pc'[q] = pc[q] /\ row'[q] = row[q] /\ began'[q] = began[q]
  BY GotoEffect DEF IInv, Labels
<1>4. /\ Issuing' \subseteq Issuing \ {r} /\ Guessing' \subseteq Guessing \ {r}
      /\ Sending' \subseteq Sending \ {r}
      /\ \A j \in Id : Missing(j)' \subseteq Missing(j) \ {r}
  BY LeaveEffect
<1>5. TypeOK'
  BY <1>2, <1>3 DEF IInv, TypeOK, Labels
<1>6. IdsReserved'
  BY <1>4, IdsStep
<1>7. RowsHeld' /\ RowsInserted' /\ SaversInvalidated' /\ OneCodeUnlessConcurrent'
      /\ SingleUseUnlessRaced'
  <2>1. RowsInserted'
    <3>1. nextId \in Int /\ \A j \in Id : j \in Int
      BY Limits DEF IInv, TypeOK, Id
    <3>2. \A j \in Id : j >= nextId => attempts'[j] = 0
      BY <1>2, <3>1 DEF IInv, RowsInserted
    <3> QED
      BY <3>2 DEF IInv, RowsInserted
  <2>2. RowsHeld' /\ SingleUseUnlessRaced'
    BY <1>3 DEF IInv, RowsHeld, SingleUseUnlessRaced
  <2>3. SaversInvalidated' /\ OneCodeUnlessConcurrent'
    BY <1>3, SaversStep
  <2> QED
    BY <2>1, <2>2, <2>3
<1>8. AttemptsSlack'
  <2> SUFFICES ASSUME NEW j \in Id
               PROVE  attempts'[j] + Cardinality(Missing(j)') <= Overshoot(MaxAttempts)
    BY DEF AttemptsSlack, Overshoot
  <2>1. Missing(j) \in SUBSET Requests
    BY DEF Missing
  <2>2. /\ Cardinality(Missing(j)) \in Nat /\ Cardinality(Missing(j)') \in Nat
        /\ Cardinality(Missing(j)') <= Cardinality(Missing(j))
        /\ r \in Missing(j) => Cardinality(Missing(j)') + 1 <= Cardinality(Missing(j))
    BY <1>4, <2>1, HandlerCounts, Fewer, OneFewer
  <2>3. attempts[j] \in Nat /\ attempts[j] + Cardinality(Missing(j)) <= Overshoot(MaxAttempts)
    BY DEF IInv, TypeOK, AttemptsSlack
  <2>4. attempts'[j] = attempts[j] \/ (j = i /\ attempts'[j] = attempts[j] + 1)
    BY <1>2
  <2>5. Overshoot(MaxAttempts) \in Nat
    BY Limits DEF Overshoot
  <2> QED
    BY <1>1, <2>2, <2>3, <2>4, <2>5
<1>9. FailuresSlack'
  <2>1. FailedAttempts' \subseteq FailedAttempts \cup {<<i, attempts[i] + 1>>}
    BY <1>1, <1>2 DEF FailedAttempts, IInv, TypeOK
  <2>2. /\ Failures \in Nat /\ Failures' \in Nat /\ Failures' <= Failures + 1
    <3>1. IsFiniteSet(FailedAttempts)
      BY FailuresFinite DEF IInv
    <3> QED
      BY <2>1, <3>1, OneMore DEF Failures
  <2>3. Guessing \in SUBSET Requests
    BY DEF Guessing
  <2>4. /\ Cardinality(Guessing) \in Nat /\ Cardinality(Guessing') \in Nat
        /\ Cardinality(Guessing') + 1 <= Cardinality(Guessing)
    BY <1>1, <1>4, <2>3, HandlerCounts, Fewer, OneFewer
  <2>5. Overshoot(MaxFailures) \in Nat
    BY Limits DEF Overshoot
  <2> QED
    BY <2>2, <2>4, <2>5 DEF IInv, FailuresSlack, Overshoot
<1>10. IssuesSlack'
  <2>1. Recent' = Recent
    BY DEF Recent
  <2> QED
    BY <1>4, <2>1, IssuesStep
<1>11. AcceptancesRaced'
  <2>1. \A j : Hitting(j)' \subseteq Hitting(j)
    BY <1>3 DEF Hitting
  <2> QED
    BY <1>3, <2>1 DEF IInv, AcceptancesRaced
<1> QED
  BY <1>5, <1>6, <1>7, <1>8, <1>9, <1>10, <1>11 DEF IInv

\* A right guess consumes the code and is accepted.
LEMMA VerifyHitStep ==
  ASSUME IInv, NEW r \in Requests, VerifyHit(r)
  PROVE  IInv'
<1> USE DEF codes, VerifyHit, Return
<1>1. PICK i \in Id : i = row[r] /\ r \in Hitting(i)
  BY DEF IInv, RowsHeld, Hitting
<1>2. /\ accepted' \in [Id -> Nat]
      /\ accepted'[i] = accepted[i] + 1
      /\ \A j \in Id \ {i} : accepted'[j] = accepted[j]
      /\ consumed' = consumed \cup {i}
  BY <1>1 DEF IInv, TypeOK
<1>3. /\ pc' \in [Requests -> Labels]
      /\ row' \in [Requests -> Id \cup {0}]
      /\ expiry' \in [Requests -> Nat] /\ began' \in [Requests -> Nat]
      /\ pc'[r] = "idle" /\ row'[r] = 0
      /\ \A q \in Requests : began'[q] \in {0, nextId, began[q]}
      /\ \A q \in Requests \ {r} :
           pc'[q] = pc[q] /\ row'[q] = row[q] /\ began'[q] = began[q]
  BY GotoEffect DEF IInv, Labels
<1>4. TypeOK'
  BY <1>1, <1>2, <1>3 DEF IInv, TypeOK, Labels
<1>5. IdsReserved' /\ AttemptsSlack' /\ FailuresSlack' /\ IssuesSlack'
  <2>1. /\ Issuing' \subseteq Issuing /\ Guessing' \subseteq Guessing
        /\ Sending' \subseteq Sending
        /\ \A j \in Id : Missing(j)' \subseteq Missing(j)
    BY LeaveEffect
  <2>2. FailedAttempts' = FailedAttempts /\ Recent' = Recent
    BY DEF FailedAttempts, Recent
  <2> QED
    BY <2>1, <2>2, IdsStep, AttemptsStep, FailuresStep, IssuesStep
<1>6. RowsHeld' /\ RowsInserted' /\ SaversInvalidated' /\ OneCodeUnlessConcurrent'
  <2>1. RowsHeld' /\ RowsInserted'
    BY <1>3 DEF IInv, RowsHeld, RowsInserted
  <2>2. SaversInvalidated' /\ OneCodeUnlessConcurrent'
    BY <1>2, <1>3, SaversStep
  <2> QED
    BY <2>1, <2>2
<1>7. SingleUseUnlessRaced'
  <2> SUFFICES ASSUME NEW j \in Id, accepted'[j] > 1 PROVE j \in raced
    BY DEF SingleUseUnlessRaced
  <2>1. CASE j # i
    BY <1>2, <2>1 DEF IInv, SingleUseUnlessRaced
  <2>2. CASE j = i
    <3>1. accepted[i] > 0
      BY <1>1, <1>2, <2>2 DEF IInv, TypeOK
    <3> QED
      BY <1>1, <2>2, <3>1 DEF IInv, AcceptancesRaced
  <2> QED
    BY <2>1, <2>2
<1>8. AcceptancesRaced'
  <2>1. \A j : Hitting(j)' \subseteq Hitting(j) \ {r}
    BY <1>3 DEF Hitting
  <2>2. ASSUME NEW j \in Id, accepted'[j] > 0
        PROVE  j \in consumed' /\ (Hitting(j)' # {} => j \in raced')
    <3>1. CASE j # i
      BY <1>2, <2>1, <2>2, <3>1 DEF IInv, AcceptancesRaced
    <3>2. CASE j = i
      <4>1. ASSUME NEW q \in Hitting(i)' PROVE i \in raced
        <5>1. q \in Requests \ {r} /\ pc[q] = "hit" /\ row[q] = i /\ pc[r] = "hit"
          BY <2>1, <4>1 DEF Hitting
        <5> QED
          BY <1>1, <5>1 DEF IInv, AcceptancesRaced
      <4> QED
        BY <1>2, <3>2, <4>1
    <3> QED
      BY <3>1, <3>2
  <2>3. \A p, q \in Requests : pc'[p] = "hit" /\ pc'[q] = "hit" /\ row'[p] = row'[q] /\ p # q
                                 => row'[p] \in raced'
    BY <1>3 DEF IInv, AcceptancesRaced
  <2> QED
    BY <2>2, <2>3 DEF AcceptancesRaced
<1> QED
  BY <1>4, <1>5, <1>6, <1>7, <1>8 DEF IInv

\* A code that took too many wrong guesses is consumed.
LEMMA VerifyExhaustStep ==
  ASSUME IInv, NEW r \in Requests, VerifyExhaust(r)
  PROVE  IInv'
<1> USE DEF codes, VerifyExhaust, Return
<1>1. row[r] \in Id
  BY DEF IInv, RowsHeld
<1>2. /\ pc' \in [Requests -> Labels]
      /\ row' \in [Requests -> Id \cup {0}]
      /\ expiry' \in [Requests -> Nat] /\ began' \in [Requests -> Nat]
      /\ pc'[r] = "idle" /\ row'[r] = 0
      /\ \A q \in Requests : began'[q] \in {0, nextId, began[q]}
      /\ \A q \in Requests \ {r} :
           pc'[q] = pc[q] /\ row'[q] = row[q] /\ began'[q] = began[q]
  BY GotoEffect DEF IInv, Labels
<1>3. TypeOK'
  BY <1>1, <1>2 DEF IInv, TypeOK, Labels
<1>4. IdsReserved' /\ AttemptsSlack' /\ FailuresSlack' /\ IssuesSlack'
  <2>1. /\ Issuing' \subseteq Issuing /\ Guessing' \subseteq Guessing
        /\ Sending' \subseteq Sending
        /\ \A j \in Id : Missing(j)' \subseteq Missing(j)
    BY LeaveEffect
  <2>2. FailedAttempts' = FailedAttempts /\ Recent' = Recent
    BY DEF FailedAttempts, Recent
  <2> QED
    BY <2>1, <2>2, IdsStep, AttemptsStep, FailuresStep, IssuesStep
<1>5. RowsHeld' /\ RowsInserted'
  BY <1>2 DEF IInv, RowsHeld, RowsInserted
<1>6. SaversInvalidated' /\ OneCodeUnlessConcurrent' /\ SingleUseUnlessRaced'
  BY <1>2, SaversStep DEF IInv, SingleUseUnlessRaced
<1>7. AcceptancesRaced'
  <2>1. \A j : Hitting(j)' \subseteq Hitting(j)
    BY <1>2 DEF Hitting
  <2> QED
    BY <1>2, <2>1 DEF IInv, AcceptancesRaced
<1> QED
  BY <1>3, <1>4, <1>5, <1>6, <1>7 DEF IInv

\* A call that issues consumes the codes there are.
LEMMA IssueInvalidateStep ==
  ASSUME IInv, NEW r \in Requests, IssueInvalidate(r)
  PROVE  IInv'
<1> USE DEF codes, IssueInvalidate
<1>1. /\ pc' \in [Requests -> Labels]
      /\ row' \in [Requests -> Id \cup {0}]
      /\ expiry' \in [Requests -> Nat] /\ began' \in [Requests -> Nat]
      /\ pc'[r] = "save" /\ row'[r] = 0
      /\ \A q \in Requests : began'[q] \in {0, nextId, began[q]}
      /\ \A q \in Requests \ {r} :
           pc'[q] = pc[q] /\ row'[q] = row[q] /\ began'[q] = began[q]
  <2>1. now + TTL \in Nat /\ "save" \in Labels
    BY Limits DEF IInv, TypeOK, Labels
  <2> QED
    BY <2>1, GotoEffect DEF IInv
<1>2. TypeOK'
  BY <1>1 DEF IInv, TypeOK, Labels
<1>3. IdsReserved' /\ AttemptsSlack' /\ FailuresSlack' /\ IssuesSlack'
  <2>1. /\ Issuing' \subseteq Issuing /\ Guessing' \subseteq Guessing
        /\ Sending' \subseteq Sending
        /\ \A j \in Id : Missing(j)' \subseteq Missing(j)
    BY <1>1 DEF Issuing, Guessing, Sending, Missing
  <2>2. FailedAttempts' = FailedAttempts /\ Recent' = Recent
    BY DEF FailedAttempts, Recent
  <2> QED
    BY <2>1, <2>2, IdsStep, AttemptsStep, FailuresStep, IssuesStep
<1>4. RowsHeld' /\ RowsInserted'
  BY <1>1 DEF IInv, RowsHeld, RowsInserted
<1>5. SaversInvalidated' /\ OneCodeUnlessConcurrent' /\ SingleUseUnlessRaced'
  <2>1. nextId \in Nat
    BY Limits DEF IInv, TypeOK
  <2> QED
    BY <1>1, <2>1 DEF IInv, SaversInvalidated, OneCodeUnlessConcurrent, Unconsumed,
                      SingleUseUnlessRaced
<1>6. AcceptancesRaced'
  <2>1. \A j : Hitting(j)' \subseteq Hitting(j)
    BY <1>1 DEF Hitting
  <2> QED
    BY <1>1, <2>1 DEF IInv, AcceptancesRaced
<1> QED
  BY <1>2, <1>3, <1>4, <1>5, <1>6 DEF IInv

\* The new code is inserted.
LEMMA IssueSaveStep ==
  ASSUME IInv, NEW r \in Requests, IssueSave(r)
  PROVE  IInv'
<1> USE DEF IssueSave, Return
<1>1. /\ pc' \in [Requests -> Labels]
      /\ row' \in [Requests -> Id \cup {0}]
      /\ expiry' \in [Requests -> Nat] /\ began' \in [Requests -> Nat]
      /\ pc'[r] = "idle" /\ row'[r] = 0
      /\ \A q \in Requests : began'[q] \in {0, nextId, began[q]}
      /\ \A q \in Requests \ {r} :
           pc'[q] = pc[q] /\ row'[q] = row[q] /\ began'[q] = began[q]
  BY GotoEffect DEF IInv, Labels
<1>2. /\ Issuing' \subseteq Issuing \ {r} /\ Guessing' \subseteq Guessing
      /\ Sending' \subseteq Sending \ {r}
      /\ \A j \in Id : Missing(j)' \subseteq Missing(j)
      /\ r \in Issuing /\ r \in Sending
  <2>1. r \in Issuing /\ r \in Sending
    BY DEF Issuing, Sending
  <2> QED
    BY <2>1, LeaveEffect
<1>3. /\ Cardinality(Issuing) \in Nat /\ Cardinality(Issuing') \in Nat
      /\ Cardinality(Issuing') + 1 <= Cardinality(Issuing)
  <2>1. Issuing \in SUBSET Requests
    BY DEF Issuing
  <2> QED
    BY <1>2, <2>1, HandlerCounts, Fewer, OneFewer
<1>4. nextId \in Id
  BY <1>3, Limits DEF IInv, IdsReserved, TypeOK, Id
<1>5. PICK n \in Id : n = nextId /\ nextId' = n + 1
  BY <1>4
<1>6. /\ rows' = rows \cup {n}
      /\ createdAt' \in [Id -> Nat] /\ expiresAt' \in [Id -> Nat]
      /\ since' \in [Id -> Nat]
      /\ since'[n] = began[r]
      /\ \A i \in Id \ {n} : createdAt'[i] = createdAt[i] /\ since'[i] = since[i]
  BY <1>5 DEF IInv, TypeOK
<1>7. /\ n \notin rows /\ attempts[n] = 0
      /\ \A i \in rows : i \in Id /\ i < n
      /\ n \in Nat /\ \A i \in Id : i \in Nat
  <2>1. n \in Nat /\ \A i \in Id : i \in Nat
    BY <1>5, Limits DEF Id
  <2>2. \A i \in rows : i \in Id /\ i < n
    BY <1>5 DEF IInv, RowsInserted, TypeOK
  <2>3. attempts[n] = 0
    BY <1>5, <2>1 DEF IInv, RowsInserted
  <2> QED
    BY <2>1, <2>2, <2>3
<1>8. TypeOK'
  <2>1. nextId' \in 1..(MaxId + 1) /\ rows' \subseteq Id
    BY <1>5, <1>6, Limits DEF IInv, TypeOK, Id
  <2> QED
    BY <1>1, <1>6, <2>1 DEF IInv, TypeOK, Labels
<1>9. IdsReserved'
  BY <1>3, <1>5, <1>7, Limits DEF IInv, IdsReserved
<1>10. RowsHeld' /\ RowsInserted'
  <2>1. \A i \in rows' : i < nextId'
    <3> SUFFICES ASSUME NEW i \in rows' PROVE i < n + 1
      BY <1>5
    <3>1. CASE i = n
      BY <1>7, <3>1
    <3>2. CASE i # n
      <4>1. i \in Nat /\ i < n
        BY <1>6, <1>7, <3>2
      <4> QED
        BY <1>7, <4>1
    <3> QED
      BY <3>1, <3>2
  <2>2. \A i \in Id : i >= nextId' => attempts'[i] = 0
    <3>1. ASSUME NEW i \in Id, i >= n + 1 PROVE i >= n
      <4>1. i \in Nat /\ n \in Nat
        BY <1>7
      <4> QED
        BY <3>1, <4>1
    <3> QED
      BY <1>5, <3>1 DEF IInv, RowsInserted
  <2>3. RowsHeld'
    BY <1>1 DEF IInv, RowsHeld
  <2> QED
    BY <2>1, <2>2, <2>3 DEF RowsInserted
<1>11. AttemptsSlack'
  BY <1>2, AttemptsStep
<1>12. FailuresSlack'
  <2>1. FailedAttempts' \subseteq FailedAttempts
    <3> SUFFICES ASSUME NEW i \in rows', createdAt'[i] >= now - LockWindow,
                        NEW k \in 1..attempts[i]
                 PROVE  <<i, k>> \in FailedAttempts
      BY <1>6 DEF FailedAttempts
    <3>1. i # n
      BY <1>7
    <3>2. i \in rows /\ createdAt[i] >= now - LockWindow
      BY <1>6, <1>7, <3>1
    <3> QED
      BY <3>2 DEF FailedAttempts
  <2> QED
    BY <1>2, <2>1, FailuresStep
<1>13. IssuesSlack'
  <2>1. Recent' \subseteq Recent \cup {n}
    BY <1>6, <1>7 DEF Recent
  <2>2. /\ Issues \in Nat /\ Issues' \in Nat /\ Issues' <= Issues + 1
    BY <2>1, RecentFinite, OneMore DEF IInv
  <2>3. /\ Cardinality(Sending) \in Nat /\ Cardinality(Sending') \in Nat
        /\ Cardinality(Sending') + 1 <= Cardinality(Sending)
    <3>1. Sending \in SUBSET Requests
      BY DEF Sending
    <3> QED
      BY <1>2, <3>1, HandlerCounts, Fewer, OneFewer
  <2>4. Overshoot(MaxIssues) \in Nat
    BY Limits DEF Overshoot
  <2> QED
    BY <2>2, <2>3, <2>4 DEF IInv, IssuesSlack, Overshoot
<1>14. SaversInvalidated' /\ OneCodeUnlessConcurrent'
  <2>1. ASSUME NEW q \in Requests
        PROVE  began[q] \in Nat /\ began[q] <= n /\ began'[q] <= nextId'
    BY <1>1, <1>5, <1>7, <2>1 DEF IInv, TypeOK, SaversInvalidated
  <2>2. ASSUME NEW q \in Requests, pc'[q] = "save", NEW i \in rows' \ consumed'
        PROVE  began'[q] <= i
    <3>1. q # r /\ pc[q] = "save" /\ began'[q] = began[q]
      BY <1>1, <2>2
    <3> QED
      BY <1>6, <2>1, <2>2, <3>1 DEF IInv, SaversInvalidated
  <2>3. ASSUME NEW i \in Unconsumed', NEW j \in Unconsumed', i < j PROVE since'[j] <= i
    <3>1. i \in rows \ consumed /\ i # n
      <4>1. i \in rows' /\ j \in rows' /\ consumed' = consumed /\ i \notin consumed'
        BY <2>3 DEF Unconsumed
      <4>2. i # n
        <5> SUFFICES ASSUME i = n PROVE FALSE
          OBVIOUS
        <5>1. j \in Nat /\ (j = n \/ j < n) /\ n < j
          BY <1>6, <1>7, <2>3, <4>1
        <5> QED
          BY <1>7, <5>1
      <4> QED
        BY <1>6, <4>1, <4>2
    <3>2. CASE j = n
      BY <1>6, <3>1, <3>2 DEF IInv, SaversInvalidated
    <3>3. CASE j # n
      BY <1>6, <2>3, <3>1, <3>3 DEF IInv, OneCodeUnlessConcurrent, Unconsumed
    <3> QED
      BY <3>2, <3>3
  <2> QED
    BY <2>1, <2>2, <2>3 DEF SaversInvalidated, OneCodeUnlessConcurrent
<1>15. AcceptancesRaced' /\ SingleUseUnlessRaced'
  <2>1. \A j : Hitting(j)' \subseteq Hitting(j)
    BY <1>1 DEF Hitting
  <2> QED
    BY <1>1, <2>1 DEF IInv, AcceptancesRaced, SingleUseUnlessRaced
<1> QED
  BY <1>8, <1>9, <1>10, <1>11, <1>12, <1>13, <1>14, <1>15 DEF IInv

\* Rows are deleted and time passes: the handlers do not move.
LEMMA BackgroundStep ==
  ASSUME IInv, PruneStaleOtps \/ Tick
  PROVE  IInv'
<1> USE DEF codes, locals
<1>1. /\ rows' \subseteq rows /\ now' \in 0..MaxNow /\ now' >= now
      /\ UNCHANGED <<nextId, createdAt, expiresAt, since, attempts, consumed, pc, row,
                     expiry, began, accepted, raced>>
  BY Limits DEF PruneStaleOtps, Tick, IInv, TypeOK
<1>2. TypeOK'
  BY <1>1 DEF IInv, TypeOK
<1>3. \A i \in rows : createdAt[i] \in Int
  BY DEF IInv, TypeOK
<1>4. /\ Issuing' \subseteq Issuing /\ Guessing' \subseteq Guessing /\ Sending' \subseteq Sending
      /\ \A j \in Id : Missing(j)' \subseteq Missing(j)
  BY <1>1 DEF Issuing, Guessing, Sending, Missing
<1>5. now \in Int /\ now' \in Int /\ LockWindow \in Int /\ IssueWindow \in Int
  BY <1>1, Limits DEF IInv, TypeOK
<1>6. FailedAttempts' \subseteq FailedAttempts
  <2> SUFFICES ASSUME NEW i \in rows', createdAt[i] >= now' - LockWindow,
                      NEW k \in 1..attempts[i]
               PROVE  <<i, k>> \in FailedAttempts
    BY <1>1 DEF FailedAttempts
  <2>1. i \in rows /\ createdAt[i] >= now - LockWindow
    BY <1>1, <1>3, <1>5
  <2> QED
    BY <2>1 DEF FailedAttempts
<1>7. Recent' \subseteq Recent
  BY <1>1, <1>3, <1>5 DEF Recent
<1>8. IdsReserved' /\ AttemptsSlack' /\ FailuresSlack' /\ IssuesSlack'
  BY <1>1, <1>4, <1>6, <1>7, IdsStep, AttemptsStep, FailuresStep, IssuesStep
<1>9. RowsHeld' /\ RowsInserted' /\ SingleUseUnlessRaced'
  BY <1>1 DEF IInv, RowsHeld, RowsInserted, SingleUseUnlessRaced
<1>10. SaversInvalidated' /\ OneCodeUnlessConcurrent'
  BY <1>1, SaversStep
<1>11. AcceptancesRaced'
  <2>1. \A j : Hitting(j)' = Hitting(j)
    BY <1>1 DEF Hitting
  <2> QED
    BY <1>1, <2>1 DEF IInv, AcceptancesRaced
<1> QED
  BY <1>2, <1>8, <1>9, <1>10, <1>11 DEF IInv

-----------------------------------------------------------------------------
(* The invariant and what follows from it.                                 *)

LEMMA InitInvariant == Init => IInv
<1> SUFFICES ASSUME Init PROVE IInv
  OBVIOUS
<1>1. TypeOK
  BY Limits DEF Init, TypeOK, Id
<1>2. /\ Issuing = {} /\ Guessing = {} /\ Sending = {}
      /\ \A i \in Id : Missing(i) = {} /\ Hitting(i) = {}
  BY DEF Init, Issuing, Guessing, Sending, Missing, Hitting
<1>3. FailedAttempts = {} /\ Recent = {} /\ Cardinality({}) = 0
  BY FS_EmptySet DEF Init, FailedAttempts, Recent
<1>4. Failures = 0 /\ Issues = 0
  BY <1>1, <1>3, RecentFinite DEF Failures
<1>5. \A limit \in Nat \ {0} : Overshoot(limit) \in Nat
  BY Limits DEF Overshoot
<1>6. IdsReserved /\ AttemptsSlack /\ FailuresSlack /\ IssuesSlack
  BY <1>2, <1>3, <1>4, <1>5, Limits
     DEF Init, IdsReserved, AttemptsSlack, FailuresSlack, IssuesSlack
<1>7. RowsHeld /\ RowsInserted /\ SaversInvalidated
  BY DEF Init, RowsHeld, RowsInserted, SaversInvalidated
<1>8. OneCodeUnlessConcurrent /\ AcceptancesRaced /\ SingleUseUnlessRaced
  BY DEF Init, OneCodeUnlessConcurrent, Unconsumed, AcceptancesRaced, SingleUseUnlessRaced
<1> QED
  BY <1>1, <1>6, <1>7, <1>8 DEF IInv

\* The checks of issue and verify only move their handler.
LEMMA CheckStep ==
  ASSUME IInv, NEW r \in Requests,
         \/ IssueStart(r) \/ IssueCheckRate(r) \/ IssueCheckCooldown(r) \/ VerifyStart(r)
         \/ Abort(r)
  PROVE  IInv'
<1> USE DEF Check, Return, Labels
<1>1. CASE Goto(r, "idle", 0, 0)
  BY <1>1, MoveStep
     DEF IssueStart, IssueCheckRate, IssueCheckCooldown, VerifyStart, Abort
<1>2. CASE IssueStart(r) /\ Goto(r, "rate", 0, 0)
  BY <1>2, MoveStep DEF IssueStart
<1>3. CASE IssueCheckRate(r) /\ ~ IssueRateExceeded /\ Goto(r, "latest", 0, 0)
  <2>1. Issues < MaxIssues
    BY <1>3, RecentFinite, Limits DEF IssueRateExceeded, IInv
  <2> QED
    BY <1>3, <2>1, MoveStep DEF IssueCheckRate, Issuing
<1>4. CASE IssueCheckCooldown(r) /\ Goto(r, "invalidate", 0, 0)
  BY <1>4, MoveStep DEF IssueCheckCooldown, Issuing, Sending
<1>5. CASE VerifyStart(r) /\ ~ PhoneLocked /\ Goto(r, "find", 0, 0)
  <2>1. Failures < MaxFailures
    BY <1>5, FailuresFinite, Limits DEF PhoneLocked, IInv
  <2> QED
    BY <1>5, <2>1, MoveStep DEF VerifyStart
<1> QED
  BY <1>1, <1>2, <1>3, <1>4, <1>5
     DEF IssueStart, IssueCheckRate, IssueCheckCooldown, VerifyStart, Abort

\* verify finds the newest active code, if there is one.
LEMMA VerifyFindStep ==
  ASSUME IInv, NEW r \in Requests, VerifyFind(r)
  PROVE  IInv'
<1> USE DEF Return, Labels
<1>1. CASE Active = {}
  BY <1>1, MoveStep DEF VerifyFind
<1>2. CASE Active # {}
  <2>1. Max(Active) \in Id
    <3>1. Active \in SUBSET Id
      BY DEF Active, Unconsumed, IInv, TypeOK
    <3> QED
      BY <1>2, <3>1, MaxInSet
  <2>2. CASE Exhausted(Max(Active))
    BY <1>2, <2>1, <2>2, MoveStep DEF VerifyFind
  <2>3. CASE ~ Exhausted(Max(Active)) /\ Goto(r, "miss", Max(Active), 0) /\ UNCHANGED raced
    <3>1. attempts[Max(Active)] < MaxAttempts
      BY <2>1, <2>3, Limits DEF Exhausted, IInv, TypeOK
    <3>2. r \in Guessing
      BY DEF VerifyFind, Guessing
    <3> QED
      BY <1>2, <2>1, <2>3, <3>1, <3>2, MoveStep DEF VerifyFind
  <2>4. CASE /\ Goto(r, "hit", Max(Active), 0)
             /\ raced' = raced \cup
                  {j \in {Max(Active)} : \E q \in Requests : pc[q] = "hit" /\ row[q] = j}
    BY <1>2, <2>4, HitFoundStep DEF VerifyFind
  <2> QED
    BY <1>2, <2>2, <2>3, <2>4 DEF VerifyFind
<1> QED
  BY <1>1, <1>2

LEMMA StutterStep ==
  ASSUME IInv, UNCHANGED vars
  PROVE  IInv'
<1> USE DEF vars, codes, locals
<1>1. TypeOK'
  BY DEF IInv, TypeOK
<1>2. /\ IdsReserved' /\ AttemptsSlack' /\ FailuresSlack' /\ IssuesSlack'
  BY IdsStep, AttemptsStep, FailuresStep, IssuesStep
     DEF Issuing, Missing, Guessing, Sending, FailedAttempts, Recent
<1>3. /\ RowsHeld' /\ RowsInserted' /\ SaversInvalidated' /\ OneCodeUnlessConcurrent'
      /\ AcceptancesRaced' /\ SingleUseUnlessRaced'
  BY DEF IInv, RowsHeld, RowsInserted, SaversInvalidated, OneCodeUnlessConcurrent, Unconsumed,
         AcceptancesRaced, Hitting, SingleUseUnlessRaced
<1> QED
  BY <1>1, <1>2, <1>3 DEF IInv

\* The inductive invariant: what was spent against a limit and what handlers may
\* still spend never exceed it together by more than the handlers there are.
THEOREM OtpInvariance == Spec => []IInv
<1>1. IInv /\ [Next]_vars => IInv'
  BY CheckStep, VerifyFindStep, VerifyMissStep, VerifyHitStep, VerifyExhaustStep,
     IssueInvalidateStep, IssueSaveStep, BackgroundStep, StutterStep DEF Next
<1> QED
  BY <1>1, InitInvariant, PTL DEF Spec

\* Every variable of the otps model has its type, and the ids never run out in
\* the middle of an issue.
THEOREM OtpTypeCorrect == Spec => []TypeOK
<1>1. IInv => TypeOK
  BY DEF IInv
<1> QED
  BY <1>1, OtpInvariance, PTL

\* However verifications interleave, a code takes fewer wrong guesses than
\* OTP_MAX_VERIFY_ATTEMPTS plus the number of concurrent handlers.
THEOREM AttemptsAreBounded == Spec => []AttemptsBounded
<1>1. IInv => AttemptsBounded
  <2> SUFFICES ASSUME IInv, NEW i \in Id PROVE attempts[i] <= Overshoot(MaxAttempts)
    BY DEF AttemptsBounded
  <2>1. Missing(i) \in SUBSET Requests
    BY DEF Missing
  <2>2. /\ Cardinality(Missing(i)) \in Nat /\ attempts[i] \in Nat
        /\ Overshoot(MaxAttempts) \in Nat
    BY <2>1, HandlerCounts, Limits DEF IInv, TypeOK, Overshoot
  <2> QED
    BY <2>2 DEF IInv, AttemptsSlack
<1> QED
  BY <1>1, OtpInvariance, PTL

\* Fresh codes buy no guesses: the failures of the lock window stay below the
\* phone's limit plus the number of concurrent handlers, over all codes.
THEOREM FailuresAreBounded == Spec => []FailuresBounded
<1>1. IInv => FailuresBounded
  <2> SUFFICES ASSUME IInv PROVE Failures <= Overshoot(MaxFailures)
    BY DEF FailuresBounded
  <2>1. Guessing \in SUBSET Requests
    BY DEF Guessing
  <2>2. /\ Cardinality(Guessing) \in Nat /\ Failures \in Nat
        /\ Overshoot(MaxFailures) \in Nat
    BY <2>1, HandlerCounts, FailuresFinite, Limits DEF IInv, Overshoot
  <2> QED
    BY <2>2 DEF IInv, FailuresSlack
<1> QED
  BY <1>1, OtpInvariance, PTL

\* The codes sent to a phone in an issue window stay below the cap plus the
\* number of concurrent handlers.
THEOREM IssuesAreBounded == Spec => []IssuesBounded
<1>1. IInv => IssuesBounded
  <2> SUFFICES ASSUME IInv PROVE Issues <= Overshoot(MaxIssues)
    BY DEF IssuesBounded
  <2>1. Sending \in SUBSET Requests
    BY DEF Sending
  <2>2. /\ Cardinality(Sending) \in Nat /\ Issues \in Nat
        /\ Overshoot(MaxIssues) \in Nat
    BY <2>1, HandlerCounts, RecentFinite, Limits DEF IInv, Overshoot
  <2> QED
    BY <2>2 DEF IInv, IssuesSlack
<1> QED
  BY <1>1, OtpInvariance, PTL

\* A code outlives a later one only if it was saved while the later one's issue was
\* under way: an issue invalidates what was there when it began.
THEOREM OneCodeStands == Spec => []OneCodeUnlessConcurrent
<1>1. IInv => OneCodeUnlessConcurrent
  BY DEF IInv
<1> QED
  BY <1>1, OtpInvariance, PTL

\* A code is accepted a second time only by a verification that overlapped the
\* first.
THEOREM SecondUseNeedsARace == Spec => []SingleUseUnlessRaced
<1>1. IInv => SingleUseUnlessRaced
  BY DEF IInv
<1> QED
  BY <1>1, OtpInvariance, PTL

\* Whatever the two windows, deleting stale rows changes neither rolling count.
THEOREM PruningKeepsCounts == Spec => PruneKeepsCounts
<1>1. ASSUME IInv, [Next]_vars, rows' \subseteq rows, now' = now, attempts' = attempts
      PROVE  Failures' = Failures /\ Issues' = Issues
  <2>1. CASE rows' = rows /\ createdAt' = createdAt
    BY <1>1, <2>1 DEF Failures, FailedAttempts, Issues
  <2>2. CASE PruneStaleOtps
    <3>1. /\ createdAt' = createdAt
          /\ \A i \in rows : i \in rows' <=> createdAt[i] >= now - Retention
      BY <2>2 DEF PruneStaleOtps, codes
    <3>2. ASSUME NEW i \in rows
          PROVE  /\ createdAt[i] >= now - LockWindow => createdAt[i] >= now - Retention
                 /\ createdAt[i] > now - IssueWindow => createdAt[i] >= now - Retention
      <4>1. createdAt[i] \in Int /\ now \in Int /\ LockWindow \in Int /\ IssueWindow \in Int
        BY <1>1, <3>2, Limits DEF IInv, TypeOK
      <4> QED
        BY <4>1 DEF Retention
    <3>3. /\ {i \in rows' : createdAt[i] >= now - LockWindow}
               = {i \in rows : createdAt[i] >= now - LockWindow}
          /\ {i \in rows' : createdAt[i] > now - IssueWindow}
               = {i \in rows : createdAt[i] > now - IssueWindow}
      BY <1>1, <3>1, <3>2
    <3> QED
      BY <1>1, <3>1, <3>3 DEF Failures, FailedAttempts, Issues
  <2>3. ASSUME NEW r \in Requests, IssueSave(r) PROVE FALSE
    <3>1. nextId \in rows
      BY <1>1, <2>3 DEF IssueSave
    <3>2. nextId < nextId /\ nextId \in Int
      BY <1>1, <3>1 DEF IInv, RowsInserted, TypeOK
    <3> QED
      BY <3>2
  <2> QED
    BY <1>1, <2>1, <2>2, <2>3
       DEF Next, vars, codes, Tick, IssueStart, IssueCheckRate, IssueCheckCooldown,
           IssueInvalidate, VerifyStart, VerifyFind, VerifyMiss, VerifyHit, VerifyExhaust,
           Abort, Check
<1>2. IInv /\ [Next]_vars =>
        [rows' \subseteq rows /\ now' = now /\ attempts' = attempts =>
           Failures' = Failures /\ Issues' = Issues]_vars
  BY <1>1
<1> QED
  BY <1>2, OtpInvariance, PTL DEF Spec, PruneKeepsCounts
=============================================================================
