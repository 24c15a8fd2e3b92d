------------------------ MODULE WhatsappQueueProofs ------------------------
(***************************************************************************)
(* Proofs that the safety properties of WhatsappQueue hold for every pair  *)
(* of delays, queue size and number of messages.                           *)
(***************************************************************************)
EXTENDS WhatsappQueue, SequenceTheorems, FiniteSetTheorems, TLAPS

\* What the head and the tail of a queue are.
LEMMA HeadTail ==
  ASSUME NEW q \in Seq(Job), q # <<>>
  PROVE  /\ Len(q) \in Nat \ {0}
         /\ Head(q) = q[1] /\ Head(q) \in Job
         /\ Tail(q) \in Seq(Job)
         /\ Len(Tail(q)) = Len(q) - 1
         /\ \A k \in 1..(Len(q) - 1) : Tail(q)[k] = q[k + 1]
<1>1. Len(q) \in Nat \ {0}
  BY EmptySeq
<1>2. Head(q) = q[1]
  OBVIOUS
<1> QED
  BY <1>1, <1>2, HeadTailProperties

\* The jobs of those loops in L that sleep.
AsleepIn(L) == {l.job : l \in {k \in L : k.awaits = "sleep"}}

LEMMA HeldIsAsleep == Held = AsleepIn(loops) /\ Held' = AsleepIn(loops')
BY DEF Held, AsleepIn

\* With at most one loop, a message is held exactly when that loop sleeps.
LEMMA AsleepCases ==
  /\ AsleepIn({}) = {} /\ Cardinality(AsleepIn({})) = 0
  /\ \A j, ms : AsleepIn({Sleeping(j, ms)}) = {j} /\ Cardinality(AsleepIn({Sleeping(j, ms)})) = 1
  /\ \A j : AsleepIn({Sending(j)}) = {} /\ Cardinality(AsleepIn({Sending(j)})) = 0
<1>1. AsleepIn({}) = {}
  BY DEF AsleepIn
<1>2. ASSUME NEW j, NEW ms PROVE AsleepIn({Sleeping(j, ms)}) = {j}
  <2>1. {k \in {Sleeping(j, ms)} : k.awaits = "sleep"} = {Sleeping(j, ms)}
    BY DEF Sleeping
  <2>2. AsleepIn({Sleeping(j, ms)}) = {Sleeping(j, ms).job}
    BY <2>1 DEF AsleepIn
  <2> QED
    BY <2>2 DEF Sleeping
<1>3. ASSUME NEW j PROVE AsleepIn({Sending(j)}) = {}
  BY DEF AsleepIn, Sending
<1>4. \A x : Cardinality({x}) = 1
  BY FS_Singleton
<1>5. Cardinality({}) = 0
  BY FS_EmptySet
<1>6. Cardinality(AsleepIn({})) = 0
  BY <1>1, <1>5
<1>7. ASSUME NEW j, NEW ms PROVE Cardinality(AsleepIn({Sleeping(j, ms)})) = 1
  BY <1>2, <1>4
<1>8. ASSUME NEW j PROVE Cardinality(AsleepIn({Sending(j)})) = 0
  BY <1>3, <1>5
<1> QED
  BY <1>1, <1>2, <1>3, <1>6, <1>7, <1>8

\* Every loop awaits one of two things.
LEMMA LoopTypes ==
  /\ \A j \in Job, ms \in 0..MaxDelay : Sleeping(j, ms) \in Loop
  /\ \A j \in Job : Sending(j) \in Loop
  /\ \A l \in Loop : \/ l.job \in Job /\ l.left \in 0..MaxDelay /\ l = Sleeping(l.job, l.left)
                     \/ l.job \in Job /\ l = Sending(l.job)
BY DEF Loop, Sleeping, Sending

\* The worker is absent, asleep or sending.
LEMMA WorkerCases ==
  ASSUME TypeOK, SingleWorker
  PROVE  \/ loops = {} /\ isProcessing = FALSE
         \/ \E j \in Job, ms \in 0..MaxDelay :
              loops = {Sleeping(j, ms)} /\ isProcessing = TRUE
         \/ \E j \in Job : loops = {Sending(j)} /\ isProcessing = TRUE
<1>1. CASE loops = {}
  BY <1>1 DEF SingleWorker, TypeOK
<1>2. CASE loops # {}
  <2>1. PICK l \in loops : loops = {l}
    BY <1>2 DEF SingleWorker
  <2> QED
    BY <1>2, <2>1, LoopTypes DEF SingleWorker, TypeOK
<1> QED
  BY <1>1, <1>2

\* At most one job is held.
LEMMA AsleepCount ==
  ASSUME NEW L, L \subseteq Loop, \A k, l \in L : k = l
  PROVE  Cardinality(AsleepIn(L)) \in {0, 1}
<1>1. CASE L = {}
  BY <1>1, AsleepCases
<1>2. ASSUME NEW l \in L
      PROVE  Cardinality(AsleepIn(L)) \in {0, 1}
  <2>1. L = {l}
    OBVIOUS
  <2> QED
    BY <2>1, LoopTypes, AsleepCases
<1> QED
  BY <1>1, <1>2

LEMMA HeldCount ==
  ASSUME TypeOK, SingleWorker
  PROVE  Cardinality(Held) \in {0, 1}
BY HeldIsAsleep, AsleepCount DEF TypeOK, SingleWorker

\* The three outcomes of an iteration of the only loop.
LEMMA IterateCases ==
  ASSUME NEW q \in Seq(Job), NEW since \in 0..MaxDelay, Iterate(q, since, {})
  PROVE  \/ /\ shuttingDown \/ q = <<>>
            /\ queue' = q /\ loops' = {} /\ isProcessing' = FALSE /\ sends' = sends
         \/ /\ ~shuttingDown /\ q # <<>>
            /\ queue' = Tail(q) /\ isProcessing' = TRUE /\ sends' = sends
            /\ \E left \in 0..MaxDelay :
                 since + left >= MinDelay /\ loops' = {Sleeping(Head(q), left)}
         \/ /\ ~shuttingDown /\ q # <<>>
            /\ queue' = Tail(q) /\ isProcessing' = TRUE
            /\ since >= MinDelay
            /\ loops' = {Sending(Head(q))} /\ sends' = Append(sends, Head(q))
<1>1. CASE shuttingDown \/ q = <<>>
  BY <1>1 DEF Iterate, Exit
<1>2. CASE ~(shuttingDown \/ q = <<>>)
  <2>1. PICK delay \in MinDelay..MaxDelay :
          \/ delay > since /\ loops' = {Sleeping(Head(q), delay - since)} /\ sends' = sends
          \/ delay <= since /\ loops' = {Sending(Head(q))} /\ sends' = Append(sends, Head(q))
    BY <1>2 DEF Iterate, Shift, Dispatch
  <2>2. ~shuttingDown /\ q # <<>> /\ queue' = Tail(q) /\ isProcessing' = TRUE
    BY <1>2 DEF Iterate, Shift
  <2> QED
    BY <2>1, <2>2, WhatsappQueueAssumption
<1> QED
  BY <1>1, <1>2

-----------------------------------------------------------------------------
LEMMA InitInvariant == Init => IInv
<1> SUFFICES ASSUME Init PROVE IInv
  OBVIOUS
<1> USE WhatsappQueueAssumption DEF Init
<1>1. queue \in Seq(Job) /\ Len(queue) = 0 /\ sends \in Seq(Job) /\ Len(sends) = 0
  BY EmptySeq
<1>2. TypeOK
  <2>1. Len(queue) <= MaxQueueSize /\ loops \subseteq Loop /\ settled \subseteq Job
    BY <1>1
  <2>2. elapsed \in 0..MaxDelay /\ quiet \in 0..MinDelay
    OBVIOUS
  <2>3. position \in 0..MaxQueueSize /\ accepted \in 0..MaxJobs
    OBVIOUS
  <2> QED
    BY <1>1, <2>1, <2>2, <2>3, Zenon DEF TypeOK
<1>3. SingleWorker /\ NotStranded
  BY DEF SingleWorker, NotStranded
<1>4. Held = {} /\ Cardinality(Held) = 0
  BY HeldIsAsleep, AsleepCases
<1>5. FirstInFirstOut
  BY <1>1, <1>4 DEF FirstInFirstOut
<1>6. LoopKnowsItsSend /\ PaceKept
  BY <1>1 DEF LoopKnowsItsSend, PaceKept
<1> QED
  BY <1>2, <1>3, <1>5, <1>6 DEF IInv

\* The sends and then q are the jobs accepted, and all sends have settled.
Caught(q) ==
  /\ settled' = 1..Len(sends)
  /\ \A k \in 1..Len(sends) : sends[k] = k
  /\ ~shuttingDown => /\ accepted' = Len(sends) + Len(q)
                      /\ \A k \in 1..Len(q) : q[k] = Len(sends) + k

\* The two bounds on quiet bound a sleep.
LEMMA SleepLongEnough ==
  ASSUME NEW still \in Int, NEW since \in Int, NEW left \in Nat, NEW d \in Int,
         still >= d \/ still >= since, since + left >= d
  PROVE  still + left >= d
OBVIOUS

\* Whatever an iteration does with queue q, the invariant holds after it if
\* every send has settled and the sends and q together are what was accepted.
LEMMA AfterIteration ==
  ASSUME TypeOK,
         NEW q \in Seq(Job), Len(q) <= MaxQueueSize,
         NEW since \in 0..MaxDelay, elapsed' = since,
         Iterate(q, since, {}),
         quiet' \in 0..MinDelay, quiet' >= MinDelay \/ quiet' >= since,
         Caught(q), accepted' \in 0..MaxJobs,
         position' \in {position, Len(queue')},
         UNCHANGED <<connected, shuttingDown>>
  PROVE  IInv'
<1> USE WhatsappQueueAssumption
<1> DEFINE n == Len(sends)
<1>1. n \in Nat /\ sends \in Seq(Job) /\ Len(q) \in Nat
  BY DEF TypeOK
<1>2. settled' \subseteq Job
  <2> SUFFICES ASSUME NEW k \in 1..n PROVE k \in Job
    BY DEF Caught
  <2> QED
    BY <1>1, ElementOfSeq DEF Caught
<1>3. CASE /\ shuttingDown \/ q = <<>>
           /\ queue' = q /\ loops' = {} /\ isProcessing' = FALSE /\ sends' = sends
  <2>1. TypeOK'
    <3>1. /\ Len(queue') <= MaxQueueSize /\ position' \in 0..MaxQueueSize
          /\ loops' \subseteq Loop /\ elapsed' \in 0..MaxDelay
      BY <1>1, <1>3 DEF TypeOK
    <3> QED
      BY <1>1, <1>2, <1>3, <3>1, Zenon DEF TypeOK
  <2>2. SingleWorker' /\ NotStranded' /\ LoopKnowsItsSend' /\ PaceKept'
    BY <1>3 DEF SingleWorker, NotStranded, LoopKnowsItsSend, PaceKept, Caught
  <2>3. Held' = {} /\ Cardinality(Held') = 0
    BY <1>3, HeldIsAsleep, AsleepCases
  <2>4. FirstInFirstOut'
    BY <1>1, <1>3, <2>3 DEF FirstInFirstOut, Caught
  <2> QED
    BY <2>1, <2>2, <2>4 DEF IInv
<1>4. ASSUME ~shuttingDown, q # <<>>, queue' = Tail(q), isProcessing' = TRUE, sends' = sends,
             NEW left \in 0..MaxDelay, since + left >= MinDelay,
             loops' = {Sleeping(Head(q), left)}
      PROVE  IInv'
  <2>1. /\ Len(q) \in Nat \ {0} /\ Head(q) \in Job /\ Head(q) = n + 1
        /\ queue' \in Seq(Job) /\ Len(queue') = Len(q) - 1
        /\ \A k \in 1..Len(queue') : queue'[k] = n + 1 + k
    BY <1>1, <1>4, HeadTail DEF Caught
  <2>2. TypeOK'
    <3>1. /\ Len(queue') <= MaxQueueSize /\ position' \in 0..MaxQueueSize
          /\ elapsed' \in 0..MaxDelay
      BY <1>1, <2>1 DEF TypeOK
    <3>2. loops' \subseteq Loop
      BY <1>4, <2>1, LoopTypes
    <3> QED
      BY <1>1, <1>2, <1>4, <2>1, <3>1, <3>2, Zenon DEF TypeOK
  <2>3. SingleWorker' /\ NotStranded'
    BY <1>4 DEF SingleWorker, NotStranded
  <2>4. LoopKnowsItsSend' /\ PaceKept'
    <3>1. \A l \in loops' : l.awaits = "sleep" /\ l.left = left
      BY <1>4 DEF Sleeping
    <3>2. LoopKnowsItsSend'
      BY <1>4, <3>1 DEF LoopKnowsItsSend, Caught
    <3>3. quiet' + left >= MinDelay
      <4>1. quiet' \in Int /\ since \in Int /\ left \in Nat /\ MinDelay \in Int
        OBVIOUS
      <4> QED
        BY <1>4, <4>1, SleepLongEnough, Zenon
    <3> QED
      BY <3>1, <3>2, <3>3 DEF PaceKept
  <2>5. Held' = {n + 1} /\ Cardinality(Held') = 1
    <3>1. Held' = {Head(q)} /\ Cardinality(Held') = 1
      BY <1>4, HeldIsAsleep, AsleepCases, Zenon
    <3> QED
      BY <2>1, <3>1
  <2>6. FirstInFirstOut'
    <3>1. Held' = (n + 1)..(n + 1)
      BY <1>1, <2>5
    <3>2. accepted' = n + 1 + Len(queue')
      BY <1>1, <1>4, <2>1 DEF Caught
    <3> QED
      BY <1>1, <1>4, <2>1, <2>5, <3>1, <3>2 DEF FirstInFirstOut, Caught
  <2> QED
    BY <2>2, <2>3, <2>4, <2>6 DEF IInv
<1>5. CASE /\ ~shuttingDown /\ q # <<>>
           /\ queue' = Tail(q) /\ isProcessing' = TRUE
           /\ since >= MinDelay
           /\ loops' = {Sending(Head(q))} /\ sends' = Append(sends, Head(q))
  <2>1. /\ Len(q) \in Nat \ {0} /\ Head(q) \in Job /\ Head(q) = n + 1
        /\ queue' \in Seq(Job) /\ Len(queue') = Len(q) - 1
        /\ \A k \in 1..Len(queue') : queue'[k] = n + 1 + k
    BY <1>1, <1>5, HeadTail DEF Caught
  <2>2. sends' \in Seq(Job) /\ Len(sends') = n + 1 /\ \A k \in 1..(n + 1) : sends'[k] = k
    BY <1>1, <1>5, <2>1, AppendProperties DEF Caught
  <2>3. TypeOK'
    <3>1. /\ Len(queue') <= MaxQueueSize /\ position' \in 0..MaxQueueSize
          /\ elapsed' \in 0..MaxDelay
      BY <1>1, <2>1 DEF TypeOK
    <3>2. loops' \subseteq Loop
      BY <1>5, <2>1, LoopTypes
    <3> QED
      BY <1>2, <1>5, <2>1, <2>2, <3>1, <3>2, Zenon DEF TypeOK
  <2>4. SingleWorker' /\ NotStranded'
    BY <1>5 DEF SingleWorker, NotStranded
  <2>5. LoopKnowsItsSend' /\ PaceKept'
    BY <1>1, <1>5, <2>1, <2>2 DEF LoopKnowsItsSend, PaceKept, Sending, Caught
  <2>6. Held' = {} /\ Cardinality(Held') = 0
    BY <1>5, HeldIsAsleep, AsleepCases, Zenon
  <2>7. FirstInFirstOut'
    <3>1. Len(sends') = n + 1 /\ Len(sends') + Cardinality(Held') = n + 1
      BY <1>1, <2>2, <2>6
    <3>2. Held' = (Len(sends') + 1)..(Len(sends') + Cardinality(Held'))
      BY <1>1, <2>6, <3>1
    <3>3. accepted' = Len(sends') + Cardinality(Held') + Len(queue')
      BY <1>1, <1>5, <2>1, <3>1 DEF Caught
    <3>4. \A k \in 1..Len(queue') : queue'[k] = Len(sends') + Cardinality(Held') + k
      BY <2>1, <3>1
    <3>5. \A k \in 1..Len(sends') : sends'[k] = k
      BY <2>2, <3>1
    <3> QED
      BY <3>2, <3>3, <3>4, <3>5, Zenon DEF FirstInFirstOut
  <2> QED
    BY <2>3, <2>4, <2>5, <2>7 DEF IInv
<1> QED
  BY <1>3, <1>4, <1>5, IterateCases

-----------------------------------------------------------------------------
(* One lemma per action.                                                   *)

LEMMA EnqueueTextStep ==
  ASSUME IInv, EnqueueText
  PROVE  IInv'
<1> USE WhatsappQueueAssumption
<1> DEFINE j == accepted + 1
           q == Append(queue, j)
<1>1. j \in Job /\ accepted' = j /\ Len(queue) < MaxQueueSize /\ position' = Len(queue')
      /\ UNCHANGED <<connected, shuttingDown, elapsed, settled, quiet>>
  BY DEF EnqueueText, Answer, Full, IInv, TypeOK, Job
<1>2. /\ q \in Seq(Job) /\ Len(q) = Len(queue) + 1 /\ Len(queue) \in Nat
      /\ \A k \in 1..Len(queue) : q[k] = queue[k]
      /\ q[Len(queue) + 1] = j
  BY <1>1, AppendProperties, LenProperties DEF IInv, TypeOK
<1>3. CASE Busy
  <2>1. queue' = q /\ UNCHANGED <<loops, isProcessing, sends>>
    BY <1>3 DEF EnqueueText
  <2>2. TypeOK'
    <3>1. Len(queue') <= MaxQueueSize /\ position' \in 0..MaxQueueSize /\ accepted' \in 0..MaxJobs
      BY <1>1, <1>2, <2>1 DEF IInv, TypeOK, Job
    <3> QED
      BY <1>1, <1>2, <2>1, <3>1, Zenon DEF IInv, TypeOK
  <2>3. SingleWorker' /\ LoopKnowsItsSend' /\ PaceKept'
    BY <1>1, <2>1 DEF IInv, SingleWorker, LoopKnowsItsSend, PaceKept
  <2>4. NotStranded'
    BY <1>3, <2>1 DEF IInv, NotStranded, SingleWorker, Busy
  <2>5. FirstInFirstOut'
    <3> DEFINE m == Len(sends) + Cardinality(Held)
    <3>1. Held' = Held /\ Cardinality(Held)' = Cardinality(Held)
      BY <2>1 DEF Held
    <3>2. ASSUME ~shuttingDown
          PROVE  /\ Held = (Len(sends) + 1)..m
                 /\ accepted = m + Len(queue)
                 /\ \A k \in 1..Len(queue) : queue[k] = m + k
      BY <3>2 DEF IInv, FirstInFirstOut
    <3>3. m \in Int
      BY HeldCount DEF IInv, TypeOK
    <3>4. ASSUME ~shuttingDown PROVE accepted' = m + Len(queue')
      BY <1>1, <1>2, <2>1, <3>2, <3>3, <3>4
    <3>5. ASSUME ~shuttingDown, NEW k \in 1..Len(queue') PROVE queue'[k] = m + k
      <4> HIDE DEF m
      <4>1. Len(queue') = Len(queue) + 1 /\ accepted + 1 = m + (Len(queue) + 1)
        BY <1>2, <2>1, <3>2, <3>3, <3>5
      <4>2. CASE k \in 1..Len(queue)
        BY <1>2, <2>1, <3>2, <3>5, <4>2
      <4>3. CASE k = Len(queue) + 1
        BY <1>2, <2>1, <4>1, <4>3
      <4> QED
        BY <1>2, <3>5, <4>1, <4>2, <4>3
    <3>6. \A k \in 1..Len(sends) : sends[k] = k
      BY DEF IInv, FirstInFirstOut
    <3> QED
      BY <1>1, <2>1, <3>1, <3>2, <3>4, <3>5, <3>6 DEF FirstInFirstOut
  <2> QED
    BY <2>2, <2>3, <2>4, <2>5 DEF IInv
<1>4. CASE ~Busy
  <2>1. loops = {} /\ Iterate(q, elapsed, {})
    BY <1>4 DEF EnqueueText, Busy, IInv, SingleWorker
  <2>2. Held = {} /\ Cardinality(Held) = 0
    BY <2>1, HeldIsAsleep, AsleepCases
  <2>3. Len(sends) \in Nat
    BY DEF IInv, TypeOK
  <2>4. Caught(q)
    <3>1. settled' = 1..Len(sends) /\ \A k \in 1..Len(sends) : sends[k] = k
      BY <1>1, <2>1 DEF IInv, LoopKnowsItsSend, FirstInFirstOut
    <3>2. ASSUME ~shuttingDown
          PROVE  /\ accepted = Len(sends) + Len(queue)
                 /\ \A k \in 1..Len(queue) : queue[k] = Len(sends) + k
      BY <2>2, <2>3, <3>2 DEF IInv, FirstInFirstOut
    <3>3. ASSUME ~shuttingDown
          PROVE  /\ accepted' = Len(sends) + Len(q)
                 /\ \A k \in 1..Len(q) : q[k] = Len(sends) + k
      BY <1>1, <1>2, <2>3, <3>2, <3>3
    <3> QED
      BY <3>1, <3>3 DEF Caught
  <2>5. Len(q) <= MaxQueueSize /\ accepted' \in 0..MaxJobs
    BY <1>1, <1>2 DEF IInv, TypeOK, Job
  <2>6. /\ elapsed \in 0..MaxDelay /\ elapsed' = elapsed
        /\ quiet' \in 0..MinDelay /\ (quiet' >= MinDelay \/ quiet' >= elapsed)
    BY <1>1 DEF IInv, TypeOK, PaceKept
  <2> QED
    BY <1>1, <1>2, <2>1, <2>4, <2>5, <2>6, AfterIteration DEF IInv
<1> QED
  BY <1>3, <1>4

\* A loop whose timer has run down, and what it holds.
LEMMA WakingLoop ==
  ASSUME IInv, NEW l \in loops, l.awaits = "sleep"
  PROVE  /\ loops = {l} /\ isProcessing = TRUE /\ l.job \in Job
         /\ settled = 1..Len(sends)
         /\ quiet + l.left >= MinDelay
         /\ ~shuttingDown => l.job = Len(sends) + 1
<1> USE WhatsappQueueAssumption
<1>1. loops = {l} /\ isProcessing = TRUE
  BY DEF IInv, TypeOK, SingleWorker
<1>2. l.job \in Job
  BY LoopTypes DEF IInv, TypeOK, Sleeping, Sending
<1>3. settled = 1..Len(sends)
  BY <1>1 DEF IInv, LoopKnowsItsSend
<1>4. quiet + l.left >= MinDelay
  BY DEF IInv, PaceKept
<1>5. ASSUME ~shuttingDown PROVE l.job = Len(sends) + 1
  <2>1. Held = (Len(sends) + 1)..(Len(sends) + Cardinality(Held))
    BY <1>5 DEF IInv, FirstInFirstOut
  <2>2. l.job \in Held
    BY DEF Held
  <2>3. Cardinality(Held) \in {0, 1} /\ Len(sends) \in Nat
    BY HeldCount DEF IInv, TypeOK
  <2> QED
    BY <2>1, <2>2, <2>3
<1> QED
  BY <1>1, <1>2, <1>3, <1>4, <1>5

LEMMA WakeStep ==
  ASSUME IInv, Wake
  PROVE  IInv'
<1> USE WhatsappQueueAssumption
<1>1. PICK l \in loops :
        /\ l.awaits = "sleep" /\ l.left = 0
        /\ \/ shuttingDown /\ Exit(queue, loops \ {l})
           \/ /\ ~shuttingDown
              /\ Dispatch(l.job, loops \ {l})
              /\ UNCHANGED <<queue, isProcessing>>
        /\ UNCHANGED <<connected, shuttingDown, elapsed, position, accepted, settled, quiet>>
  BY DEF Wake
<1>2. /\ loops = {l} /\ loops \ {l} = {} /\ isProcessing = TRUE /\ l.job \in Job
      /\ settled = 1..Len(sends) /\ quiet >= MinDelay
      /\ ~shuttingDown => l.job = Len(sends) + 1
  <2>1. /\ loops = {l} /\ isProcessing = TRUE /\ l.job \in Job
        /\ settled = 1..Len(sends) /\ quiet + l.left >= MinDelay
        /\ ~shuttingDown => l.job = Len(sends) + 1
    BY <1>1, WakingLoop
  <2>2. quiet >= MinDelay
    BY <1>1, <2>1 DEF IInv, TypeOK
  <2> QED
    BY <2>1, <2>2
<1>3. CASE shuttingDown /\ Exit(queue, {})
  <2>1. Iterate(queue, elapsed, {})
    BY <1>3 DEF Iterate
  <2>2. Caught(queue)
    BY <1>1, <1>2, <1>3 DEF Caught, IInv, FirstInFirstOut
  <2>3. /\ queue \in Seq(Job) /\ Len(queue) <= MaxQueueSize
        /\ elapsed \in 0..MaxDelay /\ elapsed' = elapsed
        /\ quiet' \in 0..MinDelay /\ quiet' >= MinDelay
        /\ accepted' \in 0..MaxJobs
    BY <1>1, <1>2 DEF IInv, TypeOK
  <2> QED
    BY <1>1, <2>1, <2>2, <2>3, AfterIteration DEF IInv
<1>4. CASE ~shuttingDown /\ Dispatch(l.job, {}) /\ UNCHANGED <<queue, isProcessing>>
  <2> DEFINE n == Len(sends)
  <2>1. loops' = {Sending(l.job)} /\ sends' = Append(sends, l.job) /\ l.job = n + 1
    BY <1>2, <1>4 DEF Dispatch
  <2>2. n \in Nat /\ sends \in Seq(Job) /\ Len(queue) \in Nat
    BY DEF IInv, TypeOK
  <2>3. sends' \in Seq(Job) /\ Len(sends') = n + 1 /\ \A k \in 1..(n + 1) : sends'[k] = k
    <3>1. \A k \in 1..n : sends[k] = k
      BY DEF IInv, FirstInFirstOut
    <3> QED
      BY <1>2, <2>1, <2>2, <3>1, AppendProperties
  <2>4. TypeOK'
    <3>1. loops' \subseteq Loop
      BY <1>2, <2>1, LoopTypes
    <3> QED
      BY <1>1, <1>4, <2>3, <3>1, Zenon DEF IInv, TypeOK
  <2>5. SingleWorker' /\ NotStranded'
    BY <1>2, <1>4, <2>1 DEF SingleWorker, NotStranded
  <2>6. LoopKnowsItsSend' /\ PaceKept'
    BY <1>1, <1>2, <2>1, <2>2, <2>3 DEF IInv, LoopKnowsItsSend, PaceKept, Sending
  <2>7. Held' = {} /\ Cardinality(Held') = 0
    BY <2>1, HeldIsAsleep, AsleepCases, Zenon
  <2>8. FirstInFirstOut'
    <3>1. Held = {l.job} /\ Cardinality(Held) = 1
      <4>1. Held = {l.job}
        BY <1>1, <1>2 DEF Held
      <4> QED
        BY <4>1, FS_Singleton
    <3>2. /\ accepted = n + 1 + Len(queue)
          /\ \A k \in 1..Len(queue) : queue[k] = n + 1 + k
      BY <1>4, <2>2, <3>1 DEF IInv, FirstInFirstOut
    <3>3. Len(sends') = n + 1 /\ Len(sends') + Cardinality(Held') = n + 1
      BY <2>2, <2>3, <2>7
    <3>4. Held' = (Len(sends') + 1)..(Len(sends') + Cardinality(Held'))
      BY <2>2, <2>7, <3>3
    <3>5. accepted' = Len(sends') + Cardinality(Held') + Len(queue')
      BY <1>1, <1>4, <3>2, <3>3
    <3>6. \A k \in 1..Len(queue') : queue'[k] = Len(sends') + Cardinality(Held') + k
      BY <1>4, <3>2, <3>3
    <3>7. \A k \in 1..Len(sends') : sends'[k] = k
      BY <2>3, <3>3
    <3> QED
      BY <3>4, <3>5, <3>6, <3>7, Zenon DEF FirstInFirstOut
  <2> QED
    BY <2>4, <2>5, <2>6, <2>8 DEF IInv
<1> QED
  BY <1>1, <1>2, <1>3, <1>4

\* The loop whose sendText settles: its send is the last one.
LEMMA SettlingLoop ==
  ASSUME IInv, NEW l \in loops, l.awaits = "sendText"
  PROVE  /\ loops = {l}
         /\ settled \cup {l.job} = 1..Len(sends)
         /\ Held = {} /\ Cardinality(Held) = 0
<1>1. loops = {l}
  BY DEF IInv, SingleWorker
<1>2. Len(sends) \in Nat \ {0} /\ l.job = Len(sends) /\ settled = 1..(Len(sends) - 1)
  BY DEF IInv, LoopKnowsItsSend, TypeOK
<1>3. Held = {}
  BY <1>1 DEF Held
<1> QED
  BY <1>1, <1>2, <1>3, FS_EmptySet

LEMMA SendSettlesStep ==
  ASSUME IInv, SendSettles
  PROVE  IInv'
<1> USE WhatsappQueueAssumption
<1>1. PICK l \in loops :
        /\ l.awaits = "sendText"
        /\ settled' = settled \cup {l.job}
        /\ elapsed' = 0 /\ quiet' = 0
        /\ Iterate(queue, 0, loops \ {l})
        /\ UNCHANGED <<connected, shuttingDown, position, accepted>>
  BY DEF SendSettles
<1>2. loops \ {l} = {} /\ settled' = 1..Len(sends) /\ Held = {} /\ Cardinality(Held) = 0
  BY <1>1, SettlingLoop
<1>3. Len(sends) \in Nat /\ Len(queue) \in Nat
  BY DEF IInv, TypeOK
<1>4. Caught(queue)
  <2>1. ASSUME ~shuttingDown
        PROVE  /\ accepted' = Len(sends) + Len(queue)
               /\ \A k \in 1..Len(queue) : queue[k] = Len(sends) + k
    BY <1>1, <1>2, <1>3, <2>1 DEF IInv, FirstInFirstOut
  <2> QED
    BY <1>2, <2>1 DEF Caught, IInv, FirstInFirstOut
<1>5. /\ queue \in Seq(Job) /\ Len(queue) <= MaxQueueSize
      /\ 0 \in 0..MaxDelay /\ quiet' \in 0..MinDelay /\ quiet' >= 0
      /\ accepted' \in 0..MaxJobs
  BY <1>1 DEF IInv, TypeOK
<1>6. Iterate(queue, 0, {})
  BY <1>1, <1>2
<1> QED
  BY <1>1, <1>4, <1>5, <1>6, AfterIteration DEF IInv

LEMMA OnModuleDestroyStep ==
  ASSUME IInv, OnModuleDestroy
  PROVE  IInv'
<1> USE DEF OnModuleDestroy
<1>1. TypeOK'
  BY Zenon DEF IInv, TypeOK
<1>2. SingleWorker' /\ NotStranded' /\ LoopKnowsItsSend' /\ PaceKept'
  BY DEF IInv, SingleWorker, NotStranded, LoopKnowsItsSend, PaceKept
<1>3. FirstInFirstOut'
  BY DEF IInv, FirstInFirstOut
<1> QED
  BY <1>1, <1>2, <1>3 DEF IInv

LEMMA SocketChangesStep ==
  ASSUME IInv, SocketChanges
  PROVE  IInv'
<1> USE DEF SocketChanges
<1>1. connected' \in BOOLEAN
  BY DEF IInv, TypeOK
<1>2. TypeOK'
  BY <1>1, Zenon DEF IInv, TypeOK
<1>3. SingleWorker' /\ NotStranded' /\ LoopKnowsItsSend' /\ PaceKept'
  BY DEF IInv, SingleWorker, NotStranded, LoopKnowsItsSend, PaceKept
<1>4. Held' = Held /\ Cardinality(Held') = Cardinality(Held)
  BY DEF Held
<1>5. FirstInFirstOut'
  BY <1>4 DEF IInv, FirstInFirstOut
<1> QED
  BY <1>2, <1>3, <1>5 DEF IInv

\* A unit of time less to sleep is a unit of time more since the last send.
LEMMA SleepShortens ==
  ASSUME NEW before \in Int, NEW still \in Int, NEW ms \in Nat, NEW left \in Nat, NEW d \in Int,
         before + ms >= d, left >= ms - 1, still = before + 1 \/ still >= d
  PROVE  still + left >= d
OBVIOUS

\* What a unit of time leaves of a timer.
Down(l) == [l EXCEPT !.left = IF @ > 0 THEN @ - 1 ELSE 0]

LEMMA DownCases ==
  /\ \A j \in Job, ms \in 0..MaxDelay :
       Down(Sleeping(j, ms)) = Sleeping(j, IF ms > 0 THEN ms - 1 ELSE 0)
  /\ \A j \in Job : Down(Sending(j)) = Sending(j)
BY DEF Down, Sleeping, Sending

LEMMA TickStep ==
  ASSUME IInv, Tick
  PROVE  IInv'
<1> USE WhatsappQueueAssumption
<1>1. /\ loops' = {Down(l) : l \in loops}
      /\ UNCHANGED <<connected, queue, isProcessing, shuttingDown, position,
                     accepted, sends, settled>>
  BY DEF Tick, Down
<1>2. /\ elapsed \in 0..MaxDelay /\ elapsed' \in 0..MaxDelay
      /\ quiet \in 0..MinDelay /\ quiet' \in 0..MinDelay
      /\ elapsed' <= elapsed + 1
      /\ quiet' = quiet + 1 \/ quiet' >= MinDelay
      /\ quiet' >= quiet
  <2>1. elapsed \in 0..MaxDelay /\ quiet \in 0..MinDelay
    BY DEF IInv, TypeOK
  <2>2. elapsed' = UpTo(elapsed, MaxDelay) /\ quiet' = UpTo(quiet, MinDelay)
    BY DEF Tick
  <2>3. elapsed' \in 0..MaxDelay /\ elapsed' <= elapsed + 1
    BY <2>1, <2>2 DEF UpTo
  <2>4. /\ quiet' \in 0..MinDelay /\ quiet' >= quiet
        /\ quiet' = quiet + 1 \/ quiet' >= MinDelay
    BY <2>1, <2>2 DEF UpTo
  <2> QED
    BY <2>1, <2>3, <2>4
<1>3. quiet' >= MinDelay \/ quiet' >= elapsed'
  BY <1>2 DEF IInv, PaceKept
<1>4. ASSUME loops' \subseteq Loop, SingleWorker', LoopKnowsItsSend', PaceKept',
             NotStranded', Held' = Held
      PROVE  IInv'
  <2>1. TypeOK'
    BY <1>1, <1>2, <1>4, Zenon DEF IInv, TypeOK
  <2>2. FirstInFirstOut'
    <3>1. Cardinality(Held') = Cardinality(Held)
      BY <1>4
    <3> QED
      BY <1>1, <1>4, <3>1 DEF IInv, FirstInFirstOut
  <2> QED
    BY <1>4, <2>1, <2>2 DEF IInv
<1>5. CASE loops = {}
  <2>1. loops' = {} /\ Held' = {} /\ Held = {}
    BY <1>1, <1>5, HeldIsAsleep, AsleepCases
  <2>2. SingleWorker' /\ NotStranded' /\ LoopKnowsItsSend' /\ PaceKept'
    BY <1>1, <1>3, <1>5, <2>1 DEF IInv, SingleWorker, NotStranded, LoopKnowsItsSend, PaceKept
  <2> QED
    BY <1>4, <2>1, <2>2
<1>6. ASSUME NEW j \in Job, NEW ms \in 0..MaxDelay, loops = {Sleeping(j, ms)}
      PROVE  IInv'
  <2> DEFINE left == IF ms > 0 THEN ms - 1 ELSE 0
  <2>1. loops' = {Down(Sleeping(j, ms))}
    BY <1>1, <1>6
  <2>2. left \in 0..MaxDelay /\ loops' = {Sleeping(j, left)}
    BY <2>1, DownCases
  <2>3. Held' = Held
    <3> HIDE DEF left
    <3> QED
      BY <1>6, <2>2, HeldIsAsleep, AsleepCases
  <2>4. SingleWorker' /\ NotStranded'
    BY <1>1, <1>6, <2>2 DEF IInv, SingleWorker, NotStranded
  <2>5. LoopKnowsItsSend'
    BY <1>1, <1>6, <2>2 DEF IInv, LoopKnowsItsSend, Sleeping
  <2>6. PaceKept'
    <3>1. quiet + ms >= MinDelay
      BY <1>6 DEF IInv, PaceKept, Sleeping
    <3>2. quiet' + left >= MinDelay
      <4>1. quiet \in Int /\ quiet' \in Int /\ MinDelay \in Int /\ ms \in Nat
        BY <1>2
      <4>2. quiet' = quiet + 1 \/ quiet' >= MinDelay
        BY <1>2
      <4>3. left \in Nat /\ left >= ms - 1
        BY <4>1
      <4> HIDE DEF left
      <4> QED
        BY <3>1, <4>1, <4>2, <4>3, SleepShortens, Zenon
    <3>3. \A l \in loops' : l.left = left
      BY <2>2 DEF Sleeping
    <3> HIDE DEF left
    <3> QED
      BY <1>3, <3>2, <3>3 DEF PaceKept
  <2>7. loops' \subseteq Loop
    BY <2>2, LoopTypes
  <2> QED
    BY <1>4, <2>3, <2>4, <2>5, <2>6, <2>7
<1>7. ASSUME NEW j \in Job, loops = {Sending(j)}
      PROVE  IInv'
  <2>1. loops' = loops
    BY <1>1, <1>7, DownCases
  <2>2. Held' = Held
    BY <2>1, HeldIsAsleep
  <2>3. SingleWorker' /\ NotStranded' /\ LoopKnowsItsSend'
    BY <1>1, <2>1 DEF IInv, SingleWorker, NotStranded, LoopKnowsItsSend
  <2>4. PaceKept'
    BY <1>3, <1>7, <2>1 DEF PaceKept, Sending
  <2>5. loops' \subseteq Loop
    BY <2>1 DEF IInv, TypeOK
  <2> QED
    BY <1>4, <2>2, <2>3, <2>4, <2>5
<1> QED
  BY <1>5, <1>6, <1>7, WorkerCases DEF IInv

LEMMA StutterStep ==
  ASSUME IInv, UNCHANGED vars
  PROVE  IInv'
BY DEF vars, IInv, TypeOK, SingleWorker, NotStranded, FirstInFirstOut, Held,
       LoopKnowsItsSend, PaceKept

-----------------------------------------------------------------------------
(* The invariants.                                                         *)

\* Every step of the queue, and every step of its environment, keeps the
\* inductive invariant.
THEOREM InvariantKept == IInv /\ [Next]_vars => IInv'
<1> SUFFICES ASSUME IInv, [Next]_vars PROVE IInv'
  OBVIOUS
<1>1. CASE EnqueueText
  BY <1>1, EnqueueTextStep
<1>2. CASE Wake
  BY <1>2, WakeStep
<1>3. CASE SendSettles
  BY <1>3, SendSettlesStep
<1>4. CASE OnModuleDestroy
  BY <1>4, OnModuleDestroyStep
<1>5. CASE SocketChanges
  BY <1>5, SocketChangesStep
<1>6. CASE Tick
  BY <1>6, TickStep
<1>7. CASE UNCHANGED vars
  BY <1>7, StutterStep
<1> QED
  BY <1>1, <1>2, <1>3, <1>4, <1>5, <1>6, <1>7 DEF Next

\* The inductive invariant holds throughout the life of the process.
THEOREM QueueInvariance == Spec => []IInv
BY InitInvariant, InvariantKept, PTL DEF Spec

\* The variables keep their types, and the queue never exceeds its limit.
THEOREM QueueTypeCorrect == Spec => []TypeOK
<1>1. IInv => TypeOK
  BY DEF IInv
<1> QED
  BY <1>1, QueueInvariance, PTL

\* However enqueueText interleaves with the worker's sleeps and sends, at most
\* one processLoop runs, and isProcessing is true exactly while it does.
THEOREM OneWorker == Spec => []SingleWorker
<1>1. IInv => SingleWorker
  BY DEF IInv
<1> QED
  BY <1>1, QueueInvariance, PTL

\* No message is left in the queue with no worker to take it, until shutdown.
THEOREM NoLostWakeUp == Spec => []NotStranded
<1>1. IInv => NotStranded
  BY DEF IInv
<1> QED
  BY <1>1, QueueInvariance, PTL

\* Messages go out in the order of acceptance, none lost and none twice.
THEOREM SentInOrder == Spec => []FirstInFirstOut
<1>1. IInv => FirstInFirstOut
  BY DEF IInv
<1> QED
  BY <1>1, QueueInvariance, PTL

-----------------------------------------------------------------------------
(* The action properties.                                                  *)

\* An iteration that sends does so before shutdown and after the minimum
\* delay; one that is given no loop to keep is given settled sends.
LEMMA IterationSends ==
  ASSUME NEW q \in Seq(Job), NEW since \in 0..MaxDelay,
         Iterate(q, since, {}), sends' # sends
  PROVE  ~shuttingDown /\ since >= MinDelay
BY IterateCases

\* When a message goes out: every earlier send has settled, the last of them
\* at least MinDelay ago, and shutdown has not begun.
LEMMA WhenMessagesGoOut ==
  ASSUME IInv, Next, sends' # sends
  PROVE  ~shuttingDown /\ settled' = 1..Len(sends) /\ quiet' >= MinDelay
<1> USE WhatsappQueueAssumption
<1>1. CASE EnqueueText
  <2> DEFINE q == Append(queue, accepted + 1)
  <2>1. ~Busy
    BY <1>1 DEF EnqueueText
  <2>2. loops = {} /\ settled = 1..Len(sends)
    BY <2>1 DEF Busy, IInv, SingleWorker, LoopKnowsItsSend
  <2>3. Iterate(q, elapsed, {}) /\ UNCHANGED <<settled, quiet>>
    BY <1>1, <2>1, <2>2 DEF EnqueueText
  <2>4. q \in Seq(Job) /\ elapsed \in 0..MaxDelay /\ quiet \in 0..MinDelay
    <3>1. accepted + 1 \in Job
      BY <1>1 DEF EnqueueText, IInv, TypeOK, Job
    <3> QED
      BY <3>1, AppendProperties DEF IInv, TypeOK
  <2>5. ~shuttingDown /\ elapsed >= MinDelay
    <3> HIDE DEF q
    <3> QED
      BY <2>3, <2>4, IterationSends
  <2>6. quiet >= MinDelay
    BY <2>4, <2>5 DEF IInv, PaceKept
  <2> QED
    BY <2>2, <2>3, <2>5, <2>6
<1>2. CASE Wake
  <2>1. PICK l \in loops :
          /\ l.awaits = "sleep" /\ l.left = 0
          /\ shuttingDown => sends' = sends
          /\ UNCHANGED <<settled, quiet>>
    BY <1>2 DEF Wake, Exit
  <2>2. settled = 1..Len(sends) /\ quiet + l.left >= MinDelay
    BY <2>1, WakingLoop
  <2>3. quiet \in Nat
    BY DEF IInv, TypeOK
  <2> QED
    BY <2>1, <2>2, <2>3
<1>3. CASE SendSettles
  <2>1. PICK l \in loops :
          /\ l.awaits = "sendText"
          /\ settled' = settled \cup {l.job}
          /\ quiet' = 0
          /\ Iterate(queue, 0, loops \ {l})
    BY <1>3 DEF SendSettles
  <2>2. loops \ {l} = {} /\ settled' = 1..Len(sends)
    BY <2>1, SettlingLoop
  <2>3. Iterate(queue, 0, {}) /\ queue \in Seq(Job)
    BY <2>1, <2>2 DEF IInv, TypeOK
  <2>4. ~shuttingDown /\ 0 >= MinDelay
    BY <2>3, IterationSends
  <2> QED
    BY <2>1, <2>2, <2>4
<1>4. CASE OnModuleDestroy \/ SocketChanges \/ Tick
  BY <1>4 DEF OnModuleDestroy, SocketChanges, Tick
<1> QED
  BY <1>1, <1>2, <1>3, <1>4 DEF Next

\* Two messages are never closer together than the minimum delay, counted from
\* the moment the first one settled, across idle periods and failures.
THEOREM SpacingKept == Spec => Spacing
<1>1. ASSUME IInv, [Next]_vars
      PROVE  [sends' # sends =>
                /\ \A k \in 1..Len(sends) : sends[k] \in settled'
                /\ quiet' >= MinDelay]_vars
  <2> SUFFICES ASSUME Next, sends' # sends
               PROVE  /\ \A k \in 1..Len(sends) : sends[k] \in settled'
                      /\ quiet' >= MinDelay
    BY <1>1
  <2>1. settled' = 1..Len(sends) /\ quiet' >= MinDelay
    BY <1>1, WhenMessagesGoOut
  <2>2. \A k \in 1..Len(sends) : sends[k] = k
    BY <1>1 DEF IInv, FirstInFirstOut
  <2> QED
    BY <2>1, <2>2
<1> QED
  BY <1>1, QueueInvariance, PTL DEF Spec, Spacing

\* Once onModuleDestroy has run, nothing is sent: by the worker that sleeps
\* through it, by the one whose send ends after it, or by a later enqueueText.
THEOREM SilentAfterShutdown == Spec => NoSendAfterShutdown
<1>1. ASSUME IInv, [Next]_vars
      PROVE  [shuttingDown => sends' = sends]_vars
  BY <1>1, WhenMessagesGoOut DEF vars
<1> QED
  BY <1>1, QueueInvariance, PTL DEF Spec, NoSendAfterShutdown

\* Whether the worker is idle, asleep or sending, the position a caller is told
\* is the number of accepted messages that have not settled.
THEOREM PositionTrue == Spec => PositionIsNumberAhead
<1>1. ASSUME IInv, EnqueueText, ~shuttingDown
      PROVE  position' = accepted - Cardinality(settled)
  <2> DEFINE n == Len(sends)
             j == accepted + 1
             q == Append(queue, j)
  <2>1. /\ n \in Nat /\ Len(queue) \in Nat
        /\ position' = Len(queue') /\ j \in Job
        /\ accepted = n + Cardinality(Held) + Len(queue)
    <3>1. n \in Nat /\ Len(queue) \in Nat
      BY <1>1 DEF IInv, TypeOK
    <3>2. position' = Len(queue') /\ j \in Job
      <4>1. position' = Len(queue') /\ accepted < MaxJobs
        BY <1>1 DEF EnqueueText, Answer
      <4>2. accepted \in 0..MaxJobs
        BY <1>1 DEF IInv, TypeOK
      <4> QED
        BY <4>1, <4>2, WhatsappQueueAssumption DEF Job
    <3>3. accepted = n + Cardinality(Held) + Len(queue)
      BY <1>1 DEF IInv, FirstInFirstOut
    <3> QED
      BY <3>1, <3>2, <3>3
  <2>2. q \in Seq(Job) /\ Len(q) = Len(queue) + 1
    BY <1>1, <2>1, AppendProperties DEF IInv, TypeOK
  <2>3. \A m \in Nat : Cardinality(1..m) = m
    BY FS_Interval
  <2>4. CASE loops = {}
    <3>1. settled = 1..n /\ Cardinality(Held) = 0
      BY <1>1, <2>4, HeldIsAsleep, AsleepCases DEF IInv, LoopKnowsItsSend
    <3>2. Len(queue) = 0
      BY <1>1, <2>4, EmptySeq DEF IInv, NotStranded, TypeOK
    <3>3. queue' = Tail(q)
      <4>1. Iterate(q, elapsed, {})
        BY <1>1, <2>4 DEF EnqueueText, Busy, IInv, SingleWorker
      <4>2. q # <<>>
        BY <2>1, <2>2, EmptySeq
      <4> QED
        BY <1>1, <4>1, <4>2 DEF Iterate, Shift
    <3>4. Len(queue') = 0
      BY <2>1, <2>2, <3>2, <3>3, EmptySeq, HeadTailProperties
    <3> QED
      BY <2>1, <2>3, <3>1, <3>2, <3>4
  <2>5. CASE loops # {}
    <3>1. queue' = q
      BY <1>1, <2>5 DEF EnqueueText, Busy, IInv, SingleWorker
    <3>2. PICK l \in loops : loops = {l}
      BY <1>1, <2>5 DEF IInv, SingleWorker
    <3>3. CASE l.awaits = "sleep"
      <4>1. settled = 1..n /\ Held = {l.job}
        BY <1>1, <3>2, <3>3 DEF IInv, LoopKnowsItsSend, Held
      <4>2. Cardinality(Held) = 1
        BY <4>1, FS_Singleton
      <4> QED
        BY <2>1, <2>2, <2>3, <3>1, <4>1, <4>2
    <3>4. CASE l.awaits = "sendText"
      <4>1. n > 0 /\ settled = 1..(n - 1) /\ Cardinality(Held) = 0
        BY <1>1, <3>2, <3>4, SettlingLoop DEF IInv, LoopKnowsItsSend
      <4>2. Cardinality(settled) = n - 1
        BY <2>1, <2>3, <4>1
      <4> QED
        BY <2>1, <2>2, <3>1, <4>1, <4>2
    <3> QED
      BY <1>1, <3>3, <3>4 DEF IInv, TypeOK, Loop
  <2> QED
    BY <2>4, <2>5
<1>2. ASSUME Next, accepted' # accepted PROVE EnqueueText
  BY <1>2 DEF Next, Wake, SendSettles, OnModuleDestroy, SocketChanges, Tick
<1>3. ASSUME IInv, [Next]_vars
      PROVE  [accepted' # accepted /\ ~shuttingDown =>
                position' = accepted - Cardinality(settled)]_vars
  BY <1>1, <1>2, <1>3
<1> QED
  BY <1>3, QueueInvariance, PTL DEF Spec, PositionIsNumberAhead

-----------------------------------------------------------------------------
(* The queue is an outbox.                                                 *)

\* How many messages wait, in the queue and in the worker's hands.
LEMMA WaitingCount ==
  ASSUME IInv, ~shuttingDown
  PROVE  /\ Promise!Waiting = Cardinality(Held) + Len(queue)
         /\ accepted \in Nat /\ Len(sends) \in Nat /\ Len(queue) \in Nat
         /\ Cardinality(Held) \in {0, 1} /\ Promise!Waiting \in Nat
<1>1. /\ accepted = Len(sends) + Cardinality(Held) + Len(queue)
      /\ accepted \in Nat /\ Len(sends) \in Nat /\ Len(queue) \in Nat
  BY WhatsappQueueAssumption DEF IInv, FirstInFirstOut, TypeOK
<1>2. Cardinality(Held) \in {0, 1}
  BY HeldCount DEF IInv
<1> QED
  BY <1>1, <1>2 DEF Promise!Waiting

\* What goes out is the next message in the order of acceptance.
LEMMA NextGoesOut ==
  ASSUME IInv, Next, sends' # sends
  PROVE  /\ ~shuttingDown /\ shuttingDown' = shuttingDown
         /\ sends' = Append(sends, Len(sends) + 1)
         /\ Len(sends) + 1 <= accepted' /\ accepted' \in Nat
<1> DEFINE n == Len(sends)
<1>1. ~shuttingDown
  BY WhenMessagesGoOut
<1>2. \E j : sends' = Append(sends, j)
  <2>1. ASSUME NEW q, NEW since, NEW others, Iterate(q, since, others)
        PROVE  \E j : sends' = Append(sends, j)
    BY <2>1 DEF Iterate, Exit, Dispatch
  <2> QED
    BY <2>1 DEF Next, EnqueueText, Wake, SendSettles, OnModuleDestroy, SocketChanges, Tick, Exit,
       Dispatch
<1>3. PICK j : sends' = Append(sends, j)
  BY <1>2
<1>4. IInv'
  BY InvariantKept
<1>5. sends \in Seq(Job) /\ sends' \in Seq(Job) /\ n \in Nat
  BY <1>4 DEF IInv, TypeOK
<1>6. Len(sends') = n + 1 /\ sends'[n + 1] = j
  BY <1>3, <1>5
<1>7. j = n + 1
  <2>1. \A k \in 1..Len(sends') : sends'[k] = k
    BY <1>4 DEF IInv, FirstInFirstOut
  <2>2. n + 1 \in 1..Len(sends')
    BY <1>5, <1>6
  <2> QED
    BY <1>6, <2>1, <2>2
<1>8. shuttingDown' = shuttingDown
  BY DEF Next, EnqueueText, Wake, SendSettles, OnModuleDestroy, SocketChanges, Tick
<1>9. n + 1 <= accepted' /\ accepted' \in Nat
  <2>1. accepted' = Len(sends') + Cardinality(Held') + Len(queue')
    BY <1>1, <1>4, <1>8 DEF IInv, FirstInFirstOut
  <2>2. Cardinality(Held') \in Nat
    <3>1. loops' \subseteq Loop /\ \A k, l \in loops' : k = l
      BY <1>4 DEF IInv, TypeOK, SingleWorker
    <3>2. Cardinality(Held') \in {0, 1}
      BY <3>1, HeldIsAsleep, AsleepCount
    <3> QED
      BY <3>2
  <2>3. Len(queue') \in Nat
    BY <1>4 DEF IInv, TypeOK
  <2> QED
    BY <1>5, <1>6, <2>1, <2>2, <2>3
<1> QED
  BY <1>1, <1>3, <1>7, <1>8, <1>9

\* enqueueText accepts, and sends at once only what nothing waits before.
LEMMA EnqueueAccepts ==
  ASSUME IInv, EnqueueText
  PROVE  Promise!Accept
<1>1. accepted < MaxJobs /\ accepted' = accepted + 1 /\ shuttingDown' = shuttingDown
  BY DEF EnqueueText
<1>2. shuttingDown \/ Promise!Waiting < MaxQueueSize + 1
  <2> SUFFICES ASSUME ~shuttingDown
               PROVE  Promise!Waiting < MaxQueueSize + 1
    OBVIOUS
  <2>1. Len(queue) < MaxQueueSize
    BY WhatsappQueueAssumption DEF EnqueueText, Full, IInv, TypeOK
  <2> QED
    BY <2>1, WaitingCount, WhatsappQueueAssumption
<1>3. ASSUME sends' # sends
      PROVE  ~shuttingDown /\ Promise!Waiting = 0 /\ sends' = Append(sends, Len(sends) + 1)
  <2>1. ~shuttingDown /\ sends' = Append(sends, Len(sends) + 1)
    BY <1>3, NextGoesOut DEF Next
  <2>2. loops = {}
    BY <1>3 DEF EnqueueText, Busy, IInv, SingleWorker
  <2>3. queue = <<>>
    BY <2>1, <2>2 DEF IInv, NotStranded
  <2>4. Cardinality(Held) = 0
    BY <2>2, HeldIsAsleep, AsleepCases
  <2>5. Promise!Waiting = Cardinality(Held) + Len(queue)
    BY <2>1, WaitingCount
  <2>6. Len(queue) = 0
    BY <2>3
  <2> QED
    BY <2>1, <2>4, <2>5, <2>6
<1> QED
  BY <1>1, <1>2, <1>3 DEF Promise!Accept

\* The queue keeps the outbox's promise: in order, each once, within its room,
\* and nothing after shutdown, for any delays, size and number of messages.
THEOREM QueueIsAnOutbox == Spec => ImplementsOutbox
<1>1. Init => Promise!Init
  BY DEF Init, Promise!Init
<1>2. IInv /\ [Next]_vars => [Promise!Next]_(Promise!vars)
  <2> SUFFICES ASSUME IInv, [Next]_vars
               PROVE  [Promise!Next]_(Promise!vars)
    OBVIOUS
  <2>1. CASE EnqueueText
    BY <2>1, EnqueueAccepts DEF Promise!Next
  <2>2. CASE Wake \/ SendSettles
    <3>1. accepted' = accepted /\ shuttingDown' = shuttingDown
      BY <2>2 DEF Wake, SendSettles
    <3>2. CASE sends' = sends
      BY <3>1, <3>2 DEF Promise!vars
    <3>3. CASE sends' # sends
      <4>1. /\ ~shuttingDown /\ sends' = Append(sends, Len(sends) + 1)
            /\ Len(sends) + 1 <= accepted
        BY <2>2, <3>1, <3>3, NextGoesOut DEF Next
      <4>2. Promise!Waiting > 0
        <5>1. accepted \in Nat /\ Len(sends) \in Nat
          BY <4>1, WaitingCount
        <5> QED
          BY <4>1, <5>1 DEF Promise!Waiting
      <4> QED
        BY <3>1, <4>1, <4>2 DEF Promise!Next, Promise!HandOver
    <3> QED
      BY <3>2, <3>3
  <2>3. CASE OnModuleDestroy
    BY <2>3 DEF OnModuleDestroy, Promise!Next, Promise!Close
  <2>4. CASE SocketChanges \/ Tick \/ UNCHANGED vars
    BY <2>4 DEF SocketChanges, Tick, vars, Promise!vars
  <2> QED
    BY <2>1, <2>2, <2>3, <2>4 DEF Next
<1> QED
  BY <1>1, <1>2, QueueInvariance, PTL DEF Spec, ImplementsOutbox, Promise!Spec
=============================================================================
