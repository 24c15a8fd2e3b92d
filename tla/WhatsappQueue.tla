--------------------------- MODULE WhatsappQueue ---------------------------
(***************************************************************************)
(* WhatsappQueueService: the in-memory FIFO that paces outbound messages,  *)
(* over the life of one process.                                           *)
(*                                                                         *)
(* JavaScript runs a handler without interruption up to its next await, so *)
(* an action is one such run: enqueueText includes the first iteration of  *)
(* the worker it starts, and the end of a send includes the next shift.    *)
(* A running processLoop is the record of what it awaits: the timer of its *)
(* sleep or the promise of sendText.                                       *)
(*                                                                         *)
(* Time is relative.  elapsed is Date.now() - lastSentAt; it saturates at  *)
(* MaxDelay, where it delays no send, which is also what lastSentAt = null *)
(* means.  Jobs are numbered in the order they were accepted.              *)
(***************************************************************************)
EXTENDS Integers, Sequences, FiniteSets

CONSTANTS MinDelay,      \* WHATSAPP_QUEUE_MIN_DELAY_MS
          MaxDelay,      \* WHATSAPP_QUEUE_MAX_DELAY_MS
          MaxQueueSize,  \* WHATSAPP_QUEUE_MAX_SIZE
          MaxJobs        \* bound: messages ever accepted

\* The schema does not relate the delays, but randomInt throws unless
\* MinDelay <= MaxDelay.
ASSUME WhatsappQueueAssumption ==
  /\ MinDelay \in Nat /\ MaxDelay \in Nat /\ MinDelay <= MaxDelay
  /\ MaxQueueSize \in Nat \ {0}
  /\ MaxJobs \in Nat

Job == 1..MaxJobs

VARIABLES
  connected,     \* WhatsappService.connected
  queue,         \* jobs waiting
  loops,         \* the processLoop calls that have not returned
  isProcessing,
  shuttingDown,
  elapsed,       \* time since lastSentAt, saturating
  position,      \* the position the last accepted call was answered with
  \* history
  accepted,      \* number of jobs accepted
  sends,         \* the jobs handed to sendText, in order
  settled,       \* those whose sendText has settled
  quiet          \* time since a sendText settled, saturating at MinDelay

vars == <<connected, queue, loops, isProcessing, shuttingDown, elapsed,
          position, accepted, sends, settled, quiet>>

Loop == [awaits : {"sleep"}, job : Job, left : 0..MaxDelay]
          \cup [awaits : {"sendText"}, job : Job, left : {0}]

Sleeping(j, ms) == [awaits |-> "sleep", job |-> j, left |-> ms]
Sending(j)      == [awaits |-> "sendText", job |-> j, left |-> 0]

Init ==
  /\ connected = FALSE
  /\ queue = <<>>
  /\ loops = {}
  /\ isProcessing = FALSE
  /\ shuttingDown = FALSE
  /\ elapsed = MaxDelay
  /\ position = 0
  /\ accepted = 0
  /\ sends = <<>>
  /\ settled = {}
  /\ quiet = MinDelay

-----------------------------------------------------------------------------
(* processLoop, between two awaits.                                        *)

\* Mutant: pop() takes the newest job.
BugShift(q) == <<q[Len(q)]>> \o SubSeq(q, 1, Len(q) - 1)
Shift(q) == q

\* Mutant: isProcessing is not reset on the way out.
BugExit(q, others) ==
  /\ queue' = q
  /\ loops' = others
  /\ UNCHANGED <<isProcessing, sends>>

\* The loop returns and its finally block runs.
Exit(q, others) ==
  /\ queue' = q
  /\ loops' = others
  /\ isProcessing' = FALSE
  /\ UNCHANGED sends

\* sendText is called with job j.
Dispatch(j, others) ==
  /\ loops' = others \cup {Sending(j)}
  /\ sends' = Append(sends, j)

\* One iteration on queue q, since after the last send; others are the other
\* loops.
Iterate(q, since, others) ==
  \/ /\ shuttingDown \/ q = <<>>
     /\ Exit(q, others)
  \/ /\ ~shuttingDown /\ q # <<>>
     /\ queue' = Tail(Shift(q))
     /\ isProcessing' = TRUE
     /\ \E delay \in MinDelay..MaxDelay :
          \/ /\ delay > since
             /\ loops' = others \cup {Sleeping(Head(Shift(q)), delay - since)}
             /\ UNCHANGED sends
          \/ /\ delay <= since
             /\ Dispatch(Head(Shift(q)), others)

-----------------------------------------------------------------------------
\* Mutant: one too many.
BugFull == Len(queue) > MaxQueueSize
Full == Len(queue) >= MaxQueueSize

Busy == isProcessing

Answer == position' = Len(queue')

\* enqueueText.  It throws, changing nothing, when not connected or full.
EnqueueText ==
  /\ connected
  /\ ~Full
  /\ accepted < MaxJobs
  /\ accepted' = accepted + 1
  /\ \/ /\ Busy
        /\ queue' = Append(queue, accepted + 1)
        /\ UNCHANGED <<loops, isProcessing, sends>>
     \/ /\ ~Busy
        /\ Iterate(Append(queue, accepted + 1), elapsed, loops)
  /\ Answer
  /\ UNCHANGED <<connected, shuttingDown, elapsed, settled, quiet>>

\* Mutant: the worker does not look at shuttingDown when it wakes.
BugWake ==
  \E l \in loops :
    /\ l.awaits = "sleep" /\ l.left = 0
    /\ Dispatch(l.job, loops \ {l})
    /\ UNCHANGED <<connected, queue, isProcessing, shuttingDown, elapsed, position,
                   accepted, settled, quiet>>

\* The timer of a sleep fires, on time or late.
Wake ==
  \E l \in loops :
    /\ l.awaits = "sleep" /\ l.left = 0
    /\ \/ /\ shuttingDown
          /\ Exit(queue, loops \ {l})
       \/ /\ ~shuttingDown
          /\ Dispatch(l.job, loops \ {l})
          /\ UNCHANGED <<queue, isProcessing>>
    /\ UNCHANGED <<connected, shuttingDown, elapsed, position, accepted, settled, quiet>>

\* Mutant: a send that fails leaves lastSentAt alone.
BugSendSettles ==
  \E l \in loops :
    /\ l.awaits = "sendText"
    /\ settled' = settled \cup {l.job}
    /\ quiet' = 0
    /\ \/ elapsed' = 0 /\ Iterate(queue, 0, loops \ {l})
       \/ UNCHANGED elapsed /\ Iterate(queue, elapsed, loops \ {l})
    /\ UNCHANGED <<connected, shuttingDown, position, accepted>>

\* sendText resolves or rejects; the catch makes no difference to the state.
SendSettles ==
  \E l \in loops :
    /\ l.awaits = "sendText"
    /\ settled' = settled \cup {l.job}
    /\ elapsed' = 0
    /\ quiet' = 0
    /\ Iterate(queue, 0, loops \ {l})
    /\ UNCHANGED <<connected, shuttingDown, position, accepted>>

OnModuleDestroy ==
  /\ shuttingDown' = TRUE
  /\ UNCHANGED <<connected, queue, loops, isProcessing, elapsed, position,
                 accepted, sends, settled, quiet>>

\* The socket opens or closes.
SocketChanges ==
  /\ connected' = ~connected
  /\ UNCHANGED <<queue, loops, isProcessing, shuttingDown, elapsed, position,
                 accepted, sends, settled, quiet>>

UpTo(n, limit) == IF n < limit THEN n + 1 ELSE limit

Tick ==
  /\ elapsed' = UpTo(elapsed, MaxDelay)
  /\ quiet' = UpTo(quiet, MinDelay)
  /\ loops' = {[l EXCEPT !.left = IF @ > 0 THEN @ - 1 ELSE 0] : l \in loops}
  /\ UNCHANGED <<connected, queue, isProcessing, shuttingDown, position,
                 accepted, sends, settled>>

Next ==
  \/ EnqueueText \/ Wake \/ SendSettles
  \/ OnModuleDestroy \/ SocketChanges \/ Tick

Spec == Init /\ [][Next]_vars

\* Time passes, timers fire, and every sendText settles.
Fairness == WF_vars(Tick) /\ WF_vars(Wake) /\ WF_vars(SendSettles)

FairSpec == Spec /\ Fairness

-----------------------------------------------------------------------------
(* Properties.                                                             *)

\* Every variable has its type, and the queue its limit.
TypeOK ==
  /\ connected \in BOOLEAN
  /\ queue \in Seq(Job) /\ Len(queue) <= MaxQueueSize
  /\ loops \subseteq Loop
  /\ isProcessing \in BOOLEAN
  /\ shuttingDown \in BOOLEAN
  /\ elapsed \in 0..MaxDelay
  /\ position \in 0..MaxQueueSize
  /\ accepted \in 0..MaxJobs
  /\ sends \in Seq(Job)
  /\ settled \subseteq Job
  /\ quiet \in 0..MinDelay

\* Callers that find the worker idle, waking or leaving never start a second
\* one, and isProcessing says whether there is one.
SingleWorker ==
  /\ \A k, l \in loops : k = l
  /\ isProcessing <=> loops # {}

\* No lost wake-up: while messages wait, a worker is there to take them.
NotStranded == queue # <<>> => loops # {} \/ shuttingDown

Held == {l.job : l \in {k \in loops : k.awaits = "sleep"}}

\* Until shutdown every accepted message is sent, held or queued, and sends
\* follow the order of acceptance: 1..accepted is split in this order.
FirstInFirstOut ==
  LET n == Len(sends)
      m == n + Cardinality(Held)
  IN  /\ \A k \in 1..n : sends[k] = k
      /\ ~shuttingDown =>
           /\ Held = (n + 1)..m
           /\ accepted = m + Len(queue)
           /\ \A k \in 1..Len(queue) : queue[k] = m + k

\* A message goes out only when every earlier send has settled, successfully or
\* not, at least the minimum delay ago, however idle the worker was in between.
Spacing ==
  [][sends' # sends =>
       /\ \A k \in 1..Len(sends) : sends[k] \in settled'
       /\ quiet' >= MinDelay]_vars

\* Once shutdown begins nothing more is sent, whoever enqueues or wakes.
NoSendAfterShutdown == [][shuttingDown => sends' = sends]_vars

\* As documented, queuePosition is the number of messages ahead at enqueue
\* time, the one in the worker's hands included.
PositionIsNumberAhead ==
  [][accepted' # accepted /\ ~shuttingDown =>
       position' = accepted - Cardinality(settled)]_vars

\* Every accepted message is handed to WhatsApp unless the process shuts down.
EveryMessageIsSent ==
  \A j \in Job : accepted >= j ~> shuttingDown \/ \E k \in 1..Len(sends) : sends[k] = j

\* To those who use it, the queue is an outbox whose room is the queue and the
\* worker's hands, whatever sockets, failures, timers and delays do inside.
Promise == INSTANCE Outbox WITH Room <- MaxQueueSize + 1, Accepts <- MaxJobs,
                                handed <- sends, closed <- shuttingDown
ImplementsOutbox == Promise!Spec

-----------------------------------------------------------------------------
(* The strengthening that makes the invariants above inductive.            *)

\* What a loop awaits says which sends have settled: all but its own.
LoopKnowsItsSend ==
  /\ \A l \in loops : l.awaits = "sendText" =>
       Len(sends) > 0 /\ l.job = Len(sends) /\ settled = 1..(Len(sends) - 1)
  /\ (\A l \in loops : l.awaits = "sleep") => settled = 1..Len(sends)

\* lastSentAt is no older than the last send, and a sleep lasts until the
\* minimum delay after it.
PaceKept ==
  /\ quiet >= MinDelay \/ quiet >= elapsed
  /\ \A l \in loops : l.awaits = "sleep" => quiet + l.left >= MinDelay

\* The inductive invariant.
IInv ==
  /\ TypeOK
  /\ SingleWorker
  /\ NotStranded
  /\ FirstInFirstOut
  /\ LoopKnowsItsSend
  /\ PaceKept
=============================================================================
