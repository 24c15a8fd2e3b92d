------------------------------- MODULE Outbox -------------------------------
(***************************************************************************)
(* What the outbound queue promises to those who give it messages: what is  *)
(* accepted is handed over once, in the order of acceptance; no more waits  *)
(* than there is room for; and once the outbox closes nothing more is       *)
(* handed over.  No pace, no worker, no socket.  Messages are numbered in   *)
(* the order they were accepted.                                           *)
(***************************************************************************)
EXTENDS Integers, Sequences

CONSTANTS
  Room,    \* messages that can wait
  Accepts  \* bound: messages ever accepted

VARIABLES accepted, handed, closed

vars == <<accepted, handed, closed>>

Init == accepted = 0 /\ handed = <<>> /\ closed = FALSE

Waiting == accepted - Len(handed)

HandOver ==
  /\ ~closed /\ Waiting > 0
  /\ handed' = Append(handed, Len(handed) + 1)
  /\ UNCHANGED <<accepted, closed>>

\* A message is accepted, and handed over at once if none waits before it.
Accept ==
  /\ accepted < Accepts
  /\ closed \/ Waiting < Room
  /\ accepted' = accepted + 1
  /\ \/ UNCHANGED handed
     \/ ~closed /\ Waiting = 0 /\ handed' = Append(handed, Len(handed) + 1)
  /\ UNCHANGED closed

Close == closed' = TRUE /\ UNCHANGED <<accepted, handed>>

Next == HandOver \/ Accept \/ Close

Spec == Init /\ [][Next]_vars
=============================================================================
