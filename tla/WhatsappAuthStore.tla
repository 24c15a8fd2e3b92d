------------------------- MODULE WhatsappAuthStore -------------------------
(***************************************************************************)
(* The credential store of the WhatsApp session (WhatsappAuthService): a    *)
(* snapshot in memory, a debounced upload of it to one object of the        *)
(* storage provider, and the deletion of that object.                       *)
(*                                                                         *)
(* Storage calls take time and their answers arrive in separate steps; the *)
(* code between two awaits is one step.  flush() may be called while an     *)
(* upload is in flight: `awaiting` lists, in order, the calls that await    *)
(* that upload, its owner first.                                            *)
(***************************************************************************)
EXTENDS Naturals, Sequences, FiniteSets

CONSTANTS
  Devices,     \* device identities that initAuthCreds can draw
  MaxVersion,  \* bound: updates of one device's credentials
  MaxDeletes,  \* bound: deletions in flight together
  MaxAwaiting, \* bound: calls that await one upload
  MaxLeft,     \* bound: requests that ended processes left behind
  NoDevice

ASSUME StoreAssumption ==
  /\ NoDevice \notin Devices
  /\ MaxVersion \in Nat \ {0}
  /\ MaxDeletes \in Nat \ {0}
  /\ MaxAwaiting \in Nat /\ MaxLeft \in Nat

\* What is stored of the credentials: whose they are and how many updates
\* they have seen.  Version 0 is a fresh, unpaired identity.
Creds   == [dev : Devices, ver : 0..MaxVersion]
NoCreds == [dev |-> NoDevice, ver |-> 0]

VARIABLES
  remote,    \* the object private/whatsapp/session.json
  cached, hydrated, pending,
  timer,     \* flushTimer is running
  flight,    \* what flushInFlight is uploading
  awaiting,  \* who awaits flushInFlight
  deletes,   \* deletions in flight
  leftovers  \* payloads of what ended processes sent and the provider has yet to
             \* handle, NoCreds being a deletion

storeVars == <<remote, cached, hydrated, pending, timer, flight, awaiting,
               deletes, leftovers>>

StoreInit ==
  /\ remote = NoCreds /\ cached = NoCreds /\ pending = NoCreds
  /\ flight = NoCreds /\ hydrated = FALSE /\ timer = FALSE
  /\ awaiting = <<>> /\ deletes = 0
  /\ leftovers = {}

\* Mutant: the snapshot stays the one that was loaded.
SaveBug(c) ==
  /\ pending' = c /\ timer' = TRUE
  /\ UNCHANGED <<remote, cached, hydrated, flight, awaiting, deletes, leftovers>>

\* save(): the snapshot at once, its upload when the timer fires.
Save(c) ==
  /\ cached' = c /\ hydrated' = TRUE /\ pending' = c /\ timer' = TRUE
  /\ UNCHANGED <<remote, flight, awaiting, deletes, leftovers>>

\* flush() up to its first await that really waits, on behalf of `callers`
\* (one call each, made one after the other in the same tick).
FlushReturnsAtOnce == flight = NoCreds /\ pending = NoCreds
Flush(callers) ==
  /\ Len(awaiting) + Len(callers) <= MaxAwaiting
  /\ timer' = FALSE
  /\ awaiting' = IF FlushReturnsAtOnce THEN awaiting ELSE awaiting \o callers
  /\ IF flight = NoCreds
       THEN flight' = pending /\ pending' = NoCreds
       ELSE UNCHANGED <<flight, pending>>
  /\ UNCHANGED <<remote, cached, hydrated, deletes, leftovers>>

\* When an upload ends the first call that waited behind its owner takes what
\* is pending by then; every other call returns.
WaiterTakes == pending # NoCreds /\ Len(awaiting) > 1
Returning   == {awaiting[i] : i \in IF WaiterTakes THEN DOMAIN awaiting \ {2}
                                                   ELSE DOMAIN awaiting}
\* Mutant: a call that waited takes nothing, its payload having been read
\* before the await.
UploadLandsBug ==
  /\ flight # NoCreds
  /\ remote' = flight /\ flight' = NoCreds /\ awaiting' = <<>>
  /\ UNCHANGED <<cached, hydrated, pending, timer, deletes, leftovers>>

UploadLands ==
  /\ flight # NoCreds
  /\ remote' = flight
  /\ IF WaiterTakes
       THEN /\ flight' = pending /\ pending' = NoCreds
            /\ awaiting' = <<awaiting[2]>>
       ELSE /\ flight' = NoCreds /\ awaiting' = <<>> /\ UNCHANGED pending
  /\ UNCHANGED <<cached, hydrated, timer, deletes, leftovers>>

\* A failed upload rejects every call that awaits it.  Its payload is gone,
\* and what is pending is left without a timer if a waiter cancelled it.
UploadFails ==
  /\ flight # NoCreds
  /\ flight' = NoCreds /\ awaiting' = <<>>
  /\ UNCHANGED <<remote, cached, hydrated, pending, timer, deletes, leftovers>>

\* Mutant: the pending update survives the wipe.
ClearBug ==
  /\ deletes < MaxDeletes
  /\ cached' = NoCreds /\ hydrated' = TRUE /\ deletes' = deletes + 1
  /\ UNCHANGED <<remote, timer, pending, flight, awaiting, leftovers>>

\* clear() up to the deletion, which does not wait for an upload in flight.
Clear ==
  /\ deletes < MaxDeletes
  /\ timer' = FALSE /\ pending' = NoCreds /\ cached' = NoCreds
  /\ hydrated' = TRUE /\ deletes' = deletes + 1
  /\ UNCHANGED <<remote, flight, awaiting, leftovers>>

\* A missing object is no error to clear().
DeleteLands ==
  /\ deletes > 0
  /\ deletes' = deletes - 1 /\ remote' = NoCreds
  /\ UNCHANGED <<cached, hydrated, pending, timer, flight, awaiting, leftovers>>
DeleteFails ==
  /\ deletes > 0
  /\ deletes' = deletes - 1
  /\ UNCHANGED <<remote, cached, hydrated, pending, timer, flight, awaiting,
                 leftovers>>

\* load() once its read has answered with c: it does not look at what
\* happened to the snapshot meanwhile.
Hydrate(c) ==
  /\ cached' = c /\ hydrated' = TRUE
  /\ UNCHANGED <<remote, pending, timer, flight, awaiting, deletes, leftovers>>

\* The process ends: memory is gone.  A request in flight is lost, reaches the
\* provider at once, or stays on its way to it.
InFlight == ({flight} \ {NoCreds}) \union (IF deletes > 0 THEN {NoCreds} ELSE {})
StoreStops ==
  /\ \E left \in SUBSET InFlight :
       /\ left # {} => Cardinality(leftovers \union left) <= MaxLeft
       /\ leftovers' = leftovers \union left
       /\ remote' \in {remote} \union (InFlight \ left)
  /\ cached' = NoCreds /\ pending' = NoCreds /\ flight' = NoCreds
  /\ hydrated' = FALSE /\ timer' = FALSE /\ awaiting' = <<>> /\ deletes' = 0

\* The provider handles such a request, whoever runs by then, or loses it.
LeftoverEnds(c) ==
  /\ leftovers' = leftovers \ {c} /\ remote' \in {remote, c}
  /\ UNCHANGED <<cached, hydrated, pending, timer, flight, awaiting, deletes>>
=============================================================================
