----------------------- MODULE WhatsappSessionProofs -----------------------
(***************************************************************************)
(* Proofs that the safety properties of WhatsappSession hold for any number *)
(* of identities, updates, deletions and requests.                         *)
(*                                                                         *)
(* The arguments, one for each property: there is no socket beside a start, *)
(* hence no waiter without a socket; the pending snapshot is the last one,  *)
(* hence an upload of an older one has a follower; and a start reads the    *)
(* storage only before the first wipe of a process, hence what it finds     *)
(* there was not wiped, or has slipped.  Last, credentials move one way:    *)
(* from a socket to the snapshot, to an upload and into storage, and from    *)
(* there back only to a start, when nothing newer is left on the way -- but  *)
(* for the requests that an ended process has left with the provider.        *)
(***************************************************************************)
EXTENDS WhatsappSession, TLAPS

\* One start or one socket, and neither while the process is down.
OneSocket ==
  /\ start # "no" => sock = NoCreds
  /\ sock = NoCreds => ~connected /\ ~latestQr
  /\ phase = "down" => sock = NoCreds /\ start = "no" /\ ~hydrated /\ logout = "idle"

\* Nothing was made, saved or deleted by a process that has not loaded yet, nor is
\* anything saved while the storage is being read.
BeforeTheLoad ==
  /\ ~hydrated => /\ cached = NoCreds /\ pending = NoCreds /\ flight = NoCreds /\ deletes = 0
                  /\ sock = NoCreds /\ start # "version"
  /\ start = "reading" => pending = NoCreds /\ flight = NoCreds
  /\ start \notin {"served", "version"} => inHand = NoCreds

\* An upload in flight has its owner, and one of an older snapshot somebody
\* who will upload the newest.
UploadsInOrder ==
  /\ flight # NoCreds => awaiting # <<>>
  /\ last # NoCreds =>
       /\ pending \in {NoCreds, last}
       /\ flight \notin {NoCreds, last} => pending = last /\ (timer \/ WaiterTakes)

\* What a start reads is not wiped, or has slipped.
ReadsNothingWiped == start = "reading" => remote.dev \notin wiped \ slipped

\* Nor is what an ended process left behind.
LeftNothingWiped == \A c \in leftovers : c.dev \notin wiped \ slipped

IInv ==
  /\ TypeOK
  /\ OneSocket /\ BeforeTheLoad /\ UploadsInOrder /\ ReadsNothingWiped /\ LeftNothingWiped
  /\ NoOrphanWaiter /\ LastUpdateOnItsWay /\ WipedStayWiped

-----------------------------------------------------------------------------
(* Credentials and their devices.                                          *)

LEMMA CredsFacts ==
  /\ NoCreds \notin Creds /\ NoCreds.dev = NoDevice /\ NoDevice \notin Devices
  /\ \A c \in Creds : c.dev \in Devices /\ c.ver \in 0..MaxVersion
  /\ \A d \in Devices : [dev |-> d, ver |-> 0] \in Creds
<1>1. NoCreds \notin Creds /\ NoCreds.dev = NoDevice /\ NoDevice \notin Devices
  BY StoreAssumption DEF NoCreds, Creds
<1>2. \A c \in Creds : c.dev \in Devices /\ c.ver \in 0..MaxVersion
  BY DEF Creds
<1>3. 0 \in 0..MaxVersion
  BY StoreAssumption
<1>4. \A d \in Devices : [dev |-> d, ver |-> 0] \in Creds
  BY <1>3 DEF Creds
<1> QED
  BY <1>1, <1>2, <1>4

-----------------------------------------------------------------------------
(* The end of the process and the wipe.                                    *)

LEMMA StopStep ==
  ASSUME IInv, Stop
  PROVE  IInv'
<1>1. /\ remote' \in {remote, flight, NoCreds} /\ (remote' = NoCreds => remote = NoCreds \/ deletes > 0)
      /\ leftovers' \subseteq leftovers \union {flight, NoCreds} /\ overtaken' = FALSE
      /\ cached' = NoCreds /\ pending' = NoCreds
      /\ flight' = NoCreds /\ hydrated' = FALSE /\ timer' = FALSE /\ awaiting' = <<>>
      /\ deletes' = 0 /\ phase' = "down" /\ booting' = FALSE /\ start' = "no"
      /\ inHand' = NoCreds /\ sock' = NoCreds /\ connected' = FALSE /\ latestQr' = FALSE
      /\ caller' = [c \in Callers |-> "idle"] /\ logout' = "idle" /\ last' = NoCreds
      /\ lost' = FALSE /\ dropped' = FALSE /\ wiped' = wiped
      /\ slipped' = IF deletes > 0 THEN slipped \union wiped ELSE slipped
  BY DEF Stop, StoreStops, InFlight
<1>2. TypeOK'
  <2>1. deletes' \in 0..MaxDeletes
    BY <1>1, StoreAssumption
  <2>2. awaiting' \in Seq({"timer", "restart", "destroy"})
    BY <1>1
  <2>3. caller' \in [Callers -> {"idle", "starting", "waiting"}]
    BY <1>1
  <2>4. wiped' \subseteq Devices /\ slipped' \subseteq Devices
    BY <1>1 DEF IInv, TypeOK
  <2>5. {remote', cached', pending', flight', inHand', sock', last'} \subseteq Creds \union {NoCreds}
    BY <1>1 DEF IInv, TypeOK
  <2>6. {hydrated', timer', booting', connected', latestQr', lost', dropped', overtaken'}
          \subseteq BOOLEAN
    BY <1>1
  <2>7. leftovers' \subseteq Creds \union {NoCreds}
    BY <1>1 DEF IInv, TypeOK
  <2> QED
    BY <1>1, <2>1, <2>2, <2>3, <2>4, <2>5, <2>6, <2>7 DEF TypeOK
<1>3. OneSocket' /\ BeforeTheLoad' /\ UploadsInOrder' /\ ReadsNothingWiped'
  BY <1>1 DEF OneSocket, BeforeTheLoad, UploadsInOrder, ReadsNothingWiped
<1>4. NoOrphanWaiter' /\ LastUpdateOnItsWay'
  BY <1>1 DEF NoOrphanWaiter, LastUpdateOnItsWay
<1>5. WipedStayWiped'
  <2> SUFFICES ASSUME NEW d \in wiped' \ slipped'
               PROVE  /\ d \notin {sock'.dev, cached'.dev, pending'.dev, flight'.dev, inHand'.dev}
                      /\ remote'.dev # d
    BY DEF WipedStayWiped
  <2>1. d \in wiped \ slipped /\ d # NoDevice /\ deletes = 0
    BY <1>1, CredsFacts DEF IInv, TypeOK
  <2> QED
    BY <1>1, <2>1, CredsFacts DEF IInv, WipedStayWiped
<1>6. LeftNothingWiped'
  <2> SUFFICES ASSUME NEW c \in leftovers', c.dev \in wiped', c.dev \notin slipped'
               PROVE  FALSE
    BY DEF LeftNothingWiped
  <2>1. c.dev \in wiped \ slipped /\ c.dev # NoDevice
    BY <1>1, CredsFacts DEF IInv, TypeOK
  <2>2. c \in leftovers \/ c = flight
    BY <1>1, <2>1, CredsFacts
  <2> QED
    BY <2>1, <2>2 DEF IInv, LeftNothingWiped, WipedStayWiped
<1> QED
  BY <1>2, <1>3, <1>4, <1>5, <1>6 DEF IInv

LEMMA WipeStep ==
  ASSUME IInv, Wipe, phase # "down", logout' \in {logout, "idle"},
         UNCHANGED <<phase, booting, start, inHand, dropped>>
  PROVE  IInv'
<1>1. /\ deletes < MaxDeletes /\ timer' = FALSE /\ pending' = NoCreds /\ cached' = NoCreds
      /\ hydrated' = TRUE /\ deletes' = deletes + 1 /\ UNCHANGED <<remote, flight, awaiting, leftovers>>
      /\ UNCHANGED overtaken
      /\ sock' = NoCreds /\ connected' = FALSE /\ latestQr' = FALSE
      /\ caller' = [c \in Callers |-> IF caller[c] = "waiting" THEN "idle" ELSE caller[c]]
      /\ wiped' = wiped \union (({sock.dev, cached.dev, pending.dev, remote.dev, inHand.dev}
                                   \union Carried) \ {NoDevice})
      /\ slipped' = slipped \union (Carried \ {NoDevice})
      /\ last' = NoCreds /\ lost' = FALSE
  BY DEF Wipe, Clear, DropSocket, AnswerWaiters
<1>2. TypeOK'
  <2>1. deletes' \in 0..MaxDeletes /\ deletes' > 0
    BY <1>1, StoreAssumption DEF IInv, TypeOK
  <2>2. wiped' \subseteq Devices
    BY <1>1, CredsFacts DEF IInv, TypeOK, Carried
  <2>3. slipped' \subseteq Devices
    BY <1>1, CredsFacts DEF IInv, TypeOK, Carried
  <2>4. caller' \in [Callers -> {"idle", "starting", "waiting"}]
    BY <1>1 DEF IInv, TypeOK
  <2> QED
    BY <1>1, <2>1, <2>2, <2>3, <2>4 DEF IInv, TypeOK
<1>3. OneSocket' /\ BeforeTheLoad' /\ UploadsInOrder'
  BY <1>1 DEF IInv, OneSocket, BeforeTheLoad, UploadsInOrder
<1>4. ReadsNothingWiped'
  BY <1>1, CredsFacts DEF IInv, ReadsNothingWiped, Carried, TypeOK
<1>5. NoOrphanWaiter' /\ LastUpdateOnItsWay'
  BY <1>1 DEF IInv, NoOrphanWaiter, LastUpdateOnItsWay
<1>7. LeftNothingWiped'
  <2> SUFFICES ASSUME NEW c \in leftovers, c.dev \in wiped', c.dev \notin slipped'
               PROVE  FALSE
    BY <1>1 DEF LeftNothingWiped
  <2>1. c.dev # NoDevice /\ c.dev \in Carried
    BY <1>2, CredsFacts DEF Carried, TypeOK
  <2> QED
    BY <1>1, <2>1
<1>6. WipedStayWiped'
  <2> SUFFICES ASSUME NEW d \in wiped' \ slipped'
               PROVE  /\ d \notin {sock'.dev, cached'.dev, pending'.dev, flight'.dev, inHand'.dev}
                      /\ remote'.dev = d => deletes' > 0
    BY DEF WipedStayWiped
  <2>1. d # NoDevice /\ d # flight.dev
    BY <1>1, <1>2, CredsFacts DEF Carried, TypeOK
  <2>2. d # inHand.dev
    BY <1>1, <2>1, CredsFacts DEF Carried, IInv, BeforeTheLoad
  <2>3. deletes' > 0
    BY <1>1 DEF IInv, TypeOK
  <2> QED
    BY <1>1, <2>1, <2>2, <2>3, CredsFacts
<1> QED
  BY <1>2, <1>3, <1>4, <1>5, <1>6, <1>7 DEF IInv

\* The start of a socket, up to the making of it.
LEMMA StartStep ==
  ASSUME IInv, Boot \/ CallLoad \/ ServeRead \/ ReadMisses \/ LoadReturns
  PROVE  IInv'
<1>1. TypeOK'
  BY CredsFacts, StoreAssumption DEF Boot, CallLoad, ServeRead, ReadMisses, LoadReturns, Hydrate,
     storeVars, sessionVars, history, IInv, TypeOK
<1>2. OneSocket' /\ BeforeTheLoad'
  BY CredsFacts DEF Boot, CallLoad, ServeRead, ReadMisses, LoadReturns, Hydrate, storeVars,
     sessionVars, history, IInv, TypeOK, OneSocket, BeforeTheLoad
<1>3. UploadsInOrder' /\ LastUpdateOnItsWay'
  BY CredsFacts DEF Boot, CallLoad, ServeRead, ReadMisses, LoadReturns, Hydrate, storeVars,
     sessionVars, history, IInv, TypeOK, UploadsInOrder, LastUpdateOnItsWay, WaiterTakes
<1>4. ReadsNothingWiped' /\ LeftNothingWiped' /\ WipedStayWiped'
  BY CredsFacts DEF Boot, CallLoad, ServeRead, ReadMisses, LoadReturns, Hydrate, storeVars,
     sessionVars, history, IInv, TypeOK, BeforeTheLoad, ReadsNothingWiped, LeftNothingWiped,
     WipedStayWiped
<1>5. NoOrphanWaiter'
  BY CredsFacts DEF Boot, CallLoad, ServeRead, ReadMisses, LoadReturns, Hydrate, storeVars,
     sessionVars, history, IInv, TypeOK, OneSocket, NoOrphanWaiter
<1> QED
  BY <1>1, <1>2, <1>3, <1>4, <1>5 DEF IInv

LEMMA SocketMadeStep ==
  ASSUME IInv, SocketMade
  PROVE  IInv'
<1>1. TypeOK'
  <2>1. {remote, cached, pending, flight, inHand, last} \union leftovers
          \subseteq Creds \union {NoCreds}
    BY DEF IInv, TypeOK
  <2>2. /\ sock' \in Creds \union {NoCreds} /\ inHand' = NoCreds
        /\ wiped' \subseteq Devices /\ slipped' \subseteq Devices
    BY <2>1, CredsFacts, StoreAssumption DEF SocketMade, IInv, TypeOK
  <2>3. /\ caller' \in [Callers -> {"idle", "starting", "waiting"}]
        /\ start' = "no" /\ booting' = FALSE /\ dropped' = FALSE
        /\ UNCHANGED <<storeVars, phase, connected, latestQr, logout, last, lost, overtaken>>
    BY DEF SocketMade, IInv, TypeOK
  <2> QED
    BY <2>1, <2>2, <2>3 DEF storeVars, IInv, TypeOK
<1>2. OneSocket' /\ BeforeTheLoad'
  BY CredsFacts DEF SocketMade, storeVars, sessionVars, history, IInv, TypeOK, OneSocket,
     BeforeTheLoad
<1>3. UploadsInOrder' /\ LastUpdateOnItsWay'
  BY CredsFacts DEF SocketMade, storeVars, sessionVars, history, IInv, TypeOK, UploadsInOrder,
     LastUpdateOnItsWay, WaiterTakes
<1>4. ReadsNothingWiped' /\ LeftNothingWiped' /\ WipedStayWiped'
  BY CredsFacts DEF SocketMade, storeVars, sessionVars, history, IInv, TypeOK, BeforeTheLoad,
     ReadsNothingWiped, LeftNothingWiped, WipedStayWiped
<1>5. NoOrphanWaiter'
  BY CredsFacts DEF SocketMade, storeVars, sessionVars, history, IInv, TypeOK, OneSocket,
     NoOrphanWaiter
<1> QED
  BY <1>1, <1>2, <1>3, <1>4, <1>5 DEF IInv

\* Requests for a code, and the events that answer them.
LEMMA QrStep ==
  ASSUME IInv, QrEvent \/ OpenEvent
         \/ \E c \in Callers : GetQr(c) \/ QrTimeout(c)
  PROVE  IInv'
<1>1. TypeOK'
  <2>1. ASSUME NEW c \in Callers, GetQr(c) \/ QrTimeout(c) PROVE TypeOK'
    <3>1. caller' \in [Callers -> {"idle", "starting", "waiting"}]
      BY <2>1 DEF GetQr, QrTimeout, IInv, TypeOK
    <3>2. start' \in {start, "called"}
      BY <2>1 DEF GetQr, QrTimeout
    <3> QED
      BY <2>1, <3>1, <3>2 DEF GetQr, QrTimeout, storeVars, history, IInv, TypeOK
  <2>2. CASE QrEvent \/ OpenEvent
    BY <2>2 DEF QrEvent, OpenEvent, AnswerWaiters, storeVars, history, IInv, TypeOK
  <2> QED
    BY <2>1, <2>2
<1>2. OneSocket' /\ BeforeTheLoad'
  BY CredsFacts DEF QrEvent, OpenEvent, GetQr, QrTimeout, MustStart, Running, AnswerWaiters,
     storeVars, sessionVars, history, IInv, TypeOK, OneSocket, BeforeTheLoad
<1>3. UploadsInOrder' /\ LastUpdateOnItsWay'
  BY CredsFacts DEF QrEvent, OpenEvent, GetQr, QrTimeout, MustStart, Running, AnswerWaiters,
     storeVars, sessionVars, history, IInv, TypeOK, UploadsInOrder, LastUpdateOnItsWay,
     WaiterTakes
<1>4. ReadsNothingWiped' /\ LeftNothingWiped' /\ WipedStayWiped'
  BY CredsFacts DEF QrEvent, OpenEvent, GetQr, QrTimeout, MustStart, Running, AnswerWaiters,
     storeVars, sessionVars, history, IInv, TypeOK, BeforeTheLoad, ReadsNothingWiped,
     LeftNothingWiped, WipedStayWiped
<1>5. NoOrphanWaiter'
  BY CredsFacts DEF QrEvent, OpenEvent, GetQr, QrTimeout, MustStart, Running, AnswerWaiters,
     storeVars, sessionVars, history, IInv, TypeOK, OneSocket, NoOrphanWaiter
<1> QED
  BY <1>1, <1>2, <1>3, <1>4, <1>5 DEF IInv

\* The deletion ends.
LEMMA DeleteStep ==
  ASSUME IInv, DeleteOk \/ DeleteError
  PROVE  IInv'
<1>1. TypeOK'
  <2>1. deletes > 0 /\ deletes \in 0..MaxDeletes /\ deletes' = deletes - 1
    BY DEF DeleteOk, DeleteError, DeleteLands, DeleteFails, IInv, TypeOK
  <2>2. deletes' \in 0..MaxDeletes
    BY <2>1, StoreAssumption
  <2>3. lost' \in BOOLEAN /\ slipped' \subseteq Devices
    BY DEF DeleteOk, DeleteError, IInv, TypeOK
  <2> QED
    BY <2>2, <2>3 DEF DeleteOk, DeleteError, DeleteLands, DeleteFails, storeVars, sessionVars,
       history, IInv, TypeOK
<1>2. OneSocket' /\ BeforeTheLoad'
  BY CredsFacts DEF DeleteOk, DeleteError, DeleteLands, DeleteFails, storeVars, sessionVars,
     history, IInv, TypeOK, OneSocket, BeforeTheLoad
<1>3. UploadsInOrder' /\ LastUpdateOnItsWay'
  BY CredsFacts DEF DeleteOk, DeleteError, DeleteLands, DeleteFails, storeVars, sessionVars,
     history, IInv, TypeOK, UploadsInOrder, LastUpdateOnItsWay, WaiterTakes
<1>4. ReadsNothingWiped' /\ LeftNothingWiped' /\ WipedStayWiped'
  BY CredsFacts DEF DeleteOk, DeleteError, DeleteLands, DeleteFails, storeVars, sessionVars,
     history, IInv, TypeOK, BeforeTheLoad, ReadsNothingWiped, LeftNothingWiped, WipedStayWiped
<1>5. NoOrphanWaiter'
  BY CredsFacts DEF DeleteOk, DeleteError, DeleteLands, DeleteFails, storeVars, sessionVars,
     history, IInv, TypeOK, OneSocket, NoOrphanWaiter
<1> QED
  BY <1>1, <1>2, <1>3, <1>4, <1>5 DEF IInv

\* What an ended process left behind arrives, or is lost.
LEMMA LeftoverStep ==
  ASSUME IInv, NEW c \in leftovers, LeftoverArrives(c)
  PROVE  IInv'
<1>1. /\ leftovers' \subseteq leftovers /\ remote' \in {remote, c} /\ overtaken' \in BOOLEAN
      /\ lost' = (lost \/ (last # NoCreds /\ remote = last /\ remote' # last))
      /\ UNCHANGED <<cached, hydrated, pending, timer, flight, awaiting, deletes, sessionVars, last,
                     wiped, slipped, dropped>>
  BY DEF LeftoverArrives, LeftoverEnds, IInv, TypeOK
<1>2. c \in Creds \union {NoCreds} /\ c.dev \notin wiped \ slipped
  BY DEF IInv, TypeOK, LeftNothingWiped
<1>3. TypeOK'
  BY <1>1, <1>2 DEF IInv, TypeOK, sessionVars
<1>4. OneSocket' /\ BeforeTheLoad' /\ ReadsNothingWiped' /\ LeftNothingWiped'
  BY <1>1, <1>2 DEF IInv, OneSocket, BeforeTheLoad, ReadsNothingWiped, LeftNothingWiped, sessionVars
<1>5. UploadsInOrder' /\ LastUpdateOnItsWay'
  BY <1>1 DEF IInv, UploadsInOrder, LastUpdateOnItsWay, WaiterTakes
<1>6. WipedStayWiped'
  BY <1>1, <1>2 DEF IInv, WipedStayWiped, sessionVars
<1>7. NoOrphanWaiter'
  BY <1>1 DEF IInv, NoOrphanWaiter, sessionVars
<1> QED
  BY <1>3, <1>4, <1>5, <1>6, <1>7 DEF IInv

LEMMA CredsUpdateStep ==
  ASSUME IInv, CredsUpdate
  PROVE  IInv'
<1>1. PICK c \in Creds : c = sock'
  <2>1. sock \in Creds /\ sock.ver + 1 \in 0..MaxVersion
    BY CredsFacts, StoreAssumption DEF CredsUpdate, IInv, TypeOK
  <2>2. PICK v \in 0..MaxVersion : v = sock.ver + 1
    BY <2>1
  <2>3. sock' = [sock EXCEPT !.ver = v]
    BY <2>2 DEF CredsUpdate
  <2> QED
    BY <2>1, <2>3 DEF Creds
<1>2. /\ sock # NoCreds /\ c # NoCreds /\ c.dev = sock.dev
      /\ sock' = c /\ cached' = c /\ pending' = c /\ last' = c
      /\ hydrated' = TRUE /\ timer' = TRUE /\ lost' = FALSE
      /\ UNCHANGED <<remote, flight, awaiting, deletes, phase, booting, start, inHand, connected,
                     latestQr, caller, logout, wiped, slipped, dropped, overtaken, leftovers>>
  <2>1. c.dev = sock.dev
    BY <1>1, CredsFacts DEF CredsUpdate, IInv, TypeOK, Creds
  <2> QED
    BY <1>1, <2>1, CredsFacts DEF CredsUpdate, Save
<1>3. TypeOK'
  BY <1>2 DEF IInv, TypeOK
<1>4. OneSocket' /\ BeforeTheLoad'
  BY <1>2 DEF IInv, OneSocket, BeforeTheLoad
<1>5. UploadsInOrder' /\ LastUpdateOnItsWay'
  BY <1>2 DEF IInv, UploadsInOrder, LastUpdateOnItsWay
<1>6. ReadsNothingWiped' /\ LeftNothingWiped' /\ WipedStayWiped'
  BY <1>2 DEF IInv, ReadsNothingWiped, LeftNothingWiped, WipedStayWiped
<1>7. NoOrphanWaiter'
  BY <1>2 DEF IInv, NoOrphanWaiter
<1> QED
  BY <1>3, <1>4, <1>5, <1>6, <1>7 DEF IInv

-----------------------------------------------------------------------------
(* Flushes and uploads.                                                    *)

Awaiters == {"timer", "restart", "destroy"}

LEMMA Flushing ==
  ASSUME IInv, NEW callers \in Seq(Awaiters), Len(callers) > 0, Flush(callers)
  PROVE  /\ timer' = FALSE /\ UNCHANGED <<remote, cached, hydrated, deletes, leftovers>>
         /\ awaiting' \in Seq(Awaiters)
         /\ flight = NoCreds => flight' = pending /\ pending' = NoCreds
         /\ flight # NoCreds => flight' = flight /\ pending' = pending /\ Len(awaiting') > 1
         /\ flight' # NoCreds => awaiting' # <<>>
<1>1. /\ timer' = FALSE /\ UNCHANGED <<remote, cached, hydrated, deletes, leftovers>>
      /\ awaiting' = IF FlushReturnsAtOnce THEN awaiting ELSE awaiting \o callers
      /\ flight = NoCreds => flight' = pending /\ pending' = NoCreds
      /\ flight # NoCreds => flight' = flight /\ pending' = pending
  BY DEF Flush
<1>2. awaiting \in Seq(Awaiters)
  BY DEF IInv, TypeOK, Awaiters
<1>3. awaiting' \in Seq(Awaiters) /\ Len(awaiting \o callers) = Len(awaiting) + Len(callers)
  BY <1>1, <1>2
<1>4. flight # NoCreds => Len(awaiting) > 0
  BY <1>2 DEF IInv, UploadsInOrder
<1>5. flight # NoCreds => Len(awaiting') > 1
  BY <1>1, <1>2, <1>3, <1>4 DEF FlushReturnsAtOnce
<1>6. flight' # NoCreds => Len(awaiting') > 0
  BY <1>1, <1>2, <1>3, <1>5 DEF FlushReturnsAtOnce
<1> QED
  BY <1>1, <1>3, <1>5, <1>6

LEMMA FlushStep ==
  ASSUME IInv, FlushTimer \/ DropEvent \/ Shutdown
  PROVE  IInv'
<1>1. /\ timer' = FALSE /\ UNCHANGED <<remote, cached, hydrated, deletes, leftovers>>
      /\ awaiting' \in Seq(Awaiters)
      /\ flight = NoCreds => flight' = pending /\ pending' = NoCreds
      /\ flight # NoCreds => flight' = flight /\ pending' = pending /\ Len(awaiting') > 1
      /\ flight' # NoCreds => awaiting' # <<>>
  <2>1. /\ <<"timer">> \in Seq(Awaiters) /\ Len(<<"timer">>) > 0
        /\ <<"restart">> \in Seq(Awaiters) /\ Len(<<"restart">>) > 0
        /\ <<"destroy", "destroy">> \in Seq(Awaiters) /\ Len(<<"destroy", "destroy">>) > 0
    BY DEF Awaiters
  <2>2. Flush(<<"timer">>) \/ Flush(<<"restart">>) \/ Flush(<<"destroy", "destroy">>)
    BY DEF FlushTimer, DropEvent, Shutdown
  <2> QED
    BY <2>1, <2>2, Flushing
<1>2. /\ UNCHANGED <<booting, inHand, logout, last, lost, wiped, slipped, overtaken>>
      /\ dropped' \in BOOLEAN
      /\ \/ UNCHANGED <<phase, start, sock, connected, latestQr, caller>>
         \/ /\ sock' = NoCreds /\ connected' = FALSE /\ latestQr' = FALSE
            /\ caller' = [c \in Callers |-> IF caller[c] = "waiting" THEN "idle" ELSE caller[c]]
            /\ phase' \in {phase, "stopping"} /\ phase # "down" /\ start' \in {start, "called"}
            /\ start' = start \/ start = "no"
  BY DEF FlushTimer, DropEvent, Shutdown, sessionVars, history, DropSocket, AnswerWaiters, IInv,
         TypeOK, OneSocket
<1>3. TypeOK'
  BY <1>1, <1>2 DEF IInv, TypeOK, Awaiters
<1>4. OneSocket'
  BY <1>1, <1>2 DEF IInv, TypeOK, OneSocket
<1>5. BeforeTheLoad'
  BY <1>1, <1>2 DEF IInv, BeforeTheLoad
<1>6. UploadsInOrder' /\ LastUpdateOnItsWay'
  BY <1>1, <1>2 DEF IInv, UploadsInOrder, LastUpdateOnItsWay, WaiterTakes
<1>7. ReadsNothingWiped' /\ LeftNothingWiped' /\ WipedStayWiped'
  BY <1>1, <1>2, CredsFacts DEF IInv, TypeOK, ReadsNothingWiped, LeftNothingWiped, WipedStayWiped
<1>8. NoOrphanWaiter'
  BY <1>2 DEF IInv, NoOrphanWaiter
<1> QED
  BY <1>3, <1>4, <1>5, <1>6, <1>7, <1>8 DEF IInv

LEMMA UploadOkStep ==
  ASSUME IInv, UploadOk
  PROVE  IInv'
<1>1. /\ flight # NoCreds /\ remote' = flight
      /\ UNCHANGED <<cached, hydrated, timer, deletes, phase, booting, inHand, sock, connected,
                     latestQr, caller, logout, history, leftovers>>
      /\ start' \in {start, "called"} /\ (start' = start \/ (sock = NoCreds /\ start = "no"))
  BY DEF UploadOk, UploadLands, MustStart
<1>2. \/ WaiterTakes /\ flight' = pending /\ pending' = NoCreds /\ awaiting' = <<awaiting[2]>>
      \/ ~WaiterTakes /\ flight' = NoCreds /\ awaiting' = <<>> /\ pending' = pending
  BY DEF UploadOk, UploadLands
<1>3. TypeOK'
  <2>1. awaiting' \in Seq(Awaiters)
    <3>1. awaiting \in Seq(Awaiters)
      BY DEF IInv, TypeOK, Awaiters
    <3>2. CASE WaiterTakes /\ awaiting' = <<awaiting[2]>>
      <4>1. PICK a \in Awaiters : a = awaiting[2]
        BY <3>1, <3>2 DEF WaiterTakes
      <4> QED
        BY <3>2, <4>1
    <3>3. CASE awaiting' = <<>>
      BY <3>3
    <3> QED
      BY <1>2, <3>2, <3>3
  <2> QED
    BY <1>1, <1>2, <2>1 DEF IInv, TypeOK, Awaiters, history
<1>4. OneSocket' /\ BeforeTheLoad'
  BY <1>1, <1>2 DEF IInv, TypeOK, OneSocket, BeforeTheLoad
<1>5. UploadsInOrder' /\ LastUpdateOnItsWay'
  <2>1. awaiting' # <<>> \/ flight' = NoCreds
    BY <1>2
  <2>2. CASE last # NoCreds
    <3>1. pending \in {NoCreds, last} /\ (flight = last \/ (pending = last /\ (timer \/ WaiterTakes)))
      BY <1>1, <2>2 DEF IInv, UploadsInOrder
    <3> QED
      BY <1>1, <1>2, <2>1, <2>2, <3>1 DEF UploadsInOrder, LastUpdateOnItsWay, history
  <2>3. CASE last = NoCreds
    BY <1>1, <2>1, <2>3 DEF UploadsInOrder, LastUpdateOnItsWay, history
  <2> QED
    BY <2>2, <2>3
<1>6. ReadsNothingWiped' /\ LeftNothingWiped' /\ WipedStayWiped'
  BY <1>1, <1>2, CredsFacts DEF IInv, TypeOK, BeforeTheLoad, ReadsNothingWiped, LeftNothingWiped,
     WipedStayWiped, history
<1>7. NoOrphanWaiter'
  BY <1>1 DEF IInv, NoOrphanWaiter
<1> QED
  BY <1>3, <1>4, <1>5, <1>6, <1>7 DEF IInv

LEMMA UploadErrorStep ==
  ASSUME IInv, UploadError
  PROVE  IInv'
<1>1. CASE Stop
  BY <1>1, StopStep
<1>2. CASE ~Stop
  <2>1. /\ flight' = NoCreds /\ awaiting' = <<>> /\ lost' = TRUE /\ dropped' \in BOOLEAN
        /\ UNCHANGED <<remote, cached, hydrated, pending, timer, deletes, leftovers, sessionVars,
                       last, wiped, slipped, overtaken>>
    BY <1>2 DEF UploadError, UploadFails, IInv, TypeOK
  <2>2. TypeOK'
    BY <2>1 DEF IInv, TypeOK, sessionVars
  <2>3. OneSocket' /\ BeforeTheLoad' /\ ReadsNothingWiped' /\ LeftNothingWiped' /\ NoOrphanWaiter'
    BY <2>1 DEF IInv, OneSocket, BeforeTheLoad, ReadsNothingWiped, LeftNothingWiped, NoOrphanWaiter,
       sessionVars
  <2>4. UploadsInOrder' /\ LastUpdateOnItsWay'
    BY <2>1 DEF IInv, UploadsInOrder, LastUpdateOnItsWay, sessionVars
  <2>5. WipedStayWiped'
    BY <2>1, CredsFacts DEF IInv, TypeOK, WipedStayWiped, sessionVars
  <2> QED
    BY <2>2, <2>3, <2>4, <2>5 DEF IInv
<1> QED
  BY <1>1, <1>2

-----------------------------------------------------------------------------
(* Failing starts, logouts, the end of the process.                        *)

LEMMA StartFailsStep ==
  ASSUME IInv, StartFails
  PROVE  IInv'
<1>1. CASE Stop
  BY <1>1, StopStep
<1>2. CASE ~Stop
  <2>1. /\ start \in {"called", "reading"} /\ start' = "no" /\ dropped' = FALSE
        /\ caller' = [c \in Callers |-> IF caller[c] = "starting" THEN "idle" ELSE caller[c]]
        /\ UNCHANGED <<storeVars, phase, booting, inHand, sock, connected, latestQr, logout, last,
                       lost, wiped, slipped, overtaken>>
    BY <1>2 DEF StartFails
  <2>2. TypeOK'
    <3>1. caller' \in [Callers -> {"idle", "starting", "waiting"}]
      BY <2>1 DEF IInv, TypeOK
    <3> QED
      BY <2>1, <3>1 DEF IInv, TypeOK, storeVars
  <2>3. OneSocket' /\ BeforeTheLoad' /\ ReadsNothingWiped' /\ LeftNothingWiped'
    BY <2>1 DEF IInv, OneSocket, BeforeTheLoad, ReadsNothingWiped, LeftNothingWiped, storeVars
  <2>4. UploadsInOrder' /\ LastUpdateOnItsWay'
    BY <2>1 DEF IInv, UploadsInOrder, LastUpdateOnItsWay, WaiterTakes, storeVars
  <2>5. WipedStayWiped' /\ NoOrphanWaiter'
    BY <2>1 DEF IInv, WipedStayWiped, NoOrphanWaiter, storeVars
  <2> QED
    BY <2>2, <2>3, <2>4, <2>5 DEF IInv
<1> QED
  BY <1>1, <1>2

LEMMA LogoutStep ==
  ASSUME IInv, Logout \/ Unlinked \/ LoggedOutEvent
  PROVE  IInv'
<1>1. CASE ~(Logout /\ connected)
  <2>1. phase # "down"
    BY DEF Logout, Unlinked, LoggedOutEvent, Running, IInv, OneSocket
  <2>2. /\ Wipe /\ logout' \in {logout, "idle"}
        /\ UNCHANGED <<phase, booting, start, inHand, dropped>>
    BY <1>1 DEF Logout, Unlinked, LoggedOutEvent
  <2> QED
    BY <2>1, <2>2, WipeStep
<1>2. CASE Logout /\ connected
  <2>1. /\ phase # "down" /\ logout' = "unlinking"
        /\ UNCHANGED <<storeVars, sock, connected, latestQr, caller, last, lost, wiped, slipped,
                       overtaken, phase, booting, start, inHand, dropped>>
    BY <1>2 DEF Logout, Running
  <2>2. TypeOK'
    BY <2>1 DEF IInv, TypeOK, storeVars
  <2>3. OneSocket' /\ BeforeTheLoad' /\ ReadsNothingWiped' /\ LeftNothingWiped'
    BY <2>1 DEF IInv, OneSocket, BeforeTheLoad, ReadsNothingWiped, LeftNothingWiped, storeVars
  <2>4. UploadsInOrder' /\ LastUpdateOnItsWay'
    BY <2>1 DEF IInv, UploadsInOrder, LastUpdateOnItsWay, WaiterTakes, storeVars
  <2>5. WipedStayWiped' /\ NoOrphanWaiter'
    BY <2>1 DEF IInv, WipedStayWiped, NoOrphanWaiter, storeVars
  <2> QED
    BY <2>2, <2>3, <2>4, <2>5 DEF IInv
<1> QED
  BY <1>1, <1>2

-----------------------------------------------------------------------------
(* The theorems.                                                           *)

\* The invariant: one start or socket, uploads in order, reads before wipes.
THEOREM SessionInvariance == Spec => []IInv
<1>1. Init => IInv
  <2> SUFFICES ASSUME Init PROVE IInv
    OBVIOUS
  <2>1. 0 \in 0..MaxDeletes
    BY StoreAssumption
  <2>2. TypeOK
    <3>1. awaiting \in Seq({"timer", "restart", "destroy"})
      BY DEF Init, StoreInit
    <3>2. caller \in [Callers -> {"idle", "starting", "waiting"}]
      BY DEF Init
    <3> QED
      BY <2>1, <3>1, <3>2 DEF Init, StoreInit, TypeOK
  <2>3. OneSocket /\ BeforeTheLoad /\ UploadsInOrder /\ ReadsNothingWiped /\ LeftNothingWiped
    BY DEF Init, StoreInit, OneSocket, BeforeTheLoad, UploadsInOrder, ReadsNothingWiped,
       LeftNothingWiped
  <2>4. NoOrphanWaiter /\ LastUpdateOnItsWay /\ WipedStayWiped
    BY DEF Init, StoreInit, NoOrphanWaiter, LastUpdateOnItsWay, WipedStayWiped
  <2> QED
    BY <2>2, <2>3, <2>4 DEF IInv
<1>2. IInv /\ [Next]_vars => IInv'
  <2> SUFFICES ASSUME IInv, [Next]_vars PROVE IInv'
    OBVIOUS
  <2>1. CASE Next
    <3>1. CASE Exit \/ Crash
      BY <3>1, StopStep DEF Exit, Crash
    <3> QED
      BY <2>1, <3>1, StartStep, StartFailsStep, SocketMadeStep, QrStep, LogoutStep, CredsUpdateStep,
         FlushStep, UploadOkStep, UploadErrorStep, DeleteStep, LeftoverStep DEF Next
  <2>2. CASE UNCHANGED vars
    <3> USE <2>2 DEF vars, storeVars, sessionVars, history
    <3>1. TypeOK'
      BY DEF IInv, TypeOK
    <3>2. OneSocket' /\ BeforeTheLoad' /\ ReadsNothingWiped' /\ LeftNothingWiped'
      BY DEF IInv, OneSocket, BeforeTheLoad, ReadsNothingWiped, LeftNothingWiped
    <3>3. UploadsInOrder' /\ LastUpdateOnItsWay'
      BY DEF IInv, UploadsInOrder, LastUpdateOnItsWay, WaiterTakes
    <3>4. WipedStayWiped' /\ NoOrphanWaiter'
      BY DEF IInv, WipedStayWiped, NoOrphanWaiter
    <3> QED
      BY <3>1, <3>2, <3>3, <3>4 DEF IInv
  <2> QED
    BY <2>1, <2>2
<1> QED
  BY <1>1, <1>2, PTL DEF Spec

\* Every variable has its type.
THEOREM SessionTypes == Spec => []TypeOK
<1>1. IInv => TypeOK
  BY DEF IInv
<1> QED
  BY <1>1, SessionInvariance, PTL

\* Whatever teardown, drop or logout comes in between, a request waits for a
\* code only beside a socket that can still emit one, or a start.
THEOREM NoWaiterIsOrphaned == Spec => []NoOrphanWaiter
<1>1. IInv => NoOrphanWaiter
  BY DEF IInv
<1> QED
  BY <1>1, SessionInvariance, PTL

\* The last update of the credentials is in storage or on its way there,
\* however flushes overlap, unless its upload failed or a deletion overtook it.
THEOREM LastUpdateIsOnItsWay == Spec => []LastUpdateOnItsWay
<1>1. IInv => LastUpdateOnItsWay
  BY DEF IInv
<1> QED
  BY <1>1, SessionInvariance, PTL

\* Credentials wiped by a logout come back only by what `slipped` names: an
\* upload or a start in flight at the wipe, a deletion that failed.
THEOREM WipedCredentialsStayWiped == Spec => []WipedStayWiped
<1>1. IInv => WipedStayWiped
  BY DEF IInv
<1> QED
  BY <1>1, SessionInvariance, PTL

-----------------------------------------------------------------------------
(* Versions.                                                               *)

NoOlder(a, b) == a.dev = b.dev => a.ver <= b.ver

\* Those of one device are in the order in which they go to storage.
VersionsInOrder ==
  /\ \A c \in {flight, pending, cached, inHand, sock} : NoOlder(remote, c)
  /\ \A c \in {pending, cached, inHand, sock} : NoOlder(flight, c)
  /\ \A c \in {cached, inHand, sock} : NoOlder(pending, c)
  /\ \A c \in {inHand, sock} : NoOlder(cached, c)
  /\ start \in {"reading", "served"} => cached = NoCreds

Kept == Creds \union {NoCreds}

LEMMA NoOlderFacts ==
  /\ \A a \in Kept : NoOlder(a, a) /\ NoOlder(NoCreds, a) /\ NoOlder(a, NoCreds)
  /\ NoCreds \in Kept
<1>1. ASSUME NEW a \in Kept
      PROVE  a.ver \in Nat /\ (a.dev = NoDevice => a = NoCreds)
  <2>1. MaxVersion \in Nat
    BY StoreAssumption
  <2>2. CASE a \in Creds
    <3>1. a.dev \in Devices /\ a.ver \in 0..MaxVersion /\ NoDevice \notin Devices
      BY <2>2, CredsFacts
    <3> QED
      BY <2>1, <3>1
  <2>3. CASE a = NoCreds
    BY <2>3 DEF NoCreds
  <2> QED
    BY <2>2, <2>3 DEF Kept
<1>2. NoCreds.dev = NoDevice /\ NoCreds.ver = 0
  BY DEF NoCreds
<1>3. ASSUME NEW a \in Kept
      PROVE  NoOlder(a, a) /\ NoOlder(NoCreds, a) /\ NoOlder(a, NoCreds)
  BY <1>1, <1>2 DEF NoOlder
<1> QED
  BY <1>3 DEF Kept

LEMMA KeptTypes ==
  ASSUME IInv
  PROVE  /\ remote \in Kept /\ flight \in Kept /\ pending \in Kept
         /\ cached \in Kept /\ inHand \in Kept /\ sock \in Kept
BY DEF IInv, TypeOK, Kept

\* Credentials go on towards storage or are forgotten.
GoesOn ==
  /\ remote' \in {remote, flight, NoCreds} /\ flight' \in {flight, pending, NoCreds}
  /\ pending' \in {pending, NoCreds} /\ cached' \in {cached, NoCreds}
  /\ inHand' \in {inHand, NoCreds} /\ sock' \in {sock, NoCreds}
  /\ start' \in {"reading", "served"} => start' = start

LEMMA GoesOnStays ==
  ASSUME IInv, VersionsInOrder, GoesOn
  PROVE  VersionsInOrder'
<1>1. /\ remote \in Kept /\ flight \in Kept /\ pending \in Kept
      /\ cached \in Kept /\ inHand \in Kept /\ sock \in Kept
  BY KeptTypes
<1>2. \A c \in {flight', pending', cached', inHand', sock'} : NoOlder(remote', c)
  BY <1>1, NoOlderFacts DEF VersionsInOrder, GoesOn
<1>3. \A c \in {pending', cached', inHand', sock'} : NoOlder(flight', c)
  BY <1>1, NoOlderFacts DEF VersionsInOrder, GoesOn
<1>4. \A c \in {cached', inHand', sock'} : NoOlder(pending', c)
  BY <1>1, NoOlderFacts DEF VersionsInOrder, GoesOn
<1>5. \A c \in {inHand', sock'} : NoOlder(cached', c)
  BY <1>1, NoOlderFacts DEF VersionsInOrder, GoesOn
<1>6. start' \in {"reading", "served"} => cached' = NoCreds
  BY DEF VersionsInOrder, GoesOn
<1> QED
  BY <1>2, <1>3, <1>4, <1>5, <1>6 DEF VersionsInOrder

\* A start reads the storage when nothing else is kept of what was stored.
LEMMA StartVersions ==
  ASSUME IInv, VersionsInOrder, CallLoad \/ ServeRead \/ ReadMisses \/ LoadReturns
  PROVE  VersionsInOrder'
<1>1. /\ remote \in Kept /\ flight \in Kept /\ pending \in Kept
      /\ cached \in Kept /\ inHand \in Kept /\ sock \in Kept
  BY KeptTypes
<1>2. CASE CallLoad
  <2>1. /\ UNCHANGED <<remote, flight, pending, cached, sock>>
        /\ \/ start' = "version" /\ inHand' = cached
           \/ start' = "reading" /\ inHand' = inHand /\ ~hydrated
    BY <1>2 DEF CallLoad, storeVars
  <2>2. ~hydrated => cached = NoCreds
    BY DEF IInv, BeforeTheLoad
  <2> QED
    BY <1>1, <2>1, <2>2, NoOlderFacts DEF VersionsInOrder
<1>3. CASE ServeRead \/ ReadMisses
  <2>1. /\ UNCHANGED <<remote, flight, pending, cached, sock>>
        /\ inHand' \in {remote, NoCreds} /\ start = "reading" /\ start' = "served"
    BY <1>3 DEF ServeRead, ReadMisses, storeVars
  <2>2. flight = NoCreds /\ pending = NoCreds /\ cached = NoCreds
    BY <2>1 DEF IInv, BeforeTheLoad, VersionsInOrder
  <2> QED
    BY <1>1, <2>1, <2>2, NoOlderFacts DEF VersionsInOrder
<1>4. CASE LoadReturns
  <2>1. /\ UNCHANGED <<remote, flight, pending, inHand, sock>>
        /\ cached' = inHand /\ start = "served" /\ start' = "version"
    BY <1>4 DEF LoadReturns, Hydrate
  <2>2. sock = NoCreds
    BY <2>1 DEF IInv, OneSocket
  <2> QED
    BY <1>1, <2>1, <2>2, NoOlderFacts DEF VersionsInOrder
<1> QED
  BY <1>2, <1>3, <1>4

LEMMA SocketMadeVersions ==
  ASSUME IInv, VersionsInOrder, SocketMade
  PROVE  VersionsInOrder'
<1>1. /\ remote \in Kept /\ flight \in Kept /\ pending \in Kept
      /\ cached \in Kept /\ inHand \in Kept /\ sock \in Kept
  BY KeptTypes
<1>2. /\ UNCHANGED <<remote, flight, pending, cached>> /\ inHand' = NoCreds /\ start' = "no"
      /\ \/ sock' = inHand
         \/ sock'.dev \notin {remote.dev, cached.dev, pending.dev, flight.dev}
  BY DEF SocketMade, storeVars
<1>3. \A c \in {remote, flight, pending, cached} : NoOlder(c, sock')
  BY <1>2 DEF VersionsInOrder, NoOlder
<1> QED
  BY <1>1, <1>2, <1>3, NoOlderFacts DEF VersionsInOrder

LEMMA CredsUpdateVersions ==
  ASSUME IInv, VersionsInOrder, CredsUpdate
  PROVE  VersionsInOrder'
<1>1. /\ remote \in Kept /\ flight \in Kept /\ pending \in Kept
      /\ cached \in Kept /\ inHand \in Kept /\ sock \in Kept
  BY KeptTypes
<1>2. sock \in Creds
  BY <1>1 DEF CredsUpdate, Kept
<1>3. sock.ver \in Nat /\ sock.ver + 1 \in 0..MaxVersion
  BY <1>2, CredsFacts, StoreAssumption DEF CredsUpdate
<1>4. sock'.dev = sock.dev /\ sock'.ver = sock.ver + 1 /\ sock' \in Kept
  <2>1. PICK v \in 0..MaxVersion : v = sock.ver + 1
    BY <1>3
  <2>2. sock' = [sock EXCEPT !.ver = v]
    BY <2>1 DEF CredsUpdate
  <2> QED
    BY <1>2, <2>1, <2>2 DEF Creds, Kept
<1>5. /\ UNCHANGED <<remote, flight, inHand, start>> /\ pending' = sock' /\ cached' = sock'
  BY DEF CredsUpdate, Save
<1>6. start = "no" /\ inHand = NoCreds
  BY <1>2, CredsFacts DEF IInv, TypeOK, OneSocket, BeforeTheLoad
<1>7. \A c \in {remote, flight} : NoOlder(c, sock')
  <2> SUFFICES ASSUME NEW c \in {remote, flight}, c.dev = sock.dev
               PROVE  c.ver <= sock'.ver
    BY <1>4 DEF NoOlder
  <2>1. c.ver <= sock.ver
    BY DEF VersionsInOrder, NoOlder
  <2>2. c.ver \in Nat
    <3>1. CASE c \in Creds
      <4>1. c.ver \in 0..MaxVersion /\ MaxVersion \in Nat
        BY <3>1, CredsFacts, StoreAssumption
      <4> QED
        BY <4>1
    <3>2. CASE c = NoCreds
      BY <3>2 DEF NoCreds
    <3> QED
      BY <1>1, <3>1, <3>2 DEF Kept
  <2> QED
    BY <1>3, <1>4, <2>1, <2>2
<1>8. NoOlder(sock', sock') /\ \A c \in Kept : NoOlder(c, NoCreds)
  BY <1>4, NoOlderFacts
<1> QED
  BY <1>1, <1>4, <1>5, <1>6, <1>7, <1>8 DEF VersionsInOrder

\* Everything else only moves credentials on.
LEMMA OthersGoOn ==
  ASSUME IInv, [Next]_vars,
         ~(CallLoad \/ ServeRead \/ ReadMisses \/ LoadReturns \/ SocketMade \/ CredsUpdate),
         ~ \E c \in leftovers : LeftoverArrives(c)
  PROVE  GoesOn
<1>1. ASSUME Stop
      PROVE  GoesOn
  BY <1>1 DEF Stop, StoreStops, InFlight, GoesOn
<1>2. ASSUME Wipe, start' = start, inHand' = inHand
      PROVE  GoesOn
  BY <1>2 DEF Wipe, Clear, DropSocket, GoesOn
<1>3. ASSUME NEW callers, Flush(callers), inHand' = inHand, sock' \in {sock, NoCreds},
             start' \in {start, "called"}
      PROVE  GoesOn
  BY <1>3 DEF Flush, GoesOn
<1>4. CASE UNCHANGED vars \/ QrEvent \/ OpenEvent \/ Boot
           \/ \E c \in Callers : GetQr(c) \/ QrTimeout(c)
  BY <1>4 DEF vars, storeVars, sessionVars, history, QrEvent, OpenEvent, Boot, GetQr, QrTimeout,
     GoesOn
<1>5. CASE StartFails
  BY <1>1, <1>5 DEF StartFails, storeVars, GoesOn
<1>6. CASE Logout \/ Unlinked \/ LoggedOutEvent
  BY <1>2, <1>6 DEF Logout, Unlinked, LoggedOutEvent, storeVars, GoesOn
<1>7. CASE DropEvent \/ FlushTimer \/ Shutdown
  <2>1. CASE DropEvent
    BY <1>3, <2>1 DEF DropEvent, DropSocket
  <2>2. CASE FlushTimer
    BY <1>3, <2>2 DEF FlushTimer, sessionVars
  <2>3. CASE Shutdown
    BY <1>3, <2>3 DEF Shutdown, DropSocket
  <2> QED
    BY <1>7, <2>1, <2>2, <2>3
<1>8. CASE UploadOk
  BY <1>8 DEF UploadOk, UploadLands, GoesOn
<1>9. CASE UploadError
  BY <1>1, <1>9 DEF UploadError, UploadFails, sessionVars, GoesOn
<1>10. CASE DeleteOk \/ DeleteError
  BY <1>10 DEF DeleteOk, DeleteError, DeleteLands, DeleteFails, sessionVars, GoesOn
<1>11. CASE Exit \/ Crash
  BY <1>1, <1>11 DEF Exit, Crash
<1> QED
  BY <1>4, <1>5, <1>6, <1>7, <1>8, <1>9, <1>10, <1>11 DEF Next

\* A leftover arrives when this process knows nothing of the storage yet, or overtakes it.
LEMMA LeftoverVersions ==
  ASSUME IInv, VersionsInOrder, NEW c \in leftovers, LeftoverArrives(c)
  PROVE  overtaken' \/ VersionsInOrder'
<1>1. /\ remote \in Kept /\ flight \in Kept /\ pending \in Kept
      /\ cached \in Kept /\ inHand \in Kept /\ sock \in Kept /\ c \in Kept
  BY KeptTypes DEF IInv, TypeOK, Kept
<1>2. /\ UNCHANGED <<flight, pending, cached, inHand, sock, start>> /\ remote' \in {remote, c}
      /\ c # NoCreds /\ remote' = c /\ (hydrated \/ start = "served") => overtaken'
  BY DEF LeftoverArrives, LeftoverEnds, sessionVars
<1>3. CASE remote' = remote
  BY <1>2, <1>3 DEF VersionsInOrder
<1>4. CASE remote' = c /\ c = NoCreds
  BY <1>1, <1>2, <1>4, NoOlderFacts DEF VersionsInOrder
<1>5. CASE remote' = c /\ ~hydrated /\ start # "served"
  <2>1. flight = NoCreds /\ pending = NoCreds /\ cached = NoCreds /\ sock = NoCreds /\ inHand = NoCreds
    BY <1>5 DEF IInv, BeforeTheLoad
  <2> QED
    BY <1>1, <1>2, <1>5, <2>1, NoOlderFacts DEF VersionsInOrder
<1> QED
  BY <1>2, <1>3, <1>4, <1>5

\* An overtaken process stays so to its end, with which all it knew is gone.
LEMMA OvertakenVersions ==
  ASSUME IInv, overtaken, [Next]_vars
  PROVE  overtaken' \/ VersionsInOrder'
<1>1. ASSUME Stop
      PROVE  VersionsInOrder'
  <2>1. remote' \in Kept
    BY <1>1, KeptTypes, NoOlderFacts DEF Stop, StoreStops, InFlight
  <2>2. /\ flight' = NoCreds /\ pending' = NoCreds /\ cached' = NoCreds /\ inHand' = NoCreds
        /\ sock' = NoCreds /\ start' = "no"
    BY <1>1 DEF Stop, StoreStops
  <2> QED
    BY <2>1, <2>2, NoOlderFacts DEF VersionsInOrder
<1>2. CASE UNCHANGED vars \/ Boot \/ CallLoad \/ ServeRead \/ ReadMisses \/ LoadReturns \/ SocketMade
           \/ QrEvent \/ CredsUpdate \/ OpenEvent \/ FlushTimer \/ UploadOk
           \/ \E c \in Callers : GetQr(c) \/ QrTimeout(c)
  BY <1>2 DEF vars, history, Boot, CallLoad, ServeRead, ReadMisses, LoadReturns, SocketMade, QrEvent,
     CredsUpdate, OpenEvent, FlushTimer, UploadOk, GetQr, QrTimeout
<1>3. CASE Logout \/ Unlinked \/ LoggedOutEvent
  BY <1>3 DEF Logout, Unlinked, LoggedOutEvent, Wipe
<1>4. CASE DropEvent \/ Shutdown \/ DeleteOk \/ DeleteError
  BY <1>4 DEF DropEvent, Shutdown, DeleteOk, DeleteError
<1>5. CASE StartFails \/ UploadError \/ Exit \/ Crash
  BY <1>1, <1>5 DEF StartFails, UploadError, Exit, Crash
<1>6. CASE \E c \in leftovers : LeftoverArrives(c)
  BY <1>6 DEF LeftoverArrives
<1> QED
  BY <1>2, <1>3, <1>4, <1>5, <1>6 DEF Next

OrderUnlessOvertaken == overtaken \/ VersionsInOrder

\* The versions of a device's credentials stay in order, for any number of
\* updates, drops and restarts, until a request that an ended process left behind
\* is stored after the running one has read the storage.
THEOREM VersionsInvariance == Spec => []OrderUnlessOvertaken
<1>1. Init => VersionsInOrder
  BY NoOlderFacts DEF Init, StoreInit, VersionsInOrder
<1>2. IInv /\ OrderUnlessOvertaken /\ [Next]_vars => OrderUnlessOvertaken'
  <2> SUFFICES ASSUME IInv, OrderUnlessOvertaken, [Next]_vars
               PROVE  overtaken' \/ VersionsInOrder'
    BY DEF OrderUnlessOvertaken
  <2>1. CASE overtaken
    BY <2>1, OvertakenVersions
  <2>2. CASE VersionsInOrder
    BY <2>2, GoesOnStays, StartVersions, SocketMadeVersions, CredsUpdateVersions, LeftoverVersions,
       OthersGoOn
  <2> QED
    BY <2>1, <2>2 DEF OrderUnlessOvertaken
<1> QED
  BY <1>1, <1>2, SessionInvariance, PTL DEF Spec, OrderUnlessOvertaken

\* No socket runs on credentials older than any that are stored, uploaded,
\* pending or in the snapshot, unless the process was overtaken.
THEOREM SocketsAreUpToDate == Spec => []SocketIsUpToDate
<1>1. OrderUnlessOvertaken => SocketIsUpToDate
  BY DEF OrderUnlessOvertaken, VersionsInOrder, NoOlder, SocketIsUpToDate
<1> QED
  BY <1>1, VersionsInvariance, PTL

\* The stored credentials of a device are never replaced by an older version, but by
\* what an ended process left behind.
THEOREM StoredVersionsGrow == Spec => StoredNeverGoesBack
<1>1. IInv /\ OrderUnlessOvertaken /\ [Next]_vars =>
        [\/ remote'.dev = remote.dev => remote.ver <= remote'.ver
         \/ overtaken \/ \E c \in leftovers : LeftoverArrives(c)]_vars
  <2> SUFFICES ASSUME IInv, OrderUnlessOvertaken, [Next]_vars, remote'.dev = remote.dev,
                      ~overtaken, ~ \E c \in leftovers : LeftoverArrives(c)
               PROVE  remote.ver <= remote'.ver
    OBVIOUS
  <2>1. remote' \in {remote, flight, NoCreds}
    <3>1. ASSUME CallLoad \/ ServeRead \/ ReadMisses \/ LoadReturns \/ SocketMade \/ CredsUpdate
          PROVE  remote' = remote
      BY <3>1 DEF CallLoad, ServeRead, ReadMisses, LoadReturns, SocketMade, CredsUpdate, Hydrate,
         Save, storeVars
    <3> QED
      BY <3>1, OthersGoOn DEF GoesOn
  <2>2. \A c \in {remote, flight, NoCreds} : NoOlder(remote, c)
    BY KeptTypes, NoOlderFacts DEF VersionsInOrder, OrderUnlessOvertaken
  <2> QED
    BY <2>1, <2>2 DEF NoOlder
<1> QED
  BY <1>1, SessionInvariance, VersionsInvariance, PTL DEF Spec, StoredNeverGoesBack
=============================================================================
