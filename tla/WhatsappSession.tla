-------------------------- MODULE WhatsappSession --------------------------
(***************************************************************************)
(* The lifecycle of the one WhatsApp socket (WhatsappService) over its      *)
(* credential store: booting, pairing by QR code, transient drops, remote   *)
(* and local logout, shutdown, crashes and restarts of the process.         *)
(*                                                                         *)
(* startSocket() has three awaits, hence the stages of `start`:            *)
(*   "called"  importing the library;   "reading"  storage.read in flight  *)
(*   "served"  the read has been served, its answer is on the way          *)
(*   "version" fetching the protocol version, credentials in hand          *)
(***************************************************************************)
EXTENDS WhatsappAuthStore, SequencesExt

CONSTANTS Callers   \* requests for a QR code

VARIABLES
  phase,      \* the process: "up", "stopping" (shutdown hooks), "down"
  booting,    \* the start under way is the one onModuleInit made
  start, inHand,
  sock,       \* the credentials of this.sock, NoCreds without a socket
  connected, latestQr,
  caller,     \* [Callers -> "idle", "starting" (in ensureSocket), "waiting"]
  logout,     \* the logout request: "idle", "unlinking" (in sock.logout())
  \* History of the run, read by no guard:
  last,       \* the last update since the last wipe, while this process runs
  lost,       \* ... whose upload failed, or that something older replaced
  wiped,      \* devices whose credentials were wiped
  slipped,    \* ... while something that still carries them was in flight
  dropped,    \* a transient drop not recovered yet, with nothing failed since
  overtaken   \* a leftover of an ended process was stored after this one's read

sessionVars == <<phase, booting, start, inHand, sock, connected, latestQr,
                 caller, logout>>
history     == <<last, lost, wiped, slipped, dropped, overtaken>>
vars        == <<storeVars, sessionVars, history>>

TypeOK ==
  /\ {remote, cached, pending, flight, inHand, sock, last}
       \subseteq Creds \union {NoCreds}
  /\ leftovers \subseteq Creds \union {NoCreds}
  /\ {hydrated, timer, booting, connected, latestQr, lost, dropped, overtaken}
       \subseteq BOOLEAN
  /\ awaiting \in Seq({"timer", "restart", "destroy"})
  /\ deletes \in 0..MaxDeletes
  /\ phase \in {"up", "stopping", "down"}
  /\ start \in {"no", "called", "reading", "served", "version"}
  /\ caller \in [Callers -> {"idle", "starting", "waiting"}]
  /\ logout \in {"idle", "unlinking"}
  /\ wiped \subseteq Devices /\ slipped \subseteq Devices

Init ==
  /\ StoreInit
  /\ phase = "down" /\ booting = FALSE /\ start = "no"
  /\ inHand = NoCreds /\ sock = NoCreds
  /\ connected = FALSE /\ latestQr = FALSE
  /\ caller = [c \in Callers |-> "idle"] /\ logout = "idle"
  /\ last = NoCreds /\ lost = FALSE /\ wiped = {} /\ slipped = {}
  /\ dropped = FALSE /\ overtaken = FALSE

Running == phase # "down"

-----------------------------------------------------------------------------
(* Pieces of handlers                                                       *)

\* ensureSocket(): one start at a time, none beside a socket.  Its callers
\* share startPromise.
MustStart == sock = NoCreds /\ start = "no"

\* The callers still waiting for a QR code are answered, with it or an error.
AnswerWaiters ==
  caller' = [c \in Callers |-> IF caller[c] = "waiting" THEN "idle"
                                                       ELSE caller[c]]
\* The synchronous part of teardown().
DropSocket ==
  /\ sock' = NoCreds /\ connected' = FALSE /\ latestQr' = FALSE
  /\ AnswerWaiters

\* Devices still carried, when clear() runs, by something it does not stop:
\* the upload in flight, one that an ended process left behind, or a start past
\* the point where it reads storage.
Carried ==
  {flight.dev} \union {c.dev : c \in leftovers} \union (IF start = "reading" THEN {remote.dev} ELSE {})
               \union (IF start \in {"served", "version"} THEN {inHand.dev}
                                                         ELSE {})
Wipe ==
  /\ Clear
  /\ DropSocket
  /\ wiped'   = wiped \union (({sock.dev, cached.dev, pending.dev, remote.dev,
                                inHand.dev} \union Carried) \ {NoDevice})
  /\ slipped' = slipped \union (Carried \ {NoDevice})
  /\ last' = NoCreds /\ lost' = FALSE
  /\ UNCHANGED overtaken

\* The process ends, whatever the reason.
Stop ==
  /\ StoreStops
  /\ phase' = "down" /\ booting' = FALSE /\ start' = "no"
  /\ inHand' = NoCreds /\ sock' = NoCreds
  /\ connected' = FALSE /\ latestQr' = FALSE
  /\ caller' = [c \in Callers |-> "idle"] /\ logout' = "idle"
  /\ last' = NoCreds /\ lost' = FALSE /\ dropped' = FALSE
  /\ overtaken' = FALSE /\ UNCHANGED wiped
  /\ slipped' = IF deletes > 0 THEN slipped \union wiped ELSE slipped

-----------------------------------------------------------------------------
(* Starting a socket                                                        *)

\* Bootstrap: onModuleInit calls ensureSocket without awaiting it.
Boot ==
  /\ phase = "down"
  /\ phase' = "up" /\ booting' = TRUE /\ start' = "called"
  /\ UNCHANGED <<storeVars, inHand, sock, connected, latestQr, caller, logout,
                 history>>

\* The library is imported and load() is called.
CallLoad ==
  /\ start = "called"
  /\ IF hydrated THEN start' = "version" /\ inHand' = cached
                 ELSE start' = "reading" /\ UNCHANGED inHand
  /\ UNCHANGED <<storeVars, phase, booting, sock, connected, latestQr, caller,
                 logout, history>>

\* The provider serves the read ...
ServeRead ==
  /\ start = "reading"
  /\ start' = "served" /\ inHand' = remote
  /\ UNCHANGED <<storeVars, phase, booting, sock, connected, latestQr, caller,
                 logout, history>>

\* ... or fails it, which SupabaseStorageProvider.read tells as a missing file ...
ReadMisses ==
  /\ start = "reading"
  /\ start' = "served" /\ inHand' = NoCreds
  /\ UNCHANGED <<storeVars, phase, booting, sock, connected, latestQr, caller,
                 logout, history>>

\* ... and its answer reaches load().
LoadReturns ==
  /\ start = "served"
  /\ Hydrate(inHand)
  /\ start' = "version"
  /\ UNCHANGED <<phase, booting, inHand, sock, connected, latestQr, caller,
                 logout, history>>

\* Mutant: a failed start leaves startPromise behind.
StartFailsBug ==
  /\ start \in {"called", "reading"} /\ ~booting
  /\ start' = "failed" /\ dropped' = FALSE
  /\ UNCHANGED <<storeVars, phase, booting, inHand, sock, connected, latestQr,
                 caller, logout, last, lost, wiped, slipped, overtaken>>

\* The local driver's read, or the import, fails: the start rejects for all who share it.
\* Nobody handles the rejection of the start onModuleInit made.
StartFails ==
  /\ start \in {"called", "reading"}
  /\ IF booting
       THEN Stop
       ELSE /\ start' = "no" /\ dropped' = FALSE
            /\ caller' = [c \in Callers |-> IF caller[c] = "starting"
                                              THEN "idle" ELSE caller[c]]
            /\ UNCHANGED <<storeVars, phase, booting, inHand, sock, connected,
                           latestQr, logout, last, lost, wiped, slipped,
                           overtaken>>

\* The socket is made, with the credentials loaded or a fresh identity; the
\* requests that awaited the start go on to wait for a QR code.
SocketMade ==
  /\ start = "version"
  /\ start' = "no" /\ booting' = FALSE /\ inHand' = NoCreds
  /\ caller' = [c \in Callers |-> IF caller[c] = "starting" THEN "waiting"
                                                           ELSE caller[c]]
  /\ dropped' = FALSE
  /\ IF inHand # NoCreds
       THEN sock' = inHand /\ UNCHANGED <<wiped, slipped>>
       ELSE \E d \in Devices \ ({remote.dev, cached.dev, pending.dev, flight.dev}
                                 \union {c.dev : c \in leftovers}) :
              \* A fresh identity: one the system holds no trace of.
              /\ sock' = [dev |-> d, ver |-> 0]
              /\ wiped' = wiped \ {d} /\ slipped' = slipped \ {d}
  /\ UNCHANGED <<storeVars, phase, connected, latestQr, logout, last, lost,
                 overtaken>>

-----------------------------------------------------------------------------
(* Requests                                                                 *)

\* getQrBase64(): 409 when connected, the cached code when there is one, else
\* wait for the next, behind the start of the socket if need be.
GetQr(c) ==
  /\ Running /\ caller[c] = "idle"
  /\ ~connected /\ ~latestQr
  /\ caller' = [caller EXCEPT ![c] = IF sock = NoCreds THEN "starting"
                                                       ELSE "waiting"]
  /\ start' = IF MustStart THEN "called" ELSE start
  /\ UNCHANGED <<storeVars, phase, booting, inHand, sock, connected, latestQr,
                 logout, history>>

\* QR_WAIT_TIMEOUT_MS have passed.
QrTimeout(c) ==
  /\ caller[c] = "waiting"
  /\ caller' = [caller EXCEPT ![c] = "idle"]
  /\ UNCHANGED <<storeVars, phase, booting, start, inHand, sock, connected,
                 latestQr, logout, history>>

\* logout(): an open socket is asked to unlink the device first.
Logout ==
  /\ Running /\ logout = "idle"
  /\ IF connected
       THEN /\ logout' = "unlinking"
            /\ UNCHANGED <<storeVars, sock, connected, latestQr, caller, last,
                           lost, wiped, slipped, overtaken>>
       ELSE Wipe /\ UNCHANGED logout
  /\ UNCHANGED <<phase, booting, start, inHand, dropped>>

\* sock.logout() has answered or failed; the wipe follows either way.
Unlinked ==
  /\ logout = "unlinking"
  /\ Wipe /\ logout' = "idle"
  /\ UNCHANGED <<phase, booting, start, inHand, dropped>>

-----------------------------------------------------------------------------
(* Events of the socket                                                     *)

\* A QR code, while the identity is unpaired.
QrEvent ==
  /\ sock # NoCreds /\ sock.ver = 0
  /\ latestQr' = TRUE /\ AnswerWaiters
  /\ UNCHANGED <<storeVars, phase, booting, start, inHand, sock, connected,
                 logout, history>>

\* creds.update: pairing, and whatever changes the credentials later.
CredsUpdate ==
  /\ sock # NoCreds /\ sock.ver < MaxVersion
  /\ sock' = [sock EXCEPT !.ver = @ + 1]
  /\ Save(sock')
  /\ last' = sock' /\ lost' = FALSE
  /\ UNCHANGED <<phase, booting, start, inHand, connected, latestQr, caller,
                 logout, wiped, slipped, dropped, overtaken>>

\* Mutant: opening forgets the requests that wait for a code.
OpenEventBug ==
  /\ sock # NoCreds /\ sock.ver > 0 /\ ~connected
  /\ connected' = TRUE /\ latestQr' = FALSE
  /\ UNCHANGED <<storeVars, phase, booting, start, inHand, sock, caller,
                 logout, history>>

OpenEvent ==
  /\ sock # NoCreds /\ sock.ver > 0 /\ ~connected
  /\ connected' = TRUE /\ latestQr' = FALSE /\ AnswerWaiters
  /\ UNCHANGED <<storeVars, phase, booting, start, inHand, sock, logout,
                 history>>

\* close, the device having been unlinked.
LoggedOutEvent ==
  /\ sock # NoCreds /\ sock.ver > 0
  /\ Wipe
  /\ UNCHANGED <<phase, booting, start, inHand, logout, dropped>>

\* close for any other reason: restartSocket() is teardown, which flushes,
\* then ensureSocket.
DropEvent ==
  /\ sock # NoCreds
  /\ DropSocket
  /\ start' = IF FlushReturnsAtOnce THEN "called" ELSE start
  /\ Flush(<<"restart">>)
  /\ dropped' = TRUE
  /\ UNCHANGED <<phase, booting, inHand, logout, last, lost, wiped, slipped,
                 overtaken>>

-----------------------------------------------------------------------------
(* The store's timer and the answers of the storage provider                *)

FlushTimer ==
  /\ timer
  /\ Flush(<<"timer">>)
  /\ UNCHANGED <<sessionVars, history>>

\* Mutant: only a restart that owns the upload goes on.
UploadOkBug ==
  /\ UploadLands
  /\ start' = IF awaiting[1] = "restart" /\ MustStart THEN "called" ELSE start
  /\ UNCHANGED <<phase, booting, inHand, sock, connected, latestQr, caller,
                 logout, history>>

\* A restart that awaited the upload goes on to ensureSocket.
UploadOk ==
  /\ UploadLands
  /\ start' = IF "restart" \in Returning /\ MustStart THEN "called" ELSE start
  /\ UNCHANGED <<phase, booting, inHand, sock, connected, latestQr, caller,
                 logout, history>>

\* Nobody handles a rejection of the timer's flush, and a shutdown hook that
\* rejects ends the process; restartSocket's rejection is logged.
UploadError ==
  /\ flight # NoCreds
  /\ IF {"timer", "destroy"} \intersect ToSet(awaiting) # {}
       THEN Stop
       ELSE /\ UploadFails
            /\ lost' = TRUE
            /\ dropped' = (dropped /\ "restart" \notin ToSet(awaiting))
            /\ UNCHANGED <<sessionVars, last, wiped, slipped, overtaken>>

DeleteOk ==
  /\ DeleteLands
  /\ lost' = (lost \/ (last # NoCreds /\ remote = last))
  /\ UNCHANGED <<sessionVars, last, wiped, slipped, dropped, overtaken>>

\* logout() answers with the error; the remote logout logs it.
DeleteError ==
  /\ DeleteFails
  /\ slipped' = slipped \union wiped
  /\ UNCHANGED <<sessionVars, last, lost, wiped, dropped, overtaken>>

\* A request that an ended process left behind ends.
LeftoverArrives(c) ==
  /\ LeftoverEnds(c)
  /\ lost' = (lost \/ (last # NoCreds /\ remote = last /\ remote' # last))
  /\ overtaken' = (overtaken \/ (c # NoCreds /\ remote' = c
                                /\ (hydrated \/ start = "served")))
  /\ UNCHANGED <<sessionVars, last, wiped, slipped, dropped>>

-----------------------------------------------------------------------------
(* The end of the process                                                   *)

\* The hooks of both services run together: one tears down and flushes, the
\* other flushes.  Requests are still accepted while they run.
Shutdown ==
  /\ phase = "up"
  /\ phase' = "stopping"
  /\ DropSocket
  /\ Flush(<<"destroy", "destroy">>)
  /\ UNCHANGED <<booting, start, inHand, logout, last, lost, wiped, slipped,
                 dropped, overtaken>>

HooksDone == phase = "stopping" /\ "destroy" \notin ToSet(awaiting)
Exit  == HooksDone /\ Stop
Crash == Running /\ Stop

Next ==
  \/ Boot \/ CallLoad \/ ServeRead \/ ReadMisses \/ LoadReturns \/ StartFails
  \/ SocketMade
  \/ \E c \in Callers : GetQr(c) \/ QrTimeout(c)
  \/ Logout \/ Unlinked
  \/ QrEvent \/ CredsUpdate \/ OpenEvent \/ LoggedOutEvent \/ DropEvent
  \/ FlushTimer \/ UploadOk \/ UploadError \/ DeleteOk \/ DeleteError
  \/ \E c \in leftovers : LeftoverArrives(c)
  \/ Shutdown \/ Exit \/ Crash

Spec == Init /\ [][Next]_vars

\* What the runtime sees to: an await ends, one way or the other (requests to
\* storage and to the CDN have an end), and timers fire.
FairSpec ==
  /\ Spec
  /\ WF_vars(CallLoad \/ ServeRead \/ ReadMisses \/ LoadReturns \/ SocketMade)
  /\ WF_vars(UploadOk \/ UploadError)
  /\ \A c \in Callers : WF_vars(QrTimeout(c))

-----------------------------------------------------------------------------
(* Properties                                                               *)

\* "Pending QR waiters are always rejected so HTTP callers don't hang": a
\* request waits for a code only beside a socket that can still emit one,
\* whatever teardown, drop or logout came in between.
NoOrphanWaiter ==
  \A c \in Callers :
    /\ caller[c] = "waiting" => sock # NoCreds /\ ~connected /\ ~latestQr
    /\ caller[c] = "starting" => start # "no"

\* The last credential update is in storage, being uploaded, or pending with
\* somebody who will upload it, unless its upload failed, or a deletion that
\* started before it or a request of an ended process landed after it.
LastUpdateOnItsWay ==
  last # NoCreds =>
    \/ remote = last \/ flight = last
    \/ pending = last /\ (timer \/ WaiterTakes)
    \/ lost

\* Credentials wiped by a logout are used by no socket, kept in no snapshot
\* and on their way to no storage; the stored object goes with the deletion
\* in flight.  The exceptions are named by `slipped`.
WipedStayWiped ==
  \A d \in wiped \ slipped :
    /\ d \notin {sock.dev, cached.dev, pending.dev, flight.dev, inHand.dev}
    /\ remote.dev = d => deletes > 0

\* No socket runs on credentials older than those of its device that are in
\* storage, on their way there or in the snapshot: whatever drops, restarts,
\* uploads and crashes came in between, a start finds the newest, unless what an
\* ended process had sent is stored only after the start has read.
SocketIsUpToDate ==
  overtaken \/ \A c \in {remote, flight, pending, cached} : c.dev = sock.dev => c.ver <= sock.ver

\* What is stored of a device's credentials is never replaced by an older
\* version, though uploads outlive the socket that made them, but by a request
\* that an ended process left behind and after it, until the next restart.
StoredNeverGoesBack ==
  [][\/ remote'.dev = remote.dev => remote.ver <= remote'.ver
     \/ overtaken \/ \E c \in leftovers : LeftoverArrives(c)]_vars

\* logout(): "wipe local credentials so the next `/qr` call starts a fresh
\* pairing flow".
WipedNeverReturn == \A d \in wiped : sock.dev # d

\* Every request for a QR code is answered.
EveryQrCallerAnswered ==
  \A c \in Callers : caller[c] # "idle" ~> caller[c] = "idle"

\* After a transient drop the socket comes back, unless a storage call
\* fails or the process ends first.
DroppedSessionComesBack == dropped ~> ~dropped
=============================================================================
