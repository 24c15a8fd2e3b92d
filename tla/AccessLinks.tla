---------------------------- MODULE AccessLinks ----------------------------
(***************************************************************************)
(* StorageService.getAccessUrl and getAccessUrls: links to stored objects,   *)
(* lasting for public ones and signed for a time for private ones, by this   *)
(* program (driver local) or by Supabase.  Time is counted in ticks, some to *)
(* a second.                                                                *)
(***************************************************************************)
EXTENDS Integers, FiniteSets

CONSTANTS
  PublicKeys, PrivateKeys,
  MaxBatch,  \* bound: keys of one call
  Second,    \* ticks in a second
  TTL,       \* signedUrlTtlSeconds
  MaxNow     \* bound: last clock value

VARIABLES
  driver,  \* STORAGE_DRIVER, for the whole behaviour
  now,     \* Date.now(), in ticks
  stored,  \* keys whose object exists
  ask      \* the call: [op, answer, keys, since : when it was made,
           \*  until : when it was answered, links]

vars == <<driver, now, stored, ask>>

Keys    == PublicKeys \union PrivateKeys
Forever == (MaxNow + TTL + 1) * Second
NoAsk   == [op |-> "none", answer |-> "none", keys |-> <<>>, since |-> 0,
            until |-> 0, links |-> <<>>]

Init ==
  /\ driver \in {"local", "supabase"} /\ now = 0
  /\ stored = Keys /\ ask = NoAsk

\* A link to a key: the caller is told that it works until `told`, and it works
\* as long as the clock of whoever signed it is not past `dies`.
LinkTo(key, told, dies) == [key |-> key, told |-> told, dies |-> dies]
PublicLink(key)         == LinkTo(key, Forever, Forever)

Private(keys) == {i \in DOMAIN keys : keys[i] \in PrivateKeys}

\* privateEntries: the places of the private keys, in their order.
Entries(keys) ==
  CHOOSE e \in [1..Cardinality(Private(keys)) -> Private(keys)] :
    \A i, j \in DOMAIN e : i < j => e[i] < e[j]

\* What a provider signs: links to the private keys, in the order asked.
Signed(keys, told, dies) ==
  [i \in DOMAIN Entries(keys) |-> LinkTo(keys[Entries(keys)[i]], told, dies)]

\* Mutant: the signed links stay where they are in the provider's answer.
PlaceBug(keys, signed) ==
  [i \in DOMAIN keys |->
     IF i \in DOMAIN signed THEN signed[i] ELSE PublicLink(keys[i])]

\* getAccessUrls: they return to the places of their keys.
Place(keys, signed) ==
  [i \in DOMAIN keys |->
     IF i \in Private(keys)
       THEN signed[CHOOSE e \in DOMAIN Entries(keys) : Entries(keys)[e] = i]
       ELSE PublicLink(keys[i])]

\* LocalStorageProvider.signedUrl: whole seconds; LocalSigningService.verify
\* refuses the link, and so does LocalStreamGuard, once that moment is past.
LocalExpiry(t) == (t \div Second + TTL) * Second

\* getAccessUrls, or getAccessUrl for one key.  Nobody looks whether the
\* object is still there.
AccessUrls ==
  /\ ask.answer # "pending"
  /\ \E op \in {"list", "single"}, n \in 1..MaxBatch : \E keys \in [1..n -> Keys] :
       /\ op = "single" => n = 1
       /\ ask' = [NoAsk EXCEPT !.op = op, !.keys = keys, !.since = now,
                    !.until = now,
                    !.answer = IF driver = "local" \/ Private(keys) = {}
                                 THEN "ok" ELSE "pending",
                    !.links = IF driver = "local" \/ Private(keys) = {}
                                THEN Place(keys, Signed(keys, LocalExpiry(now),
                                                        LocalExpiry(now)))
                                ELSE <<>>]
  /\ UNCHANGED <<driver, now, stored>>

\* Supabase signs at some moment of the call, and only what it stores.  The
\* expiry that a caller is told is computed before the request for a list, and
\* after the one for a single key.
SupabaseSigns ==
  /\ ask.answer = "pending"
  /\ \E served \in ask.since..now :
       LET told == (IF ask.op = "list" THEN ask.since ELSE now) + TTL * Second
       IN ask' = IF \A i \in Private(ask.keys) : ask.keys[i] \in stored
                   THEN [ask EXCEPT !.answer = "ok", !.until = now,
                           !.links = Place(ask.keys, Signed(ask.keys, told,
                                                      served + TTL * Second))]
                   ELSE [ask EXCEPT !.answer = "failed"]
  /\ UNCHANGED <<driver, now, stored>>

SigningFails ==
  /\ ask.answer = "pending"
  /\ ask' = [ask EXCEPT !.answer = "failed"]
  /\ UNCHANGED <<driver, now, stored>>

\* Uploads and deletions elsewhere (module Storage).
ObjectComesOrGoes ==
  /\ \E k \in PrivateKeys : stored' = IF k \in stored THEN stored \ {k}
                                                      ELSE stored \union {k}
  /\ UNCHANGED <<driver, now, ask>>

Tick == now < MaxNow /\ now' = now + 1 /\ UNCHANGED <<driver, stored, ask>>

Next == AccessUrls \/ SupabaseSigns \/ SigningFails \/ ObjectComesOrGoes \/ Tick
Spec == Init /\ [][Next]_vars

-----------------------------------------------------------------------------
(* Properties                                                               *)

\* getAccessUrls answers, at the place of each key, with a link to it, however
\* public and private keys are mixed or repeated.
LinksMatchKeys ==
  ask.answer = "ok" =>
    /\ DOMAIN ask.links = DOMAIN ask.keys
    /\ \A i \in DOMAIN ask.keys : ask.links[i].key = ask.keys[i]

\* A link works as long as its caller is told, and no longer than the TTL from
\* the end of the call; except that a single link of Supabase can stop as much
\* before the moment told as the call took.
ExpiryHonest ==
  ask.answer = "ok" =>
    \A i \in Private(ask.keys) :
      LET link  == ask.links[i]
          early == IF driver = "supabase" /\ ask.op = "single"
                     THEN ask.until - ask.since ELSE 0
      IN /\ link.told <= link.dies + early
         /\ link.dies <= ask.until + TTL * Second
         /\ link.told + Second > ask.since + TTL * Second
=============================================================================
