------------------------------ MODULE Storage ------------------------------
(***************************************************************************)
(* StorageService over one of its two providers: uploads of several files   *)
(* and deletions.                                                           *)
(*                                                                         *)
(* A call of the service sends requests to the provider side by side and    *)
(* awaits them with Promise.all: it answers with the results in the order   *)
(* of its arguments, or with the first error, and what is still in flight   *)
(* then takes effect all the same.  Each request to the provider is a job.  *)
(***************************************************************************)
EXTENDS Naturals, Sequences, FiniteSets, SequencesExt

CONSTANTS
  Callers,
  Names,     \* names uniqueFileName can draw: a time and one of 9000 numbers
  MaxBatch,  \* bound: files or keys of one call
  MaxCalls   \* bound: calls of a behaviour

ASSUME StorageAssumption ==
  MaxBatch \in Nat \ {0} /\ MaxCalls \in Nat

VARIABLES
  driver,   \* STORAGE_DRIVER, for the whole behaviour
  objects,  \* [key -> content], of the keys stored
  jobs,     \* requests to the provider in flight
  call,     \* [Callers -> Call]
  calls     \* calls made

vars == <<driver, objects, jobs, call, calls>>

Visibilities == {"public", "private"}
Key     == [vis : Visibilities, name : Names]
Content == [by : Callers, i : 1..MaxBatch]  \* the bytes of a file of an upload

Call ==
  [op     : {"none", "upload", "delete"},
   answer : {"none", "pending", "ok", "failed"},
   keys   : UNION {[1..n -> Key] : n \in 0..MaxBatch},
   left   : SUBSET (1..MaxBatch),   \* jobs not settled yet
   sure   : SUBSET (1..MaxBatch)]   \* history: places of the keys that no other
                                    \* call drew or named, and no error spared
NoCall == [op |-> "none", answer |-> "none", keys |-> <<>>, left |-> {}, sure |-> {}]

TypeOK ==
  /\ driver \in {"local", "supabase"} /\ calls \in 0..MaxCalls
  /\ DOMAIN objects \subseteq Key /\ \A k \in DOMAIN objects : objects[k] \in Content
  /\ call \in [Callers -> Call]
  /\ \A j \in jobs : j.kind \in {"save", "remove"} /\ j.by \in Callers

Init ==
  /\ driver \in {"local", "supabase"}
  /\ objects = <<>> /\ jobs = {} /\ call = [c \in Callers |-> NoCall]
  /\ calls = 0

\* A caller makes its next call when nothing of its last one is in flight (a
\* bound: in the code nobody waits for what a failed call left behind).
Ready(c) ==
  /\ call[c].answer # "pending" /\ \A j \in jobs : j.by # c
  /\ calls < MaxCalls /\ calls' = calls + 1
Settle(c, q) == call' = [call EXCEPT ![c] = q]

\* A call begins, with as many jobs as `left` has; the calls that had one of
\* its keys are no longer sure of it.
Begins(c, op, keys, left, sure) ==
  call' = [d \in Callers |->
             IF d = c
               THEN [NoCall EXCEPT !.op = op, !.answer = "pending", !.keys = keys,
                                   !.left = left, !.sure = sure]
               ELSE [call[d] EXCEPT !.sure =
                       {i \in @ : call[d].keys[i] \notin ToSet(keys)}]]

\* The keys that a job in flight saves or removes.
Busy == UNION {j.keys : j \in jobs}

-----------------------------------------------------------------------------
(* What a call makes of the end of a job                                    *)

\* One of its jobs has succeeded.
Succeeds(j) ==
  LET q    == call[j.by]
      left == q.left \ {j.i}
  IN IF q.answer # "pending"
       THEN UNCHANGED call
       ELSE Settle(j.by, [q EXCEPT !.left = left,
                            !.answer = IF left = {} THEN "ok" ELSE @])

\* One has failed, which is its answer.
Fails(j) ==
  IF call[j.by].answer # "pending"
    THEN UNCHANGED call
    ELSE Settle(j.by, [NoCall EXCEPT !.answer = "failed"])

-----------------------------------------------------------------------------
(* Uploads                                                                  *)

\* validateMany and the compression of every file end before anything is
\* stored.  Which files pass is the business of the file rules.
UploadRefused(c) ==
  /\ Ready(c)
  /\ Settle(c, [NoCall EXCEPT !.answer = "failed"])
  /\ UNCHANGED <<driver, objects, jobs>>

UploadMany(c) ==
  /\ Ready(c)
  /\ \E n \in 1..MaxBatch, vis \in Visibilities :
     \E name \in [1..n -> Names] :
       LET keys == [i \in 1..n |-> [vis |-> vis, name |-> name[i]]]
           own  == {i \in 1..n : /\ keys[i] \notin DOMAIN objects \union Busy
                                 /\ \A k \in 1..n \ {i} : keys[k] # keys[i]}
       IN
       /\ Begins(c, "upload", keys, 1..n, own)
       /\ jobs' = jobs \union {[kind |-> "save", by |-> c, i |-> i,
                                keys |-> {keys[i]}] : i \in 1..n}
  /\ UNCHANGED <<driver, objects>>

\* Both providers overwrite an object of the same key.
Stored(j) == [k \in DOMAIN objects \union j.keys |->
                IF k \in j.keys THEN [by |-> j.by, i |-> j.i] ELSE objects[k]]

\* Mutant: the results are listed in the order in which the saves ended.
SaveLandsBug(j) ==
  /\ j.kind = "save"
  /\ jobs' = jobs \ {j}
  /\ objects' = Stored(j)
  /\ LET q == call[j.by] IN
     IF q.answer # "pending"
       THEN UNCHANGED call
       ELSE Settle(j.by,
              [q EXCEPT !.left = @ \ {j.i},
                        !.keys = SelectSeq(@, LAMBDA k : k \notin j.keys)
                                   \o SetToSeq(j.keys),
                        !.answer = IF q.left = {j.i} THEN "ok" ELSE @])
  /\ UNCHANGED <<driver, calls>>

SaveLands(j) ==
  /\ j.kind = "save"
  /\ jobs' = jobs \ {j}
  /\ objects' = Stored(j)
  /\ Succeeds(j)
  /\ UNCHANGED <<driver, calls>>

SaveFails(j) ==
  /\ j.kind = "save"
  /\ jobs' = jobs \ {j}
  /\ Fails(j)
  /\ UNCHANGED <<driver, objects, calls>>

-----------------------------------------------------------------------------
(* Deletions                                                                *)

\* deleteMany: one request per bucket to Supabase, one per key to the disk.
DeleteMany(c) ==
  /\ Ready(c)
  /\ \E keys \in (SUBSET DOMAIN objects) \ {{}} :
       LET list   == SetToSeq(keys)
           bucket == [vis \in Visibilities |-> {k \in keys : k.vis = vis}]
           groups == IF driver = "local" THEN [i \in DOMAIN list |-> {list[i]}]
                     ELSE SetToSeq({bucket[v] : v \in Visibilities} \ {{}})
       IN
       /\ Len(list) <= MaxBatch
       /\ Begins(c, "delete", list, DOMAIN groups,
                 {i \in DOMAIN list : list[i] \notin Busy})
       /\ jobs' = jobs \union {[kind |-> "remove", by |-> c, i |-> i,
                                keys |-> groups[i]] : i \in DOMAIN groups}
  /\ UNCHANGED <<driver, objects>>

RemoveLands(j) ==
  /\ j.kind = "remove"
  /\ jobs' = jobs \ {j}
  /\ objects' = [k \in DOMAIN objects \ j.keys |-> objects[k]]
  /\ Succeeds(j)
  /\ UNCHANGED <<driver, calls>>

\* Mutant: the error of a bucket is swallowed.
RemoveFailsBug(j) ==
  /\ j.kind = "remove"
  /\ jobs' = jobs \ {j}
  /\ Succeeds(j)
  /\ UNCHANGED <<driver, objects, calls>>

\* The error of one key on the disk is swallowed, that of a bucket is not.
RemoveFails(j) ==
  /\ j.kind = "remove"
  /\ jobs' = jobs \ {j}
  /\ IF driver = "local" THEN Succeeds(j) ELSE Fails(j)
  /\ UNCHANGED <<driver, objects, calls>>

Next ==
  \/ \E c \in Callers : UploadRefused(c) \/ UploadMany(c) \/ DeleteMany(c)
  \/ \E j \in jobs : SaveLands(j) \/ SaveFails(j) \/ RemoveLands(j)
                       \/ RemoveFails(j)

Spec == Init /\ [][Next]_vars

-----------------------------------------------------------------------------
(* Properties                                                               *)

\* The files of an upload that answered are stored, each under the key at its
\* own place in the answer, whatever the order in which the provider ended:
\* unless two uploads drew a key or somebody deletes it.
AnswerNamesItsObjects ==
  \A c \in Callers :
    call[c].op = "upload" /\ call[c].answer = "ok" =>
      \A i \in call[c].sure :
        /\ call[c].keys[i] \in DOMAIN objects
        /\ objects[call[c].keys[i]] = [by |-> c, i |-> i]

\* What Supabase says is deleted is gone from both buckets, though it deletes
\* them one by one and either can fail.  (Errors of the disk are swallowed:
\* there the answer says nothing.)
DeletedIsGone ==
  \A c \in Callers :
    call[c].op = "delete" /\ call[c].answer = "ok" /\ driver = "supabase" =>
      \A i \in call[c].sure : call[c].keys[i] \notin DOMAIN objects
=============================================================================
