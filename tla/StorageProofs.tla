--------------------------- MODULE StorageProofs ---------------------------
(***************************************************************************)
(* Proofs that the properties of Storage hold for any number of callers,    *)
(* names, files and calls.                                                 *)
(*                                                                         *)
(* A key that a call is `sure` of is touched by the jobs of that call only. *)
(* The invariant says so, and that a call which has not failed counts its   *)
(* own jobs and no others.                                                 *)
(***************************************************************************)
EXTENDS Storage, FiniteSetTheorems, TLAPS

Job == [kind : {"save", "remove"}, by : Callers, i : 1..MaxBatch, keys : SUBSET Key]

\* The jobs of a call are told apart by their number; while the call is
\* pending they are those it counts.
JobsCounted ==
  /\ \A j \in jobs : j \in Job /\ (j.kind = "save" => IsFiniteSet(j.keys))
  /\ \A j, k \in jobs : j.by = k.by /\ j.i = k.i => j = k
  /\ \A j \in jobs : LET q == call[j.by] IN
       /\ q.answer \in {"pending", "failed"}
       /\ q.answer = "pending" =>
            /\ j.i \in q.left
            /\ j.kind = (IF q.op = "upload" THEN "save" ELSE "remove")
            /\ q.op = "upload" => j.keys = {q.keys[j.i]}

CallsCoherent ==
  \A c \in Callers : LET q == call[c] IN
    /\ q.sure \subseteq DOMAIN q.keys
    /\ q.answer = "ok" => q.left = {}
    /\ q.op = "none" \/ q.answer \notin {"pending", "ok"} => q.sure = {}

\* A key that a call is sure of is touched by its own jobs only; it is stored
\* once its save has landed, and gone from Supabase once its removal has.
SureOf(c, i) == LET q == call[c] IN
  /\ \A j \in jobs : q.keys[i] \in j.keys =>
       /\ j.by = c
       /\ q.op = "upload" => j.kind = "save" /\ j.i = i
       /\ q.op = "delete" => j.kind = "remove"
  /\ q.op = "upload" /\ i \notin q.left =>
       q.keys[i] \in DOMAIN objects /\ objects[q.keys[i]] = [by |-> c, i |-> i]
  /\ q.op = "delete" /\ driver = "supabase" /\ q.keys[i] \in DOMAIN objects =>
       \E j \in jobs : q.keys[i] \in j.keys
SureMeansOwn == \A c \in Callers : \A i \in call[c].sure : SureOf(c, i)

IInv ==
  /\ TypeOK /\ IsFiniteSet(DOMAIN objects)
  /\ JobsCounted /\ CallsCoherent /\ SureMeansOwn

-----------------------------------------------------------------------------
(* Lists of the elements of a set.                                         *)

\* SetToSeq lists a finite set, each element once.
LEMMA SetToSeqLists ==
  ASSUME NEW S, IsFiniteSet(S)
  PROVE  /\ Cardinality(S) \in Nat /\ DOMAIN SetToSeq(S) = 1..Cardinality(S)
         /\ SetToSeq(S) \in [1..Cardinality(S) -> S]
         /\ \A a, b \in DOMAIN SetToSeq(S) : SetToSeq(S)[a] = SetToSeq(S)[b] => a = b
         /\ \A x \in S : \E a \in DOMAIN SetToSeq(S) : SetToSeq(S)[a] = x
<1> DEFINE n == Cardinality(S)
           f == SetToSeq(S)
<1>1. n \in Nat /\ ExistsBijection(1..n, S)
  BY FS_CardinalityType
<1> HIDE DEF n
<1>2. \E g \in [1..n -> S] : IsInjective(g)
  BY <1>1 DEF ExistsBijection, Bijection, Injection
<1>3. f \in [1..n -> S] /\ IsInjective(f)
  BY <1>2 DEF SetToSeq, n
<1> HIDE DEF f
<1>4. f \in Injection(1..n, S) /\ IsFiniteSet(1..n) /\ Cardinality(1..n) = n
  BY <1>1, <1>3, FS_Interval DEF Injection
<1>5. f \in Surjection(1..n, S)
  BY <1>4, FS_Injection DEF n
<1> QED
  BY <1>1, <1>3, <1>5 DEF f, n, IsInjective, Surjection

-----------------------------------------------------------------------------
(* Calls that begin.                                                       *)

KeyLists == UNION {[1..n -> Key] : n \in 0..MaxBatch}

\* Jobs that a call may begin with: its own, numbered, on the keys it names;
\* no job in flight touches a key it is sure of.
JobsFit(c, op, keys, left, sure, new) ==
  /\ \A j \in new :
       /\ j \in Job /\ j.by = c /\ j.i \in left /\ j.keys \subseteq ToSet(keys)
       /\ j.kind = (IF op = "upload" THEN "save" ELSE "remove")
       /\ op = "upload" => j.keys = {keys[j.i]}
  /\ \A j, k \in new : j.i = k.i => j = k
  /\ sure \subseteq DOMAIN keys
  /\ \A i \in sure :
       /\ \A j \in jobs : keys[i] \notin j.keys
       /\ op = "upload" => i \in left /\ \A j \in new : keys[i] \in j.keys => j.i = i
       /\ op = "delete" => \E j \in new : keys[i] \in j.keys

\* A call begins with such jobs.
LEMMA CallBegins ==
  ASSUME IInv, NEW c \in Callers, Ready(c), NEW op \in {"upload", "delete"},
         NEW keys \in KeyLists, NEW left \in SUBSET (1..MaxBatch), NEW sure \in SUBSET (1..MaxBatch),
         NEW new, Begins(c, op, keys, left, sure), jobs' = jobs \union new,
         UNCHANGED <<driver, objects>>, JobsFit(c, op, keys, left, sure, new)
  PROVE  IInv'
<1>1. /\ call'[c].op = op /\ call'[c].answer = "pending" /\ call'[c].keys = keys
      /\ call'[c].left = left /\ call'[c].sure = sure /\ call'[c] \in Call
  <2>1. call'[c] = [NoCall EXCEPT !.op = op, !.answer = "pending", !.keys = keys, !.left = left,
                                  !.sure = sure]
    BY DEF Begins
  <2>2. call'[c] = [op |-> op, answer |-> "pending", keys |-> keys, left |-> left, sure |-> sure]
    BY <2>1 DEF NoCall
  <2> QED
    BY <2>2 DEF Call, KeyLists
<1>2. ASSUME NEW d \in Callers \ {c}
      PROVE  /\ call'[d] \in Call /\ call'[d].op = call[d].op /\ call'[d].answer = call[d].answer
             /\ call'[d].keys = call[d].keys /\ call'[d].left = call[d].left
             /\ call'[d].sure = {i \in call[d].sure : call[d].keys[i] \notin ToSet(keys)}
  <2>1. PICK less \in SUBSET (1..MaxBatch) :
          less = {i \in call[d].sure : call[d].keys[i] \notin ToSet(keys)}
    BY DEF IInv, TypeOK, Call
  <2>2. call'[d] = [call[d] EXCEPT !.sure = less] /\ call[d] \in Call
    BY <2>1 DEF Begins, IInv, TypeOK
  <2> QED
    BY <2>1, <2>2 DEF Call
<1>3. call' \in [Callers -> Call]
  BY <1>1, <1>2 DEF Begins
<1>4. TypeOK' /\ IsFiniteSet(DOMAIN objects')
  <2>1. calls' \in 0..MaxCalls
    BY StorageAssumption DEF Ready, IInv, TypeOK
  <2>2. \A j \in jobs' : j.kind \in {"save", "remove"} /\ j.by \in Callers
    BY DEF IInv, TypeOK, Job, JobsFit
  <2> QED
    BY <1>3, <2>1, <2>2 DEF IInv, TypeOK
<1>5. \A j \in jobs : j.by # c
  BY DEF Ready
<1>6. JobsCounted'
  <2>1. \A j \in jobs' : j \in Job /\ (j.kind = "save" => IsFiniteSet(j.keys))
    <3>1. ASSUME NEW j \in new PROVE j \in Job /\ (j.kind = "save" => IsFiniteSet(j.keys))
      <4>1. j \in Job /\ (j.kind = "save" => j.keys = {keys[j.i]})
        BY <3>1 DEF JobsFit
      <4>2. IsFiniteSet({keys[j.i]})
        BY FS_Singleton
      <4> QED
        BY <4>1, <4>2
    <3> QED
      BY <3>1 DEF IInv, JobsCounted
  <2>2. \A j, k \in jobs' : j.by = k.by /\ j.i = k.i => j = k
    BY <1>5 DEF IInv, JobsCounted, JobsFit
  <2>3. ASSUME NEW j \in jobs'
        PROVE  /\ call'[j.by].answer \in {"pending", "failed"}
               /\ call'[j.by].answer = "pending" =>
                    /\ j.i \in call'[j.by].left
                    /\ j.kind = (IF call'[j.by].op = "upload" THEN "save" ELSE "remove")
                    /\ call'[j.by].op = "upload" => j.keys = {call'[j.by].keys[j.i]}
    <3>1. CASE j \in new
      BY <1>1, <3>1 DEF JobsFit
    <3>2. CASE j \in jobs
      <4>1. j.by \in Callers \ {c}
        BY <1>5, <3>2 DEF IInv, TypeOK
      <4> QED
        BY <1>2, <3>2, <4>1 DEF IInv, JobsCounted
    <3> QED
      BY <3>1, <3>2
  <2> QED
    BY <2>1, <2>2, <2>3 DEF JobsCounted
<1>7. CallsCoherent'
  <2> SUFFICES ASSUME NEW d \in Callers
               PROVE  /\ call'[d].sure \subseteq DOMAIN call'[d].keys
                      /\ call'[d].answer = "ok" => call'[d].left = {}
                      /\ call'[d].op = "none" \/ call'[d].answer \notin {"pending", "ok"}
                           => call'[d].sure = {}
    BY DEF CallsCoherent
  <2>1. CASE d = c
    BY <1>1, <2>1 DEF JobsFit
  <2>2. CASE d # c
    <3>1. call'[d].sure \subseteq call[d].sure
      BY <1>2, <2>2
    <3> QED
      BY <1>2, <2>2, <3>1 DEF IInv, CallsCoherent
  <2> QED
    BY <2>1, <2>2
<1>8. SureMeansOwn'
  <2> SUFFICES ASSUME NEW d \in Callers, NEW i \in call'[d].sure PROVE SureOf(d, i)'
    BY DEF SureMeansOwn
  <2>1. CASE d = c
    BY <1>1, <2>1 DEF SureOf, JobsFit
  <2>2. CASE d # c
    <3>1. i \in call[d].sure /\ call[d].keys[i] \notin ToSet(keys) /\ SureOf(d, i)
      BY <1>2, <2>2 DEF IInv, SureMeansOwn
    <3>2. \A j \in new : call[d].keys[i] \notin j.keys
      BY <3>1 DEF JobsFit
    <3> QED
      BY <1>2, <2>2, <3>1, <3>2 DEF SureOf
  <2> QED
    BY <2>1, <2>2
<1> QED
  BY <1>4, <1>6, <1>7, <1>8 DEF IInv

\* An upload begins with one job for each of its files.
LEMMA UploadBegins ==
  ASSUME IInv, NEW c \in Callers, Ready(c), UNCHANGED <<driver, objects>>,
         NEW n \in 1..MaxBatch, NEW keys \in [1..n -> Key], NEW own, NEW new,
         own = {i \in 1..n : /\ keys[i] \notin DOMAIN objects \union Busy
                             /\ \A k \in 1..n \ {i} : keys[k] # keys[i]},
         new = {[kind |-> "save", by |-> c, i |-> i, keys |-> {keys[i]}] : i \in 1..n},
         Begins(c, "upload", keys, 1..n, own), jobs' = jobs \union new
  PROVE  IInv'
<1>1. keys \in [1..n -> Key] /\ n \in 0..MaxBatch /\ 1..n \subseteq 1..MaxBatch
  BY StorageAssumption
<1>2. keys \in KeyLists
  BY <1>1 DEF KeyLists
<1>3. /\ own \subseteq 1..n
      /\ \A i \in own : \A j \in jobs : keys[i] \notin j.keys
      /\ \A i \in own : \A k \in 1..n : keys[k] = keys[i] => k = i
  BY DEF Busy
<1>4. ASSUME NEW j \in new
      PROVE  /\ j \in Job /\ j.by = c /\ j.i \in 1..n /\ j.keys \subseteq ToSet(keys)
             /\ j.kind = "save" /\ j.keys = {keys[j.i]}
  <2>1. PICK i \in 1..n : j = [kind |-> "save", by |-> c, i |-> i, keys |-> {keys[i]}]
    OBVIOUS
  <2> QED
    BY <1>1, <2>1 DEF Job, ToSet
<1>5. ASSUME NEW j \in new, NEW k \in new, j.i = k.i PROVE j = k
  <2>1. PICK a \in 1..n : j = [kind |-> "save", by |-> c, i |-> a, keys |-> {keys[a]}]
    OBVIOUS
  <2>2. PICK b \in 1..n : k = [kind |-> "save", by |-> c, i |-> b, keys |-> {keys[b]}]
    OBVIOUS
  <2>3. a = b
    BY <1>5, <2>1, <2>2
  <2> QED
    BY <2>1, <2>2, <2>3
<1>6. own \in SUBSET (1..MaxBatch) /\ own \subseteq DOMAIN keys
  BY <1>1, <1>3
<1>7. ASSUME NEW i \in own, NEW j \in new, keys[i] \in j.keys PROVE j.i = i
  <2>1. j.i \in 1..n /\ keys[j.i] = keys[i]
    BY <1>4, <1>7
  <2> QED
    BY <1>3, <2>1
<1>8. JobsFit(c, "upload", keys, 1..n, own, new)
  <2>1. \A j \in new :
          /\ j \in Job /\ j.by = c /\ j.i \in 1..n /\ j.keys \subseteq ToSet(keys)
          /\ j.kind = "save" /\ j.keys = {keys[j.i]}
    BY <1>4
  <2>2. \A j, k \in new : j.i = k.i => j = k
    BY <1>5
  <2>3. \A i \in own : i \in 1..n /\ \A j \in new : keys[i] \in j.keys => j.i = i
    BY <1>3, <1>7
  <2> QED
    BY <1>3, <1>6, <2>1, <2>2, <2>3 DEF JobsFit
<1>9. 1..n \in SUBSET (1..MaxBatch)
  BY <1>1
<1> QED
  BY <1>2, <1>6, <1>8, <1>9, CallBegins

LEMMA UploadStep ==
  ASSUME IInv, NEW c \in Callers, UploadMany(c)
  PROVE  IInv'
<1> DEFINE KeysOf(n, vis, name) == [i \in 1..n |-> [vis |-> vis, name |-> name[i]]]
           OwnOf(n, keys) == {i \in 1..n : /\ keys[i] \notin DOMAIN objects \union Busy
                                           /\ \A k \in 1..n \ {i} : keys[k] # keys[i]}
           NewOf(n, keys) == {[kind |-> "save", by |-> c, i |-> i, keys |-> {keys[i]}] : i \in 1..n}
<1>1. PICK n \in 1..MaxBatch, vis \in Visibilities : \E name \in [1..n -> Names] :
        /\ Begins(c, "upload", KeysOf(n, vis, name), 1..n, OwnOf(n, KeysOf(n, vis, name)))
        /\ jobs' = jobs \union NewOf(n, KeysOf(n, vis, name))
  BY DEF UploadMany
<1>2. PICK name \in [1..n -> Names] :
        /\ Begins(c, "upload", KeysOf(n, vis, name), 1..n, OwnOf(n, KeysOf(n, vis, name)))
        /\ jobs' = jobs \union NewOf(n, KeysOf(n, vis, name))
  BY <1>1
<1>3. PICK keys : keys = KeysOf(n, vis, name)
  OBVIOUS
<1>4. PICK own, new : own = OwnOf(n, keys) /\ new = NewOf(n, keys)
  OBVIOUS
<1>5. Begins(c, "upload", keys, 1..n, own) /\ jobs' = jobs \union new
  BY <1>2, <1>3, <1>4
<1>6. keys \in [1..n -> Key]
  <2>1. \A i \in 1..n : [vis |-> vis, name |-> name[i]] \in Key
    BY DEF Key
  <2> QED
    BY <1>3, <2>1
<1>7. Ready(c) /\ UNCHANGED <<driver, objects>>
  BY DEF UploadMany
<1> QED
  BY <1>4, <1>5, <1>6, <1>7, UploadBegins

\* Two buckets at most, and no more than there are keys.
BucketsOf(keys) == {{k \in keys : k.vis = v} : v \in Visibilities} \ {{}}

LEMMA Buckets ==
  ASSUME NEW keys \in SUBSET Key, IsFiniteSet(keys)
  PROVE  /\ IsFiniteSet(BucketsOf(keys)) /\ Cardinality(BucketsOf(keys)) <= Cardinality(keys)
         /\ \A b \in BucketsOf(keys) : b \subseteq keys
         /\ \A k \in keys : \E b \in BucketsOf(keys) : k \in b
<1> DEFINE T == BucketsOf(keys)
           bucket == [v \in Visibilities |-> {k \in keys : k.vis = v}]
           f == [k \in keys |-> bucket[k.vis]]
<1>1. \A k \in keys : k.vis \in Visibilities
  BY DEF Key
<1>2. \A k \in keys : k \in bucket[k.vis] /\ bucket[k.vis] \in T
  BY <1>1 DEF BucketsOf
<1>3. f \in [keys -> T]
  BY <1>2
<1>4. \A b \in T : \E k \in keys : f[k] = b
  <2> SUFFICES ASSUME NEW b \in T PROVE \E k \in keys : f[k] = b
    OBVIOUS
  <2>1. PICK v \in Visibilities : b = {k \in keys : k.vis = v} /\ b = bucket[v]
    BY DEF BucketsOf
  <2>2. PICK k \in b : TRUE
    BY DEF BucketsOf
  <2> QED
    BY <2>1, <2>2
<1>5. f \in Surjection(keys, T)
  BY <1>3, <1>4 DEF Surjection
<1>6. IsFiniteSet(T) /\ Cardinality(T) <= Cardinality(keys)
  BY <1>5, FS_Surjection
<1>7. \A b \in T : b \subseteq keys
  BY DEF BucketsOf
<1> QED
  BY <1>1, <1>2, <1>6, <1>7

LEMMA DeleteStep ==
  ASSUME IInv, NEW c \in Callers, DeleteMany(c)
  PROVE  IInv'
<1>1. PICK keys \in (SUBSET DOMAIN objects) \ {{}} :
        LET list   == SetToSeq(keys)
            bucket == [vis \in Visibilities |-> {k \in keys : k.vis = vis}]
            groups == IF driver = "local" THEN [i \in DOMAIN list |-> {list[i]}]
                      ELSE SetToSeq({bucket[v] : v \in Visibilities} \ {{}})
        IN
        /\ Len(list) <= MaxBatch
        /\ Begins(c, "delete", list, DOMAIN groups,
                  {i \in DOMAIN list : list[i] \notin Busy})
        /\ jobs' = jobs \union {[kind |-> "remove", by |-> c, i |-> i,
                                 keys |-> groups[i]] : i \in DOMAIN groups}
  BY DEF DeleteMany
<1>2. IsFiniteSet(keys) /\ keys \subseteq Key
  BY FS_Subset DEF IInv, TypeOK
<1>3. PICK list : list = SetToSeq(keys)
  OBVIOUS
<1>4. PICK bucket : bucket = [vis \in Visibilities |-> {k \in keys : k.vis = vis}]
  OBVIOUS
<1>5. PICK groups : groups = IF driver = "local" THEN [i \in DOMAIN list |-> {list[i]}]
                             ELSE SetToSeq({bucket[v] : v \in Visibilities} \ {{}})
  OBVIOUS
<1>6. PICK own : own = {i \in DOMAIN list : list[i] \notin Busy}
  OBVIOUS
<1>7. PICK new : new = {[kind |-> "remove", by |-> c, i |-> i, keys |-> groups[i]]
                          : i \in DOMAIN groups}
  OBVIOUS
<1>8. /\ Len(list) <= MaxBatch /\ Begins(c, "delete", list, DOMAIN groups, own)
      /\ jobs' = jobs \union new
  BY <1>1, <1>3, <1>4, <1>5, <1>6, <1>7
<1> DEFINE n == Cardinality(keys)
<1>9. /\ n \in Nat /\ DOMAIN list = 1..n /\ list \in [1..n -> keys]
      /\ \A a, b \in 1..n : list[a] = list[b] => a = b
      /\ \A k \in keys : \E a \in 1..n : list[a] = k
  BY <1>2, <1>3, SetToSeqLists
<1>10. /\ DOMAIN groups \subseteq 1..n
       /\ \A i \in DOMAIN groups : groups[i] \subseteq keys
       /\ \A k \in keys : \E i \in DOMAIN groups : k \in groups[i]
  <2>1. CASE driver = "local"
    BY <1>5, <1>9, <2>1
  <2>2. CASE driver # "local"
    <3>1. PICK T : T = BucketsOf(keys)
      OBVIOUS
    <3>6. BucketsOf(keys) = {bucket[v] : v \in Visibilities} \ {{}}
      BY <1>4 DEF BucketsOf
    <3>2. /\ IsFiniteSet(T) /\ Cardinality(T) <= n /\ \A b \in T : b \subseteq keys
          /\ \A k \in keys : \E b \in T : k \in b
      BY <1>2, <3>1, Buckets
    <3>3. groups = SetToSeq(T)
      BY <1>5, <2>2, <3>1, <3>6
    <3>4. /\ Cardinality(T) \in Nat /\ DOMAIN groups = 1..Cardinality(T)
          /\ groups \in [1..Cardinality(T) -> T]
          /\ \A b \in T : \E i \in DOMAIN groups : groups[i] = b
      BY <3>2, <3>3, SetToSeqLists
    <3> HIDE DEF n
    <3>5. DOMAIN groups \subseteq 1..n
      BY <1>9, <3>2, <3>4
    <3> QED
      BY <3>2, <3>4, <3>5
  <2> QED
    BY <2>1, <2>2
<1> HIDE DEF n
<1>11. n \in 0..MaxBatch /\ 1..n \subseteq 1..MaxBatch
  <2>1. Len(list) = n
    BY <1>9
  <2> QED
    BY <1>8, <1>9, <2>1, StorageAssumption
<1>12. list \in KeyLists /\ ToSet(list) = keys
  <2>1. list \in [1..n -> Key]
    BY <1>2, <1>9
  <2>2. ToSet(list) = keys
    BY <1>9 DEF ToSet
  <2> QED
    BY <1>11, <2>1, <2>2 DEF KeyLists
<1>13. ASSUME NEW j \in new
       PROVE  /\ j \in Job /\ j.by = c /\ j.i \in DOMAIN groups /\ j.keys = groups[j.i]
              /\ j.kind = "remove"
  <2>1. PICK i \in DOMAIN groups : j = [kind |-> "remove", by |-> c, i |-> i, keys |-> groups[i]]
    BY <1>7
  <2>2. groups[i] \subseteq Key /\ i \in 1..MaxBatch
    BY <1>2, <1>10, <1>11
  <2> QED
    BY <2>1, <2>2 DEF Job
<1>14. ASSUME NEW j \in new, NEW k \in new, j.i = k.i PROVE j = k
  <2>1. PICK a \in DOMAIN groups : j = [kind |-> "remove", by |-> c, i |-> a, keys |-> groups[a]]
    BY <1>7
  <2>2. PICK b \in DOMAIN groups : k = [kind |-> "remove", by |-> c, i |-> b, keys |-> groups[b]]
    BY <1>7
  <2>3. a = b
    BY <1>14, <2>1, <2>2
  <2> QED
    BY <2>1, <2>2, <2>3
<1>15. ASSUME NEW i \in DOMAIN groups PROVE \E j \in new : j.keys = groups[i]
  <2>1. [kind |-> "remove", by |-> c, i |-> i, keys |-> groups[i]] \in new
    BY <1>7
  <2> QED
    BY <2>1
<1>16. \A i \in own : (\A j \in jobs : list[i] \notin j.keys) /\ \E j \in new : list[i] \in j.keys
  <2> SUFFICES ASSUME NEW i \in own
               PROVE  (\A j \in jobs : list[i] \notin j.keys) /\ \E j \in new : list[i] \in j.keys
    OBVIOUS
  <2>1. list[i] \in keys /\ list[i] \notin Busy
    BY <1>6, <1>9
  <2> QED
    BY <1>10, <1>15, <2>1 DEF Busy
<1>17. Ready(c) /\ UNCHANGED <<driver, objects>>
  BY DEF DeleteMany
<1>18. own \in SUBSET (1..MaxBatch) /\ own \subseteq DOMAIN list /\ DOMAIN groups \in SUBSET (1..MaxBatch)
  BY <1>6, <1>9, <1>10, <1>11
<1>19. \A j \in new : j.keys \subseteq ToSet(list)
  BY <1>10, <1>12, <1>13
<1>20. JobsFit(c, "delete", list, DOMAIN groups, own, new)
  <2>1. \A j \in new :
          /\ j \in Job /\ j.by = c /\ j.i \in DOMAIN groups /\ j.keys \subseteq ToSet(list)
          /\ j.kind = "remove"
    BY <1>13, <1>19
  <2>2. \A j, k \in new : j.i = k.i => j = k
    BY <1>14
  <2> QED
    BY <1>16, <1>18, <2>1, <2>2 DEF JobsFit
<1> QED
  BY <1>8, <1>12, <1>17, <1>18, <1>20, CallBegins

\* A call refused before anything is stored.
LEMMA RefusedStep ==
  ASSUME IInv, NEW c \in Callers, UploadRefused(c)
  PROVE  IInv'
<1>1. call' = [call EXCEPT ![c] = [op |-> "none", answer |-> "failed", keys |-> <<>>,
                                   left |-> {}, sure |-> {}]]
  <2>1. PICK q : q = [NoCall EXCEPT !.answer = "failed"]
    OBVIOUS
  <2>2. q = [op |-> "none", answer |-> "failed", keys |-> <<>>, left |-> {}, sure |-> {}]
    BY <2>1 DEF NoCall
  <2>3. call' = [call EXCEPT ![c] = q]
    BY <2>1 DEF UploadRefused, Settle
  <2> QED
    BY <2>2, <2>3
<1>2. /\ call'[c].op = "none" /\ call'[c].answer = "failed" /\ call'[c].left = {}
      /\ call'[c].sure = {} /\ \A d \in Callers : d # c => call'[d] = call[d]
  BY <1>1 DEF IInv, TypeOK
<1>3. <<>> \in KeyLists
  <2>1. <<>> \in [1..0 -> Key] /\ 0 \in 0..MaxBatch
    BY StorageAssumption
  <2> QED
    BY <2>1 DEF KeyLists
<1>4. call' \in [Callers -> Call]
  BY <1>1, <1>3 DEF IInv, TypeOK, Call, KeyLists
<1>5. calls' \in 0..MaxCalls
  BY StorageAssumption DEF UploadRefused, Ready, IInv, TypeOK
<1>6. UNCHANGED <<driver, objects, jobs>> /\ \A j \in jobs : j.by # c
  BY DEF UploadRefused, Ready
<1>7. TypeOK' /\ IsFiniteSet(DOMAIN objects')
  BY <1>4, <1>5, <1>6 DEF IInv, TypeOK
<1>8. JobsCounted'
  BY <1>2, <1>6 DEF IInv, JobsCounted, Job
<1>9. CallsCoherent'
  BY <1>2 DEF IInv, CallsCoherent
<1>10. SureMeansOwn'
  <2> SUFFICES ASSUME NEW d \in Callers, NEW i \in call'[d].sure PROVE SureOf(d, i)'
    BY DEF SureMeansOwn
  <2>1. d # c /\ call'[d] = call[d]
    BY <1>2
  <2>2. SureOf(d, i)
    BY <2>1 DEF IInv, SureMeansOwn
  <2> QED
    BY <1>6, <2>1, <2>2 DEF SureOf
<1> QED
  BY <1>7, <1>8, <1>9, <1>10 DEF IInv

-----------------------------------------------------------------------------
(* Jobs that end.                                                          *)

\* What the end of a job makes of its call: a call that is sure of a key is
\* the same call as before, and waits for one job less if that was its own.
LEMMA JobEnds ==
  ASSUME IInv, NEW j \in jobs, NEW ok \in BOOLEAN, jobs' = jobs \ {j},
         IF ok THEN Succeeds(j) ELSE Fails(j)
  PROVE  /\ call' \in [Callers -> Call] /\ JobsCounted' /\ CallsCoherent'
         /\ \A c \in Callers : \A i \in call'[c].sure :
              /\ i \in call[c].sure /\ call'[c].op = call[c].op /\ call'[c].keys = call[c].keys
              /\ i \notin call'[c].left => i \notin call[c].left \/ (ok /\ j.by = c /\ j.i = i)
              /\ ok \/ j.by # c
<1>1. PICK d \in Callers : d = j.by
  BY DEF IInv, TypeOK
<1>2. /\ call[d] \in Call /\ call[d].answer \in {"pending", "failed"}
      /\ call[d].answer = "pending" => j.i \in call[d].left
      /\ call[d].answer = "failed" => call[d].sure = {}
      /\ \A k \in jobs' : k \in jobs /\ k.by \in Callers /\ (k.by = d => k.i # j.i)
  BY <1>1 DEF IInv, TypeOK, JobsCounted, CallsCoherent
<1>3. CASE call[d].answer # "pending"
  <2>1. call' = call
    BY <1>1, <1>3 DEF Succeeds, Fails
  <2>2. call[d].sure = {}
    BY <1>2, <1>3
  <2> QED
    BY <1>1, <1>2, <2>1, <2>2 DEF IInv, TypeOK, JobsCounted, CallsCoherent
<1>4. CASE call[d].answer = "pending" /\ ok
  <2>1. PICK left \in SUBSET (1..MaxBatch), answer \in {"ok", "pending"} :
          left = call[d].left \ {j.i} /\ answer = (IF left = {} THEN "ok" ELSE "pending")
    BY <1>2 DEF Call
  <2>2. PICK q : q = [[call[d] EXCEPT !.left = left] EXCEPT !.answer = answer]
    OBVIOUS
  <2>3. /\ q \in Call /\ q.op = call[d].op /\ q.keys = call[d].keys /\ q.sure = call[d].sure
        /\ q.left = left /\ q.answer = answer
    BY <1>2, <2>1, <2>2 DEF Call
  <2>4. call' = [call EXCEPT ![d] = q]
    BY <1>1, <1>4, <2>1, <2>2 DEF Succeeds, Settle
  <2>5. /\ call' \in [Callers -> Call] /\ call'[d] = q
        /\ \A c \in Callers : c # d => call'[c] = call[c]
    BY <2>3, <2>4 DEF IInv, TypeOK
  <2>6. ASSUME NEW k \in jobs'
        PROVE  /\ call'[k.by].answer \in {"pending", "failed"}
               /\ call'[k.by].answer = "pending" =>
                    /\ k.i \in call'[k.by].left
                    /\ k.kind = (IF call'[k.by].op = "upload" THEN "save" ELSE "remove")
                    /\ call'[k.by].op = "upload" => k.keys = {call'[k.by].keys[k.i]}
    <3>1. CASE k.by # d
      BY <1>2, <2>5, <3>1 DEF IInv, JobsCounted
    <3>2. CASE k.by = d
      <4>1. k.i \in left
        BY <1>2, <1>4, <2>1, <3>2 DEF IInv, JobsCounted
      <4> QED
        BY <1>2, <1>4, <2>1, <2>3, <2>5, <3>2, <4>1 DEF IInv, JobsCounted
    <3> QED
      BY <3>1, <3>2
  <2>7. JobsCounted'
    BY <1>2, <2>6 DEF IInv, JobsCounted
  <2>8. CallsCoherent'
    BY <1>4, <2>1, <2>3, <2>5 DEF IInv, CallsCoherent
  <2>9. \A i \in call'[d].sure : i \notin call'[d].left => i \notin call[d].left \/ j.i = i
    BY <2>1, <2>3, <2>5
  <2> QED
    BY <1>1, <1>4, <2>3, <2>5, <2>7, <2>8, <2>9
<1>5. CASE call[d].answer = "pending" /\ ~ok
  <2>1. call' = [call EXCEPT ![d] = [op |-> "none", answer |-> "failed", keys |-> <<>>,
                                     left |-> {}, sure |-> {}]]
    BY <1>1, <1>5 DEF Fails, Settle, NoCall
  <2>2. /\ call'[d].op = "none" /\ call'[d].answer = "failed" /\ call'[d].left = {}
        /\ call'[d].sure = {} /\ \A c \in Callers : c # d => call'[c] = call[c]
    BY <2>1 DEF IInv, TypeOK
  <2>3. <<>> \in KeyLists
    <3>1. <<>> \in [1..0 -> Key] /\ 0 \in 0..MaxBatch
      BY StorageAssumption
    <3> QED
      BY <3>1 DEF KeyLists
  <2>4. call' \in [Callers -> Call]
    BY <2>1, <2>3 DEF IInv, TypeOK, Call, KeyLists
  <2>5. JobsCounted'
    BY <1>2, <2>2 DEF IInv, JobsCounted
  <2>6. CallsCoherent'
    BY <2>2 DEF IInv, CallsCoherent
  <2> QED
    BY <1>1, <2>2, <2>4, <2>5, <2>6
<1> QED
  BY <1>2, <1>3, <1>4, <1>5

\* The job of a place of an upload that is still awaited saves the key of that
\* place: the call has not failed, nor answered.
LEMMA AwaitedSave ==
  ASSUME IInv, NEW j \in jobs, NEW c \in Callers, j.by = c, j.i \in call[c].sure,
         j.i \in call[c].left, call[c].op = "upload"
  PROVE  j.kind = "save" /\ j.keys = {call[c].keys[j.i]}
<1>1. call[c].answer = "pending"
  BY DEF IInv, JobsCounted, CallsCoherent
<1> QED
  BY <1>1 DEF IInv, JobsCounted

\* A job that fails leaves no call that is sure of its keys.
LEMMA FailureStep ==
  ASSUME IInv, NEW j \in jobs, jobs' = jobs \ {j}, Fails(j), UNCHANGED <<driver, objects, calls>>
  PROVE  IInv'
<1>1. PICK ok \in BOOLEAN : ok = FALSE
  OBVIOUS
<1>2. /\ call' \in [Callers -> Call] /\ JobsCounted' /\ CallsCoherent'
      /\ \A c \in Callers : \A i \in call'[c].sure :
           /\ i \in call[c].sure /\ call'[c].op = call[c].op /\ call'[c].keys = call[c].keys
           /\ i \notin call'[c].left => i \notin call[c].left \/ (ok /\ j.by = c /\ j.i = i)
           /\ ok \/ j.by # c
  BY <1>1, JobEnds
<1>3. TypeOK' /\ IsFiniteSet(DOMAIN objects')
  BY <1>2 DEF IInv, TypeOK
<1>4. SureMeansOwn'
  <2> SUFFICES ASSUME NEW c \in Callers, NEW i \in call'[c].sure PROVE SureOf(c, i)'
    BY DEF SureMeansOwn
  <2>1. /\ i \in call[c].sure /\ call'[c].op = call[c].op /\ call'[c].keys = call[c].keys
        /\ (i \notin call'[c].left => i \notin call[c].left) /\ j.by # c
    BY <1>1, <1>2
  <2>2. SureOf(c, i)
    BY <2>1 DEF IInv, SureMeansOwn
  <2> QED
    BY <2>1, <2>2 DEF SureOf
<1> QED
  BY <1>2, <1>3, <1>4 DEF IInv

LEMMA SaveLandsStep ==
  ASSUME IInv, NEW j \in jobs, SaveLands(j)
  PROVE  IInv'
<1>1. PICK ok \in BOOLEAN : ok = TRUE
  OBVIOUS
<1>2. jobs' = jobs \ {j} /\ Succeeds(j) /\ UNCHANGED <<driver, calls>> /\ j.kind = "save"
  BY DEF SaveLands
<1>3. /\ call' \in [Callers -> Call] /\ JobsCounted' /\ CallsCoherent'
      /\ \A c \in Callers : \A i \in call'[c].sure :
           /\ i \in call[c].sure /\ call'[c].op = call[c].op /\ call'[c].keys = call[c].keys
           /\ i \notin call'[c].left => i \notin call[c].left \/ (ok /\ j.by = c /\ j.i = i)
           /\ ok \/ j.by # c
  BY <1>1, <1>2, JobEnds
<1>4. j \in Job /\ IsFiniteSet(j.keys)
  BY <1>2 DEF IInv, JobsCounted
<1>5. /\ DOMAIN objects' = DOMAIN objects \union j.keys
      /\ \A k \in j.keys : objects'[k] = [by |-> j.by, i |-> j.i]
      /\ \A k \in DOMAIN objects : k \notin j.keys => objects'[k] = objects[k]
  BY DEF SaveLands, Stored
<1>6. TypeOK'
  <2>1. [by |-> j.by, i |-> j.i] \in Content
    BY <1>4 DEF Job, Content
  <2>2. DOMAIN objects' \subseteq Key /\ \A k \in DOMAIN objects' : objects'[k] \in Content
    BY <1>4, <1>5, <2>1 DEF Job, IInv, TypeOK
  <2> QED
    BY <1>2, <1>3, <2>2 DEF IInv, TypeOK
<1>7. IsFiniteSet(DOMAIN objects')
  <2>1. IsFiniteSet(DOMAIN objects)
    BY DEF IInv
  <2>2. IsFiniteSet(DOMAIN objects \union j.keys)
    BY <1>4, <2>1, FS_Union
  <2> QED
    BY <1>5, <2>2
<1>8. SureMeansOwn'
  <2> SUFFICES ASSUME NEW c \in Callers, NEW i \in call'[c].sure PROVE SureOf(c, i)'
    BY DEF SureMeansOwn
  <2> DEFINE key == call[c].keys[i]
  <2>1. /\ i \in call[c].sure /\ call'[c].op = call[c].op /\ call'[c].keys = call[c].keys
        /\ i \notin call'[c].left => i \notin call[c].left \/ (j.by = c /\ j.i = i)
    BY <1>3
  <2>2. SureOf(c, i)
    BY <2>1 DEF IInv, SureMeansOwn
  <2>3. key \in j.keys => j.by = c /\ (call[c].op = "upload" => j.i = i) /\ call[c].op # "delete"
    BY <1>2, <2>2 DEF SureOf
  <2>4. ASSUME call[c].op = "upload", i \notin call'[c].left
        PROVE  key \in DOMAIN objects' /\ objects'[key] = [by |-> c, i |-> i]
    <3>1. CASE i \notin call[c].left
      BY <1>5, <2>2, <2>3, <2>4, <3>1 DEF SureOf
    <3>2. CASE i \in call[c].left
      <4>1. j.by = c /\ j.i = i
        BY <2>1, <2>4, <3>2
      <4>2. key \in j.keys
        BY <2>1, <2>4, <3>2, <4>1, AwaitedSave
      <4> QED
        BY <1>5, <4>1, <4>2
    <3> QED
      BY <3>1, <3>2
  <2>5. ASSUME call[c].op = "delete", driver = "supabase", key \in DOMAIN objects'
        PROVE  \E k \in jobs' : key \in k.keys
    BY <1>2, <1>5, <2>2, <2>3, <2>5 DEF SureOf
  <2>6. \A k \in jobs' : key \in k.keys =>
          /\ k.by = c
          /\ call[c].op = "upload" => k.kind = "save" /\ k.i = i
          /\ call[c].op = "delete" => k.kind = "remove"
    BY <1>2, <2>2 DEF SureOf
  <2> QED
    BY <1>2, <2>1, <2>4, <2>5, <2>6 DEF SureOf
<1> QED
  BY <1>3, <1>6, <1>7, <1>8 DEF IInv

\* A removal that lands; on the disk, one that fails is taken for one that
\* landed.  Nothing but its keys goes.
LEMMA RemovalStep ==
  ASSUME IInv, NEW j \in jobs, j.kind = "remove", jobs' = jobs \ {j}, Succeeds(j),
         UNCHANGED <<driver, calls>>, DOMAIN objects' \subseteq DOMAIN objects,
         \A k \in DOMAIN objects : k \notin j.keys => k \in DOMAIN objects',
         \A k \in DOMAIN objects' : objects'[k] = objects[k],
         driver = "supabase" => \A k \in DOMAIN objects' : k \notin j.keys
  PROVE  IInv'
<1>1. PICK ok \in BOOLEAN : ok = TRUE
  OBVIOUS
<1>2. /\ call' \in [Callers -> Call] /\ JobsCounted' /\ CallsCoherent'
      /\ \A c \in Callers : \A i \in call'[c].sure :
           /\ i \in call[c].sure /\ call'[c].op = call[c].op /\ call'[c].keys = call[c].keys
           /\ i \notin call'[c].left => i \notin call[c].left \/ (ok /\ j.by = c /\ j.i = i)
           /\ ok \/ j.by # c
  BY <1>1, JobEnds
<1>3. TypeOK'
  BY <1>2 DEF IInv, TypeOK
<1>4. IsFiniteSet(DOMAIN objects')
  <2>1. IsFiniteSet(DOMAIN objects) /\ DOMAIN objects' \subseteq DOMAIN objects
    BY DEF IInv
  <2> QED
    BY <2>1, FS_Subset
<1>5. SureMeansOwn'
  <2> SUFFICES ASSUME NEW c \in Callers, NEW i \in call'[c].sure PROVE SureOf(c, i)'
    BY DEF SureMeansOwn
  <2> DEFINE key == call[c].keys[i]
  <2>1. /\ i \in call[c].sure /\ call'[c].op = call[c].op /\ call'[c].keys = call[c].keys
        /\ i \notin call'[c].left => i \notin call[c].left \/ (j.by = c /\ j.i = i)
    BY <1>2
  <2>2. SureOf(c, i)
    BY <2>1 DEF IInv, SureMeansOwn
  <2>3. call[c].op = "upload" => key \notin j.keys
    BY <2>2 DEF SureOf
  <2>4. ASSUME call[c].op = "upload", i \notin call'[c].left
        PROVE  key \in DOMAIN objects' /\ objects'[key] = [by |-> c, i |-> i]
    <3>1. i \notin call[c].left
      <4>1. ASSUME i \in call[c].left PROVE FALSE
        <5>1. j.by = c /\ j.i = i
          BY <2>1, <2>4, <4>1
        <5> QED
          BY <2>1, <2>4, <4>1, <5>1, AwaitedSave
      <4> QED
        BY <4>1
    <3> QED
      BY <2>2, <2>3, <2>4, <3>1 DEF SureOf
  <2>5. ASSUME call[c].op = "delete", driver = "supabase", key \in DOMAIN objects'
        PROVE  \E k \in jobs' : key \in k.keys
    <3>1. key \notin j.keys /\ key \in DOMAIN objects
      BY <2>5
    <3> QED
      BY <2>2, <2>5, <3>1 DEF SureOf
  <2>6. \A k \in jobs' : key \in k.keys =>
          /\ k.by = c
          /\ call[c].op = "upload" => k.kind = "save" /\ k.i = i
          /\ call[c].op = "delete" => k.kind = "remove"
    BY <2>2 DEF SureOf
  <2> QED
    BY <2>1, <2>4, <2>5, <2>6 DEF SureOf
<1> QED
  BY <1>2, <1>3, <1>4, <1>5 DEF IInv

LEMMA RemoveLandsStep ==
  ASSUME IInv, NEW j \in jobs, RemoveLands(j)
  PROVE  IInv'
<1>1. /\ j.kind = "remove" /\ jobs' = jobs \ {j} /\ Succeeds(j) /\ UNCHANGED <<driver, calls>>
      /\ objects' = [k \in DOMAIN objects \ j.keys |-> objects[k]]
  BY DEF RemoveLands
<1>2. /\ DOMAIN objects' \subseteq DOMAIN objects
      /\ \A k \in DOMAIN objects : k \notin j.keys => k \in DOMAIN objects'
      /\ \A k \in DOMAIN objects' : objects'[k] = objects[k]
      /\ driver = "supabase" => \A k \in DOMAIN objects' : k \notin j.keys
  BY <1>1
<1> QED
  BY <1>1, <1>2, RemovalStep

LEMMA RemoveFailsStep ==
  ASSUME IInv, NEW j \in jobs, RemoveFails(j)
  PROVE  IInv'
<1>1. /\ j.kind = "remove" /\ jobs' = jobs \ {j} /\ UNCHANGED <<driver, objects, calls>>
      /\ IF driver = "local" THEN Succeeds(j) ELSE Fails(j)
  BY DEF RemoveFails
<1>2. CASE driver = "local"
  <2>1. /\ DOMAIN objects' \subseteq DOMAIN objects /\ UNCHANGED <<driver, calls>>
        /\ \A k \in DOMAIN objects : k \notin j.keys => k \in DOMAIN objects'
        /\ \A k \in DOMAIN objects' : objects'[k] = objects[k]
        /\ driver = "supabase" => \A k \in DOMAIN objects' : k \notin j.keys
    BY <1>1, <1>2
  <2> QED
    BY <1>1, <1>2, <2>1, RemovalStep
<1>3. CASE driver # "local"
  BY <1>1, <1>3, FailureStep
<1> QED
  BY <1>2, <1>3

-----------------------------------------------------------------------------
(* The theorems.                                                           *)

LEMMA InitIInv == Init => IInv
<1> SUFFICES ASSUME Init PROVE IInv
  OBVIOUS
<1>1. NoCall \in Call
  <2>1. <<>> \in [1..0 -> Key] /\ 0 \in 0..MaxBatch
    BY StorageAssumption
  <2> QED
    BY <2>1 DEF NoCall, Call
<1>2. DOMAIN objects = {} /\ IsFiniteSet({})
  BY FS_EmptySet DEF Init
<1>3. TypeOK
  BY <1>1, <1>2, StorageAssumption DEF Init, TypeOK
<1>4. \A c \in Callers : call[c].sure = {} /\ call[c].answer = "none"
  BY DEF Init, NoCall
<1>5. CallsCoherent
  BY <1>4 DEF CallsCoherent
<1>6. JobsCounted /\ SureMeansOwn
  BY <1>4 DEF Init, JobsCounted, SureMeansOwn
<1> QED
  BY <1>2, <1>3, <1>5, <1>6 DEF IInv

LEMMA StutterKeeps == ASSUME IInv, UNCHANGED vars PROVE IInv'
<1>1. TypeOK' /\ IsFiniteSet(DOMAIN objects')
  BY DEF vars, IInv, TypeOK
<1>2. JobsCounted' /\ CallsCoherent'
  BY DEF vars, IInv, JobsCounted, CallsCoherent
<1>3. SureMeansOwn'
  <2> SUFFICES ASSUME NEW c \in Callers, NEW i \in call'[c].sure PROVE SureOf(c, i)'
    BY DEF SureMeansOwn
  <2>1. call' = call /\ objects' = objects /\ jobs' = jobs /\ driver' = driver
    BY DEF vars
  <2>2. SureOf(c, i)
    BY <2>1 DEF IInv, SureMeansOwn
  <2> QED
    BY <2>1, <2>2 DEF SureOf
<1> QED
  BY <1>1, <1>2, <1>3 DEF IInv

\* Every step of an upload, of a deletion and of their requests keeps the
\* inductive invariant.
THEOREM StorageInvariance == Spec => []IInv
<1>1. IInv /\ [Next]_vars => IInv'
  <2> SUFFICES ASSUME IInv, [Next]_vars PROVE IInv'
    OBVIOUS
  <2>1. CASE UNCHANGED vars
    BY <2>1, StutterKeeps
  <2>2. ASSUME NEW c \in Callers, UploadRefused(c) PROVE IInv'
    BY <2>2, RefusedStep
  <2>3. ASSUME NEW c \in Callers, UploadMany(c) PROVE IInv'
    BY <2>3, UploadStep
  <2>4. ASSUME NEW c \in Callers, DeleteMany(c) PROVE IInv'
    BY <2>4, DeleteStep
  <2>5. ASSUME NEW j \in jobs, SaveLands(j) PROVE IInv'
    BY <2>5, SaveLandsStep
  <2>6. ASSUME NEW j \in jobs, SaveFails(j) PROVE IInv'
    BY <2>6, FailureStep DEF SaveFails
  <2>7. ASSUME NEW j \in jobs, RemoveLands(j) PROVE IInv'
    BY <2>7, RemoveLandsStep
  <2>8. ASSUME NEW j \in jobs, RemoveFails(j) PROVE IInv'
    BY <2>8, RemoveFailsStep
  <2> QED
    BY <2>1, <2>2, <2>3, <2>4, <2>5, <2>6, <2>7, <2>8 DEF Next
<1> QED
  BY <1>1, InitIInv, PTL DEF Spec

\* Type correctness.
THEOREM StorageTypes == Spec => []TypeOK
<1>1. IInv => TypeOK
  BY DEF IInv
<1> QED
  BY <1>1, StorageInvariance, PTL

\* An upload that answered lists its files in the order of its arguments, each
\* stored under its own key, in whatever order the provider ended: unless two
\* uploads drew a key or somebody named it in a deletion.
THEOREM AnswersNameTheirObjects == Spec => []AnswerNamesItsObjects
<1>1. IInv => AnswerNamesItsObjects
  <2> SUFFICES ASSUME IInv, NEW c \in Callers, call[c].op = "upload", call[c].answer = "ok",
                      NEW i \in call[c].sure
               PROVE  /\ call[c].keys[i] \in DOMAIN objects
                      /\ objects[call[c].keys[i]] = [by |-> c, i |-> i]
    BY DEF AnswerNamesItsObjects
  <2>1. call[c].left = {} /\ SureOf(c, i)
    BY DEF IInv, CallsCoherent, SureMeansOwn
  <2> QED
    BY <2>1 DEF SureOf
<1> QED
  BY <1>1, StorageInvariance, PTL

\* What Supabase answered to be deleted is gone from both buckets.
THEOREM DeletedObjectsAreGone == Spec => []DeletedIsGone
<1>1. IInv => DeletedIsGone
  <2> SUFFICES ASSUME IInv, NEW c \in Callers, call[c].op = "delete", call[c].answer = "ok",
                      driver = "supabase", NEW i \in call[c].sure,
                      call[c].keys[i] \in DOMAIN objects
               PROVE  FALSE
    BY DEF DeletedIsGone
  <2>1. SureOf(c, i)
    BY DEF IInv, SureMeansOwn
  <2>2. PICK j \in jobs : call[c].keys[i] \in j.keys
    BY <2>1 DEF SureOf
  <2>3. j.by = c
    BY <2>1, <2>2 DEF SureOf
  <2> QED
    BY <2>3 DEF IInv, JobsCounted
<1> QED
  BY <1>1, StorageInvariance, PTL
=============================================================================
