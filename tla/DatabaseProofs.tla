--------------------------- MODULE DatabaseProofs ---------------------------
(***************************************************************************)
(* Proofs about the parts that MCDatabase runs, each for any size.          *)
(* DatabaseRefined says that the composition leaves every part to its own   *)
(* specification.                                                          *)
(*                                                                         *)
(* Catalog: a request that nobody overtook since its first read still knows  *)
(* what it read; any write makes every other request late.  So the invariant *)
(* says what a request knows while it is not late.                          *)
(*                                                                         *)
(* Migrations: the first one is recorded before the others, which stand on   *)
(* its tables, so a revert finds it last only when it is alone; what starts  *)
(* record between the two steps of that revert is all that can go astray.    *)
(* While nothing else happens a replica loses at most two attempts to the    *)
(* others, one to a race for TypeORM's table and one to the run that fills   *)
(* the record.                                                              *)
(*                                                                         *)
(* Paging: a row has a place, the number of rows before it.  A row added at  *)
(* the end of the list moves none, one that is deleted only moves others     *)
(* forward; so what a walk has seen stays at the places of its pages or      *)
(* before, and what it has not seen yet stays behind unless it moves.        *)
(***************************************************************************)
EXTENDS MCDatabase, Sequences, FiniteSetTheorems, TLAPS

-----------------------------------------------------------------------------
(* The composition.                                                        *)

\* A step of one part leaves the others alone.
LEMMA DatabaseSteps ==
  ASSUME [DatabaseNext]_<<part, vars, pagesVars, startupVars>>
  PROVE  /\ [Next]_vars /\ [Pages!Next]_(Pages!vars) /\ [Startup!Next]_(Startup!vars)
<1> USE DEF Startup!data, Startup!place, Startup!applied
<1>1. CASE RunsCatalog
  BY <1>1 DEF RunsCatalog, pagesVars, startupVars, Pages!vars, Startup!vars
<1>2. CASE RunsPages
  BY <1>2 DEF RunsPages, startupVars, Startup!vars
<1>3. CASE RunsStartup
  BY <1>3 DEF RunsStartup, pagesVars, Pages!vars
<1>4. CASE UNCHANGED <<part, vars, pagesVars, startupVars>>
  BY <1>4 DEF pagesVars, startupVars, Pages!vars, Startup!vars
<1> QED
  BY <1>1, <1>2, <1>3, <1>4 DEF DatabaseNext

\* Run beside the others, each part behaves as its own specification says: what
\* holds of the part holds of the composition.
THEOREM DatabaseRefined == DatabaseSpec => Spec /\ Pages!Spec /\ Startup!Spec
<1>1. DatabaseInit => Init /\ Pages!Init /\ Startup!Init
  BY DEF DatabaseInit
<1>2. [DatabaseNext]_<<part, vars, pagesVars, startupVars>> =>
        [Next]_vars /\ [Pages!Next]_(Pages!vars) /\ [Startup!Next]_(Startup!vars)
  BY DatabaseSteps
<1> QED
  BY <1>1, <1>2, PTL DEF DatabaseSpec, Spec, Pages!Spec, Startup!Spec

-----------------------------------------------------------------------------
(* Requests on cities and areas.                                           *)


Pending == {"checkCity", "checkName", "save", "delete"}

\* What a request carries, by its operation and its next query.
WellFormed(q) ==
  /\ q \in Request
  /\ q.pc = "idle" => q = Idle
  /\ q.pc \in Pending =>
       /\ q.op # "none" /\ q.code = "none"
       /\ q.op \in {"updateCity", "deleteCity"} => q.id \in Cities
       /\ q.op \in {"updateArea", "deleteArea"} => q.id \in Areas
       /\ q.op \in {"createCity", "createArea", "setHome"} => q.id = Nothing
       /\ q.pc = "delete" <=> q.op \in {"deleteCity", "deleteArea"}
       /\ q.pc = "checkCity" => q.op = "updateArea"
       /\ q.pc = "checkName" => q.op # "setHome"
       /\ q.pc # "delete" /\ q.op \notin CityOps => q.city \in Cities
       /\ q.pc # "delete" /\ q.op # "setHome" => q.name \in Names

\* What it knows while no other request has written.
Fresh(q) ==
  /\ q.pc \in {"checkName", "save"} /\ q.op \notin CityOps => cities[q.city] # Nothing
  /\ q.pc = "save" /\ q.op # "setHome" /\ ~MovesUnchecked(q) => Bearers(q) = {}
  /\ q.pc \in Pending /\ q.id \in gone => q.id \in revived
  /\ q.code # "INVALID_REFERENCE"
  /\ q.code = "DUPLICATE_RECORD" => MovesUnchecked(q)

RequestsKnow == \A r \in Requests : WellFormed(req[r]) /\ (req[r].late \/ Fresh(req[r]))

\* The unique indexes and the foreign key of the database.
NamesUnique ==
  /\ \A c, d \in Cities : cities[c] # Nothing /\ cities[c] = cities[d] => c = d
  /\ \A a, b \in Areas : areas[a] # NoArea /\ areas[a] = areas[b] => a = b
AreasHaveCities == \A a \in Areas : areas[a] # NoArea => cities[areas[a].city] # Nothing

TablesOK ==
  /\ cities \in [Cities -> Names \union {Nothing}]
  /\ areas \in [Areas -> [city : Cities, name : Names] \union {NoArea}]
  /\ home \in Cities \union {Nothing}
  /\ gone \subseteq Cities \union Areas /\ revived \subseteq gone

IInv ==
  /\ TablesOK
  /\ req \in [Requests -> Request]
  /\ RequestsKnow
  /\ NamesUnique
  /\ AreasHaveCities
  /\ DeletedStaysDeletedUnlessRaced

-----------------------------------------------------------------------------
(* Steps that only read.                                                   *)

\* A request that answers with one of the service's own errors.
LEMMA AnsweredKnows ==
  ASSUME NEW q \in Request, NEW code \in {"ok", "notFound", "conflict"}
  PROVE  /\ WellFormed(Answered(q, code)) /\ Fresh(Answered(q, code))
         /\ Answered(q, code).late = q.late
<1>1. /\ Answered(q, code).op = q.op /\ Answered(q, code).renames = q.renames
      /\ Answered(q, code).late = q.late /\ Answered(q, code).pc = "answered"
      /\ Answered(q, code).code = code
  BY DEF Answered
<1>2. Answered(q, code) \in Request
  <2>1. q.op \in CityOps \union AreaOps \union {"setHome", "none"} /\ q.renames \in BOOLEAN
        /\ q.late \in BOOLEAN
    BY DEF Request
  <2> QED
    BY <2>1 DEF Answered, Request
<1>3. WellFormed(Answered(q, code)) /\ Fresh(Answered(q, code))
  BY <1>1, <1>2 DEF WellFormed, Fresh, Pending
<1> QED
  BY <1>1, <1>3

\* ... or with the words for an error of the database.
LEMMA FailureKnows ==
  ASSUME NEW q \in Request, NEW code \in {"INVALID_REFERENCE", "DUPLICATE_RECORD"},
         q.late \/ (code = "DUPLICATE_RECORD" /\ MovesUnchecked(q))
  PROVE  /\ WellFormed(Answered(q, code))
         /\ Answered(q, code).late \/ Fresh(Answered(q, code))
<1>1. /\ Answered(q, code).op = q.op /\ Answered(q, code).renames = q.renames
      /\ Answered(q, code).late = q.late /\ Answered(q, code).pc = "answered"
      /\ Answered(q, code).code = code
  BY DEF Answered
<1>2. Answered(q, code) \in Request
  <2>1. q.op \in CityOps \union AreaOps \union {"setHome", "none"} /\ q.renames \in BOOLEAN
        /\ q.late \in BOOLEAN
    BY DEF Request
  <2> QED
    BY <2>1 DEF Answered, Request
<1> QED
  BY <1>1, <1>2 DEF WellFormed, Fresh, Pending, MovesUnchecked

LEMMA ReadStep ==
  ASSUME IInv, NEW r \in Requests, NEW q, WellFormed(q), q.late \/ Fresh(q),
         Becomes(r, q), NoWrite
  PROVE  IInv'
<1> USE DEF NoWrite, Becomes
<1>1. TablesOK' /\ NamesUnique' /\ AreasHaveCities' /\ DeletedStaysDeletedUnlessRaced'
  BY DEF IInv, TablesOK, NamesUnique, AreasHaveCities, DeletedStaysDeletedUnlessRaced, Present
<1>2. q \in Request
  BY DEF WellFormed
<1>3. req' \in [Requests -> Request]
  BY <1>2 DEF IInv
<1>4. ASSUME NEW s \in Requests
      PROVE  WellFormed(req[s])' /\ (req'[s].late \/ Fresh(req[s])')
  <2>1. req'[s] = IF s = r THEN q ELSE req[s]
    BY DEF IInv
  <2>2. WellFormed(req'[s]) /\ (req'[s].late \/ Fresh(req'[s]))
    BY <2>1 DEF IInv, RequestsKnow
  <2> QED
    BY <2>2 DEF WellFormed, Fresh, Bearers, MovesUnchecked
<1> QED
  BY <1>1, <1>3, <1>4 DEF IInv, RequestsKnow

\* What the first query of a change or a deletion leaves the request with.
LEMMA LoadKnows ==
  ASSUME IInv, NEW q \in Request, ~q.late, q.code = "none",
         q.op \in {"updateCity", "deleteCity", "updateArea", "deleteArea"},
         q.op # "updateArea" => q.city = Nothing,
         q.op \in {"updateCity", "deleteCity"} => q.id \in Cities,
         q.op \in {"updateArea", "deleteArea"} => q.id \in Areas
  PROVE  WellFormed(AfterLoad(q)) /\ Fresh(AfterLoad(q))
<1> DEFINE renames == q.name \notin {Nothing, NameOf(q.id)}
           a == [q EXCEPT
                  !.pc = CASE q.op \in {"deleteCity", "deleteArea"} -> "delete"
                           [] q.city # Nothing -> "checkCity"
                           [] OTHER            -> NameCheckOrSave(renames),
                  !.renames = renames,
                  !.city = IF @ = Nothing THEN CityOf(q.id) ELSE @,
                  !.name = IF @ = Nothing THEN NameOf(q.id) ELSE @]
<1>1. CASE ~Present(q.id)
  BY <1>1, AnsweredKnows DEF AfterLoad
<1>2. CASE Present(q.id)
  <2>1. AfterLoad(q) = a
    BY <1>2 DEF AfterLoad
  <2>2. NameOf(q.id) \in Names /\ CityOf(q.id) \in Cities \union {Nothing}
    BY <1>2, CatalogAssumption DEF IInv, TablesOK, Present, NameOf, CityOf, NoArea
  <2>3. q.id \in Areas => /\ CityOf(q.id) \in Cities /\ cities[CityOf(q.id)] # Nothing
                          /\ areas[q.id] = [city |-> CityOf(q.id), name |-> NameOf(q.id)]
    BY <1>2, CatalogAssumption
       DEF IInv, TablesOK, Present, NameOf, CityOf, NoArea, AreasHaveCities
  <2>4. q.id \in Cities => cities[q.id] = NameOf(q.id) /\ CityOf(q.id) = Nothing
    BY DEF NameOf, CityOf
  <2>5. /\ a.op = q.op /\ a.id = q.id /\ a.renames = renames /\ a.late = q.late
        /\ a.code = "none"
        /\ a.city = IF q.city = Nothing THEN CityOf(q.id) ELSE q.city
        /\ a.name = IF q.name = Nothing THEN NameOf(q.id) ELSE q.name
        /\ q.op \in {"deleteCity", "deleteArea"} => a.pc = "delete"
        /\ q.op \notin {"deleteCity", "deleteArea"} /\ q.city # Nothing => a.pc = "checkCity"
        /\ q.op \notin {"deleteCity", "deleteArea"} /\ q.city = Nothing
             => a.pc = NameCheckOrSave(renames)
    <3>1. a.pc = CASE q.op \in {"deleteCity", "deleteArea"} -> "delete"
                   [] q.city # Nothing -> "checkCity"
                   [] OTHER            -> NameCheckOrSave(renames)
      BY DEF Request
    <3>2. /\ a.op = q.op /\ a.id = q.id /\ a.renames = renames /\ a.late = q.late
          /\ a.code = "none"
          /\ a.city = IF q.city = Nothing THEN CityOf(q.id) ELSE q.city
          /\ a.name = IF q.name = Nothing THEN NameOf(q.id) ELSE q.name
      BY DEF Request
    <3>3. q.op \in {"deleteCity", "deleteArea"} => a.pc = "delete"
      BY <3>1
    <3>4. q.op \notin {"deleteCity", "deleteArea"} /\ q.city # Nothing => a.pc = "checkCity"
      BY <3>1
    <3>5. q.op \notin {"deleteCity", "deleteArea"} /\ q.city = Nothing
            => a.pc = NameCheckOrSave(renames)
      BY <3>1
    <3> QED
      BY <3>2, <3>3, <3>4, <3>5
  <2>6. a.pc \in Pending /\ a \in Request
    BY <2>2 DEF Request, Pending, NameCheckOrSave
  <2> HIDE DEF a
  <2>7. WellFormed(a)
    <3>1. /\ a.pc # "idle" /\ a.op # "none"
          /\ a.op \notin {"createCity", "createArea", "setHome"}
          /\ a.pc = "delete" <=> a.op \in {"deleteCity", "deleteArea"}
      BY <2>5 DEF NameCheckOrSave
    <3>2. a.pc = "checkCity" => a.op = "updateArea"
      BY <2>5 DEF NameCheckOrSave
    <3>3. a.op \notin CityOps => a.city \in Cities
      BY <2>3, <2>5 DEF CityOps, Request
    <3>4. a.name \in Names
      BY <2>2, <2>5 DEF Request
    <3> QED
      BY <2>5, <2>6, <3>1, <3>2, <3>3, <3>4 DEF WellFormed
  <2>8. Fresh(a)
    <3>1. a.pc \in {"checkName", "save"} /\ a.op \notin CityOps => cities[a.city] # Nothing
      BY <2>3, <2>5 DEF CityOps, NameCheckOrSave
    <3>2. a.pc = "save" /\ ~MovesUnchecked(a) => Bearers(a) = {}
      <4> SUFFICES ASSUME a.pc = "save", ~MovesUnchecked(a) PROVE Bearers(a) = {}
        OBVIOUS
      <4>1. a.op = "updateCity" /\ a.name = NameOf(a.id) /\ a.id \in Cities
        BY <2>5 DEF MovesUnchecked, NameCheckOrSave
      <4> QED
        BY <2>2, <2>4, <2>5, <4>1, CatalogAssumption DEF Bearers, CityOps, IInv, NamesUnique
    <3>3. a.id \in gone => a.id \in revived
      BY <1>2, <2>5 DEF IInv, DeletedStaysDeletedUnlessRaced
    <3> QED
      BY <2>5, <3>1, <3>2, <3>3 DEF Fresh
  <2> QED
    BY <2>1, <2>7, <2>8
<1> QED
  BY <1>1, <1>2

\* assertExists.
LEMMA CityKnows ==
  ASSUME IInv, NEW q \in Request, q.code = "none", q.id \in gone => q.late \/ q.id \in revived,
         q.city \in Cities,
         \/ q.op = "updateArea" /\ q.id \in Areas /\ q.name \in Names
         \/ q.op = "createArea" /\ q.id = Nothing /\ q.name \in Names /\ q.renames
         \/ q.op = "setHome" /\ q.id = Nothing /\ ~q.renames
  PROVE  WellFormed(AfterCity(q)) /\ (AfterCity(q).late \/ Fresh(AfterCity(q)))
<1> DEFINE a == [q EXCEPT !.pc = NameCheckOrSave(q.renames)]
<1>1. CASE cities[q.city] = Nothing
  BY <1>1, AnsweredKnows DEF AfterCity
<1>2. CASE cities[q.city] # Nothing
  <2>1. AfterCity(q) = a
    BY <1>2 DEF AfterCity
  <2>2. /\ a.op = q.op /\ a.id = q.id /\ a.renames = q.renames /\ a.late = q.late
        /\ a.code = "none" /\ a.city = q.city /\ a.name = q.name
        /\ a.pc = NameCheckOrSave(q.renames) /\ a \in Request
    BY DEF Request, NameCheckOrSave
  <2> HIDE DEF a
  <2>3. WellFormed(a)
    BY <2>2 DEF WellFormed, Pending, CityOps, NameCheckOrSave
  <2>4. a.late \/ Fresh(a)
    BY <1>2, <2>2 DEF Fresh, MovesUnchecked, NameCheckOrSave, Pending
  <2> QED
    BY <2>1, <2>3, <2>4
<1> QED
  BY <1>1, <1>2

\* The queries by name.
LEMMA NameKnows ==
  ASSUME IInv, NEW q \in Request, q.code = "none", q.id \in gone => q.late \/ q.id \in revived,
         q.name \in Names,
         \/ q.op = "createCity" /\ q.id = Nothing
         \/ q.op = "updateCity" /\ q.id \in Cities
         \/ /\ (q.op = "createArea" /\ q.id = Nothing) \/ (q.op = "updateArea" /\ q.id \in Areas)
            /\ q.city \in Cities /\ (q.late \/ cities[q.city] # Nothing)
  PROVE  WellFormed(AfterName(q)) /\ (AfterName(q).late \/ Fresh(AfterName(q)))
<1> DEFINE a == [q EXCEPT !.pc = "save"]
<1>1. CASE Bearers(q) # {}
  BY <1>1, AnsweredKnows DEF AfterName
<1>2. CASE Bearers(q) = {}
  <2>1. AfterName(q) = a
    BY <1>2 DEF AfterName
  <2>2. /\ a.op = q.op /\ a.id = q.id /\ a.renames = q.renames /\ a.late = q.late
        /\ a.code = "none" /\ a.city = q.city /\ a.name = q.name
        /\ a.pc = "save" /\ a \in Request
    BY DEF Request
  <2> HIDE DEF a
  <2>3. WellFormed(a)
    BY <2>2 DEF WellFormed, Pending, CityOps
  <2>4. Bearers(a) = {}
    BY <1>2, <2>2 DEF Bearers
  <2>5. a.late \/ Fresh(a)
    BY <2>2, <2>4 DEF Fresh, CityOps
  <2> QED
    BY <2>1, <2>3, <2>5
<1> QED
  BY <1>1, <1>2

LEMMA ArriveStep ==
  ASSUME IInv, NEW r \in Requests, Arrive(r)
  PROVE  IInv'
<1>1. PICK op \in CityOps \union AreaOps \union {"setHome"},
           id \in Cities \union Areas \union {Nothing},
           city \in Cities \union {Nothing}, name \in Names \union {Nothing} :
        LET q == [op |-> op, pc |-> "idle", id |-> id, city |-> city, name |-> name,
                    renames |-> op \in {"createCity", "createArea"}, late |-> FALSE,
                    code |-> "none"]
        IN
        /\ id \in CASE op \in {"updateCity", "deleteCity"} -> Cities
                    [] op \in {"updateArea", "deleteArea"} -> Areas
                    [] OTHER                               -> {Nothing}
        /\ op \in {"createArea", "setHome"} => city # Nothing
        /\ op \in CityOps \union {"deleteArea"} => city = Nothing
        /\ op \in {"createCity", "createArea"} => name # Nothing
        /\ op \in {"deleteCity", "deleteArea", "setHome"} => name = Nothing
        /\ Becomes(r, CASE id # Nothing      -> AfterLoad(q)
                        [] op = "createCity" -> AfterName(q)
                        [] OTHER             -> AfterCity(q))
  BY DEF Arrive
<1>2. PICK q : q = [op |-> op, pc |-> "idle", id |-> id, city |-> city, name |-> name,
                    renames |-> op \in {"createCity", "createArea"}, late |-> FALSE,
                    code |-> "none"]
  OBVIOUS
<1>3. /\ op \in {"updateCity", "deleteCity"} => id \in Cities
      /\ op \in {"updateArea", "deleteArea"} => id \in Areas
      /\ op \in {"createCity", "createArea", "setHome"} => id = Nothing
  BY <1>1
<1>4. /\ op \in {"createArea", "setHome"} => city # Nothing
      /\ op \in CityOps \union {"deleteArea"} => city = Nothing
      /\ op \in {"createCity", "createArea"} => name # Nothing
      /\ Becomes(r, CASE id # Nothing      -> AfterLoad(q)
                      [] op = "createCity" -> AfterName(q)
                      [] OTHER             -> AfterCity(q))
  BY <1>1, <1>2
<1>5. q \in Request /\ ~q.late /\ q.code = "none" /\ q.op = op /\ q.id = id /\ q.city = city
        /\ q.name = name /\ q.renames = (op \in {"createCity", "createArea"})
  BY <1>2 DEF Request
<1>6. NoWrite
  BY DEF Arrive
<1>7. Nothing \notin Cities \union Areas \union Names
  BY CatalogAssumption
<1>8. CASE id # Nothing
  <2>1. WellFormed(AfterLoad(q)) /\ Fresh(AfterLoad(q))
    BY <1>3, <1>4, <1>5, <1>8, LoadKnows DEF CityOps, AreaOps
  <2>2. Becomes(r, AfterLoad(q))
    BY <1>3, <1>4, <1>8
  <2> QED
    BY <1>6, <2>1, <2>2, ReadStep
<1>9. CASE op = "createCity"
  <2>1. WellFormed(AfterName(q)) /\ (AfterName(q).late \/ Fresh(AfterName(q)))
    BY <1>3, <1>4, <1>5, <1>7, <1>9, NameKnows DEF CityOps, AreaOps, IInv, TablesOK
  <2>2. Becomes(r, AfterName(q))
    BY <1>3, <1>4, <1>9
  <2> QED
    BY <1>6, <2>1, <2>2, ReadStep
<1>10. CASE id = Nothing /\ op # "createCity"
  <2>1. op \in {"createArea", "setHome"}
    BY <1>3, <1>7, <1>10 DEF CityOps, AreaOps
  <2>2. WellFormed(AfterCity(q)) /\ (AfterCity(q).late \/ Fresh(AfterCity(q)))
    <3>1. /\ q.code = "none" /\ q.id = Nothing /\ q.city \in Cities
          /\ q.op = "createArea" => q.name \in Names /\ q.renames
          /\ q.op = "setHome" => ~q.renames
          /\ q.op \in {"createArea", "setHome"}
      BY <1>4, <1>5, <1>10, <2>1
    <3>2. q.id \notin gone
      BY <1>7, <3>1 DEF IInv, TablesOK
    <3> QED
      BY <1>5, <3>1, <3>2, CityKnows
  <2>3. Becomes(r, AfterCity(q))
    BY <1>4, <1>10
  <2> QED
    BY <1>6, <2>2, <2>3, ReadStep
<1> QED
  BY <1>8, <1>9, <1>10

LEMMA QueryStep ==
  ASSUME IInv, NEW r \in Requests, CheckCity(r) \/ CheckName(r) \/ Done(r)
  PROVE  IInv'
<1> DEFINE q == req[r]
<1>1. q \in Request /\ WellFormed(q) /\ (q.late \/ Fresh(q)) /\ NoWrite
  BY DEF IInv, RequestsKnow, CheckCity, CheckName, Done
<1> HIDE DEF q
<1>2. CASE CheckCity(r)
  <2>1. q.pc = "checkCity" /\ Becomes(r, AfterCity(q))
    BY <1>2 DEF CheckCity, At, q
  <2>2. WellFormed(AfterCity(q)) /\ (AfterCity(q).late \/ Fresh(AfterCity(q)))
    BY <1>1, <2>1, CityKnows DEF WellFormed, Fresh, Pending, CityOps
  <2> QED
    BY <1>1, <2>1, <2>2, ReadStep
<1>3. CASE CheckName(r)
  <2>1. q.pc = "checkName" /\ Becomes(r, AfterName(q))
    BY <1>3 DEF CheckName, At, q
  <2>2. q.op \in {"createCity", "updateCity", "createArea", "updateArea"}
    BY <1>1, <2>1 DEF WellFormed, Pending, Request, CityOps, AreaOps
  <2>3. WellFormed(AfterName(q)) /\ (AfterName(q).late \/ Fresh(AfterName(q)))
    <3>1. /\ q.code = "none" /\ q.name \in Names
          /\ q.op \in {"createCity", "createArea"} => q.id = Nothing
          /\ q.op = "updateCity" => q.id \in Cities
          /\ q.op = "updateArea" => q.id \in Areas
          /\ q.op \in {"createArea", "updateArea"} => q.city \in Cities
      BY <1>1, <2>1, <2>2 DEF WellFormed, Pending, CityOps
    <3>2. q.id \in gone => q.late \/ q.id \in revived
      BY <1>1, <2>1 DEF Fresh, Pending
    <3>3. q.op \in {"createArea", "updateArea"} => q.late \/ cities[q.city] # Nothing
      BY <1>1, <2>1 DEF Fresh, CityOps
    <3>4. \/ q.op = "createCity" /\ q.id = Nothing
          \/ q.op = "updateCity" /\ q.id \in Cities
          \/ /\ (q.op = "createArea" /\ q.id = Nothing) \/ (q.op = "updateArea" /\ q.id \in Areas)
             /\ q.city \in Cities /\ (q.late \/ cities[q.city] # Nothing)
      BY <2>2, <3>1, <3>3
    <3> QED
      BY <1>1, <3>1, <3>2, <3>4, NameKnows
  <2> QED
    BY <1>1, <2>1, <2>3, ReadStep
<1>4. CASE Done(r)
  <2>1. WellFormed(Idle) /\ Fresh(Idle)
    <3>1. Idle \in Request
      BY DEF Idle, Request
    <3> QED
      BY <3>1 DEF WellFormed, Fresh, Idle, Pending
  <2> QED
    BY <1>1, <1>4, <2>1, ReadStep DEF Done
<1> QED
  BY <1>2, <1>3, <1>4

-----------------------------------------------------------------------------
(* Steps that write.                                                       *)

LEMMA WroteKnows ==
  ASSUME IInv, NEW r \in Requests, ~At(r, "idle"), Wrote(r)
  PROVE  req' \in [Requests -> Request] /\ RequestsKnow'
<1>1. ASSUME NEW s \in Requests
      PROVE  WellFormed(req'[s]) /\ (req'[s].late \/ Fresh(req[s])')
  <2>1. req[s] \in Request /\ WellFormed(req[s])
    BY DEF IInv, RequestsKnow
  <2>2. CASE s = r
    <3>1. req'[s] = Answered(req[s], "ok")
      BY <2>2 DEF Wrote
    <3>2. WellFormed(Answered(req[s], "ok"))
      BY <2>1, AnsweredKnows
    <3>3. req'[s].pc = "answered" /\ req'[s].code = "ok"
      BY <3>1 DEF Answered
    <3> QED
      BY <3>1, <3>2, <3>3 DEF Fresh, Pending
  <2>3. CASE s # r /\ At(s, "idle")
    <3>1. req'[s] = req[s] /\ req[s] = Idle
      BY <2>1, <2>3 DEF Wrote, At, WellFormed
    <3> QED
      BY <2>1, <3>1 DEF Fresh, Idle, Pending
  <2>4. CASE s # r /\ ~At(s, "idle")
    <3>1. req'[s] = [req[s] EXCEPT !.late = TRUE]
      BY <2>4 DEF Wrote
    <3>2. req'[s] \in Request /\ req'[s].late
      BY <2>1, <3>1 DEF Request
    <3>3. WellFormed(req'[s])
      BY <2>1, <2>4, <3>1, <3>2 DEF WellFormed, Request, Pending, At
    <3> QED
      BY <3>2, <3>3
  <2> QED
    BY <2>2, <2>3, <2>4
<1>2. req' \in [Requests -> Request]
  <2>1. \A s \in Requests : req'[s] \in Request
    BY <1>1 DEF WellFormed
  <2> QED
    BY <2>1 DEF Wrote
<1>3. \A s \in Requests : WellFormed(req'[s]) <=> WellFormed(req[s])'
  BY DEF WellFormed, Pending
<1> QED
  BY <1>1, <1>2, <1>3 DEF RequestsKnow

LEMMA SaveStep ==
  ASSUME IInv, NEW r \in Requests, Save(r)
  PROVE  IInv'
<1>1. PICK q \in Request : q = req[r]
  BY DEF IInv
<1>2. WellFormed(q) /\ (q.late \/ Fresh(q)) /\ q.pc = "save"
  BY <1>1 DEF IInv, RequestsKnow, Save, At
<1> DEFINE dangling == q.op \notin CityOps /\ cities[q.city] = Nothing
           taken    == q.op # "setHome" /\ Bearers(q) # {}
<1>3. ~(dangling /\ taken)
  <2> SUFFICES ASSUME dangling, taken PROVE FALSE
    OBVIOUS
  <2>1. PICK a \in Areas : areas[a] = [city |-> q.city, name |-> q.name]
    BY DEF Bearers
  <2>2. areas[a].city = q.city /\ areas[a].name = q.name /\ q.name \in Names
    BY <1>2, <2>1 DEF WellFormed, Pending
  <2> QED
    BY <2>2, CatalogAssumption DEF IInv, AreasHaveCities, NoArea
<1>4. CASE dangling
  <2>1. Becomes(r, Answered(q, "INVALID_REFERENCE")) /\ NoWrite
    BY <1>1, <1>3, <1>4 DEF Save
  <2>2. q.late
    BY <1>2, <1>4 DEF Fresh
  <2> QED
    BY <1>1, <2>1, <2>2, FailureKnows, ReadStep
<1>5. CASE taken
  <2>1. Becomes(r, Answered(q, "DUPLICATE_RECORD")) /\ NoWrite
    BY <1>1, <1>3, <1>5 DEF Save
  <2>2. q.late \/ MovesUnchecked(q)
    BY <1>2, <1>5 DEF Fresh
  <2> QED
    BY <1>1, <2>1, <2>2, FailureKnows, ReadStep
<1>6. CASE ~dangling /\ ~taken
  <2>1. PICK id \in IF q.id # Nothing \/ q.op = "setHome" THEN {q.id}
                    ELSE {i \in (IF q.op \in CityOps THEN Cities ELSE Areas) \ gone :
                            ~Present(i)} :
          /\ cities' = IF q.op \in CityOps
                         THEN [cities EXCEPT ![id] = q.name] ELSE cities
          /\ areas'  = IF q.op \in AreaOps
                         THEN [areas EXCEPT ![id] = [city |-> q.city,
                                                     name |-> q.name]]
                         ELSE areas
          /\ home'   = IF q.op = "setHome" THEN q.city ELSE home
          /\ revived' = IF q.late /\ id \in gone THEN revived \union {id}
                                                 ELSE revived
          /\ Wrote(r)
          /\ gone' = gone
    BY <1>1, <1>6 DEF Save
  <2>2. RequestsKnow' /\ req' \in [Requests -> Request]
    BY <1>1, <1>2, <2>1, WroteKnows DEF At
  <2>3. /\ q.op \in CityOps => id \in Cities /\ q.name \in Names
        /\ q.op \in AreaOps => id \in Areas /\ q.name \in Names
        /\ q.op \notin CityOps => q.city \in Cities /\ cities[q.city] # Nothing
        /\ q.op \in CityOps \union AreaOps \union {"setHome"}
    <3>1. /\ q.op \in {"createCity", "updateCity", "createArea", "updateArea", "setHome"}
          /\ q.op = "updateCity" => q.id \in Cities
          /\ q.op = "updateArea" => q.id \in Areas
          /\ q.op \in {"createCity", "createArea", "setHome"} => q.id = Nothing
          /\ q.op \notin CityOps => q.city \in Cities
          /\ q.op # "setHome" => q.name \in Names
      BY <1>2 DEF WellFormed, Pending, Request, CityOps, AreaOps
    <3> QED
      BY <1>6, <2>1, <3>1, CatalogAssumption DEF CityOps, AreaOps
  <2>4. id = q.id \/ (q.id = Nothing /\ id \notin gone /\ ~Present(id))
    BY <2>1
  <2>5. id \in gone => q.late \/ id \in revived
    BY <1>2, <2>4 DEF Fresh, Pending
  <2>6. TablesOK'
    BY <2>1, <2>3 DEF IInv, TablesOK, CityOps, AreaOps
  <2>7. NamesUnique'
    <3>1. CASE q.op \in CityOps
      <4>1. areas' = areas /\ cities' = [cities EXCEPT ![id] = q.name]
        BY <2>1, <3>1 DEF CityOps, AreaOps
      <4>2. \A c \in Cities \ {id} : cities[c] # q.name
        <5>1. {c \in Cities \ {q.id} : cities[c] = q.name} = {}
          BY <1>6, <3>1 DEF Bearers, CityOps
        <5> QED
          BY <2>4, <5>1, CatalogAssumption
      <4> QED
        BY <2>3, <3>1, <4>1, <4>2 DEF IInv, TablesOK, NamesUnique
    <3>2. CASE q.op \in AreaOps
      <4> DEFINE row == [city |-> q.city, name |-> q.name]
      <4>1. cities' = cities /\ areas' = [areas EXCEPT ![id] = row]
        BY <2>1, <3>2 DEF CityOps, AreaOps
      <4>2. \A b \in Areas \ {id} : areas[b] # row
        <5>1. {b \in Areas \ {q.id} : areas[b] = row} = {}
          BY <1>6, <3>2 DEF Bearers, CityOps, AreaOps
        <5> QED
          BY <2>4, <5>1, CatalogAssumption
      <4> HIDE DEF row
      <4> QED
        BY <2>3, <3>2, <4>1, <4>2 DEF IInv, TablesOK, NamesUnique
    <3>3. CASE q.op = "setHome"
      BY <2>1, <3>3 DEF CityOps, AreaOps, IInv, NamesUnique
    <3> QED
      BY <2>3, <3>1, <3>2, <3>3
  <2>8. AreasHaveCities'
    <3>1. \A c \in Cities : cities[c] # Nothing => cities'[c] # Nothing
      BY <2>1, <2>3, CatalogAssumption DEF IInv, TablesOK
    <3>2. \A a \in Areas : areas[a] # NoArea => areas[a].city \in Cities
      BY CatalogAssumption DEF IInv, TablesOK
    <3>3. CASE q.op \in AreaOps
      BY <2>1, <2>3, <3>1, <3>2, <3>3 DEF CityOps, AreaOps, IInv, TablesOK, AreasHaveCities
    <3>4. CASE q.op \notin AreaOps
      BY <2>1, <3>1, <3>2, <3>4 DEF IInv, AreasHaveCities
    <3> QED
      BY <3>3, <3>4
  <2>9. DeletedStaysDeletedUnlessRaced'
    <3> SUFFICES ASSUME NEW i \in gone \ revived' PROVE ~Present(i)'
      BY <2>1 DEF DeletedStaysDeletedUnlessRaced
    <3>1. i # id /\ ~Present(i) /\ i \in Cities \union Areas
      BY <2>1, <2>5 DEF IInv, TablesOK, DeletedStaysDeletedUnlessRaced
    <3> QED
      BY <2>1, <3>1 DEF IInv, TablesOK, Present
  <2> QED
    BY <2>2, <2>6, <2>7, <2>8, <2>9 DEF IInv
<1> QED
  BY <1>4, <1>5, <1>6

LEMMA DeleteStep ==
  ASSUME IInv, NEW r \in Requests, Delete(r)
  PROVE  IInv'
<1>1. PICK q \in Request : q = req[r]
  BY DEF IInv
<1>2. WellFormed(q) /\ (q.late \/ Fresh(q)) /\ q.pc = "delete"
  BY <1>1 DEF IInv, RequestsKnow, Delete, At
<1>3. q.id \in Cities \union Areas
  BY <1>2 DEF WellFormed, Pending
<1> DEFINE removed == {q.id} \union {a \in Areas : areas[a].city = q.id}
<1>4. CASE q.id = home /\ home # Nothing
  <2>1. Becomes(r, Answered(q, "conflict")) /\ NoWrite
    BY <1>1, <1>4 DEF Delete
  <2> QED
    BY <1>1, <2>1, AnsweredKnows, ReadStep
<1>5. CASE ~(q.id = home /\ home # Nothing)
  <2>1. /\ cities' = [c \in Cities |-> IF c \in removed THEN Nothing ELSE cities[c]]
        /\ areas'  = [a \in Areas |-> IF a \in removed THEN NoArea ELSE areas[a]]
        /\ gone' = gone \union removed /\ revived' = revived \ removed
        /\ Wrote(r)
        /\ home' = home
    BY <1>1, <1>5 DEF Delete
  <2>2. RequestsKnow' /\ req' \in [Requests -> Request]
    BY <1>1, <1>2, <2>1, WroteKnows DEF At
  <2>3. /\ removed \subseteq Cities \union Areas
        /\ \A c \in Cities \ {q.id} : c \notin removed
        /\ \A a \in Areas \ removed : areas[a].city # q.id
    BY <1>3, CatalogAssumption
  <2> HIDE DEF removed
  <2>4. TablesOK'
    BY <2>1, <2>3 DEF IInv, TablesOK
  <2>5. NamesUnique'
    BY <2>1 DEF IInv, NamesUnique
  <2>6. AreasHaveCities'
    <3> SUFFICES ASSUME NEW a \in Areas, areas'[a] # NoArea
                 PROVE  cities'[areas'[a].city] # Nothing
      BY DEF AreasHaveCities
    <3>1. areas'[a] = areas[a] /\ a \notin removed /\ areas[a] # NoArea
      BY <2>1
    <3>2. areas[a].city \in Cities \ {q.id} /\ cities[areas[a].city] # Nothing
      BY <2>3, <3>1 DEF IInv, TablesOK, AreasHaveCities
    <3> QED
      BY <2>1, <2>3, <3>1, <3>2
  <2>7. DeletedStaysDeletedUnlessRaced'
    <3> SUFFICES ASSUME NEW i \in gone' \ revived' PROVE ~Present(i)'
      BY DEF DeletedStaysDeletedUnlessRaced
    <3>1. i \in Cities \union Areas /\ (i \in removed \/ ~Present(i))
      BY <2>1, <2>3 DEF IInv, TablesOK, DeletedStaysDeletedUnlessRaced
    <3> QED
      BY <2>1, <3>1 DEF Present
  <2> QED
    BY <2>2, <2>4, <2>5, <2>6, <2>7 DEF IInv
<1> QED
  BY <1>4, <1>5

-----------------------------------------------------------------------------
(* The theorems.                                                           *)

\* The invariant: what requests know while nobody overtook them, the unique
\* names, the areas that have their city, what deletions leave.
THEOREM CatalogInvariance == Spec => []IInv
<1>1. Init => IInv
  <2> SUFFICES ASSUME Init PROVE IInv
    OBVIOUS
  <2>1. Idle \in Request
    BY DEF Idle, Request
  <2>2. TablesOK /\ req \in [Requests -> Request]
    BY <2>1 DEF Init, TablesOK
  <2>3. RequestsKnow
    BY <2>1 DEF Init, RequestsKnow, WellFormed, Fresh, Idle, Pending
  <2>4. NamesUnique /\ AreasHaveCities /\ DeletedStaysDeletedUnlessRaced
    BY DEF Init, NamesUnique, AreasHaveCities, DeletedStaysDeletedUnlessRaced
  <2> QED
    BY <2>2, <2>3, <2>4 DEF IInv
<1>2. IInv /\ [Next]_vars => IInv'
  <2> SUFFICES ASSUME IInv, [Next]_vars PROVE IInv'
    OBVIOUS
  <2>1. CASE Next
    BY <2>1, ArriveStep, QueryStep, SaveStep, DeleteStep DEF Next
  <2>2. CASE UNCHANGED vars
    <3> USE <2>2 DEF vars
    <3>1. TablesOK' /\ NamesUnique' /\ AreasHaveCities' /\ (req \in [Requests -> Request])'
      BY DEF IInv, TablesOK, NamesUnique, AreasHaveCities
    <3>2. RequestsKnow'
      BY DEF IInv, RequestsKnow, WellFormed, Fresh, Bearers, MovesUnchecked
    <3>3. DeletedStaysDeletedUnlessRaced'
      BY DEF IInv, DeletedStaysDeletedUnlessRaced, Present
    <3> QED
      BY <3>1, <3>2, <3>3 DEF IInv
  <2> QED
    BY <2>1, <2>2
<1> QED
  BY <1>1, <1>2, PTL DEF Spec

\* Every variable has its type, and only what was deleted can be revived.
THEOREM CatalogTypes == Spec => []TypeOK
<1>1. IInv => TypeOK
  BY DEF IInv, TablesOK, TypeOK
<1> QED
  BY <1>1, CatalogInvariance, PTL

\* assertExists and the checks by name spare every request the generic answers
\* to database errors, unless another overtook it after its first read or it
\* moves an area under the name it has.
THEOREM GenericErrorsOnlyRaced == Spec => []GenericErrorOnlyIfRaced
<1>1. IInv => GenericErrorOnlyIfRaced
  BY DEF IInv, RequestsKnow, Fresh, GenericErrorOnlyIfRaced
<1> QED
  BY <1>1, CatalogInvariance, PTL

\* A deleted city, and each of its areas, stays deleted, unless a request that
\* had loaded it before the deletion saves its copy after it.
THEOREM DeletedStaysDeleted == Spec => []DeletedStaysDeletedUnlessRaced
<1>1. IInv => DeletedStaysDeletedUnlessRaced
  BY DEF IInv
<1> QED
  BY <1>1, CatalogInvariance, PTL

-----------------------------------------------------------------------------
(* Migrations: what each creates and undoes.                               *)

\* What each of them adds to the schema.
LEMMA WhatMigrationsCreate ==
  /\ Startup!Creates(1) =
       {"gender_enum", "otp_purpose_enum", "admins", "admins_idx", "cities", "cities_idx",
        "areas", "areas_idx", "areas_city_fk", "users", "users_idx", "users_city_fk",
        "otps", "otps_idx", "refresh_tokens", "tokens_idx"}
  /\ Startup!Creates(2) = {"tokens_expires_idx", "otps_created_idx"}
  /\ Startup!Creates(3) = {"admins_active", "users_active"}
  /\ Startup!Creates(4) = {"users_phone32", "admins_phone32", "pg_trgm", "users_trgm"}
<1>1. /\ Startup!Up(1) = Startup!InitUp /\ Startup!Up(2) = Startup!AddCleanupIndexesUp
      /\ Startup!Up(3) = Startup!AddIsActiveUp /\ Startup!Up(4) = Startup!AddUserSearchIndexesUp
  BY DEF Startup!Up
<1>2. Startup!Creates(1) =
       {"gender_enum", "otp_purpose_enum", "admins", "admins_idx", "cities", "cities_idx",
        "areas", "areas_idx", "areas_city_fk", "users", "users_idx", "users_city_fk",
        "otps", "otps_idx", "refresh_tokens", "tokens_idx"}
  BY <1>1 DEF Startup!Creates, Startup!InitUp, Startup!Plain
<1>3. Startup!Creates(2) = {"tokens_expires_idx", "otps_created_idx"}
  BY <1>1 DEF Startup!Creates, Startup!AddCleanupIndexesUp, Startup!Maybe
<1>4. Startup!Creates(3) = {"admins_active", "users_active"}
  BY <1>1 DEF Startup!Creates, Startup!AddIsActiveUp, Startup!Maybe
<1>5. Startup!Creates(4) = {"users_phone32", "admins_phone32", "pg_trgm", "users_trgm"}
  BY <1>1 DEF Startup!Creates, Startup!AddUserSearchIndexesUp, Startup!Maybe
<1> QED
  BY <1>2, <1>3, <1>4, <1>5

\* All four run on a schema that has nothing but the extension.
LEMMA RunsFromNothing ==
  ASSUME NEW objs, objs \subseteq {"pg_trgm"}
  PROVE  Startup!RunAll(Startup!All, objs)
           = objs \union (UNION {Startup!Creates(m) : m \in Startup!All})
<1> DEFINE There(m, i) ==
             objs \union (UNION {Startup!Creates(n) : n \in {n \in Startup!All : n < m}})
                  \union {Startup!Up(m)[j].name : j \in 1..(i - 1)}
           Works(m, i) ==
             /\ Startup!Stands(Startup!Up(m)[i].name) \subseteq There(m, i)
             /\ Startup!Up(m)[i].new => Startup!Up(m)[i].name \notin There(m, i)
<1>1. /\ Startup!Up(1) = Startup!InitUp /\ Startup!Up(2) = Startup!AddCleanupIndexesUp
      /\ Startup!Up(3) = Startup!AddIsActiveUp /\ Startup!Up(4) = Startup!AddUserSearchIndexesUp
  BY DEF Startup!Up
<1>2. \A i \in DOMAIN Startup!Up(1) : Works(1, i)
  <2>1. UNION {Startup!Creates(n) : n \in {n \in Startup!All : n < 1}} = {}
    BY DEF Startup!All
  <2>2. DOMAIN Startup!Up(1) = 1..16
    BY <1>1 DEF Startup!InitUp, Startup!Plain
  <2>3. ASSUME NEW i \in 1..16, NEW x
        PROVE  x \in There(1, i) <=> x \in objs \/ \E j \in 1..(i - 1) : x = Startup!Up(1)[j].name
    <3>1. x \notin UNION {Startup!Creates(n) : n \in {n \in Startup!All : n < 1}}
      BY <2>1
    <3> QED
      BY <3>1, Zenon
  <2> HIDE DEF There
  <2>4. ASSUME NEW i \in 1..16 PROVE Startup!Up(1)[i].name \notin There(1, i)
    BY <1>1, <2>3 DEF Startup!InitUp, Startup!Plain
  <2>5. ASSUME NEW i \in 1..16 PROVE Startup!Stands(Startup!Up(1)[i].name) \subseteq There(1, i)
    BY <1>1, <2>3 DEF Startup!InitUp, Startup!Plain, Startup!Stands
  <2> QED
    BY <2>2, <2>4, <2>5
<1>3. \A m \in 2..4 : \A i \in DOMAIN Startup!Up(m) : Works(m, i)
  <2>1. \A m \in 2..4, i \in Nat : Startup!Creates(1) \subseteq There(m, i)
    BY DEF Startup!All
  <2>3. "pg_trgm" \in There(4, 4)
    <3>1. Startup!Up(4)[3].name = "pg_trgm" /\ 3 \in 1..(4 - 1)
      BY <1>1 DEF Startup!AddUserSearchIndexesUp, Startup!Maybe
    <3>2. "pg_trgm" \in {Startup!Up(4)[j].name : j \in 1..(4 - 1)}
      BY <3>1, Zenon
    <3> QED
      BY <3>2, Zenon
  <2> HIDE DEF There
  <2>4. \A i \in DOMAIN Startup!Up(2) : Works(2, i)
    BY <1>1, <2>1, WhatMigrationsCreate
      DEF Startup!AddCleanupIndexesUp, Startup!Maybe, Startup!Stands
  <2>5. \A i \in DOMAIN Startup!Up(3) : Works(3, i)
    BY <1>1, <2>1, WhatMigrationsCreate DEF Startup!AddIsActiveUp, Startup!Maybe, Startup!Stands
  <2>6. \A i \in DOMAIN Startup!Up(4) : Works(4, i)
    BY <1>1, <2>1, <2>3, WhatMigrationsCreate
      DEF Startup!AddUserSearchIndexesUp, Startup!Maybe, Startup!Stands
  <2> HIDE DEF Works
  <2> QED
    BY <2>4, <2>5, <2>6
<1>4. \A m \in Startup!All : \A i \in DOMAIN Startup!Up(m) : Works(m, i)
  <2> HIDE DEF Works
  <2> QED
    BY <1>2, <1>3 DEF Startup!All
<1> QED
  BY <1>4 DEF Startup!RunAll

LEMMA RunsNothing ==
  ASSUME NEW objs
  PROVE  Startup!RunAll({}, objs) = objs
BY DEF Startup!RunAll

\* The others need what the first creates.
LEMMA NeedsTheFirst ==
  ASSUME NEW objs, objs \subseteq {"pg_trgm"}, NEW pending \in SUBSET (2..4), pending # {}
  PROVE  Startup!RunAll(pending, objs) = Startup!Failed
<1> DEFINE There(m, i) ==
             objs \union (UNION {Startup!Creates(n) : n \in {n \in pending : n < m}})
                  \union {Startup!Up(m)[j].name : j \in 1..(i - 1)}
<1>1. PICK m \in pending : TRUE
  OBVIOUS
<1>2. m \in 2..4
  BY <1>1
<1>3. There(m, 1) \subseteq {"pg_trgm"} \union Startup!Creates(2) \union Startup!Creates(3)
                              \union Startup!Creates(4)
  <2>1. 1..(1 - 1) = {}
    OBVIOUS
  <2>2. {Startup!Up(m)[j].name : j \in 1..(1 - 1)} = {}
    BY <2>1, Zenon
  <2>3. UNION {Startup!Creates(n) : n \in {n \in pending : n < m}}
          \subseteq Startup!Creates(2) \union Startup!Creates(3) \union Startup!Creates(4)
    <3>1. \A n \in pending : n = 2 \/ n = 3 \/ n = 4
      OBVIOUS
    <3> QED
      BY <3>1
  <2> QED
    BY <2>2, <2>3
<1>4. /\ 1 \in DOMAIN Startup!Up(m)
      /\ ~(Startup!Stands(Startup!Up(m)[1].name) \subseteq There(m, 1))
  <2> HIDE DEF There
  <2>1. /\ Startup!Up(2) = Startup!AddCleanupIndexesUp
        /\ Startup!Up(3) = Startup!AddIsActiveUp /\ Startup!Up(4) = Startup!AddUserSearchIndexesUp
    BY DEF Startup!Up
  <2>2. CASE m = 2
    BY <1>3, <2>1, <2>2, WhatMigrationsCreate
      DEF Startup!AddCleanupIndexesUp, Startup!Maybe, Startup!Stands
  <2>3. CASE m = 3
    BY <1>3, <2>1, <2>3, WhatMigrationsCreate
      DEF Startup!AddIsActiveUp, Startup!Maybe, Startup!Stands
  <2>4. CASE m = 4
    BY <1>3, <2>1, <2>4, WhatMigrationsCreate
      DEF Startup!AddUserSearchIndexesUp, Startup!Maybe, Startup!Stands
  <2> QED
    BY <1>2, <2>2, <2>3, <2>4
<1> QED
  BY <1>1, <1>4 DEF Startup!RunAll

\* What a reverted migration takes with it, if PostgreSQL lets it.
LEMMA LastIsUndone ==
  ASSUME NEW objs, NEW m \in 2..4
  PROVE  Startup!DropAll(Startup!Down(m), objs)
           \in {Startup!Failed, objs \ (Startup!Creates(m) \ {"pg_trgm"})}
<1> DEFINE names == Startup!Down(m)
           Left(i) == {o \in objs : \A j \in 1..i : o # names[j] /\ ~Startup!GoesWith(o, names[j])}
<1>1. /\ Startup!Down(2) = Startup!AddCleanupIndexesDown
      /\ Startup!Down(3) = Startup!AddIsActiveDown
      /\ Startup!Down(4) = Startup!AddUserSearchIndexesDown
  BY DEF Startup!Down
<1>2. {names[j] : j \in 1..Len(names)} = Startup!Creates(m) \ {"pg_trgm"}
  <2>1. CASE m = 2
    BY <1>1, <2>1, WhatMigrationsCreate DEF Startup!AddCleanupIndexesDown
  <2>2. CASE m = 3
    BY <1>1, <2>2, WhatMigrationsCreate DEF Startup!AddIsActiveDown
  <2>3. CASE m = 4
    BY <1>1, <2>3, WhatMigrationsCreate DEF Startup!AddUserSearchIndexesDown
  <2> QED
    BY <2>1, <2>2, <2>3
<1>3. \A o : \A t \in Startup!Creates(m) \ {"pg_trgm"} : t \notin Startup!Stands(o)
  <2>1. \A t \in Startup!Creates(m) \ {"pg_trgm"} :
          t \in {"tokens_expires_idx", "otps_created_idx", "admins_active", "users_active",
                 "users_phone32", "admins_phone32", "users_trgm"}
    BY WhatMigrationsCreate
  <2> QED
    BY <2>1 DEF Startup!Stands
<1> HIDE DEF names
<1>4. Left(Len(names)) = objs \ (Startup!Creates(m) \ {"pg_trgm"})
  BY <1>2, <1>3 DEF Startup!GoesWith
<1> QED
  BY <1>4 DEF Startup!DropAll, names

\* The first takes all but the extension: what the others created goes with its
\* tables.
LEMMA FirstIsUndone ==
  ASSUME NEW objs,
         objs \subseteq (UNION {Startup!Creates(m) : m \in Startup!All}) \union {"pg_trgm"}
  PROVE  Startup!DropAll(Startup!Down(1), objs) \in {Startup!Failed, objs \intersect {"pg_trgm"}}
<1> DEFINE names == Startup!InitDown
           Left(i) == {o \in objs : \A j \in 1..i : o # names[j] /\ ~Startup!GoesWith(o, names[j])}
<1>1. Startup!Down(1) = names
  BY DEF Startup!Down
<1>2. {names[j] : j \in 1..Len(names)} = Startup!Creates(1)
  BY WhatMigrationsCreate DEF Startup!InitDown
<1>3. "pg_trgm" \notin Startup!Creates(1) /\ \A t : ~Startup!GoesWith("pg_trgm", t)
  BY WhatMigrationsCreate DEF Startup!GoesWith, Startup!Stands
<1>4. \A o \in Startup!Creates(2) \union Startup!Creates(3) \union Startup!Creates(4) :
        o = "pg_trgm" \/ \E t \in Startup!Creates(1) : Startup!GoesWith(o, t)
  <2>1. {"admins", "users", "otps", "refresh_tokens"} \subseteq Startup!Creates(1)
    BY WhatMigrationsCreate
  <2>2. /\ Startup!GoesWith("tokens_expires_idx", "refresh_tokens")
        /\ Startup!GoesWith("otps_created_idx", "otps")
        /\ Startup!GoesWith("admins_active", "admins")
        /\ Startup!GoesWith("users_active", "users")
        /\ Startup!GoesWith("users_phone32", "users")
        /\ Startup!GoesWith("admins_phone32", "admins")
        /\ Startup!GoesWith("users_trgm", "users")
    BY DEF Startup!GoesWith, Startup!Stands
  <2> QED
    BY <2>1, <2>2, WhatMigrationsCreate
<1>5. \A o \in objs : \/ o \in Startup!Creates(1) \/ o = "pg_trgm"
                      \/ o \in Startup!Creates(2) \union Startup!Creates(3)
                                 \union Startup!Creates(4)
  BY DEF Startup!All
<1> HIDE DEF names
<1>6. \A t \in Startup!Creates(1) : \E j \in 1..Len(names) : names[j] = t
  BY <1>2
<1>7. \A o \in Left(Len(names)) : o \in objs /\ o = "pg_trgm"
  BY <1>4, <1>5, <1>6
<1>8. "pg_trgm" \in objs => "pg_trgm" \in Left(Len(names))
  BY <1>2, <1>3
<1> HIDE DEF Left
<1>9. Left(Len(names)) = objs \intersect {"pg_trgm"}
  BY <1>7, <1>8
<1> QED
  BY <1>1, <1>9 DEF Startup!DropAll, Left

\* Among rows of the record one is the latest.
LEMMA LatestExists ==
  ASSUME NEW f \in [Startup!All -> Nat], NEW S \in SUBSET Startup!All, S # {}
  PROVE  \E k \in S : \A m \in S : f[m] <= f[k]
<1> DEFINE Latest(T) == \E k \in T : \A m \in T : f[m] <= f[k]
<1>1. \A m \in Startup!All : f[m] \in Nat
  OBVIOUS
<1>2. ASSUME NEW T \in SUBSET S, NEW n \in S, T = {} \/ Latest(T)
      PROVE  Latest(T \union {n})
  <2>1. CASE T = {}
    BY <1>1, <2>1
  <2>2. CASE Latest(T)
    <3>1. PICK k \in T : \A m \in T : f[m] <= f[k]
      BY <2>2
    <3>2. CASE f[n] <= f[k]
      BY <3>1, <3>2
    <3>3. CASE f[k] < f[n]
      <4>1. \A m \in T \union {n} : f[m] <= f[n]
        BY <1>1, <3>1, <3>3
      <4> QED
        BY <4>1
    <3> QED
      BY <1>1, <3>1, <3>2, <3>3
  <2> QED
    BY <1>2, <2>1, <2>2
<1> DEFINE Upto(n) == S \intersect (1..n)
<1>3. ASSUME NEW n \in 0..3, Upto(n) = {} \/ Latest(Upto(n))
      PROVE  Upto(n + 1) = {} \/ Latest(Upto(n + 1))
  <2>1. Upto(n + 1) = Upto(n) \/ (n + 1 \in S /\ Upto(n + 1) = Upto(n) \union {n + 1})
    OBVIOUS
  <2> HIDE DEF Latest
  <2>2. Upto(n) \in SUBSET S
    OBVIOUS
  <2> HIDE DEF Upto
  <2> QED
    BY <1>2, <1>3, <2>1, <2>2
<1>4. Upto(0) = {} /\ Upto(4) = S
  <2>1. 1..0 = {} /\ Startup!All = 1..4
    BY DEF Startup!All
  <2> QED
    BY <2>1
<1> HIDE DEF Upto, Latest
<1>5. Upto(1) = {} \/ Latest(Upto(1))
  BY <1>3, <1>4
<1>6. Upto(2) = {} \/ Latest(Upto(2))
  BY <1>3, <1>5
<1>7. Upto(3) = {} \/ Latest(Upto(3))
  BY <1>3, <1>6
<1>8. Upto(4) = {} \/ Latest(Upto(4))
  BY <1>3, <1>7
<1> QED
  BY <1>4, <1>8 DEF Latest

\* No row is later than the latest.
LEMMA LatestOfAll ==
  ASSUME NEW f \in [Startup!All -> Nat]
  PROVE  /\ Startup!Max({f[m] : m \in Startup!All}) \in Nat
         /\ \A m \in Startup!All : f[m] <= Startup!Max({f[k] : k \in Startup!All})
<1> DEFINE Ids == {f[m] : m \in Startup!All}
<1>1. Startup!All # {}
  BY DEF Startup!All
<1>2. \E k \in Startup!All : \A m \in Startup!All : f[m] <= f[k]
  BY <1>1, LatestExists
<1>3. \E x \in Ids : \A y \in Ids : x >= y
  BY <1>2
<1>4. Startup!Max(Ids) \in Ids /\ \A y \in Ids : Startup!Max(Ids) >= y
  BY <1>3 DEF Startup!Max
<1> QED
  BY <1>4

-----------------------------------------------------------------------------
(* Migrations: what the schema holds.                                      *)

\* The migrations recorded whose objects no revert has taken along.
Live == record \ stranded

Places == {"off", "ask", "create", "schema", "connect", "migrate", "serving", "gone"}

\* The first migration is recorded before the others, which stand on its tables:
\* so it is the last one only when no other is left.  Those that are recorded
\* while it is being undone are in `since`.
RecordIInv ==
  /\ at \in [Replicas -> Places] /\ env \in {"development", "production"}
  /\ ran \in [Startup!All -> Nat] /\ undo \in {0} \union Startup!All /\ reverts \in Nat
  /\ record \subseteq Startup!All /\ 1 \notin stranded
  /\ \A m \in Live \ {1} : 1 \in record /\ ran[1] < ran[m]
  /\ undo = 1 => Live \ {1} \subseteq since
  /\ reverts = 0 => undo = 0 /\ stranded = {}
  /\ env = "development" =>
       record = {} /\ undo = 0 /\ \A r \in Replicas : at[r] # "migrate"
  /\ Startup!SchemaFollowsRecord

LEMMA MigrateRecords ==
  ASSUME RecordIInv, NEW r \in Replicas, Startup!Migrate(r)
  PROVE  RecordIInv'
<1>1. at' \in [Replicas -> Places] /\ at[r] = "migrate" /\ env = "production"
      /\ UNCHANGED <<env, undo, reverts>>
  BY DEF RecordIInv, Startup!Migrate, Startup!Fails, Startup!Goes, Startup!place, Startup!applied,
     Places
<1>2. PICK pending : pending = Startup!All \ saw[r]
  OBVIOUS
<1>3. PICK latest : latest = Startup!Max({ran[m] : m \in Startup!All})
  OBVIOUS
<1>4. \/ UNCHANGED <<objects, record, ran, since, stranded>>
      \/ /\ objects' = Startup!RunAll(pending, objects) /\ objects' # Startup!Failed
         /\ record' = record \union pending
         /\ ran' = [m \in Startup!All |-> IF m \in pending THEN latest + m ELSE ran[m]]
         /\ since' = since \union pending /\ stranded' = stranded \ pending
  BY <1>2, <1>3 DEF Startup!Migrate, Startup!applied
<1>5. CASE UNCHANGED <<objects, record, ran, since, stranded>>
  BY <1>1, <1>5 DEF RecordIInv, Live, Startup!SchemaFollowsRecord
<1>6. CASE /\ objects' = Startup!RunAll(pending, objects) /\ objects' # Startup!Failed
           /\ record' = record \union pending
           /\ ran' = [m \in Startup!All |-> IF m \in pending THEN latest + m ELSE ran[m]]
           /\ since' = since \union pending /\ stranded' = stranded \ pending
  <2>1. objects' = objects \union (UNION {Startup!Creates(m) : m \in pending})
    BY <1>6 DEF Startup!RunAll
  <2>2. Live' = Live \union pending /\ pending \subseteq Startup!All
    BY <1>2, <1>6 DEF Live
  <2>3. Startup!SchemaFollowsRecord'
    <3>1. objects \ {"pg_trgm"} = (UNION {Startup!Creates(m) : m \in Live}) \ {"pg_trgm"}
      BY <1>1 DEF RecordIInv, Live, Startup!SchemaFollowsRecord
    <3>2. objects' \ {"pg_trgm"} = (UNION {Startup!Creates(m) : m \in Live'}) \ {"pg_trgm"}
      BY <2>1, <2>2, <3>1
    <3> QED
      BY <1>1, <3>2 DEF Startup!SchemaFollowsRecord, Live
  <2>4. latest \in Nat /\ \A m \in Startup!All : ran[m] <= latest
    BY <1>3, LatestOfAll DEF RecordIInv
  <2>5. ran' \in [Startup!All -> Nat]
    BY <1>6, <2>4 DEF RecordIInv, Startup!All
  <2>6. ASSUME NEW m \in Live' \ {1} PROVE 1 \in record' /\ ran'[1] < ran'[m]
    <3>1. m \in Startup!All /\ 1 \in Startup!All /\ m > 1
      <4>1. m \in Startup!All /\ m # 1
        BY <2>2 DEF RecordIInv, Live
      <4> QED
        BY <4>1 DEF Startup!All
    <3>2. CASE 1 \in pending
      <4>1. Live = {}
        <5>1. 1 \notin Live
          <6>1. Startup!Up(1) = Startup!InitUp
            BY DEF Startup!Up
          <6>2. /\ 1 \in DOMAIN Startup!Up(1) /\ Startup!Up(1)[1].new
                /\ Startup!Up(1)[1].name = "gender_enum"
            BY <6>1 DEF Startup!InitUp, Startup!Plain
          <6>3. "gender_enum" \notin objects
            BY <1>6, <3>2, <6>2 DEF Startup!RunAll
          <6>4. "gender_enum" \in Startup!Creates(1)
            BY WhatMigrationsCreate
          <6> QED
            BY <1>1, <6>3, <6>4 DEF RecordIInv, Live, Startup!SchemaFollowsRecord
        <5> QED
          BY <5>1 DEF RecordIInv, Live
      <4>2. m \in pending /\ 1 \in record'
        BY <1>6, <2>2, <3>2, <4>1
      <4>3. ran'[1] = latest + 1 /\ ran'[m] = latest + m
        BY <1>6, <3>1, <3>2, <4>2
      <4>4. latest \in Nat /\ m \in Int
        BY <2>4, <3>1 DEF Startup!All
      <4> QED
        BY <3>1, <4>2, <4>3, <4>4
    <3>3. CASE 1 \notin pending
      <4>1. 1 \in Live
        <5>1. CASE Live = {}
          <6>1. objects \subseteq {"pg_trgm"}
            BY <1>1, <5>1 DEF RecordIInv, Live, Startup!SchemaFollowsRecord
          <6>2. pending \in SUBSET (2..4) /\ pending # {}
            BY <2>2, <3>3, <5>1 DEF Startup!All
          <6> QED
            BY <1>6, <6>1, <6>2, NeedsTheFirst
        <5>2. CASE Live # {}
          BY <5>2 DEF RecordIInv, Live
        <5> QED
          BY <5>1, <5>2
      <4>2. ran'[1] = ran[1] /\ ran[1] \in Nat /\ ran[1] <= latest /\ 1 \in record'
        BY <1>6, <2>4, <3>1, <3>3, <4>1 DEF RecordIInv, Live
      <4>3. CASE m \in pending
        <5>1. ran'[m] = latest + m
          BY <1>6, <3>1, <4>3
        <5>2. latest \in Nat /\ m \in Int
          BY <2>4, <3>1 DEF Startup!All
        <5> QED
          BY <3>1, <4>2, <5>1, <5>2
      <4>4. CASE m \notin pending
        BY <1>6, <2>2, <3>1, <4>2, <4>4 DEF RecordIInv
      <4> QED
        BY <4>3, <4>4
    <3> QED
      BY <3>2, <3>3
  <2>7. /\ record' \subseteq Startup!All /\ 1 \notin stranded'
        /\ undo' = 1 => Live' \ {1} \subseteq since'
        /\ reverts' = 0 => undo' = 0 /\ stranded' = {}
    BY <1>1, <1>6, <2>2 DEF RecordIInv
  <2> QED
    BY <1>1, <2>3, <2>5, <2>6, <2>7 DEF RecordIInv
<1> QED
  BY <1>4, <1>5, <1>6

LEMMA RevertReadsRecords ==
  ASSUME RecordIInv, Startup!RevertReads
  PROVE  RecordIInv'
<1>1. /\ UNCHANGED <<env, objects, record, ran, stranded, at>> /\ undo = 0
      /\ reverts' = reverts + 1
      /\ undo' = IF record = {} THEN 0 ELSE Startup!LastRun
  BY DEF Startup!RevertReads, Startup!place
<1>2. CASE record = {}
  BY <1>1, <1>2 DEF RecordIInv, Live, Startup!SchemaFollowsRecord
<1>3. CASE record # {}
  <2>1. Startup!LastRun \in record /\ \A n \in record : ran[n] <= ran[Startup!LastRun]
    <3>1. \E k \in record : \A m \in record : ran[m] <= ran[k]
      BY <1>3, LatestExists DEF RecordIInv
    <3> QED
      BY <3>1 DEF Startup!LastRun
  <2>2. ASSUME undo' = 1 PROVE Live \ {1} = {}
    <3>1. \A n \in record : ran[n] <= ran[1]
      BY <1>1, <1>3, <2>1, <2>2
    <3>2. \A n \in record : ran[n] \in Nat /\ ran[1] \in Nat
      BY DEF RecordIInv, Startup!All
    <3>3. ASSUME NEW n \in Live \ {1} PROVE FALSE
      BY <3>1, <3>2 DEF RecordIInv, Live
    <3> QED
      BY <3>3
  <2>3. undo' \in Startup!All /\ env = "production" /\ reverts' \in Nat /\ reverts' # 0
    BY <1>1, <1>3, <2>1 DEF RecordIInv
  <2> QED
    BY <1>1, <2>2, <2>3 DEF RecordIInv, Live, Startup!SchemaFollowsRecord
<1> QED
  BY <1>2, <1>3

LEMMA RevertUndoesRecords ==
  ASSUME RecordIInv, Startup!RevertUndoes
  PROVE  RecordIInv'
<1>1. PICK m : m = undo
  OBVIOUS
<1>2. /\ undo # 0 /\ undo' = 0 /\ UNCHANGED <<env, ran, since, at, reverts>>
      /\ \/ UNCHANGED <<objects, record, stranded>>
         \/ /\ objects' = Startup!DropAll(Startup!Down(m), objects)
            /\ objects' # Startup!Failed /\ record' = record \ {m}
            /\ stranded' = (stranded \union (IF m = 1 THEN since ELSE {})) \ {m}
  BY <1>1 DEF Startup!RevertUndoes, Startup!place
<1>3. m \in Startup!All /\ env = "production" /\ reverts # 0
      /\ objects \ {"pg_trgm"} = (UNION {Startup!Creates(k) : k \in Live}) \ {"pg_trgm"}
  BY <1>1, <1>2 DEF RecordIInv, Live, Startup!SchemaFollowsRecord
<1>4. CASE UNCHANGED <<objects, record, stranded>>
  BY <1>2, <1>4 DEF RecordIInv, Live, Startup!SchemaFollowsRecord
<1>5. CASE /\ objects' = Startup!DropAll(Startup!Down(m), objects)
           /\ objects' # Startup!Failed /\ record' = record \ {m}
           /\ stranded' = (stranded \union (IF m = 1 THEN since ELSE {})) \ {m}
  <2>1. ASSUME NEW S \in SUBSET Live, S = Live',
               objects' \ {"pg_trgm"} = (UNION {Startup!Creates(k) : k \in S}) \ {"pg_trgm"},
               S = {} \/ m # 1
        PROVE  RecordIInv'
    <3>1. Startup!SchemaFollowsRecord'
      BY <1>2, <1>3, <2>1 DEF Startup!SchemaFollowsRecord, Live
    <3>2. \A k \in Live' \ {1} : 1 \in record' /\ ran'[1] < ran'[k]
      BY <1>2, <1>5, <2>1 DEF RecordIInv, Live
    <3>3. 1 \notin stranded' /\ record' \subseteq Startup!All
      BY <1>5 DEF RecordIInv
    <3> QED
      BY <1>2, <1>3, <3>1, <3>2, <3>3 DEF RecordIInv
  <2>2. CASE m = 1
    <3>1. Live' = {}
      BY <1>1, <1>5, <2>2 DEF RecordIInv, Live
    <3>2. objects \subseteq (UNION {Startup!Creates(k) : k \in Startup!All}) \union {"pg_trgm"}
      BY <1>3 DEF RecordIInv, Live
    <3>3. objects' = objects \intersect {"pg_trgm"}
      BY <1>5, <2>2, <3>2, FirstIsUndone
    <3> QED
      BY <2>1, <3>1, <3>3
  <2>3. CASE m # 1
    <3>1. m \in 2..4 /\ Live' = Live \ {m}
      BY <1>3, <1>5, <2>3 DEF Live, Startup!All
    <3>2. objects' = objects \ (Startup!Creates(m) \ {"pg_trgm"})
      BY <1>5, <3>1, LastIsUndone
    <3>3. ASSUME NEW k \in 1..4, k # m PROVE Startup!Creates(k) \intersect Startup!Creates(m) = {}
      BY <3>1, <3>3, WhatMigrationsCreate
    <3>4. \A k \in Live : k \in 1..4
      BY DEF RecordIInv, Live, Startup!All
    <3>5. ASSUME NEW x
          PROVE  x \in (UNION {Startup!Creates(k) : k \in Live'}) <=>
                   /\ x \in (UNION {Startup!Creates(k) : k \in Live})
                   /\ x \notin Startup!Creates(m)
      BY <3>1, <3>3, <3>4
    <3>6. objects' \ {"pg_trgm"} = (UNION {Startup!Creates(k) : k \in Live'}) \ {"pg_trgm"}
      BY <1>3, <3>2, <3>5
    <3> QED
      BY <2>1, <2>3, <3>1, <3>6
  <2> QED
    BY <2>2, <2>3
<1> QED
  BY <1>2, <1>4, <1>5

\* In development the entities are made, none is taken away.
LEMMA SynchroniseRecords ==
  ASSUME RecordIInv, env = "development", objects' = Startup!Synchronised(objects),
         UNCHANGED <<env, record, ran, undo, reverts, since, stranded>>,
         at' \in [Replicas -> Places \ {"migrate"}]
  PROVE  RecordIInv'
<1>1. Startup!Entities \subseteq objects'
  BY DEF Startup!Synchronised, Startup!Entities, Startup!Searches
<1> QED
  BY <1>1 DEF RecordIInv, Live, Places, Startup!SchemaFollowsRecord

\* The other steps leave schema and record alone, and serve no one in development.
LEMMA OthersRecord ==
  ASSUME RecordIInv, UNCHANGED <<env, objects, record, ran, undo, reverts, since, stranded>>,
         at' \in [Replicas -> Places],
         env = "development" => \A r \in Replicas : at'[r] \in {at[r]} \union
                                  (Places \ {"migrate", "serving"})
  PROVE  RecordIInv'
BY DEF RecordIInv, Live, Startup!SchemaFollowsRecord

\* Where migrations run the first is recorded before the others and the schema
\* follows the record, however reverts and starts overlap, but for the migrations
\* that a start recorded while the first was being undone; in development every
\* replica that serves has the entities' tables.
THEOREM RecordInvariance == Startup!Spec => []RecordIInv
<1>1. Startup!Init => RecordIInv
  BY DEF Startup!Init, RecordIInv, Live, Places, Startup!SchemaFollowsRecord, Startup!All
<1>2. ASSUME RecordIInv, [Startup!Next]_(Startup!vars)
      PROVE  RecordIInv'
  <2> USE <1>2
  <2> USE DEF Startup!data, Startup!place, Startup!applied
  <2>1. ASSUME NEW r \in Replicas,
               \/ Startup!Start(r) \/ Startup!AskDatabase(r) \/ Startup!CreateDatabase(r)
               \/ Startup!EnsureSchema(r) \/ Startup!BootstrapFails(r)
               \/ Startup!ReadRecord(r) \/ Startup!LosesRace(r)
               \/ Startup!AttemptFails(r) \/ Startup!Stop(r)
        PROVE  RecordIInv'
    <3>1. at \in [Replicas -> Places]
      BY DEF RecordIInv
    <3>2. \E where \in Places : /\ at' = [at EXCEPT ![r] = where]
                                /\ where = "migrate" => env = "production"
                                /\ where # "serving"
      BY <2>1 DEF Places, Startup!Goes, Startup!Fails, Startup!Start,
           Startup!AskDatabase, Startup!CreateDatabase, Startup!EnsureSchema,
           Startup!BootstrapFails, Startup!ReadRecord, Startup!LosesRace,
           Startup!AttemptFails, Startup!Stop
    <3>3. UNCHANGED <<env, objects, record, ran, undo, reverts, since, stranded>>
      BY <2>1 DEF Startup!Start, Startup!AskDatabase, Startup!CreateDatabase,
           Startup!EnsureSchema, Startup!BootstrapFails, Startup!ReadRecord,
           Startup!LosesRace, Startup!AttemptFails, Startup!Stop
    <3>4. at' \in [Replicas -> Places]
          /\ (env = "development" => \A q \in Replicas : at'[q] \in {at[q]} \union
                                       (Places \ {"migrate", "serving"}))
      BY <3>1, <3>2
    <3> QED
      BY <3>3, <3>4, OthersRecord
  <2>2. ASSUME NEW r \in Replicas, Startup!Synchronise(r) PROVE RecordIInv'
    <3>1. at' \in [Replicas -> Places \ {"migrate"}]
      BY <2>2 DEF RecordIInv, Places, Startup!Synchronise, Startup!Goes
    <3> QED
      BY <2>2, <3>1, SynchroniseRecords DEF Startup!Synchronise
  <2>3. ASSUME NEW r \in Replicas, NEW s \in Replicas, Startup!SynchroniseRace(r, s)
        PROVE  RecordIInv'
    <3>1. at' \in [Replicas -> Places \ {"migrate"}]
      BY <2>3 DEF RecordIInv, Places, Startup!SynchroniseRace, Startup!Overtakes
    <3> QED
      BY <2>3, <3>1, SynchroniseRecords DEF Startup!SynchroniseRace, Startup!Overtakes
  <2>4. ASSUME NEW r \in Replicas, NEW s \in Replicas, Startup!TableRace(r, s)
        PROVE  RecordIInv'
    <3>1. at' \in [Replicas -> Places] /\ env # "development"
      BY <2>4 DEF RecordIInv, Places, Startup!TableRace, Startup!Overtakes
    <3> QED
      BY <2>4, <3>1, OthersRecord DEF Startup!TableRace, Startup!Overtakes
  <2>5. ASSUME Startup!StoreLongPhone \/ UNCHANGED Startup!vars PROVE RecordIInv'
    BY <2>5, OthersRecord DEF RecordIInv, Startup!StoreLongPhone, Startup!vars
  <2> QED
    BY <2>1, <2>2, <2>3, <2>4, <2>5, MigrateRecords, RevertReadsRecords, RevertUndoesRecords
      DEF Startup!Next
<1> QED
  BY <1>1, <1>2, PTL DEF Startup!Spec

-----------------------------------------------------------------------------
(* Starts: who gives up.                                                   *)

\* Nothing happened but the starts themselves.
Clean == faults = 0 /\ reverts = 0 /\ mayCreate

\* The attempts a replica can have lost to the others: one to a race for TypeORM's
\* table, one to the replica that ran the migrations.
Losable == (IF table THEN 1 ELSE 0) + (IF record = {} THEN 0 ELSE 1)

InStep(r) ==
  /\ at[r] \notin {"gone", "ask", "create"}
  /\ tries[r] <= Losable
  /\ at[r] = "migrate" =>
       table /\ saw[r] \in {{}, record} /\ (saw[r] # record => tries[r] <= 1)
Abreast ==
  /\ table \in BOOLEAN /\ record \in {{}, Startup!All} /\ (record # {} => table)
  /\ \A r \in Replicas : InStep(r)

\* In development the only replica finds what it was told of the database.
Alone ==
  \A r \in Replicas :
    /\ at[r] \notin {"gone", "migrate"}
    /\ at[r] = "create" /\ saw[r] = {} => ~database

StartsIInv ==
  /\ tries \in [Replicas -> Nat] /\ faults \in Nat /\ saw = [r \in Replicas |-> saw[r]]
  /\ Clean /\ env = "production" => Abreast
  /\ Clean /\ env = "development" /\ ~(Cardinality(Replicas) > 1) => Alone

\* A start from an empty record runs all the migrations; one that has read them
\* all runs none.
LEMMA FirstRunWorks ==
  ASSUME RecordIInv, env = "production", record = {}
  PROVE  Startup!RunAll(Startup!All, objects) # Startup!Failed
<1>1. objects \subseteq {"pg_trgm"}
  BY DEF RecordIInv, Startup!SchemaFollowsRecord
<1>2. "admins" \in Startup!RunAll(Startup!All, objects)
  <2>1. "admins" \in Startup!Creates(1) /\ 1 \in Startup!All
    BY WhatMigrationsCreate DEF Startup!All
  <2>2. "admins" \in objects \union (UNION {Startup!Creates(m) : m \in Startup!All})
    BY <2>1, Zenon
  <2>3. Startup!RunAll(Startup!All, objects)
          = objects \union (UNION {Startup!Creates(m) : m \in Startup!All})
    BY <1>1, RunsFromNothing
  <2> QED
    BY <2>2, <2>3, Zenon
<1> QED
  BY <1>2 DEF Startup!Failed

LEMMA NoRunWorks ==
  ASSUME RecordIInv, env = "production"
  PROVE  Startup!RunAll({}, objects) # Startup!Failed
<1>1. "failed" \notin objects
  <2>1. \A m \in record \ stranded : "failed" \notin Startup!Creates(m)
    <3>1. \A m \in Startup!All : m = 1 \/ m = 2 \/ m = 3 \/ m = 4
      BY DEF Startup!All
    <3> QED
      BY <3>1, WhatMigrationsCreate DEF RecordIInv
  <2>2. "failed" \notin UNION {Startup!Creates(m) : m \in record \ stranded}
    BY <2>1
  <2> QED
    BY <2>2 DEF RecordIInv, Startup!SchemaFollowsRecord
<1> QED
  BY <1>1, RunsNothing DEF Startup!Failed

\* A replica whose own step this is not.
LEMMA OtherInStep ==
  ASSUME Abreast, NEW q \in Replicas, tries \in [Replicas -> Nat],
         at'[q] = at[q], tries'[q] = tries[q], saw'[q] = saw[q],
         table' \in BOOLEAN, table => table', record # {} => record' # {},
         record' = record \/ record = {}
  PROVE  InStep(q)'
<1>1. InStep(q) /\ tries[q] \in Nat
  BY DEF Abreast
<1>2. Losable \in 0..2 /\ Losable' \in 0..2 /\ Losable <= Losable'
  BY DEF Abreast, Losable
<1>3. record = {} => Losable <= 1
  BY DEF Abreast, Losable
<1> QED
  BY <1>1, <1>2, <1>3 DEF InStep

\* What one replica does to its own place.
LEMMA AbreastKept ==
  ASSUME Abreast, tries \in [Replicas -> Nat], NEW r \in Replicas,
         \A q \in Replicas \ {r} : at'[q] = at[q] /\ tries'[q] = tries[q] /\ saw'[q] = saw[q],
         table' \in BOOLEAN, table => table',
         record' \in {{}, Startup!All}, record # {} => record' = record, record' # {} => table',
         InStep(r)'
  PROVE  Abreast'
<1>1. ASSUME NEW q \in Replicas \ {r} PROVE InStep(q)'
  BY OtherInStep
<1> QED
  BY <1>1 DEF Abreast

\* A failed attempt leaves another.
LEMMA FailsInStep ==
  ASSUME StartsIInv, Abreast, RecordIInv, NEW r \in Replicas, Startup!Fails(r),
         UNCHANGED <<table, record, saw>>, tries[r] + 1 <= Losable
  PROVE  Abreast'
<1>1. tries[r] \in Nat /\ Losable \in 0..2 /\ tries[r] + 1 < RETRY_ATTEMPTS
  BY DatabaseAssumption DEF StartsIInv, Losable, Abreast
<1>2. at' = [at EXCEPT ![r] = "connect"] /\ tries' = [tries EXCEPT ![r] = tries[r] + 1]
  BY <1>1 DEF Startup!Fails, Startup!Goes
<1>3. at'[r] = "connect" /\ tries'[r] = tries[r] + 1 /\ Losable' = Losable
      /\ \A q \in Replicas \ {r} : at'[q] = at[q] /\ tries'[q] = tries[q]
  BY <1>2 DEF StartsIInv, RecordIInv, Losable
<1>4. InStep(r)'
  BY <1>3 DEF InStep
<1> QED
  BY <1>3, <1>4, AbreastKept DEF Abreast, StartsIInv

LEMMA MigrateAbreast ==
  ASSUME StartsIInv, Abreast, RecordIInv, NEW r \in Replicas, Startup!Migrate(r), mayCreate
  PROVE  Abreast'
<1>1. InStep(r) /\ at[r] = "migrate" /\ UNCHANGED <<table, saw>>
  BY DEF Abreast, Startup!Migrate
<1>7. env = "production"
  BY <1>1 DEF RecordIInv
<1>2. PICK result : result = Startup!RunAll(Startup!All \ saw[r], objects)
  OBVIOUS
<1>3. IF result = Startup!Failed
        THEN Startup!Fails(r) /\ UNCHANGED <<objects, record>>
        ELSE /\ record' = record \union (Startup!All \ saw[r])
             /\ Startup!Goes(r, "serving") /\ UNCHANGED tries
  BY <1>2 DEF Startup!Migrate, Startup!applied
<1>4. saw[r] \in {{}, record} /\ record \in {{}, Startup!All} /\ table /\ Startup!All # {}
  BY <1>1 DEF InStep, Abreast, Startup!All
<1>5. CASE result = Startup!Failed
  <2>1. ~(saw[r] = {} /\ record = {})
    BY <1>2, <1>5, <1>7, FirstRunWorks
  <2>2. ~(saw[r] = Startup!All)
    BY <1>2, <1>5, <1>7, NoRunWorks
  <2>3. record = Startup!All /\ saw[r] # record
    BY <1>4, <2>1, <2>2
  <2>4. tries[r] <= 1 /\ tries[r] \in Nat
    BY <1>1, <2>3 DEF InStep, StartsIInv
  <2>5. Losable = 2
    BY <1>4, <2>3 DEF Losable
  <2>6. tries[r] + 1 <= Losable
    BY <2>4, <2>5
  <2> QED
    BY <1>1, <1>3, <1>5, <2>6, FailsInStep
<1>6. CASE result # Startup!Failed
  <2>1. record' = Startup!All /\ at'[r] = "serving" /\ tries' = tries
        /\ \A q \in Replicas \ {r} : at'[q] = at[q]
    BY <1>3, <1>4, <1>6 DEF Startup!Goes, RecordIInv
  <2>2. Losable <= Losable' /\ Losable \in Nat /\ Losable' \in Nat
    BY <1>1, <1>4, <2>1 DEF Losable
  <2>3. InStep(r)'
    BY <1>1, <2>1, <2>2 DEF InStep, StartsIInv
  <2> QED
    BY <1>1, <1>4, <2>1, <2>3, AbreastKept DEF StartsIInv, Abreast
<1> QED
  BY <1>5, <1>6

LEMMA ReplicaAbreast ==
  ASSUME StartsIInv, Abreast, RecordIInv, NEW r \in Replicas, env = "production", mayCreate,
         \/ Startup!Start(r) \/ Startup!AskDatabase(r) \/ Startup!CreateDatabase(r)
         \/ Startup!EnsureSchema(r) \/ Startup!Synchronise(r) \/ Startup!ReadRecord(r)
         \/ Startup!Stop(r)
  PROVE  Abreast'
<1>1. InStep(r) /\ tries[r] \in Nat
  BY DEF Abreast, StartsIInv
<1>2. /\ record' = record /\ table' \in BOOLEAN /\ (table => table')
      /\ \A q \in Replicas \ {r} : at'[q] = at[q] /\ tries'[q] = tries[q] /\ saw'[q] = saw[q]
      /\ at'[r] \in {"off", "schema", "connect", "migrate"}
      /\ tries'[r] \in {0, tries[r]}
      /\ at'[r] = "migrate" => table' /\ saw'[r] = record
  BY <1>1 DEF InStep, Abreast, StartsIInv, RecordIInv, Startup!Goes, Startup!data,
       Startup!place, Startup!applied, Startup!Start, Startup!AskDatabase,
       Startup!CreateDatabase, Startup!EnsureSchema, Startup!Synchronise,
       Startup!ReadRecord, Startup!Stop
<1>3. Losable <= Losable' /\ Losable \in Nat /\ Losable' \in Nat
  BY <1>2 DEF Losable, Abreast
<1>4. InStep(r)'
  BY <1>1, <1>2, <1>3 DEF InStep
<1> QED
  BY <1>2, <1>4, AbreastKept DEF Abreast, StartsIInv

\* The loser of a race for the migrations had lost at most the one for the table.
LEMMA LosesRaceAbreast ==
  ASSUME StartsIInv, Abreast, RecordIInv, NEW r \in Replicas, Startup!LosesRace(r)
  PROVE  Abreast'
<1>1. InStep(r) /\ at[r] = "migrate" /\ saw[r] # record /\ Startup!Fails(r)
      /\ UNCHANGED <<table, record, saw>> /\ tries[r] \in Nat
  BY DEF Abreast, Startup!LosesRace, Startup!data, Startup!place, Startup!applied, StartsIInv
<1>2. table /\ record # {} /\ tries[r] <= 1
  BY <1>1 DEF InStep
<1>3. Losable = 2
  BY <1>2 DEF Losable
<1>4. tries[r] + 1 <= Losable
  BY <1>1, <1>2, <1>3
<1> QED
  BY <1>1, <1>4, FailsInStep

LEMMA TableRaceAbreast ==
  ASSUME StartsIInv, Abreast, RecordIInv, NEW r \in Replicas, NEW s \in Replicas,
         Startup!TableRace(r, s)
  PROVE  Abreast'
<1>1. r # s /\ ~table /\ table' = TRUE /\ saw' = [saw EXCEPT ![s] = record] /\ record' = record
      /\ tries' = [tries EXCEPT ![r] = tries[r] + 1]
  BY DEF Startup!TableRace, Startup!Overtakes
<1>2. record = {} /\ Losable = 0 /\ Losable' = 1
  BY <1>1 DEF Abreast, Losable
<1>3. tries[r] = 0 /\ tries[s] = 0
  BY <1>2 DEF Abreast, InStep, StartsIInv
<1>4. at' = [at EXCEPT ![s] = "migrate", ![r] = "connect"]
  <2>1. tries[r] + 1 < RETRY_ATTEMPTS
    BY <1>3, DatabaseAssumption
  <2> QED
    BY <2>1 DEF Startup!TableRace, Startup!Overtakes
<1>5. /\ at'[r] = "connect" /\ at'[s] = "migrate" /\ saw'[s] = record
      /\ tries'[r] = 1 /\ tries'[s] = 0
      /\ \A q \in Replicas \ {r, s} : at'[q] = at[q] /\ tries'[q] = tries[q] /\ saw'[q] = saw[q]
  BY <1>1, <1>3, <1>4 DEF StartsIInv, RecordIInv
<1>6. InStep(r)' /\ InStep(s)'
  BY <1>1, <1>2, <1>5 DEF InStep
<1>7. ASSUME NEW q \in Replicas \ {r, s} PROVE InStep(q)'
  BY <1>1, <1>5, OtherInStep DEF StartsIInv
<1> QED
  BY <1>1, <1>2, <1>6, <1>7 DEF Abreast

LEMMA OnlyReplica ==
  ASSUME ~(Cardinality(Replicas) > 1), NEW r \in Replicas, NEW q \in Replicas
  PROVE  q = r
<1>1. Cardinality(Replicas) \in Nat /\ IsFiniteSet(Replicas)
  BY DatabaseAssumption, FS_CardinalityType
<1>2. Cardinality({r}) = 1
  BY FS_Singleton
<1>3. Cardinality({r}) <= Cardinality(Replicas)
  BY <1>1, FS_Subset
<1>4. Cardinality({r}) = Cardinality(Replicas)
  BY <1>1, <1>2, <1>3
<1>5. {r} = Replicas
  BY <1>1, <1>4, FS_Subset
<1> QED
  BY <1>5

LEMMA ReplicaAlone ==
  ASSUME StartsIInv, Alone, RecordIInv, NEW r \in Replicas, env = "development", mayCreate,
         ~(Cardinality(Replicas) > 1),
         \/ Startup!Start(r) \/ Startup!AskDatabase(r) \/ Startup!CreateDatabase(r)
         \/ Startup!EnsureSchema(r) \/ Startup!Synchronise(r) \/ Startup!ReadRecord(r)
         \/ Startup!Migrate(r) \/ Startup!LosesRace(r) \/ Startup!Stop(r)
  PROVE  Alone'
<1>1. \A q \in Replicas : q = r
  BY OnlyReplica
<1>2. at[r] \notin {"gone", "migrate"} /\ (at[r] = "create" /\ saw[r] = {} => ~database)
  BY DEF Alone
<1>3. at'[r] \notin {"gone", "migrate"} /\ (at'[r] = "create" /\ saw'[r] = {} => ~database')
  <2>1. CASE Startup!Start(r)
    BY <2>1 DEF RecordIInv, Startup!Goes, Startup!Start
  <2>2. CASE Startup!AskDatabase(r)
    BY <2>2 DEF RecordIInv, StartsIInv, Startup!Goes, Startup!data, Startup!place,
       Startup!AskDatabase
  <2>3. CASE Startup!CreateDatabase(r)
    BY <1>2, <2>3 DEF RecordIInv, Startup!Goes, Startup!CreateDatabase
  <2>4. CASE Startup!EnsureSchema(r)
    BY <2>4 DEF RecordIInv, Startup!Goes, Startup!EnsureSchema
  <2>5. CASE Startup!Synchronise(r)
    BY <2>5 DEF RecordIInv, Startup!Goes, Startup!Synchronise
  <2>6. CASE Startup!ReadRecord(r)
    BY <2>6 DEF Startup!ReadRecord
  <2>7. CASE Startup!Migrate(r) \/ Startup!LosesRace(r)
    BY <1>2, <2>7 DEF Startup!Migrate, Startup!LosesRace
  <2>8. CASE Startup!Stop(r)
    BY <2>8 DEF RecordIInv, Startup!Goes, Startup!Stop
  <2> QED
    BY <2>1, <2>2, <2>3, <2>4, <2>5, <2>6, <2>7, <2>8
<1> QED
  BY <1>1, <1>3 DEF Alone

\* What no step does.
LEMMA StartsTypes ==
  ASSUME StartsIInv, RecordIInv, [Startup!Next]_(Startup!vars)
  PROVE  /\ tries' \in [Replicas -> Nat] /\ faults' \in Nat
         /\ saw' = [r \in Replicas |-> saw'[r]]
         /\ env' = env /\ mayCreate' = mayCreate
         /\ Clean' => Clean
<1> USE DEF StartsIInv, Clean, Startup!data, Startup!place, Startup!applied
<1> DEFINE Kept == /\ tries' \in [Replicas -> Nat] /\ saw' = [r \in Replicas |-> saw'[r]]
                   /\ UNCHANGED <<env, mayCreate>>
<1>1. ASSUME NEW r \in Replicas,
             \/ Startup!Start(r) \/ Startup!AskDatabase(r) \/ Startup!CreateDatabase(r)
             \/ Startup!EnsureSchema(r) \/ Startup!Synchronise(r) \/ Startup!ReadRecord(r)
             \/ Startup!Stop(r)
      PROVE  Kept /\ UNCHANGED <<faults, reverts>>
  BY <1>1 DEF Startup!Start, Startup!AskDatabase, Startup!CreateDatabase,
     Startup!EnsureSchema, Startup!Synchronise, Startup!ReadRecord, Startup!Stop
<1>2. ASSUME NEW r \in Replicas, Startup!Fails(r)
      PROVE  tries' \in [Replicas -> Nat]
  BY <1>2 DEF Startup!Fails
<1>3. ASSUME NEW r \in Replicas, Startup!Migrate(r) \/ Startup!LosesRace(r)
      PROVE  Kept /\ UNCHANGED <<faults, reverts>>
  BY <1>2, <1>3 DEF Startup!Migrate, Startup!LosesRace
<1>4. ASSUME NEW r \in Replicas, Startup!AttemptFails(r) \/ Startup!BootstrapFails(r)
      PROVE  Kept /\ faults' = faults + 1 /\ reverts' = reverts
  BY <1>2, <1>4 DEF Startup!AttemptFails, Startup!BootstrapFails
<1>5. ASSUME NEW r \in Replicas, NEW s \in Replicas,
             Startup!SynchroniseRace(r, s) \/ Startup!TableRace(r, s)
      PROVE  Kept /\ UNCHANGED <<faults, reverts>>
  BY <1>5 DEF Startup!SynchroniseRace, Startup!TableRace, Startup!Overtakes
<1>6. ASSUME Startup!StoreLongPhone \/ Startup!RevertUndoes \/ UNCHANGED Startup!vars
      PROVE  Kept /\ UNCHANGED <<faults, reverts>>
  BY <1>6 DEF Startup!StoreLongPhone, Startup!RevertUndoes, Startup!vars
<1>7. ASSUME Startup!RevertReads
      PROVE  Kept /\ faults' = faults /\ reverts' = reverts + 1
  BY <1>7 DEF Startup!RevertReads
<1>8. reverts \in Nat
  BY DEF RecordIInv
<1>9. CASE Kept /\ UNCHANGED <<faults, reverts>>
  BY <1>9
<1>10. CASE Kept /\ faults' = faults + 1 /\ reverts' = reverts
  BY <1>10
<1>11. CASE Kept /\ faults' = faults /\ reverts' = reverts + 1
  BY <1>8, <1>11
<1> QED
  BY <1>1, <1>3, <1>4, <1>5, <1>6, <1>7, <1>9, <1>10, <1>11 DEF Startup!Next

\* What does not happen where nothing but the starts does.
LEMMA CleanSteps ==
  ASSUME StartsIInv, RecordIInv, [Startup!Next]_(Startup!vars), Clean'
  PROVE  /\ faults = 0 /\ reverts = 0 /\ mayCreate
         /\ ~Startup!RevertReads /\ ~Startup!RevertUndoes
         /\ \A r \in Replicas : ~Startup!AttemptFails(r) /\ ~Startup!BootstrapFails(r)
<1>1. faults' = 0 /\ reverts' = 0 /\ mayCreate /\ faults = 0 /\ reverts = 0
  BY StartsTypes DEF Clean
<1>2. undo = 0
  BY <1>1 DEF RecordIInv
<1> QED
  BY <1>1, <1>2 DEF Startup!RevertReads, Startup!RevertUndoes, Startup!AttemptFails,
     Startup!BootstrapFails

LEMMA AbreastStep ==
  ASSUME StartsIInv, Abreast, RecordIInv, [Startup!Next]_(Startup!vars), Clean',
         env = "production"
  PROVE  Abreast'
<1>1. \A r, s \in Replicas : ~Startup!SynchroniseRace(r, s)
  BY DEF Startup!SynchroniseRace
<1>2. ASSUME Startup!StoreLongPhone \/ UNCHANGED Startup!vars
      PROVE  Abreast'
  <2>1. UNCHANGED <<table, record, at, saw, tries>>
    BY <1>2 DEF Startup!StoreLongPhone, Startup!vars, Startup!data, Startup!applied
  <2> QED
    BY <2>1 DEF Abreast, InStep, Losable
<1> QED
  BY <1>1, <1>2, CleanSteps, ReplicaAbreast, MigrateAbreast, LosesRaceAbreast, TableRaceAbreast
    DEF Startup!Next

LEMMA AloneStep ==
  ASSUME StartsIInv, Alone, RecordIInv, [Startup!Next]_(Startup!vars), Clean',
         env = "development", ~(Cardinality(Replicas) > 1)
  PROVE  Alone'
<1>1. \A r, s \in Replicas : ~Startup!TableRace(r, s) /\ ~Startup!SynchroniseRace(r, s)
  BY OnlyReplica DEF Startup!SynchroniseRace, Startup!TableRace, Startup!Overtakes
<1>2. ASSUME Startup!StoreLongPhone \/ UNCHANGED Startup!vars
      PROVE  Alone'
  <2>1. UNCHANGED <<database, at, saw>>
    BY <1>2 DEF Startup!StoreLongPhone, Startup!vars, Startup!data
  <2> QED
    BY <2>1 DEF Alone
<1> QED
  BY <1>1, <1>2, CleanSteps, ReplicaAlone DEF Startup!Next

\* While nothing fails but for the other replicas, every start still has an attempt.
THEOREM StartsInvariance == Startup!Spec => [](RecordIInv /\ StartsIInv)
<1>1. Startup!Init => StartsIInv
  <2> SUFFICES ASSUME Startup!Init PROVE StartsIInv
    OBVIOUS
  <2>1. \A r \in Replicas : at[r] = "off" /\ tries[r] = 0
    BY DEF Startup!Init
  <2>2. table = FALSE /\ record = {} /\ Losable = 0
    BY DEF Startup!Init, Losable
  <2>3. Abreast
    <3>1. \A r \in Replicas : InStep(r)
      BY <2>1, <2>2 DEF InStep
    <3> QED
      BY <2>2, <3>1 DEF Abreast
  <2>4. Alone
    BY <2>1 DEF Alone
  <2> QED
    BY <2>3, <2>4 DEF Startup!Init, StartsIInv
<1>2. ASSUME RecordIInv, StartsIInv, [Startup!Next]_(Startup!vars)
      PROVE  StartsIInv'
  <2>1. Clean' /\ env' = "production" => Abreast'
    BY <1>2, StartsTypes, AbreastStep DEF StartsIInv
  <2>2. Clean' /\ env' = "development" /\ ~(Cardinality(Replicas) > 1) => Alone'
    BY <1>2, StartsTypes, AloneStep DEF StartsIInv
  <2> QED
    BY <1>2, <2>1, <2>2, StartsTypes DEF StartsIInv
<1> QED
  BY <1>1, <1>2, RecordInvariance, PTL DEF Startup!Spec

LEMMA NobodyGivesUp ==
  RecordIInv /\ StartsIInv => Startup!GivesUpOnlyIfBroken
<1> DEFINE broken == faults > 0 \/ reverts > 0 \/ ~mayCreate
           raced  == env = "development" /\ Cardinality(Replicas) > 1
<1>1. ASSUME RecordIInv, StartsIInv, NEW r \in Replicas, at[r] = "gone"
      PROVE  broken \/ raced
  <2>1. broken \/ Clean
    BY <1>1 DEF RecordIInv, StartsIInv, Clean
  <2>2. Clean => env # "production"
    BY <1>1 DEF StartsIInv, Abreast, InStep
  <2>3. env \in {"development", "production"}
    BY <1>1 DEF RecordIInv
  <2>4. ~Alone
    BY <1>1 DEF Alone
  <2>5. Clean /\ env = "development" => Cardinality(Replicas) > 1
    BY <1>1, <2>4 DEF StartsIInv
  <2> QED
    BY <2>1, <2>2, <2>3, <2>5
<1>2. Startup!Cardinality(Replicas) = Cardinality(Replicas)
  BY DEF Startup!Cardinality, Cardinality
<1> QED
  BY <1>1, <1>2, Zenon DEF Startup!GivesUpOnlyIfBroken

\* The schema holds what the recorded migrations create, whichever replicas ran
\* them and whatever was reverted, but for those that a start recorded while the
\* first one was being undone; in development a replica serves only on a schema
\* that has all the entities' tables.
THEOREM SchemaIsAsRecorded == DatabaseSpec => []SchemaFollowsRecord
<1>1. RecordIInv => SchemaFollowsRecord
  BY DEF RecordIInv, SchemaFollowsRecord
<1> QED
  BY <1>1, DatabaseRefined, RecordInvariance, PTL

\* With at least three attempts each, any number of replicas that start together
\* on an empty database all come up, if nothing else fails.
THEOREM StartsAreNotGivenUp == DatabaseSpec => []GivesUpOnlyIfBroken
<1>1. RecordIInv /\ StartsIInv => GivesUpOnlyIfBroken
  BY NobodyGivesUp DEF GivesUpOnlyIfBroken
<1> QED
  BY <1>1, DatabaseRefined, StartsInvariance, PTL

-----------------------------------------------------------------------------
(* Pages of a list.                                                        *)

\* How many of the rows S come before x, and the rows at the places
\* low, low + 1, ... of which there are at most n.
Place(S, x, order)        == Cardinality({a \in S : Pages!Before(a, x, order)})
Window(S, low, n, order)  == {x \in S : Place(S, x, order) \in low..(low + n - 1)}

Orders == {"asc", "desc"}
Walks(ids) == [order : {"none"} \union Orders, limit : Nat, page : Nat, counting : BOOLEAN,
               next : Nat, seen : Seq(SUBSET ids), added : BOOLEAN, taken : BOOLEAN,
               torn : BOOLEAN]

Seen   == UNION {walk.seen[p] : p \in DOMAIN walk.seen}
\* No row was added where the walk has been, or there is none to miss ...
Steady == walk.order = "asc" \/ ~walk.added
\* ... nor was one deleted, or added between a page and its count.
Whole  == Steady /\ ~walk.taken /\ ~walk.torn

PagesTypeOK ==
  /\ lastId \in Nat /\ rows \subseteq 1..lastId
  /\ walk \in Walks(1..lastId) /\ Len(walk.seen) = walk.page
  /\ walk.order = "none" => walk = Pages!NoWalk
  /\ walk.order # "none" => walk.limit \in 1..MAX_LIMIT /\ walk.page >= 1
  /\ ~walk.counting /\ walk.next # 0 => walk.next = walk.page + 1
  /\ walk.torn => walk.added \/ walk.taken

\* The rows of a page, and all before them, are within the places of that page.
Behind ==
  Steady =>
    \A p \in DOMAIN walk.seen : \A a \in walk.seen[p], x \in rows :
      x = a \/ Pages!Before(x, a, walk.order) =>
        Place(rows, x, walk.order) < p * walk.limit

InOrder ==
  Steady =>
    \A p, q \in DOMAIN walk.seen : p < q =>
      \A a \in walk.seen[p], b \in walk.seen[q] : Pages!Before(a, b, walk.order)

\* A walk that goes on has seen the places of its pages, and more rows follow.
Full ==
  Whole /\ walk.order # "none" =>
    /\ walk.counting \/ walk.next # 0 =>
         \A x \in rows : Place(rows, x, walk.order) < walk.page * walk.limit => x \in Seen
    /\ ~walk.counting /\ walk.next # 0 => walk.page * walk.limit < Cardinality(rows)
    /\ walk.counting =>
         walk.seen[walk.page] = Window(rows, (walk.page - 1) * walk.limit, walk.limit, walk.order)

Closed ==
  /\ ~walk.taken => Seen \subseteq rows
  /\ Whole => \A x \in rows, a \in Seen : Pages!Before(x, a, walk.order) => x \in Seen

Ended ==
  walk.order # "none" /\ ~walk.counting /\ walk.next = 0 /\ ~walk.taken /\ ~walk.added =>
    Seen = rows

NoEmptyPage ==
  \A p \in DOMAIN walk.seen : walk.seen[p] = {} => rows = {} \/ walk.taken \/ walk.added

PagesIInv ==
  PagesTypeOK /\ Behind /\ InOrder /\ Full /\ Closed /\ Ended /\ NoEmptyPage

\* The orders are strict and total.
LEMMA BeforeOrders ==
  ASSUME NEW order \in Orders, NEW a \in Nat, NEW b \in Nat, NEW c \in Nat
  PROVE  /\ ~Pages!Before(a, a, order)
         /\ Pages!Before(a, b, order) /\ Pages!Before(b, c, order) =>
              Pages!Before(a, c, order)
         /\ a = b \/ Pages!Before(a, b, order) \/ Pages!Before(b, a, order)
<1>1. CASE order = "asc"
  BY <1>1 DEF Pages!Before
<1>2. CASE order = "desc"
  BY <1>2 DEF Pages!Before
<1> QED
  BY <1>1, <1>2 DEF Orders

\* A row has as many before it as its place, which is one of the list's.
LEMMA PlaceRange ==
  ASSUME NEW S, S \subseteq Nat, IsFiniteSet(S), NEW order \in Orders, NEW x \in S
  PROVE  Place(S, x, order) \in 0..(Cardinality(S) - 1)
<1> DEFINE B == {a \in S : Pages!Before(a, x, order)}
<1>1. B \subseteq S /\ x \notin B
  BY BeforeOrders
<1>2. IsFiniteSet(B) /\ Cardinality(B) \in Nat /\ Cardinality(S) \in Nat
  BY <1>1, FS_Subset, FS_CardinalityType
<1>3. Cardinality(B) <= Cardinality(S) /\ Cardinality(B) # Cardinality(S)
  BY <1>1, FS_Subset
<1> QED
  BY <1>2, <1>3 DEF Place

LEMMA PlaceGrows ==
  ASSUME NEW S, S \subseteq Nat, IsFiniteSet(S), NEW order \in Orders,
         NEW x \in S, NEW y \in S, Pages!Before(x, y, order)
  PROVE  Place(S, x, order) < Place(S, y, order)
<1> DEFINE B(z) == {a \in S : Pages!Before(a, z, order)}
<1>1. B(x) \subseteq B(y) /\ x \in B(y) /\ x \notin B(x)
  BY BeforeOrders
<1>2. IsFiniteSet(B(y)) /\ IsFiniteSet(B(x))
  <2>1. B(y) \subseteq S /\ B(x) \subseteq S
    OBVIOUS
  <2> QED
    BY <2>1, FS_Subset
<1>3. Cardinality(B(x)) \in Nat /\ Cardinality(B(y)) \in Nat
  BY <1>2, FS_CardinalityType
<1>4. Cardinality(B(x)) <= Cardinality(B(y)) /\ Cardinality(B(x)) # Cardinality(B(y))
  BY <1>1, <1>2, FS_Subset
<1> QED
  BY <1>3, <1>4 DEF Place

\* Each place is some row's: as many rows, at different places, as places.
LEMMA PlaceOnto ==
  ASSUME NEW S, S \subseteq Nat, IsFiniteSet(S), NEW order \in Orders,
         NEW k \in 0..(Cardinality(S) - 1)
  PROVE  \E x \in S : Place(S, x, order) = k
<1> DEFINE n == Cardinality(S)
           f == [x \in S |-> Place(S, x, order)]
<1>0. n \in Nat
  BY FS_CardinalityType
<1>1. f \in [S -> 0..(n - 1)]
  BY PlaceRange
<1>2. ASSUME NEW x \in S, NEW y \in S, f[x] = f[y]
      PROVE  x = y
  <2>1. Place(S, x, order) = Place(S, y, order)
    BY <1>2
  <2>2. Place(S, x, order) \in Int
    <3>1. Place(S, x, order) \in 0..(n - 1)
      BY PlaceRange
    <3> QED
      BY <1>0, <3>1
  <2>3. ~Pages!Before(x, y, order)
    <3>1. Pages!Before(x, y, order) => Place(S, x, order) < Place(S, y, order)
      BY PlaceGrows
    <3> QED
      BY <2>1, <2>2, <3>1
  <2>4. ~Pages!Before(y, x, order)
    <3>1. Pages!Before(y, x, order) => Place(S, y, order) < Place(S, x, order)
      BY PlaceGrows
    <3> QED
      BY <2>1, <2>2, <3>1
  <2> QED
    BY <2>3, <2>4, BeforeOrders
<1>3. f \in Injection(S, 0..(n - 1))
  BY <1>1, <1>2 DEF Injection, IsInjective
<1>4. IsFiniteSet(0..(n - 1)) /\ Cardinality(0..(n - 1)) = n
  BY <1>0, FS_Interval
<1>5. f \in Surjection(S, 0..(n - 1))
  BY <1>3, <1>4, FS_Injection
<1>6. PICK x \in S : f[x] = k
  BY <1>5 DEF Surjection
<1> QED
  BY <1>6

\* A page that starts within the list has rows, and a full page of them if the
\* list goes on behind it.
LEMMA WindowSize ==
  ASSUME NEW S, S \subseteq Nat, IsFiniteSet(S), NEW order \in Orders,
         NEW low \in Nat, NEW n \in Nat \ {0}
  PROVE  /\ low < Cardinality(S) => Window(S, low, n, order) # {}
         /\ low + n <= Cardinality(S) => n <= Cardinality(Window(S, low, n, order))
<1> DEFINE W == Window(S, low, n, order)
<1>0. Cardinality(S) \in Nat
  BY FS_CardinalityType
<1>1. low < Cardinality(S) => W # {}
  <2> HAVE low < Cardinality(S)
  <2>1. low \in 0..(Cardinality(S) - 1)
    BY <1>0
  <2>2. PICK x \in S : Place(S, x, order) = low
    BY <2>1, PlaceOnto
  <2>3. low \in low..(low + n - 1)
    OBVIOUS
  <2> QED
    BY <2>2, <2>3 DEF Window
<1>2. low + n <= Cardinality(S) => n <= Cardinality(W)
  <2> HAVE low + n <= Cardinality(S)
  <2> DEFINE P == low..(low + n - 1)
             g == [k \in P |-> CHOOSE x \in S : Place(S, x, order) = k]
  <2>1. \A k \in P : g[k] \in S /\ Place(S, g[k], order) = k
    <3> TAKE k \in P
    <3>1. k \in 0..(Cardinality(S) - 1)
      BY <1>0
    <3>2. \E x \in S : Place(S, x, order) = k
      BY <3>1, PlaceOnto
    <3> QED
      BY <3>2
  <2>2. g \in [P -> W]
    BY <2>1 DEF Window
  <2>3. g \in Injection(P, W)
    <3>1. ASSUME NEW k \in P, NEW m \in P, g[k] = g[m]
          PROVE  k = m
      BY <2>1, <3>1
    <3> QED
      BY <2>2, <3>1 DEF Injection, IsInjective
  <2>4. IsFiniteSet(W)
    <3>1. W \subseteq S
      BY DEF Window
    <3> QED
      BY <3>1, FS_Subset
  <2>5. Cardinality(P) <= Cardinality(W)
    BY <2>3, <2>4, FS_Injection
  <2>6. Cardinality(P) = n
    <3>1. Cardinality(P) = IF low > low + n - 1 THEN 0 ELSE low + n - 1 - low + 1
      <4>1. low \in Int /\ low + n - 1 \in Int
        OBVIOUS
      <4> QED
        BY <4>1, FS_Interval
    <3> QED
      BY <3>1
  <2> QED
    BY <2>5, <2>6
<1> QED
  BY <1>1, <1>2

\* The meta of a page leads on exactly if the list goes on behind the page.
LEMMA NextPageLeads ==
  ASSUME NEW page \in Nat, NEW limit \in Nat \ {0}, NEW total \in Nat
  PROVE  /\ Pages!NextPage(page, limit, total) \in {0, page + 1}
         /\ Pages!NextPage(page, limit, total) # 0 <=> page * limit < total
<1> DEFINE q == (total + limit - 1) \div limit
<1>1. q \in Int /\ limit * q <= total + limit - 1 /\ total + limit - 1 < limit * (q + 1)
  OBVIOUS
<1>2. page < q <=> page * limit < total
  <2>1. ASSUME page < q
        PROVE  page * limit < total
    <3>1. (page + 1) * limit <= q * limit
      BY <1>1, <2>1
    <3>2. (page + 1) * limit = page * limit + limit
      OBVIOUS
    <3> QED
      BY <1>1, <3>1, <3>2
  <2>2. ASSUME ~(page < q)
        PROVE  ~(page * limit < total)
    <3>1. q * limit <= page * limit
      BY <1>1, <2>2
    <3>2. limit * (q + 1) = q * limit + limit
      BY <1>1
    <3> QED
      BY <1>1, <3>1, <3>2
  <2> QED
    BY <2>1, <2>2
<1> QED
  BY <1>2 DEF Pages!NextPage, Pages!TotalPages

\* The model's operators in these terms.
LEMMA DataWindow ==
  ASSUME NEW page, NEW limit, NEW order
  PROVE  Pages!Data(page, limit, order) = Window(rows, (page - 1) * limit, limit, order)
<1>1. \A x : Pages!Rank(x, order) = Place(rows, x, order)
  BY DEF Pages!Rank, Place, Cardinality, Pages!Cardinality
<1> QED
  BY <1>1 DEF Pages!Data, Window

LEMMA PageClamp ==
  /\ \A asked \in Nat \ {0} : Pages!Page(asked) = asked
  /\ \A asked \in -1..1 : Pages!Page(asked) = 1
<1>1. ASSUME NEW asked \in Int
      PROVE  Pages!Page(asked) = IF asked >= 1 THEN asked ELSE 1
  <2> DEFINE m == IF asked >= 1 THEN asked ELSE 1
  <2>1. m \in {asked, 1} /\ \A y \in {asked, 1} : m >= y
    OBVIOUS
  <2>2. \A x \in {asked, 1} : (\A y \in {asked, 1} : x >= y) => x = m
    OBVIOUS
  <2> HIDE DEF m
  <2>3. Pages!Max({asked, 1}) = m
    BY <2>1, <2>2 DEF Pages!Max
  <2> QED
    BY <2>3 DEF m, Pages!Page
<1> QED
  BY <1>1

LEMMA LimitClamp ==
  /\ \A asked \in Int : Pages!Limit(asked) \in 1..MAX_LIMIT
  /\ \A asked \in 1..MAX_LIMIT : Pages!Limit(asked) = asked
<1>1. ASSUME NEW asked \in Int
      PROVE  Pages!Limit(asked) =
               IF asked < 1 THEN 1 ELSE IF asked <= MAX_LIMIT THEN asked ELSE MAX_LIMIT
  <2> DEFINE m == IF asked >= 1 THEN asked ELSE 1
             k == IF m <= MAX_LIMIT THEN m ELSE MAX_LIMIT
  <2>0. MAX_LIMIT \in Nat \ {0}
    BY DatabaseAssumption
  <2>1. m \in {asked, 1} /\ \A y \in {asked, 1} : m >= y
    OBVIOUS
  <2>2. \A x \in {asked, 1} : (\A y \in {asked, 1} : x >= y) => x = m
    OBVIOUS
  <2>3. Pages!Max({asked, 1}) = m
    <3> HIDE DEF m
    <3> QED
      BY <2>1, <2>2 DEF Pages!Max
  <2>4. k \in {m, MAX_LIMIT} /\ \A y \in {m, MAX_LIMIT} : k <= y
    BY <2>0
  <2>5. \A x \in {m, MAX_LIMIT} : (\A y \in {m, MAX_LIMIT} : x <= y) => x = k
    BY <2>0
  <2>6. Pages!Min({m, MAX_LIMIT}) = k
    <3> HIDE DEF m, k
    <3> QED
      BY <2>4, <2>5 DEF Pages!Min
  <2>7. Pages!Limit(asked) = k
    <3> HIDE DEF m, k
    <3> QED
      BY <2>3, <2>6 DEF Pages!Limit
  <2> QED
    BY <2>0, <2>7
<1>2. MAX_LIMIT \in Nat \ {0}
  BY DatabaseAssumption
<1> QED
  BY <1>1, <1>2

LEMMA RowsFinite ==
  ASSUME PagesTypeOK
  PROVE  IsFiniteSet(rows) /\ rows \subseteq Nat /\ Cardinality(rows) \in Nat
<1>1. lastId \in Nat /\ rows \subseteq 1..lastId
  BY DEF PagesTypeOK
<1>2. IsFiniteSet(1..lastId)
  BY <1>1, FS_Interval
<1>3. IsFiniteSet(rows)
  BY <1>1, <1>2, FS_Subset
<1>4. rows \subseteq Nat
  BY <1>1
<1> QED
  BY <1>3, <1>4, FS_CardinalityType

\* No later row has an earlier place.
LEMMA PlaceUpTo ==
  ASSUME PagesTypeOK, NEW order \in Orders, NEW x \in rows, NEW a \in rows,
         x = a \/ Pages!Before(x, a, order)
  PROVE  /\ Place(rows, x, order) \in Nat /\ Place(rows, a, order) \in Nat
         /\ Place(rows, x, order) <= Place(rows, a, order)
<1>1. IsFiniteSet(rows) /\ rows \subseteq Nat /\ Cardinality(rows) \in Nat
  BY RowsFinite
<1>2. \A y \in rows : Place(rows, y, order) \in Nat
  <2> TAKE y \in rows
  <2>1. Place(rows, y, order) \in 0..(Cardinality(rows) - 1)
    BY <1>1, PlaceRange
  <2> QED
    BY <1>1, <2>1
<1>3. x = a \/ Place(rows, x, order) < Place(rows, a, order)
  BY <1>1, PlaceGrows
<1> QED
  BY <1>2, <1>3

-----------------------------------------------------------------------------
(* A page is read.                                                         *)

PageReads(order, limit) ==
  /\ order \in Orders /\ limit \in 1..MAX_LIMIT
  /\ ~walk.counting
  /\ walk.order = "none" \/ (walk.order = order /\ walk.limit = limit /\ walk.next # 0)
  /\ Pages!Reads(walk, walk.page + 1, limit, order)
  /\ rows' = rows /\ lastId' = lastId

\* The walk is at its start, or goes on.
LEMMA ReadsFrom ==
  ASSUME PagesTypeOK, NEW order, NEW limit, PageReads(order, limit)
  PROVE  /\ walk.page \in Nat /\ limit \in Nat \ {0} /\ limit \in 1..MAX_LIMIT
         /\ order \in Orders /\ order # "none"
         /\ walk.page # 0 <=> walk.order # "none"
         /\ walk.page # 0 => walk.order = order /\ walk.limit = limit /\ walk.next # 0
         /\ walk.page = 0 => ~walk.added /\ ~walk.taken /\ ~walk.torn
<1>1. walk.page \in Nat
  BY DEF PagesTypeOK, Walks
<1>2. MAX_LIMIT \in Nat
  BY DatabaseAssumption
<1>3. order \in Orders /\ order # "none" /\ limit \in 1..MAX_LIMIT
  BY DEF PageReads, Orders
<1>4. limit \in Nat \ {0}
  BY <1>2, <1>3
<1>5. walk.order = "none" => walk.page = 0 /\ ~walk.added /\ ~walk.taken /\ ~walk.torn
  BY DEF PagesTypeOK, Pages!NoWalk
<1>6. walk.order # "none" => walk.page >= 1
  BY DEF PagesTypeOK
<1>7. walk.page # 0 <=> walk.order # "none"
  BY <1>1, <1>5, <1>6
<1>8. walk.order # "none" => walk.order = order /\ walk.limit = limit /\ walk.next # 0
  BY DEF PageReads
<1> QED
  BY <1>1, <1>3, <1>4, <1>5, <1>7, <1>8

LEMMA ReadsWalk ==
  ASSUME PagesTypeOK, NEW order, NEW limit, PageReads(order, limit)
  PROVE  /\ walk'.order = order /\ walk'.limit = limit /\ walk'.page = walk.page + 1
         /\ walk'.counting /\ walk'.added = walk.added /\ walk'.taken = walk.taken
         /\ walk'.torn = walk.torn
         /\ DOMAIN walk'.seen = 1..(walk.page + 1)
         /\ DOMAIN walk.seen = 1..walk.page
         /\ \A p \in DOMAIN walk.seen : walk'.seen[p] = walk.seen[p]
         /\ walk'.seen[walk.page + 1] = Window(rows, walk.page * limit, limit, order)
         /\ PagesTypeOK'
<1> DEFINE D == Window(rows, walk.page * limit, limit, order)
           n == walk.page + 1
<1>1. walk.page \in Nat /\ limit \in Nat \ {0} /\ limit \in 1..MAX_LIMIT
      /\ order \in Orders /\ order # "none"
  BY ReadsFrom
<1>2. walk \in Walks(1..lastId) /\ rows \subseteq 1..lastId /\ lastId \in Nat
      /\ walk.seen \in Seq(SUBSET (1..lastId)) /\ Len(walk.seen) = walk.page
      /\ (walk.torn => walk.added \/ walk.taken)
  BY DEF PagesTypeOK, Walks
<1>3. Pages!Data(n, limit, order) = D
  <2>1. Pages!Data(n, limit, order) = Window(rows, (n - 1) * limit, limit, order)
    BY DataWindow
  <2>2. n - 1 = walk.page
    BY <1>1
  <2> QED
    BY <2>1, <2>2
<1>4. walk' = [walk EXCEPT !.order = order, !.limit = limit, !.page = n,
                 !.counting = TRUE, !.seen = Append(walk.seen, D)]
  BY <1>3 DEF PageReads, Pages!Reads
<1>5. D \in SUBSET (1..lastId)
  BY <1>2 DEF Window
<1>6. Append(walk.seen, D) \in Seq(SUBSET (1..lastId))
  BY <1>2, <1>5
<1>7. /\ Len(Append(walk.seen, D)) = n /\ DOMAIN Append(walk.seen, D) = 1..n
      /\ DOMAIN walk.seen = 1..walk.page
      /\ \A p \in 1..walk.page : Append(walk.seen, D)[p] = walk.seen[p]
      /\ Append(walk.seen, D)[n] = D
  BY <1>1, <1>2, <1>5
<1> HIDE DEF D, n
<1>8. /\ walk'.order = order /\ walk'.limit = limit /\ walk'.page = n
      /\ walk'.counting = TRUE /\ walk'.added = walk.added /\ walk'.taken = walk.taken
      /\ walk'.torn = walk.torn /\ walk'.seen = Append(walk.seen, D)
  BY <1>2, <1>4 DEF Walks
<1>9. walk' \in Walks(1..lastId)
  <2>1. n \in Nat
    BY <1>1 DEF n
  <2> QED
    BY <1>1, <1>2, <1>4, <1>6, <2>1 DEF Walks
<1>10. PagesTypeOK'
  <2>1. rows' = rows /\ lastId' = lastId
    BY DEF PageReads
  <2>2. n >= 1
    BY <1>1 DEF n
  <2>3. walk' \in Walks(1..lastId') /\ Len(walk'.seen) = walk'.page
    BY <1>7, <1>8, <1>9, <2>1
  <2> QED
    BY <1>1, <1>2, <1>8, <2>1, <2>2, <2>3 DEF PagesTypeOK
<1> QED
  BY <1>7, <1>8, <1>10 DEF D, n

\* What the page shows.
LEMMA ReadSees ==
  ASSUME PagesTypeOK, NEW order, NEW limit, PageReads(order, limit)
  PROVE  LET D == Window(rows, walk.page * limit, limit, order)
         IN /\ Seen' = Seen \union D
            /\ D \subseteq rows
            /\ \A x \in D : /\ walk.page * limit <= Place(rows, x, order)
                            /\ Place(rows, x, order) < (walk.page + 1) * limit
            /\ \A x \in rows : walk.page * limit <= Place(rows, x, order)
                               /\ Place(rows, x, order) < (walk.page + 1) * limit => x \in D
<1> DEFINE D == Window(rows, walk.page * limit, limit, order)
           n == walk.page + 1
<1>1. walk.page \in Nat /\ limit \in Nat \ {0} /\ order \in Orders
  BY ReadsFrom
<1>2. /\ DOMAIN walk'.seen = 1..n /\ DOMAIN walk.seen = 1..walk.page
      /\ \A p \in DOMAIN walk.seen : walk'.seen[p] = walk.seen[p]
      /\ walk'.seen[n] = D
  BY ReadsWalk
<1>3. Seen' = Seen \union D
  <2> HIDE DEF D
  <2>1. \A p \in 1..n : p = n \/ p \in 1..walk.page
    BY <1>1
  <2>2. n \in 1..n /\ 1..walk.page \subseteq 1..n
    BY <1>1
  <2> HIDE DEF n
  <2>3. ASSUME NEW x \in Seen'
        PROVE  x \in Seen \union D
    <3>1. PICK p \in DOMAIN walk'.seen : x \in walk'.seen[p]
      BY <2>3 DEF Seen
    <3> QED
      BY <1>2, <2>1, <3>1 DEF Seen
  <2>4. ASSUME NEW x \in Seen
        PROVE  x \in Seen'
    <3>1. PICK p \in DOMAIN walk.seen : x \in walk.seen[p]
      BY <2>4 DEF Seen
    <3> QED
      BY <1>2, <2>2, <3>1 DEF Seen
  <2>5. D \subseteq Seen'
    BY <1>2, <2>2 DEF Seen
  <2> QED
    BY <2>3, <2>4, <2>5
<1>4. walk.page * limit \in Nat /\ n * limit = walk.page * limit + limit
  BY <1>1
<1>5. ASSUME NEW x \in rows
      PROVE  /\ Place(rows, x, order) \in Nat
             /\ x \in D <=> /\ walk.page * limit <= Place(rows, x, order)
                            /\ Place(rows, x, order) < n * limit
  <2>1. Place(rows, x, order) \in Nat
    BY <1>1, PlaceUpTo
  <2>2. x \in D <=> Place(rows, x, order) \in (walk.page * limit)..(walk.page * limit + limit - 1)
    BY DEF Window
  <2> HIDE DEF D, n
  <2> QED
    BY <1>1, <1>4, <2>1, <2>2
<1>6. D \subseteq rows
  BY DEF Window
<1> HIDE DEF D, n
<1>7. \A x \in rows : walk.page * limit <= Place(rows, x, order)
                        /\ Place(rows, x, order) < n * limit => x \in D
  BY <1>5
<1>8. \A x \in D : walk.page * limit <= Place(rows, x, order)
                     /\ Place(rows, x, order) < n * limit
  BY <1>5, <1>6
<1> QED
  BY <1>3, <1>6, <1>7, <1>8 DEF D, n

\* Places times a page's size.
LEMMA PageBounds ==
  ASSUME NEW p \in Nat, NEW q \in Nat, NEW limit \in Nat, p <= q
  PROVE  p * limit \in Nat /\ q * limit \in Nat /\ p * limit <= q * limit
<1>1. PICK d \in Nat : q = p + d
  <2>1. q - p \in Nat /\ q = p + (q - p)
    OBVIOUS
  <2> QED
    BY <2>1
<1>2. q * limit = p * limit + d * limit
  BY <1>1
<1>3. d * limit \in Nat /\ p * limit \in Nat
  OBVIOUS
<1> QED
  BY <1>2, <1>3

LEMMA PageBefore ==
  ASSUME NEW p \in Nat \ {0}, NEW limit \in Nat
  PROVE  (p - 1) * limit \in Nat /\ (p - 1) * limit + limit = p * limit
<1>1. PICK d \in Nat : p = d + 1
  <2>1. p - 1 \in Nat /\ p = (p - 1) + 1
    OBVIOUS
  <2> QED
    BY <2>1
<1>2. d * limit \in Nat
  OBVIOUS
<1>3. (d + 1) * limit = d * limit + limit
  OBVIOUS
<1>4. p - 1 = d
  BY <1>1
<1> QED
  BY <1>1, <1>2, <1>3, <1>4

LEMMA ReadBehind ==
  ASSUME PagesTypeOK, Behind, NEW order, NEW limit, PageReads(order, limit)
  PROVE  Behind'
<1> DEFINE n == walk.page + 1
<1>1. /\ walk.page \in Nat /\ limit \in Nat \ {0} /\ order \in Orders
      /\ walk.page # 0 => walk.order = order /\ walk.limit = limit
  BY ReadsFrom
<1>2. /\ walk'.order = order /\ walk'.limit = limit /\ walk'.added = walk.added
      /\ DOMAIN walk'.seen = 1..n /\ DOMAIN walk.seen = 1..walk.page
      /\ \A p \in DOMAIN walk.seen : walk'.seen[p] = walk.seen[p]
      /\ walk'.seen[n] = Window(rows, walk.page * limit, limit, order)
      /\ rows' = rows
  BY ReadsWalk DEF PageReads
<1>3. ASSUME Steady', NEW p \in 1..n, NEW a \in walk'.seen[p], NEW x \in rows,
             x = a \/ Pages!Before(x, a, order)
      PROVE  Place(rows, x, order) < p * limit
  <2>1. CASE p = n
    <3>1. a \in rows /\ Place(rows, a, order) < n * limit
      BY <1>2, <2>1, ReadSees
    <3>2. Place(rows, x, order) <= Place(rows, a, order)
          /\ Place(rows, x, order) \in Nat /\ Place(rows, a, order) \in Nat
      BY <1>1, <1>3, <3>1, PlaceUpTo
    <3>3. n * limit \in Nat
      BY <1>1
    <3> QED
      BY <2>1, <3>1, <3>2, <3>3
  <2>2. CASE p # n
    <3>1. p \in 1..walk.page /\ walk.page # 0
      BY <1>1, <2>2
    <3>2. walk.order = order /\ walk.limit = limit /\ walk'.seen[p] = walk.seen[p]
      BY <1>1, <1>2, <3>1
    <3>3. Steady
      BY <1>2, <1>3, <3>2 DEF Steady
    <3> QED
      BY <1>2, <1>3, <3>1, <3>2, <3>3 DEF Behind
  <2> QED
    BY <2>1, <2>2
<1> QED
  BY <1>2, <1>3 DEF Behind

LEMMA ReadInOrder ==
  ASSUME PagesTypeOK, Behind, InOrder, NEW order, NEW limit, PageReads(order, limit)
  PROVE  InOrder'
<1> DEFINE n == walk.page + 1
<1>1. /\ walk.page \in Nat /\ limit \in Nat \ {0} /\ order \in Orders
      /\ walk.page # 0 => walk.order = order /\ walk.limit = limit
  BY ReadsFrom
<1>2. /\ walk'.order = order /\ walk'.limit = limit /\ walk'.added = walk.added
      /\ DOMAIN walk'.seen = 1..n /\ DOMAIN walk.seen = 1..walk.page
      /\ \A p \in DOMAIN walk.seen : walk'.seen[p] = walk.seen[p]
      /\ walk'.seen[n] = Window(rows, walk.page * limit, limit, order)
      /\ rows' = rows
  BY ReadsWalk DEF PageReads
<1>3. ASSUME Steady', NEW p \in 1..n, NEW q \in 1..n, p < q,
             NEW a \in walk'.seen[p], NEW b \in walk'.seen[q]
      PROVE  Pages!Before(a, b, order)
  <2>1. p \in 1..walk.page /\ walk.page # 0 /\ p \in Nat /\ p <= walk.page
    BY <1>1, <1>3
  <2>2. walk.order = order /\ walk.limit = limit /\ walk'.seen[p] = walk.seen[p]
    BY <1>1, <1>2, <2>1
  <2>3. Steady
    BY <1>2, <1>3, <2>2 DEF Steady
  <2>4. CASE q = n
    <3>1. b \in rows /\ walk.page * limit <= Place(rows, b, order)
      BY <1>2, <2>4, ReadSees
    <3>2. ~(b = a \/ Pages!Before(b, a, order))
      <4>1. p * limit \in Nat /\ walk.page * limit \in Nat /\ p * limit <= walk.page * limit
        BY <1>1, <2>1, PageBounds
      <4>2. Place(rows, b, order) \in Nat
        BY <1>1, <3>1, PlaceUpTo
      <4>3. ~(Place(rows, b, order) < p * limit)
        BY <3>1, <4>1, <4>2
      <4> QED
        BY <1>2, <2>1, <2>2, <2>3, <3>1, <4>3 DEF Behind
    <3>3. a \in Nat /\ b \in Nat
      <4>1. rows \subseteq Nat
        BY RowsFinite
      <4>2. walk.seen \in Seq(SUBSET (1..lastId)) /\ Len(walk.seen) = walk.page
            /\ lastId \in Nat
        BY DEF PagesTypeOK, Walks
      <4>3. walk.seen[p] \in SUBSET (1..lastId)
        BY <1>2, <2>1, <4>2
      <4>4. a \in 1..lastId
        BY <2>2, <4>3
      <4> QED
        BY <3>1, <4>1, <4>2, <4>4
    <3> QED
      BY <1>1, <3>2, <3>3, BeforeOrders
  <2>5. CASE q # n
    <3>1. q \in 1..walk.page
      BY <1>1, <2>5
    <3> QED
      BY <1>2, <1>3, <2>1, <2>2, <2>3, <3>1 DEF InOrder
  <2> QED
    BY <2>4, <2>5
<1> QED
  BY <1>2, <1>3 DEF InOrder

LEMMA ReadFull ==
  ASSUME PagesTypeOK, Full, NEW order, NEW limit, PageReads(order, limit)
  PROVE  Full'
<1> DEFINE n == walk.page + 1
<1>1. /\ walk.page \in Nat /\ limit \in Nat \ {0} /\ order \in Orders
      /\ walk.page # 0 <=> walk.order # "none"
      /\ walk.page # 0 => walk.order = order /\ walk.limit = limit /\ walk.next # 0
  BY ReadsFrom
<1>2. /\ walk'.order = order /\ walk'.limit = limit /\ walk'.page = n /\ walk'.counting
      /\ walk'.added = walk.added /\ walk'.taken = walk.taken /\ walk'.torn = walk.torn
      /\ walk'.seen[n] = Window(rows, walk.page * limit, limit, order)
      /\ rows' = rows
  BY ReadsWalk DEF PageReads
<1>3. ASSUME Whole', NEW x \in rows, Place(rows, x, order) < n * limit
      PROVE  x \in Seen'
  <2>1. CASE walk.page * limit <= Place(rows, x, order)
    BY <1>3, <2>1, ReadSees
  <2>2. CASE ~(walk.page * limit <= Place(rows, x, order))
    <3>1. Place(rows, x, order) \in Nat
      BY <1>1, PlaceUpTo
    <3>2. Place(rows, x, order) < walk.page * limit
      <4>1. walk.page * limit \in Nat
        BY <1>1
      <4> QED
        BY <2>2, <3>1, <4>1
    <3>3. walk.page # 0
      BY <1>1, <3>1, <3>2
    <3>4. Whole
      BY <1>1, <1>2, <1>3, <3>3 DEF Whole, Steady
    <3>5. x \in Seen
      BY <1>1, <3>2, <3>3, <3>4 DEF Full
    <3> QED
      BY <3>5, ReadSees
  <2> QED
    BY <2>1, <2>2
<1>4. walk'.seen[n] = Window(rows, (n - 1) * limit, limit, order)
  <2>1. n - 1 = walk.page
    BY <1>1
  <2> QED
    BY <1>2, <2>1
<1> HIDE DEF n
<1> QED
  BY <1>2, <1>3, <1>4 DEF Full

LEMMA ReadClosed ==
  ASSUME PagesTypeOK, Behind', Full', Closed, NEW order, NEW limit, PageReads(order, limit)
  PROVE  Closed'
<1> DEFINE n == walk.page + 1
<1>1. walk.page \in Nat /\ limit \in Nat \ {0} /\ order \in Orders /\ order # "none"
  BY ReadsFrom
<1>2. /\ walk'.order = order /\ walk'.limit = limit /\ walk'.page = n /\ walk'.counting
      /\ walk'.taken = walk.taken /\ DOMAIN walk'.seen = 1..n /\ rows' = rows
  BY ReadsWalk DEF PageReads
<1>3. ~walk'.taken => Seen' \subseteq rows
  BY <1>2, ReadSees DEF Closed
<1>4. ASSUME Whole', NEW x \in rows, NEW a \in Seen', Pages!Before(x, a, order)
      PROVE  x \in Seen'
  <2>1. PICK p \in 1..n : a \in walk'.seen[p]
    BY <1>2 DEF Seen
  <2>2. Place(rows, x, order) < p * limit
    BY <1>2, <1>4, <2>1 DEF Behind, Whole
  <2>3. Place(rows, x, order) \in Nat
    BY <1>1, PlaceUpTo
  <2>4. p \in Nat /\ n \in Nat /\ p <= n
    BY <1>1
  <2>5. p * limit \in Nat /\ n * limit \in Nat /\ p * limit <= n * limit
    BY <1>1, <2>4, PageBounds
  <2>6. Place(rows, x, order) < n * limit
    BY <2>2, <2>3, <2>5
  <2> HIDE DEF n
  <2> QED
    BY <1>1, <1>2, <1>4, <2>6 DEF Full
<1> QED
  BY <1>2, <1>3, <1>4 DEF Closed

LEMMA ReadNoEmptyPage ==
  ASSUME PagesTypeOK, Full, NoEmptyPage, NEW order, NEW limit, PageReads(order, limit)
  PROVE  NoEmptyPage'
<1> DEFINE n == walk.page + 1
<1>1. /\ walk.page \in Nat /\ limit \in Nat \ {0} /\ order \in Orders
      /\ walk.page # 0 <=> walk.order # "none"
      /\ walk.page # 0 => walk.order = order /\ walk.limit = limit /\ walk.next # 0
      /\ ~walk.counting
  BY ReadsFrom DEF PageReads
<1>2. /\ walk'.added = walk.added /\ walk'.taken = walk.taken
      /\ DOMAIN walk'.seen = 1..n /\ DOMAIN walk.seen = 1..walk.page
      /\ \A p \in DOMAIN walk.seen : walk'.seen[p] = walk.seen[p]
      /\ walk'.seen[n] = Window(rows, walk.page * limit, limit, order)
      /\ rows' = rows
  BY ReadsWalk DEF PageReads
<1>3. ASSUME rows # {}, ~walk.taken, ~walk.added
      PROVE  Window(rows, walk.page * limit, limit, order) # {}
  <2>1. IsFiniteSet(rows) /\ rows \subseteq Nat /\ Cardinality(rows) \in Nat
    BY RowsFinite
  <2>2. Cardinality(rows) # 0
    BY <1>3, <2>1, FS_EmptySet
  <2>3. walk.page * limit \in Nat
    BY <1>1
  <2>4. walk.page * limit < Cardinality(rows)
    <3>1. CASE walk.page = 0
      <4>1. walk.page * limit = 0
        BY <1>1, <3>1
      <4> QED
        BY <2>1, <2>2, <4>1
    <3>2. CASE walk.page # 0
      <4>1. Whole
        BY <1>3 DEF Whole, Steady, PagesTypeOK
      <4> QED
        BY <1>1, <3>2, <4>1 DEF Full
    <3> QED
      BY <3>1, <3>2
  <2> QED
    BY <1>1, <2>1, <2>3, <2>4, WindowSize
<1>4. \A p \in 1..n : p = n \/ p \in 1..walk.page
  BY <1>1
<1> HIDE DEF n
<1> QED
  BY <1>2, <1>3, <1>4 DEF NoEmptyPage

LEMMA ReadStays ==
  ASSUME PagesIInv, NEW order, NEW limit, PageReads(order, limit)
  PROVE  PagesIInv'
<1> USE DEF PagesIInv
<1>1. PagesTypeOK' /\ Ended'
  <2>1. walk'.counting
    BY ReadsWalk
  <2> QED
    BY <2>1, ReadsWalk DEF Ended
<1>2. Behind' /\ InOrder' /\ Full' /\ NoEmptyPage'
  BY ReadBehind, ReadInOrder, ReadFull, ReadNoEmptyPage
<1>3. Closed'
  BY <1>2, ReadClosed
<1> QED
  BY <1>1, <1>2, <1>3

-----------------------------------------------------------------------------
(* The rows are counted, added and deleted.                                *)

LEMMA FirstStays ==
  ASSUME PagesIInv, Pages!First
  PROVE  PagesIInv'
<1>1. PICK page \in -1..1, limit \in -1..(MAX_LIMIT + 1), order \in Orders :
        Pages!Reads(walk, Pages!Page(page), Pages!Limit(limit), order)
  BY DEF Pages!First, Orders
<1>2. walk.order = "none" /\ rows' = rows /\ lastId' = lastId
  BY DEF Pages!First
<1>3. walk.page = 0 /\ ~walk.counting
  BY <1>2 DEF PagesIInv, PagesTypeOK, Pages!NoWalk
<1>4. Pages!Page(page) = walk.page + 1
  BY <1>3, PageClamp
<1>5. Pages!Limit(limit) \in 1..MAX_LIMIT
  <2>1. limit \in Int
    OBVIOUS
  <2> QED
    BY <2>1, LimitClamp
<1>6. PageReads(order, Pages!Limit(limit))
  BY <1>1, <1>2, <1>3, <1>4, <1>5 DEF PageReads
<1> QED
  BY <1>6, ReadStays

LEMMA FurtherStays ==
  ASSUME PagesIInv, Pages!Further
  PROVE  PagesIInv'
<1>1. /\ ~walk.counting /\ walk.next # 0 /\ rows' = rows /\ lastId' = lastId
      /\ Pages!Reads(walk, Pages!Page(walk.next), Pages!Limit(walk.limit), walk.order)
  BY DEF Pages!Further
<1>2. walk.order # "none"
  BY <1>1 DEF PagesIInv, PagesTypeOK, Pages!NoWalk
<1>3. /\ walk.order \in Orders /\ walk.limit \in 1..MAX_LIMIT /\ walk.page \in Nat
      /\ walk.next = walk.page + 1
  BY <1>1, <1>2 DEF PagesIInv, PagesTypeOK, Walks
<1>4. Pages!Page(walk.next) = walk.page + 1
  <2>1. walk.next \in Nat \ {0}
    BY <1>3
  <2> QED
    BY <1>3, <2>1, PageClamp
<1>5. Pages!Limit(walk.limit) = walk.limit
  BY <1>3, LimitClamp
<1>6. PageReads(walk.order, walk.limit)
  BY <1>1, <1>3, <1>4, <1>5 DEF PageReads
<1> QED
  BY <1>6, ReadStays

\* A page that is not full ends the list.
LEMMA CountTells ==
  ASSUME PagesIInv, Pages!Count
  PROVE  \E next \in {0, walk.page + 1} :
           /\ walk' = [walk EXCEPT !.counting = FALSE, !.next = next]
           /\ next # 0 => walk.page * walk.limit < Cardinality(rows)
           /\ next = 0 /\ Whole => Cardinality(rows) <= walk.page * walk.limit
<1> DEFINE last == walk.seen[walk.page]
           size == Cardinality(last)
           told == (walk.page - 1) * walk.limit + size
<1>1. walk.counting
  BY DEF Pages!Count
<1>2. walk.order # "none"
  BY <1>1 DEF PagesIInv, PagesTypeOK, Pages!NoWalk
<1>3. /\ walk.order \in Orders /\ walk.limit \in 1..MAX_LIMIT /\ walk.page \in Nat
      /\ walk.page >= 1 /\ walk.seen \in Seq(SUBSET (1..lastId)) /\ lastId \in Nat
      /\ Len(walk.seen) = walk.page
  BY <1>2 DEF PagesIInv, PagesTypeOK, Walks
<1>4. walk.limit \in Nat \ {0}
  BY <1>3
<1>5. IsFiniteSet(rows) /\ rows \subseteq Nat /\ Cardinality(rows) \in Nat
  BY RowsFinite DEF PagesIInv
<1>6. size \in Nat
  <2>1. last \in SUBSET (1..lastId)
    BY <1>3
  <2>2. IsFiniteSet(1..lastId)
    BY <1>3, FS_Interval
  <2>3. IsFiniteSet(last)
    BY <2>1, <2>2, FS_Subset
  <2> QED
    BY <2>3, FS_CardinalityType
<1>7. (walk.page - 1) * walk.limit \in Nat
      /\ (walk.page - 1) * walk.limit + walk.limit = walk.page * walk.limit
  <2>1. walk.page \in Nat \ {0} /\ walk.limit \in Nat
    BY <1>3, <1>4
  <2> QED
    BY <2>1, PageBefore
<1>8. Pages!Cardinality(Pages!Last(walk.seen)) = size /\ Pages!Cardinality(rows) = Cardinality(rows)
  <2>1. Pages!Last(walk.seen) = last
    BY <1>3 DEF Pages!Last
  <2>2. \A S : Pages!Cardinality(S) = Cardinality(S)
    BY DEF Pages!Cardinality, Cardinality
  <2> QED
    BY <2>1, <2>2
<1>9. PICK total \in {Cardinality(rows)} \union
                     (IF size \in 1..(walk.limit - 1) THEN {told} ELSE {}) :
        walk' = [walk EXCEPT !.counting = FALSE,
                   !.next = Pages!NextPage(walk.page, walk.limit, total)]
  <2> HIDE DEF size
  <2> QED
    BY <1>8 DEF Pages!Count
<1> HIDE DEF size, last
<1>10. total = Cardinality(rows) \/ (total = told /\ size < walk.limit)
  BY <1>4, <1>6, <1>9
<1>11. total \in Nat
  BY <1>5, <1>6, <1>7, <1>10
<1> DEFINE next == Pages!NextPage(walk.page, walk.limit, total)
<1>12. next \in {0, walk.page + 1} /\ (next # 0 <=> walk.page * walk.limit < total)
  BY <1>3, <1>4, <1>11, NextPageLeads
<1>13. walk' = [walk EXCEPT !.counting = FALSE, !.next = next]
  BY <1>9
<1>14. walk.page * walk.limit \in Nat /\ told \in Nat
  BY <1>3, <1>4, <1>6, <1>7
<1> HIDE DEF next, told
<1>15. CASE total = Cardinality(rows)
  <2>1. next # 0 => walk.page * walk.limit < Cardinality(rows)
    BY <1>12, <1>15
  <2>2. next = 0 => Cardinality(rows) <= walk.page * walk.limit
    BY <1>5, <1>12, <1>14, <1>15
  <2>3. next \in {0, walk.page + 1}
    BY <1>12
  <2> QED
    BY <1>13, <2>1, <2>2, <2>3
<1>16. CASE total = told /\ size < walk.limit
  <2>1. told < walk.page * walk.limit
    BY <1>4, <1>6, <1>7, <1>16 DEF told
  <2>2. next = 0
    BY <1>12, <1>14, <1>16, <2>1
  <2>3. ASSUME Whole
        PROVE  Cardinality(rows) <= walk.page * walk.limit
    <3>1. last = Window(rows, (walk.page - 1) * walk.limit, walk.limit, walk.order)
      BY <1>1, <1>2, <2>3 DEF PagesIInv, Full, last
    <3>2. ~((walk.page - 1) * walk.limit + walk.limit <= Cardinality(rows))
      <4>1. (walk.page - 1) * walk.limit + walk.limit <= Cardinality(rows) =>
              walk.limit <= size
        BY <1>3, <1>4, <1>5, <1>7, <3>1, WindowSize DEF size
      <4> QED
        BY <1>4, <1>6, <1>16, <4>1
    <3> QED
      BY <1>4, <1>5, <1>7, <3>2
  <2> QED
    BY <1>12, <1>13, <2>2, <2>3
<1> QED
  BY <1>10, <1>15, <1>16

LEMMA CountStays ==
  ASSUME PagesIInv, Pages!Count
  PROVE  PagesIInv'
<1>1. PICK next \in {0, walk.page + 1} :
        /\ walk' = [walk EXCEPT !.counting = FALSE, !.next = next]
        /\ next # 0 => walk.page * walk.limit < Cardinality(rows)
        /\ next = 0 /\ Whole => Cardinality(rows) <= walk.page * walk.limit
  BY CountTells
<1>2. walk.counting /\ rows' = rows /\ lastId' = lastId
  BY DEF Pages!Count
<1>3. walk.order # "none"
  BY <1>2 DEF PagesIInv, PagesTypeOK, Pages!NoWalk
<1>4. PagesTypeOK /\ walk \in Walks(1..lastId) /\ walk.page \in Nat
  BY DEF PagesIInv, PagesTypeOK, Walks
<1>5. /\ walk'.order = walk.order /\ walk'.limit = walk.limit /\ walk'.page = walk.page
      /\ walk'.counting = FALSE /\ walk'.next = next /\ walk'.seen = walk.seen
      /\ walk'.added = walk.added /\ walk'.taken = walk.taken /\ walk'.torn = walk.torn
  BY <1>1, <1>4 DEF Walks
<1>6. PagesTypeOK'
  <2>1. next \in Nat
    BY <1>4
  <2>2. walk' \in Walks(1..lastId)
    BY <1>1, <1>4, <2>1 DEF Walks
  <2> QED
    BY <1>2, <1>3, <1>4, <1>5, <2>2 DEF PagesTypeOK
<1>7. Seen' = Seen /\ Steady' = Steady /\ Whole' = Whole
  BY <1>5 DEF Seen, Steady, Whole
<1>8. Behind' /\ InOrder' /\ Closed' /\ NoEmptyPage'
  BY <1>2, <1>5, <1>7 DEF PagesIInv, Behind, InOrder, Closed, NoEmptyPage
<1>9. Full'
  BY <1>1, <1>2, <1>3, <1>5, <1>7 DEF PagesIInv, Full
<1>10. Ended'
  <2> SUFFICES ASSUME next = 0, ~walk.taken, ~walk.added
               PROVE  Seen = rows
    BY <1>2, <1>5, <1>7 DEF Ended
  <2>1. Whole
    BY <1>4 DEF Whole, Steady, PagesTypeOK
  <2>2. Cardinality(rows) <= walk.page * walk.limit
    BY <1>1, <2>1
  <2>3. Seen \subseteq rows
    BY DEF PagesIInv, Closed
  <2>4. ASSUME NEW x \in rows
        PROVE  x \in Seen
    <3>1. IsFiniteSet(rows) /\ rows \subseteq Nat /\ Cardinality(rows) \in Nat
      BY <1>4, RowsFinite
    <3>2. walk.order \in Orders /\ walk.limit \in 1..MAX_LIMIT
      BY <1>3, <1>4 DEF PagesTypeOK, Walks
    <3>3. Place(rows, x, walk.order) \in 0..(Cardinality(rows) - 1)
      BY <3>1, <3>2, PlaceRange
    <3>4. walk.page * walk.limit \in Nat
      <4>1. walk.limit \in Nat
        BY <3>2
      <4> QED
        BY <1>4, <4>1
    <3>5. Place(rows, x, walk.order) < walk.page * walk.limit
      BY <2>2, <3>1, <3>3, <3>4
    <3> QED
      BY <1>2, <1>3, <2>1, <3>5 DEF PagesIInv, Full
  <2> QED
    BY <2>3, <2>4
<1> QED
  BY <1>6, <1>8, <1>9, <1>10 DEF PagesIInv

\* A row at the end of the list has the last place ...
LEMMA InsertPlacesNew ==
  ASSUME PagesTypeOK
  PROVE  Place(rows \union {lastId + 1}, lastId + 1, "asc") = Cardinality(rows)
<1>1. lastId \in Nat /\ rows \subseteq 1..lastId
  BY DEF PagesTypeOK
<1>2. \A a \in rows : Pages!Before(a, lastId + 1, "asc")
  BY <1>1 DEF Pages!Before
<1>3. ~Pages!Before(lastId + 1, lastId + 1, "asc")
  BY <1>1 DEF Pages!Before
<1>4. {a \in rows \union {lastId + 1} : Pages!Before(a, lastId + 1, "asc")} = rows
  BY <1>2, <1>3
<1> QED
  BY <1>4 DEF Place

\* ... and moves no other.
LEMMA InsertPlaces ==
  ASSUME PagesTypeOK, NEW x \in rows
  PROVE  Place(rows \union {lastId + 1}, x, "asc") = Place(rows, x, "asc")
<1>1. lastId \in Nat /\ rows \subseteq 1..lastId
  BY DEF PagesTypeOK
<1>2. ~Pages!Before(lastId + 1, x, "asc")
  BY <1>1 DEF Pages!Before
<1>3. {a \in rows \union {lastId + 1} : Pages!Before(a, x, "asc")}
        = {a \in rows : Pages!Before(a, x, "asc")}
  BY <1>2
<1> QED
  BY <1>3 DEF Place

LEMMA InsertStays ==
  ASSUME PagesIInv, Pages!Insert
  PROVE  PagesIInv'
<1> DEFINE new == lastId + 1
<1>1. /\ lastId' = new /\ rows' = rows \union {new}
      /\ walk' = [walk EXCEPT !.added = walk.order # "none", !.torn = walk.torn \/ walk.counting]
  BY DEF Pages!Insert
<1>2. /\ PagesTypeOK /\ walk \in Walks(1..lastId) /\ lastId \in Nat /\ rows \subseteq 1..lastId
      /\ Len(walk.seen) = walk.page /\ walk.page \in Nat
      /\ walk.seen \in Seq(SUBSET (1..lastId))
  BY DEF PagesIInv, PagesTypeOK, Walks
<1>3. /\ walk'.order = walk.order /\ walk'.limit = walk.limit /\ walk'.page = walk.page
      /\ walk'.counting = walk.counting /\ walk'.next = walk.next /\ walk'.seen = walk.seen
      /\ walk'.added = (walk.order # "none") /\ walk'.taken = walk.taken
      /\ walk'.torn = (walk.torn \/ walk.counting)
  BY <1>1, <1>2 DEF Walks
<1>4. Seen' = Seen
  BY <1>3 DEF Seen
<1>5. walk.order = "none" => walk.seen = <<>> /\ walk' = walk /\ ~walk.counting
  <2> SUFFICES ASSUME walk.order = "none"
               PROVE  walk.seen = <<>> /\ walk' = walk /\ ~walk.counting
    OBVIOUS
  <2>1. walk = Pages!NoWalk
    BY <1>2 DEF PagesTypeOK
  <2>2. walk.seen = <<>> /\ walk.counting = FALSE /\ walk.added = FALSE /\ walk.torn = FALSE
    BY <2>1 DEF Pages!NoWalk
  <2>3. (walk.order # "none") = FALSE /\ (walk.torn \/ walk.counting) = FALSE
    BY <2>2
  <2>4. walk' = [walk EXCEPT !.added = FALSE, !.torn = FALSE]
    BY <1>1, <2>3
  <2>5. walk' = walk
    BY <1>2, <2>2, <2>4 DEF Walks
  <2> QED
    BY <2>2, <2>5
<1>6. PagesTypeOK'
  <2>1. walk.seen \in Seq(SUBSET (1..new))
    <3>1. \A p \in 1..Len(walk.seen) : walk.seen[p] \in SUBSET (1..lastId)
      BY <1>2
    <3>2. 1..lastId \subseteq 1..new
      BY <1>2
    <3> HIDE DEF new
    <3>3. \A p \in 1..Len(walk.seen) : walk.seen[p] \in SUBSET (1..new)
      BY <3>1, <3>2
    <3> QED
      BY <1>2, <3>3
  <2>2. walk' \in Walks(1..new)
    <3> HIDE DEF new
    <3> QED
      BY <1>1, <1>2, <2>1 DEF Walks
  <2>3. new \in Nat /\ rows \union {new} \subseteq 1..new
    BY <1>2
  <2>4. walk'.order = "none" => walk' = Pages!NoWalk
    BY <1>2, <1>3, <1>5 DEF PagesTypeOK
  <2>5. walk'.torn => walk'.added \/ walk'.taken
    <3>1. walk.added => walk.order # "none"
      BY <1>2 DEF PagesTypeOK, Pages!NoWalk
    <3> QED
      BY <1>2, <1>3, <1>5, <3>1 DEF PagesTypeOK
  <2> HIDE DEF new
  <2> QED
    BY <1>1, <1>2, <1>3, <2>2, <2>3, <2>4, <2>5 DEF PagesTypeOK
<1>7. NoEmptyPage'
  <2>1. CASE walk.order = "none"
    <3>1. DOMAIN walk'.seen = {}
      BY <1>3, <1>5, <2>1
    <3> QED
      BY <3>1 DEF NoEmptyPage
  <2>2. CASE walk.order # "none"
    <3>1. walk'.added
      BY <1>3, <2>2
    <3> QED
      BY <3>1 DEF NoEmptyPage
  <2> QED
    BY <2>1, <2>2
<1>8. Ended'
  BY <1>3 DEF Ended
<1>9. ASSUME Steady', walk.order # "none"
      PROVE  walk.order = "asc" /\ Steady
  BY <1>3, <1>9 DEF Steady
<1>10. ASSUME NEW x \in rows
       PROVE  Place(rows', x, "asc") = Place(rows, x, "asc")
  BY <1>1, <1>2, InsertPlaces
<1>11. ASSUME NEW p \in DOMAIN walk.seen, NEW a \in walk.seen[p]
       PROVE  ~(new = a \/ Pages!Before(new, a, "asc"))
  <2>1. a \in 1..lastId
    BY <1>2, <1>11
  <2> QED
    BY <1>2, <2>1 DEF Pages!Before
<1>12. Behind'
  <2> SUFFICES ASSUME Steady', NEW p \in DOMAIN walk.seen, NEW a \in walk.seen[p],
                      NEW x \in rows', x = a \/ Pages!Before(x, a, walk.order)
               PROVE  Place(rows', x, walk.order) < p * walk.limit
    BY <1>3 DEF Behind
  <2>1. walk.order = "asc" /\ Steady
    BY <1>5, <1>9
  <2>2. x \in rows
    BY <1>1, <1>11, <2>1
  <2>3. Place(rows, x, walk.order) < p * walk.limit
    BY <2>1, <2>2 DEF PagesIInv, Behind
  <2> QED
    BY <1>10, <2>1, <2>2, <2>3
<1>13. InOrder'
  <2> SUFFICES ASSUME Steady', NEW p \in DOMAIN walk.seen, NEW q \in DOMAIN walk.seen, p < q,
                      NEW a \in walk.seen[p], NEW b \in walk.seen[q]
               PROVE  Pages!Before(a, b, walk.order)
    BY <1>3 DEF InOrder
  <2>1. Steady
    BY <1>5, <1>9
  <2> QED
    BY <2>1 DEF PagesIInv, InOrder
<1>14. Closed'
  <2>1. ~walk'.taken => Seen' \subseteq rows'
    BY <1>1, <1>3, <1>4 DEF PagesIInv, Closed
  <2>2. ASSUME Whole', NEW x \in rows', NEW a \in Seen, Pages!Before(x, a, walk.order)
        PROVE  x \in Seen
    <3>1. PICK p \in DOMAIN walk.seen : a \in walk.seen[p]
      BY DEF Seen
    <3>2. walk.order = "asc" /\ Steady
      BY <1>5, <1>9, <2>2, <3>1 DEF Whole
    <3>3. x \in rows
      BY <1>1, <1>11, <2>2, <3>1, <3>2
    <3>4. Whole
      BY <1>3, <2>2, <3>2 DEF Whole
    <3> QED
      BY <2>2, <3>3, <3>4 DEF PagesIInv, Closed
  <2> QED
    BY <1>3, <1>4, <2>1, <2>2 DEF Closed
<1>15. Full'
  <2> SUFFICES ASSUME Whole', walk.order # "none"
               PROVE  /\ walk.counting \/ walk.next # 0 =>
                           \A x \in rows' : Place(rows', x, walk.order) < walk.page * walk.limit
                                              => x \in Seen
                      /\ ~walk.counting /\ walk.next # 0 =>
                           walk.page * walk.limit < Cardinality(rows')
                      /\ ~walk.counting
    BY <1>3, <1>4 DEF Full
  <2>1. walk.order = "asc" /\ Whole /\ ~walk.counting
    BY <1>3, <1>9 DEF Whole
  <2>2. IsFiniteSet(rows) /\ Cardinality(rows) \in Nat
    BY <1>2, RowsFinite
  <2>3. Cardinality(rows') = Cardinality(rows) + 1
    <3>1. new \notin rows
      BY <1>2
    <3> HIDE DEF new
    <3> QED
      BY <1>1, <2>2, <3>1, FS_AddElement
  <2>4. walk.page * walk.limit \in Nat
    <3>1. walk.limit \in Nat
      BY <1>2 DEF Walks
    <3> QED
      BY <1>2, <3>1
  <2>5. walk.next # 0 => walk.page * walk.limit < Cardinality(rows)
    BY <2>1 DEF PagesIInv, Full
  <2>6. ASSUME walk.next # 0, NEW x \in rows',
               Place(rows', x, walk.order) < walk.page * walk.limit
        PROVE  x \in Seen
    <3>1. x # new
      <4>1. Place(rows', new, "asc") = Cardinality(rows)
        BY <1>1, <1>2, InsertPlacesNew
      <4>2. ~(Cardinality(rows) < walk.page * walk.limit)
        BY <2>2, <2>4, <2>5, <2>6
      <4> QED
        BY <2>1, <2>6, <4>1, <4>2
    <3>2. x \in rows
      BY <1>1, <3>1
    <3>3. Place(rows, x, walk.order) < walk.page * walk.limit
      BY <1>10, <2>1, <2>6, <3>2
    <3> QED
      BY <2>1, <2>6, <3>2, <3>3 DEF PagesIInv, Full
  <2> QED
    BY <2>1, <2>2, <2>3, <2>4, <2>5, <2>6
<1> QED
  BY <1>6, <1>7, <1>8, <1>12, <1>13, <1>14, <1>15 DEF PagesIInv

\* Those behind a row that is deleted move forward.
LEMMA DeletePlaces ==
  ASSUME PagesTypeOK, NEW order \in Orders, NEW id, NEW x \in rows \ {id}
  PROVE  /\ Place(rows \ {id}, x, order) \in Nat
         /\ Place(rows, x, order) \in Nat
         /\ Place(rows \ {id}, x, order) <= Place(rows, x, order)
<1> DEFINE B == {a \in rows : Pages!Before(a, x, order)}
           C == {a \in rows \ {id} : Pages!Before(a, x, order)}
<1>1. IsFiniteSet(rows)
  BY RowsFinite
<1>2. C \subseteq B /\ B \subseteq rows
  OBVIOUS
<1>3. IsFiniteSet(B) /\ IsFiniteSet(C)
  BY <1>1, <1>2, FS_Subset
<1>4. Cardinality(C) <= Cardinality(B)
  BY <1>2, <1>3, FS_Subset
<1> QED
  BY <1>3, <1>4, FS_CardinalityType DEF Place

LEMMA DeleteStays ==
  ASSUME PagesIInv, Pages!Delete
  PROVE  PagesIInv'
<1>1. PICK id \in rows : rows' = rows \ {id}
  BY DEF Pages!Delete
<1>2. /\ lastId' = lastId
      /\ walk' = [walk EXCEPT !.taken = walk.order # "none", !.torn = walk.torn \/ walk.counting]
  BY DEF Pages!Delete
<1>3. /\ PagesTypeOK /\ walk \in Walks(1..lastId) /\ lastId \in Nat /\ rows \subseteq 1..lastId
      /\ walk.page \in Nat /\ walk.limit \in Nat
  BY DEF PagesIInv, PagesTypeOK, Walks
<1>4. /\ walk'.order = walk.order /\ walk'.limit = walk.limit /\ walk'.page = walk.page
      /\ walk'.counting = walk.counting /\ walk'.next = walk.next /\ walk'.seen = walk.seen
      /\ walk'.added = walk.added /\ walk'.taken = (walk.order # "none")
      /\ walk'.torn = (walk.torn \/ walk.counting)
  BY <1>2, <1>3 DEF Walks
<1>5. walk.order = "none" => walk.seen = <<>> /\ walk' = walk /\ ~walk.counting
  <2> SUFFICES ASSUME walk.order = "none"
               PROVE  walk.seen = <<>> /\ walk' = walk /\ ~walk.counting
    OBVIOUS
  <2>1. walk = Pages!NoWalk
    BY <1>3 DEF PagesTypeOK
  <2>2. walk.seen = <<>> /\ walk.counting = FALSE /\ walk.taken = FALSE /\ walk.torn = FALSE
    BY <2>1 DEF Pages!NoWalk
  <2>3. (walk.order # "none") = FALSE /\ (walk.torn \/ walk.counting) = FALSE
    BY <2>2
  <2>4. walk' = [walk EXCEPT !.taken = FALSE, !.torn = FALSE]
    BY <1>2, <2>3
  <2>5. walk' = walk
    BY <1>3, <2>2, <2>4 DEF Walks
  <2> QED
    BY <2>2, <2>5
<1>6. PagesTypeOK'
  <2>1. walk' \in Walks(1..lastId)
    BY <1>2, <1>3 DEF Walks
  <2>2. walk'.order = "none" => walk' = Pages!NoWalk
    BY <1>3, <1>4, <1>5 DEF PagesTypeOK
  <2>3. walk'.torn => walk'.added \/ walk'.taken
    <3>1. walk.taken => walk.order # "none"
      BY <1>3 DEF PagesTypeOK, Pages!NoWalk
    <3> QED
      BY <1>3, <1>4, <1>5, <3>1 DEF PagesTypeOK
  <2> QED
    BY <1>1, <1>2, <1>3, <1>4, <2>1, <2>2, <2>3 DEF PagesTypeOK
<1>7. NoEmptyPage'
  <2>1. CASE walk.order = "none"
    <3>1. DOMAIN walk'.seen = {}
      BY <1>4, <1>5, <2>1
    <3> QED
      BY <3>1 DEF NoEmptyPage
  <2>2. CASE walk.order # "none"
    <3>1. walk'.taken
      BY <1>4, <2>2
    <3> QED
      BY <3>1 DEF NoEmptyPage
  <2> QED
    BY <2>1, <2>2
<1>8. Ended' /\ Full'
  BY <1>4 DEF Ended, Full, Whole
<1>9. Seen' = Seen /\ Steady' = Steady
  BY <1>4 DEF Seen, Steady
<1>10. InOrder'
  BY <1>4, <1>9 DEF PagesIInv, InOrder
<1>11. Closed'
  <2>1. CASE walk.order = "none"
    <3>1. Seen' = {}
      BY <1>5, <1>9, <2>1 DEF Seen
    <3> QED
      BY <3>1 DEF Closed
  <2>2. CASE walk.order # "none"
    BY <1>4, <2>2 DEF Closed, Whole
  <2> QED
    BY <2>1, <2>2
<1>12. Behind'
  <2> SUFFICES ASSUME Steady, NEW p \in DOMAIN walk.seen, NEW a \in walk.seen[p],
                      NEW x \in rows', x = a \/ Pages!Before(x, a, walk.order)
               PROVE  Place(rows', x, walk.order) < p * walk.limit
    BY <1>4, <1>9 DEF Behind
  <2>1. walk.order \in Orders
    BY <1>3, <1>5 DEF Walks
  <2>2. Place(rows, x, walk.order) < p * walk.limit
    BY <1>1 DEF PagesIInv, Behind
  <2>3. /\ Place(rows', x, walk.order) \in Nat
        /\ Place(rows, x, walk.order) \in Nat
        /\ Place(rows', x, walk.order) <= Place(rows, x, walk.order)
    BY <1>1, <1>3, <2>1, DeletePlaces
  <2>4. p * walk.limit \in Nat
    <3>1. p \in Nat
      BY <1>3 DEF Walks
    <3> QED
      BY <1>3, <3>1
  <2> QED
    BY <2>2, <2>3, <2>4
<1> QED
  BY <1>6, <1>7, <1>8, <1>10, <1>11, <1>12 DEF PagesIInv

-----------------------------------------------------------------------------
(* The walk.                                                               *)

\* Whoever walks through a list knows of each page what the invariant says.
THEOREM PagesInvariance == Pages!Spec => []PagesIInv
<1>1. Pages!Init => PagesIInv
  <2> SUFFICES ASSUME Pages!Init
               PROVE  PagesIInv
    OBVIOUS
  <2>1. rows = {} /\ lastId = 0 /\ walk = Pages!NoWalk
    BY DEF Pages!Init
  <2>2. walk.seen = <<>> /\ walk.order = "none"
    BY <2>1 DEF Pages!NoWalk
  <2>3. PagesTypeOK
    BY <2>1 DEF PagesTypeOK, Walks, Pages!NoWalk
  <2> QED
    BY <2>1, <2>2, <2>3 DEF PagesIInv, Behind, InOrder, Full, Closed, Ended, NoEmptyPage, Seen
<1>2. PagesIInv /\ [Pages!Next]_(Pages!vars) => PagesIInv'
  <2> SUFFICES ASSUME PagesIInv, [Pages!Next]_(Pages!vars)
               PROVE  PagesIInv'
    OBVIOUS
  <2>1. CASE UNCHANGED Pages!vars
    <3>1. rows' = rows /\ lastId' = lastId /\ walk' = walk
      BY <2>1 DEF Pages!vars
    <3> QED
      BY <3>1 DEF PagesIInv, PagesTypeOK, Behind, InOrder, Full, Closed, Ended, NoEmptyPage,
                  Seen, Steady, Whole
  <2> QED
    BY <2>1, FirstStays, FurtherStays, CountStays, InsertStays, DeleteStays DEF Pages!Next
<1> QED
  BY <1>1, <1>2, PTL DEF Pages!Spec

LEMMA WalksEnd ==
  ASSUME PagesIInv
  PROVE  Pages!WalkSeesEachRowOnce
<1>1. PagesTypeOK /\ rows \subseteq Nat
  BY RowsFinite DEF PagesIInv
<1> DEFINE over == walk.order # "none" /\ ~walk.counting /\ walk.next = 0
<1>2. over /\ ~walk.taken /\ ~walk.added => Seen = rows
  BY DEF PagesIInv, Ended
<1>3. over /\ ~walk.taken /\ ~walk.torn /\ walk.order = "asc" =>
        Seen \subseteq rows /\ \A a \in Seen, b \in rows \ Seen : a < b
  <2> SUFFICES ASSUME ~walk.taken, ~walk.torn, walk.order = "asc"
               PROVE  Seen \subseteq rows /\ \A a \in Seen, b \in rows \ Seen : a < b
    OBVIOUS
  <2>1. Seen \subseteq rows
    BY DEF PagesIInv, Closed
  <2>2. ASSUME NEW a \in Seen, NEW b \in rows \ Seen
        PROVE  a < b
    <3>1. ~Pages!Before(b, a, walk.order)
      BY <2>2 DEF PagesIInv, Closed, Whole, Steady
    <3>2. a \in Nat /\ b \in Nat /\ a # b
      BY <1>1, <2>1
    <3> QED
      BY <3>1, <3>2 DEF Pages!Before
  <2> QED
    BY <2>1, <2>2
<1>4. \A p \in DOMAIN walk.seen : walk.seen[p] = {} => rows = {} \/ walk.taken \/ walk.added
  BY DEF PagesIInv, NoEmptyPage
<1>5. walk.order = "asc" \/ ~walk.added =>
        \A p, q \in DOMAIN walk.seen : p < q =>
          \A a \in walk.seen[p], b \in walk.seen[q] : Pages!Before(a, b, walk.order)
  BY DEF PagesIInv, InOrder, Steady
<1> QED
  BY <1>2, <1>3, <1>4, <1>5 DEF Pages!WalkSeesEachRowOnce, Seen

\* A walk through the pages of a list sees each row once and has no empty page
\* if nobody writes meanwhile, for any limit and however many rows; rows added at
\* its end do not disturb the walk that goes upwards, unless between a page and
\* its count; and but for those added under the walk that goes downwards, the
\* pages come one behind the other.
THEOREM WalksSeeEachRowOnce == DatabaseSpec => []WalkSeesEachRowOnce
<1>1. PagesIInv => WalkSeesEachRowOnce
  BY WalksEnd DEF WalkSeesEachRowOnce
<1> QED
  BY <1>1, DatabaseRefined, PagesInvariance, PTL
=============================================================================
