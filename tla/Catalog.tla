------------------------------ MODULE Catalog ------------------------------
(***************************************************************************)
(* Cities, the areas of a city, and the city a user refers to (CityService, *)
(* AreaService and the callers of assertExists).  Each check is a query of  *)
(* its own, so another request may write between a check and the write it   *)
(* guards; the indexes and foreign keys of the database then decide, and    *)
(* TypeOrmErrorHandler words the answer.                                    *)
(*                                                                         *)
(* A row has one name here for its English and its Arabic one, which are    *)
(* checked and indexed alike.                                               *)
(***************************************************************************)
EXTENDS FiniteSets, Naturals

CONSTANTS
  Requests,
  Cities, Areas,  \* bound: ids the sequences hand out, never twice
  Names,
  Nothing

ASSUME CatalogAssumption ==
  /\ Nothing \notin Cities \union Areas \union Names
  /\ Cities \intersect Areas = {}

VARIABLES
  cities,  \* [Cities -> name, Nothing when there is no such row]
  areas,   \* [Areas -> [city, name], NoArea when there is no such row]
  home,    \* the city_id of a user
  req,     \* [Requests -> Request]
  \* History of the run, read by no guard:
  gone,    \* ids once deleted
  revived  \* ... and inserted again by a save of a copy loaded before that

NoArea == [city |-> Nothing, name |-> Nothing]
vars   == <<cities, areas, home, req, gone, revived>>

CityOps == {"createCity", "updateCity", "deleteCity"}
AreaOps == {"createArea", "updateArea", "deleteArea"}
Request ==
  [op   : CityOps \union AreaOps \union {"setHome", "none"},
   pc   : {"idle", "checkCity", "checkName", "save", "delete",
           "answered"},
   id   : Cities \union Areas \union {Nothing},
   city : Cities \union {Nothing},    \* of an area, or the user's new one
   name : Names \union {Nothing},
   renames : BOOLEAN,                 \* the name is to be checked
   late : BOOLEAN,                    \* another request wrote since the first read
   code : {"none", "ok", "notFound", "conflict", "DUPLICATE_RECORD",
           "INVALID_REFERENCE"}]
Idle == [op |-> "none", pc |-> "idle", id |-> Nothing, city |-> Nothing,
         name |-> Nothing, renames |-> FALSE, late |-> FALSE,
         code |-> "none"]

TypeOK ==
  /\ cities \in [Cities -> Names \union {Nothing}]
  /\ areas \in [Areas -> [city : Cities, name : Names] \union {NoArea}]
  /\ home \in Cities \union {Nothing}
  /\ req \in [Requests -> Request]
  /\ gone \subseteq Cities \union Areas /\ revived \subseteq gone

Init ==
  /\ cities = [c \in Cities |-> Nothing] /\ areas = [a \in Areas |-> NoArea]
  /\ home = Nothing /\ req = [r \in Requests |-> Idle]
  /\ gone = {} /\ revived = {}

At(r, pc)   == req[r].pc = pc
Becomes(r, q) == req' = [req EXCEPT ![r] = q]
Answered(q, code) ==
  [op |-> q.op, pc |-> "answered", id |-> Nothing, city |-> Nothing,
   name |-> Nothing, renames |-> q.renames, late |-> q.late, code |-> code]
\* A write: every other request under way is late from here on.
Wrote(r) ==
  req' = [s \in Requests |->
            CASE s = r        -> Answered(req[s], "ok")
              [] At(s, "idle") -> req[s]
              [] OTHER        -> [req[s] EXCEPT !.late = TRUE]]
NoWrite == UNCHANGED <<cities, areas, home, gone, revived>>

Present(id) == IF id \in Cities THEN cities[id] # Nothing ELSE areas[id] # NoArea
NameOf(id)  == IF id \in Cities THEN cities[id] ELSE areas[id].name
CityOf(id)  == IF id \in Cities THEN Nothing ELSE areas[id].city
NameCheckOrSave(renames) == IF renames THEN "checkName" ELSE "save"

-----------------------------------------------------------------------------
(* The queries of a request: what it is after each                          *)

\* Mutants: an area's new city is taken as given; a missing row is no error.
AfterLoadBug(q) ==
  LET renames == q.name \notin {Nothing, NameOf(q.id)} IN
  IF ~Present(q.id)
    THEN Answered(q, "notFound")
    ELSE [q EXCEPT
            !.pc = IF q.op \in {"deleteCity", "deleteArea"} THEN "delete"
                                                ELSE NameCheckOrSave(renames),
            !.renames = renames,
            !.city = IF @ = Nothing THEN CityOf(q.id) ELSE @,
            !.name = IF @ = Nothing THEN NameOf(q.id) ELSE @]
AfterLoadUpserts(q) ==
  IF ~Present(q.id) /\ (q.name = Nothing \/ (q.id \in Areas /\ q.city = Nothing))
    THEN Answered(q, "notFound")
    ELSE [q EXCEPT
            !.pc = IF q.op \in {"deleteCity", "deleteArea"} THEN "delete"
                                                            ELSE "checkName",
            !.renames = TRUE,
            !.city = IF @ = Nothing THEN CityOf(q.id) ELSE @,
            !.name = IF @ = Nothing THEN NameOf(q.id) ELSE @]

\* findByIdOrFail.  From here `city` and `name` are those of the row to save.
AfterLoad(q) ==
  LET renames == q.name \notin {Nothing, NameOf(q.id)} IN
  IF ~Present(q.id)
    THEN Answered(q, "notFound")
    ELSE [q EXCEPT
            !.pc = CASE q.op \in {"deleteCity", "deleteArea"} -> "delete"
                     [] q.city # Nothing -> "checkCity"
                     [] OTHER            -> NameCheckOrSave(renames),
            !.renames = renames,
            !.city = IF @ = Nothing THEN CityOf(q.id) ELSE @,
            !.name = IF @ = Nothing THEN NameOf(q.id) ELSE @]

\* CityService.assertExists, when the body gives a city.
AfterCity(q) ==
  IF cities[q.city] = Nothing THEN Answered(q, "notFound")
                              ELSE [q EXCEPT !.pc = NameCheckOrSave(q.renames)]

\* The rows, other than the request's own, that bear its name: cities among
\* cities, areas within the city they are to belong to.
Bearers(q) ==
  IF q.op \in CityOps
    THEN {c \in Cities \ {q.id} : cities[c] = q.name}
    ELSE {a \in Areas \ {q.id} : areas[a] = [city |-> q.city, name |-> q.name]}

\* findByNameEn, findByCityAndNameEn and their likes.
AfterName(q) ==
  IF Bearers(q) # {} THEN Answered(q, "conflict") ELSE [q EXCEPT !.pc = "save"]

-----------------------------------------------------------------------------
(* The steps of a request                                                   *)

\* A request arrives, Nothing standing for a field its body leaves out, and
\* makes its first query.
Arrive(r) ==
  /\ At(r, "idle")
  /\ \E op \in CityOps \union AreaOps \union {"setHome"},
        id \in Cities \union Areas \union {Nothing},
        city \in Cities \union {Nothing}, name \in Names \union {Nothing} :
       LET q == [op |-> op, pc |-> "idle", id |-> id, city |-> city, name |-> name,
                   renames |-> op \in {"createCity", "createArea"}, late |-> FALSE,
                   code |-> "none"]
       IN
       /\ id \in CASE op \in {"updateCity", "deleteCity"} -> Cities
                   [] op \in {"updateArea", "deleteArea"} -> Areas
                   [] OTHER                               -> {Nothing}
       /\ op \in {"createArea", "setHome"} => city # Nothing
       /\ op \in CityOps \union {"deleteArea"} => city = Nothing
       /\ op \in {"createCity", "createArea"} => name # Nothing
       /\ op \in {"deleteCity", "deleteArea", "setHome"} => name = Nothing
       /\ Becomes(r, CASE id # Nothing      -> AfterLoad(q)
                       [] op = "createCity" -> AfterName(q)
                       [] OTHER             -> AfterCity(q))
  /\ NoWrite

CheckCity(r) == At(r, "checkCity") /\ Becomes(r, AfterCity(req[r])) /\ NoWrite
CheckName(r) == At(r, "checkName") /\ Becomes(r, AfterName(req[r])) /\ NoWrite

\* save and mergeAndSave.  The foreign key and the unique indexes are the
\* database's; a copy whose row is gone is inserted under its old id.
Save(r) ==
  LET q == req[r] IN
  /\ At(r, "save")
  /\ CASE q.op \notin CityOps /\ cities[q.city] = Nothing ->
            Becomes(r, Answered(q, "INVALID_REFERENCE")) /\ NoWrite
       [] q.op # "setHome" /\ Bearers(q) # {} ->
            Becomes(r, Answered(q, "DUPLICATE_RECORD")) /\ NoWrite
       [] OTHER ->
            \E id \in IF q.id # Nothing \/ q.op = "setHome" THEN {q.id}
                      ELSE {i \in (IF q.op \in CityOps THEN Cities ELSE Areas) \ gone :
                              ~Present(i)} :
              /\ cities' = IF q.op \in CityOps
                             THEN [cities EXCEPT ![id] = q.name] ELSE cities
              /\ areas'  = IF q.op \in AreaOps
                             THEN [areas EXCEPT ![id] = [city |-> q.city,
                                                         name |-> q.name]]
                             ELSE areas
              /\ home'   = IF q.op = "setHome" THEN q.city ELSE home
              /\ revived' = IF q.late /\ id \in gone THEN revived \union {id}
                                                     ELSE revived
              /\ Wrote(r)
              /\ UNCHANGED gone

\* deleteById.  A city goes with its areas, and stays while a user refers to
\* it: the service turns that refusal into its own conflict.
Delete(r) ==
  LET q       == req[r]
      removed == {q.id} \union {a \in Areas : areas[a].city = q.id}
  IN
  /\ At(r, "delete")
  /\ IF q.id = home /\ home # Nothing
       THEN Becomes(r, Answered(q, "conflict")) /\ NoWrite
       ELSE /\ cities' = [c \in Cities |-> IF c \in removed THEN Nothing
                                                           ELSE cities[c]]
            /\ areas'  = [a \in Areas |-> IF a \in removed THEN NoArea
                                                          ELSE areas[a]]
            /\ gone' = gone \union removed /\ revived' = revived \ removed
            /\ Wrote(r)
            /\ UNCHANGED home

Done(r) ==
  /\ At(r, "answered")
  /\ Becomes(r, Idle)
  /\ NoWrite

Next == \E r \in Requests :
  Arrive(r) \/ CheckCity(r) \/ CheckName(r) \/ Save(r) \/ Delete(r)
    \/ Done(r)

Spec == Init /\ [][Next]_vars

-----------------------------------------------------------------------------
(* Properties                                                               *)

\* An area moved to another city under the name it has: no check is made.
MovesUnchecked(q) == q.op = "updateArea" /\ ~q.renames

\* assertExists is made "so the FK violation never reaches the database", and
\* the name checks so that a clash gets its own words: the generic answers to
\* database errors come only to a request that another overtook after its
\* first read, or for an area moved without a new name.
GenericErrorOnlyIfRaced ==
  \A r \in Requests :
    /\ req[r].code = "INVALID_REFERENCE" => req[r].late
    /\ req[r].code = "DUPLICATE_RECORD" => req[r].late \/ MovesUnchecked(req[r])

\* A deleted city or area stays deleted, with all its areas, unless a request
\* that had loaded it before saves it again.
DeletedStaysDeletedUnlessRaced ==
  \A id \in gone \ revived : ~Present(id)
=============================================================================
