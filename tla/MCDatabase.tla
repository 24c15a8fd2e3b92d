----------------------------- MODULE MCDatabase -----------------------------
(***************************************************************************)
(* What the program does to its database, checked in one run: a behaviour   *)
(* is that of one of the modules, `part`: requests on cities and areas,     *)
(* pages of a table, or replicas that start.                                *)
(***************************************************************************)
EXTENDS Catalog, TLC

CONSTANTS
  MaxId, MaxDeletes, MAX_LIMIT,                     \* Paging
  Replicas, RETRY_ATTEMPTS, MaxFaults, MaxReverts   \* Migrations

\* Two attempts of a start can be lost to another replica's.
ASSUME DatabaseAssumption ==
  /\ MAX_LIMIT \in Nat \ {0}
  /\ RETRY_ATTEMPTS \in Nat /\ RETRY_ATTEMPTS >= 3 /\ IsFiniteSet(Replicas)

VARIABLES
  part,
  rows, lastId, deletes, walk,
  env, mayCreate, database, schema, objects, record, ran, table, longPhone, at, saw,
  tries, undo, faults, reverts, since, stranded

Pages   == INSTANCE Paging
Startup == INSTANCE Migrations

pagesVars   == <<rows, lastId, deletes, walk>>
startupVars == <<env, mayCreate, database, schema, objects, record, ran, table, longPhone,
                 at, saw, tries, undo, faults, reverts, since, stranded>>

Parts == {"catalog", "pages", "startup"}

DatabaseInit ==
  /\ part \in Parts
  /\ Init /\ Pages!Init /\ Startup!Init
  \* What the parts that stand still choose does not matter.
  /\ part # "catalog" => home = Nothing
  /\ part # "startup" => env = "production" /\ mayCreate /\ schema

RunsCatalog ==
  /\ part = "catalog" /\ Next
  /\ UNCHANGED <<part, pagesVars, startupVars>>
RunsPages ==
  /\ part = "pages" /\ Pages!Next
  /\ UNCHANGED <<part, vars, startupVars>>
RunsStartup ==
  /\ part = "startup" /\ Startup!Next
  /\ UNCHANGED <<part, vars, pagesVars>>

DatabaseNext == RunsCatalog \/ RunsPages \/ RunsStartup

DatabaseSpec ==
  DatabaseInit
  /\ [][DatabaseNext]_<<part, vars, pagesVars, startupVars>>

Symmetry == Permutations(Requests) \union Permutations(Cities)
              \union Permutations(Areas) \union Permutations(Names)

-----------------------------------------------------------------------------
(* Properties, each stated and explained in its module                      *)

\* A walk through the pages meets each row once, unless rows come or go.
WalkSeesEachRowOnce == part = "pages" => Pages!WalkSeesEachRowOnce

\* The schema is what the record of migrations, or the entities, say.
SchemaFollowsRecord == part = "startup" => Startup!SchemaFollowsRecord

\* Replicas that start together do not stop one another.
GivesUpOnlyIfBroken == part = "startup" => Startup!GivesUpOnlyIfBroken
=============================================================================
