----------------------------- MODULE Migrations -----------------------------
(***************************************************************************)
(* Replicas of the program start against one Postgres database: each creates *)
(* what is missing of database and schema, then TypeORM runs the migrations  *)
(* that its record lacks, all in one transaction, and retries when that      *)
(* fails; in development it creates what the entities ask for instead.  An   *)
(* operator may revert the last migration meanwhile.                        *)
(***************************************************************************)
EXTENDS Naturals, Sequences, FiniteSets, FiniteSetsExt

CONSTANTS
  Replicas,
  RETRY_ATTEMPTS,  \* connection attempts of one start
  MaxFaults,       \* bound: connections that fail for reasons of their own
  MaxReverts       \* bound: calls of migration:revert

VARIABLES
  env,       \* NODE_ENV: "development" or "production"
  mayCreate, \* whether the role has CREATE on the database
  database, schema,  \* whether they exist
  objects,   \* in the schema
  record,    \* the migrations recorded as run
  ran,       \* [All -> the id of its row in the record, the latest it had]
  table,     \* whether TypeORM's table of them exists
  longPhone, \* whether a phone number takes more than 20 characters
  at,        \* [Replicas -> where it is in its start]
  saw,       \* [Replicas -> the record, when it read it; or whether the
             \*              database existed, when it asked]
  tries,     \* [Replicas -> attempts that failed]
  undo,      \* the migration that migration:revert is to undo, or 0
  faults, reverts,
  \* history
  since,     \* the migrations recorded since migration:revert read the record
  stranded   \* those recorded while the first one was being undone, and still
             \* recorded

place   == <<env, mayCreate>>
applied == <<objects, record, ran, longPhone, since, stranded>>
data    == <<place, database, schema, table, applied>>
vars    == <<data, at, saw, tries, undo, faults, reverts>>

-----------------------------------------------------------------------------
(* The migrations                                                           *)

\* What an object stands on, and the table it goes with: its indexes (one
\* object stands for those of a table), its columns and its own constraints.
Stands(o) ==
  CASE o \in {"areas_city_fk"}                        -> {"areas", "cities"}
    [] o \in {"users_city_fk"}                        -> {"users", "cities"}
    [] o = "users"                                    -> {"gender_enum"}
    [] o = "otps"                                     -> {"otp_purpose_enum"}
    [] o \in {"admins_idx", "admins_active", "admins_phone32"} -> {"admins"}
    [] o = "cities_idx"                               -> {"cities"}
    [] o = "areas_idx"                                -> {"areas"}
    [] o \in {"users_idx", "users_active", "users_phone32"}    -> {"users"}
    [] o = "users_trgm"                               -> {"users", "pg_trgm"}
    [] o \in {"otps_idx", "otps_created_idx"}         -> {"otps"}
    [] o \in {"tokens_idx", "tokens_expires_idx"}     -> {"refresh_tokens"}
    [] OTHER                                          -> {}
GoesWith(o, t) == t \in Stands(o) /\ t # "pg_trgm" /\ o # t
                    /\ o \notin {"users", "otps"}
                    /\ (o \in {"areas_city_fk", "users_city_fk"} => t # "cities")

\* up, in order: plain CREATEs, and those with IF NOT EXISTS (or an ALTER that
\* can be repeated).
Plain(names) == [i \in DOMAIN names |-> [new |-> TRUE, name |-> names[i]]]
Maybe(names) == [i \in DOMAIN names |-> [new |-> FALSE, name |-> names[i]]]

InitUp == Plain(<<"gender_enum", "otp_purpose_enum", "admins", "admins_idx",
  "cities", "cities_idx", "areas", "areas_idx", "areas_city_fk", "users",
  "users_idx", "users_city_fk", "otps", "otps_idx", "refresh_tokens",
  "tokens_idx">>)
AddCleanupIndexesUp    == Maybe(<<"tokens_expires_idx", "otps_created_idx">>)
AddIsActiveUp          == Maybe(<<"admins_active", "users_active">>)
AddUserSearchIndexesUp == Maybe(<<"users_phone32", "admins_phone32", "pg_trgm",
                                  "users_trgm">>)
Up(m) == <<InitUp, AddCleanupIndexesUp, AddIsActiveUp, AddUserSearchIndexesUp>>[m]

\* down, in order: DROPs, all with IF EXISTS.
InitDown == <<"tokens_idx", "refresh_tokens", "otps_idx", "otps",
  "users_city_fk", "users_idx", "users", "areas_city_fk", "areas_idx", "areas",
  "cities_idx", "cities", "admins_idx", "admins", "otp_purpose_enum",
  "gender_enum">>
AddCleanupIndexesDown    == <<"otps_created_idx", "tokens_expires_idx">>
\* Mutant: the users' column is forgotten.
AddIsActiveDownBug       == <<"admins_active">>
AddIsActiveDown          == <<"users_active", "admins_active">>
AddUserSearchIndexesDown == <<"users_trgm", "admins_phone32", "users_phone32">>
Down(m) == <<InitDown, AddCleanupIndexesDown, AddIsActiveDown,
             AddUserSearchIndexesDown>>[m]

All    == 1..4
Failed == {"failed"}   \* the objects after a transaction that is rolled back

Creates(m) == {Up(m)[i].name : i \in DOMAIN Up(m)}

\* What the entities declare: the trigram indexes are in none of them.
Searches == {"pg_trgm", "users_trgm"}
Entities == (UNION {Creates(m) : m \in All}) \ Searches

\* synchronize drops the indexes that no entity declares.
Synchronised(objs) == (objs \union Entities) \ {"users_trgm"}

\* The pending migrations, in the order of their timestamps, all or nothing:
\* what a statement stands on must be there, and what a plain CREATE makes not.
RunAll(pending, objs) ==
  LET There(m, i) == \* before statement i of migration m
        objs \union (UNION {Creates(n) : n \in {n \in pending : n < m}})
             \union {Up(m)[j].name : j \in 1..(i - 1)}
      Works(m, i) == /\ Stands(Up(m)[i].name) \subseteq There(m, i)
                     /\ Up(m)[i].new => Up(m)[i].name \notin There(m, i)
  IN IF \A m \in pending : \A i \in DOMAIN Up(m) : Works(m, i)
       THEN objs \union (UNION {Creates(m) : m \in pending}) ELSE Failed

\* A drop takes along what goes with the object, and fails if anything else
\* stands on it; the column may be missing, its table may not.
Columns == {"admins_active", "users_active", "users_phone32", "admins_phone32"}
DropAll(names, objs) ==
  LET Left(i) == {o \in objs : \A j \in 1..i : o # names[j] /\ ~GoesWith(o, names[j])}
  IN IF \A i \in DOMAIN names :
          /\ \A o \in Left(i) : names[i] \notin Stands(o)
          /\ names[i] \in Columns => Stands(names[i]) \subseteq objs
       THEN Left(Len(names)) ELSE Failed

\* The migration whose row of the record is the latest.
LastRun == CHOOSE m \in record : \A n \in record : ran[n] <= ran[m]

Init ==
  /\ env \in {"development", "production"} /\ mayCreate \in BOOLEAN
  /\ schema \in BOOLEAN /\ longPhone = FALSE
  /\ database \in (IF env = "development" THEN BOOLEAN ELSE {TRUE})
  /\ schema => database
  /\ objects = {} /\ record = {} /\ table = FALSE /\ ran = [m \in All |-> 0]
  /\ at = [r \in Replicas |-> "off"] /\ saw = [r \in Replicas |-> {}]
  /\ tries = [r \in Replicas |-> 0] /\ faults = 0 /\ reverts = 0
  /\ undo = 0 /\ since = {} /\ stranded = {}

Goes(r, where) == at' = [at EXCEPT ![r] = where]

-----------------------------------------------------------------------------
(* Database and schema                                                      *)

\* createTypeOrmModuleOptions; a replica that was stopped can be started again.
Start(r) ==
  /\ at[r] = "off"
  /\ Goes(r, IF env = "development" THEN "ask" ELSE "schema")
  /\ tries' = [tries EXCEPT ![r] = 0]
  /\ UNCHANGED <<data, saw, undo, faults, reverts>>

\* ensureDatabaseExists asks first ...
AskDatabase(r) ==
  /\ at[r] = "ask"
  /\ saw' = [saw EXCEPT ![r] = IF database THEN {"database"} ELSE {}]
  /\ Goes(r, "create")
  /\ UNCHANGED <<data, tries, undo, faults, reverts>>

\* ... and its CREATE DATABASE fails if the role may not, or another replica
\* has created it since.
CreateDatabase(r) ==
  /\ at[r] = "create"
  /\ LET ok == saw[r] # {} \/ (mayCreate /\ ~database)
     IN /\ database' = (database \/ ok)
        /\ Goes(r, IF ok THEN "schema" ELSE "gone")
  /\ saw' = [saw EXCEPT ![r] = {}]
  /\ UNCHANGED <<place, schema, table, applied, tries, undo, faults, reverts>>

\* ensureSchemaExists: CREATE SCHEMA IF NOT EXISTS asks for the privilege first
\* of all; its error is passed over if the schema exists.
EnsureSchema(r) ==
  /\ at[r] = "schema"
  /\ schema' = (schema \/ mayCreate)
  /\ Goes(r, IF schema' THEN "connect" ELSE "gone")
  /\ UNCHANGED <<place, database, table, applied, saw, tries, undo, faults, reverts>>

\* Before TypeORM is there nothing tries again: a connection that cannot be made,
\* or is lost, ends the start.
BootstrapFails(r) ==
  /\ at[r] \in {"ask", "create", "schema"}
  /\ faults < MaxFaults /\ faults' = faults + 1
  /\ Goes(r, "gone")
  /\ UNCHANGED <<data, saw, tries, undo, reverts>>

-----------------------------------------------------------------------------
(* TypeORM                                                                  *)

\* Mutant: a failed start is not tried again.
FailsBug(r) == Goes(r, "gone") /\ tries' = [tries EXCEPT ![r] = @ + 1]

\* retryAttempts of the module's options.
Fails(r) ==
  /\ tries' = [tries EXCEPT ![r] = @ + 1]
  /\ Goes(r, IF tries[r] + 1 < RETRY_ATTEMPTS THEN "connect" ELSE "gone")

\* In development no migration runs: the entities are synchronised, in one
\* transaction.
\* Mutant: synchronize is forgotten.
SynchroniseBug(r) ==
  /\ at[r] = "connect" /\ env = "development"
  /\ Goes(r, "serving")
  /\ UNCHANGED <<data, saw, tries, undo, faults, reverts>>

Synchronise(r) ==
  /\ at[r] = "connect" /\ env = "development"
  /\ objects' = Synchronised(objects)
  /\ Goes(r, "serving")
  /\ UNCHANGED <<place, database, schema, table, record, ran, longPhone, since,
                 stranded, saw, tries, undo, faults, reverts>>

\* migrationsRun: the record is read, its table created when missing.
ReadRecord(r) ==
  /\ at[r] = "connect" /\ env = "production"
  /\ table' = TRUE /\ saw' = [saw EXCEPT ![r] = record] /\ Goes(r, "migrate")
  /\ UNCHANGED <<place, database, schema, applied, tries, undo, faults, reverts>>

\* Two create the same at the same time, and r fails: the tables of the entities
\* in development, TypeORM's own table in production.
Overtakes(r, s) ==
  /\ r # s /\ at[r] = "connect" /\ at[s] = "connect"
  /\ tries' = [tries EXCEPT ![r] = @ + 1]
  /\ at' = [at EXCEPT ![s] = IF env = "development" THEN "serving" ELSE "migrate",
                      ![r] = IF tries[r] + 1 < RETRY_ATTEMPTS THEN "connect"
                                                              ELSE "gone"]
  /\ UNCHANGED <<place, database, schema, record, ran, longPhone, since, stranded,
                 undo, faults, reverts>>

SynchroniseRace(r, s) ==
  /\ env = "development" /\ objects # Synchronised(objects)
  /\ Overtakes(r, s)
  /\ objects' = Synchronised(objects)
  /\ UNCHANGED <<table, saw>>

TableRace(r, s) ==
  /\ env = "production" /\ ~table
  /\ Overtakes(r, s)
  /\ table' = TRUE /\ saw' = [saw EXCEPT ![s] = record]
  /\ UNCHANGED objects

\* The transaction commits, by the time it does on what others committed.  The
\* first migration begins with a CREATE SCHEMA IF NOT EXISTS of its own.
Migrate(r) ==
  /\ at[r] = "migrate"
  /\ LET pending == All \ saw[r]
         result  == IF 1 \in pending /\ ~mayCreate THEN Failed
                                                   ELSE RunAll(pending, objects)
         latest  == Max({ran[m] : m \in All})
     IN IF result = Failed
          THEN Fails(r) /\ UNCHANGED applied
          ELSE /\ objects' = result /\ record' = record \union pending
               /\ ran' = [m \in All |-> IF m \in pending THEN latest + m ELSE ran[m]]
               /\ since' = since \union pending /\ stranded' = stranded \ pending
               /\ Goes(r, "serving") /\ UNCHANGED <<longPhone, tries>>
  /\ UNCHANGED <<place, database, schema, table, saw, undo, faults, reverts>>

\* Even IF NOT EXISTS fails when another transaction is creating the same.
LosesRace(r) ==
  /\ at[r] = "migrate" /\ saw[r] # record
  /\ Fails(r)
  /\ UNCHANGED <<data, saw, undo, faults, reverts>>

\* The database is not reachable, or anything else.
AttemptFails(r) ==
  /\ at[r] \in {"connect", "migrate"}
  /\ faults < MaxFaults /\ faults' = faults + 1
  /\ Fails(r)
  /\ UNCHANGED <<data, saw, undo, reverts>>

-----------------------------------------------------------------------------
(* Around them                                                              *)

Stop(r) ==
  /\ at[r] # "off" /\ Goes(r, "off")
  /\ saw' = [saw EXCEPT ![r] = {}] /\ tries' = [tries EXCEPT ![r] = 0]
  /\ UNCHANGED <<data, undo, faults, reverts>>

\* A number longer than the old column is stored.
StoreLongPhone ==
  /\ "users_phone32" \in objects /\ ~longPhone /\ longPhone' = TRUE
  /\ UNCHANGED <<place, database, schema, table, objects, record, ran, since,
                 stranded, at, saw, tries, undo, faults, reverts>>

\* `migration:revert` reads which one was recorded last ...
RevertReads ==
  /\ schema /\ undo = 0
  /\ reverts < MaxReverts /\ reverts' = reverts + 1
  /\ table' = TRUE
  /\ undo' = IF record = {} THEN 0 ELSE LastRun
  /\ since' = {}
  /\ UNCHANGED <<place, database, schema, objects, record, ran, longPhone, stranded,
                 at, saw, tries, faults>>

\* ... and undoes that one, in a transaction.
RevertUndoes ==
  /\ undo # 0 /\ undo' = 0
  /\ LET result == IF undo = 4 /\ longPhone THEN Failed
                                            ELSE DropAll(Down(undo), objects)
     IN IF result = Failed THEN UNCHANGED <<objects, record, longPhone, stranded>>
        ELSE /\ objects' = result /\ record' = record \ {undo}
             /\ longPhone' = (longPhone /\ "users" \in result)
             /\ stranded' = (stranded \union (IF undo = 1 THEN since ELSE {})) \ {undo}
  /\ UNCHANGED <<place, database, schema, table, ran, since, at, saw, tries, faults,
                 reverts>>

Next ==
  \/ \E r \in Replicas :
       \/ Start(r) \/ AskDatabase(r) \/ CreateDatabase(r) \/ EnsureSchema(r)
       \/ BootstrapFails(r)
       \/ Synchronise(r) \/ ReadRecord(r) \/ Migrate(r) \/ LosesRace(r)
       \/ AttemptFails(r) \/ Stop(r)
       \/ \E s \in Replicas : SynchroniseRace(r, s) \/ TableRace(r, s)
  \/ StoreLongPhone \/ RevertReads \/ RevertUndoes

Spec == Init /\ [][Next]_vars

-----------------------------------------------------------------------------
(* Properties                                                               *)

\* Where migrations run, the schema holds what the recorded ones create, whatever
\* replicas ran them and reverts undid them; the extension alone stays behind.
\* The exception: a start that records migrations while the first one is being
\* undone loses what they made, and they stay recorded.  In development, where
\* none is recorded, a replica that serves finds all that the entities declare.
SchemaFollowsRecord ==
  IF env = "production"
    THEN objects \ {"pg_trgm"} =
           (UNION {Creates(m) : m \in record \ stranded}) \ {"pg_trgm"}
    ELSE \A r \in Replicas : at[r] = "serving" => Entities \subseteq objects

\* A replica that gives up its start has met a fault or a revert, or a role
\* without the privilege; in development, another replica that was creating
\* the database too.  Replicas that start together do not stop one another.
GivesUpOnlyIfBroken ==
  \A r \in Replicas :
    at[r] = "gone" =>
      \/ faults > 0 \/ reverts > 0 \/ ~mayCreate
      \/ env = "development" /\ Cardinality(Replicas) > 1
=============================================================================
