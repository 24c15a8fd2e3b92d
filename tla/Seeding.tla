------------------------------ MODULE Seeding ------------------------------
(***************************************************************************)
(* `npm run seed` (scripts/seed and the seeders of the modules) against a   *)
(* database that the program serves meanwhile: administrators edit cities   *)
(* and areas, users sign up.  The script can be cut off between any two of  *)
(* its statements, and run again.                                          *)
(*                                                                         *)
(* City i of the seeds is called i, in both languages, and has one area,    *)
(* "area" in both; user i lives in city i.                                  *)
(***************************************************************************)
EXTENDS Naturals, FiniteSets, FiniteSetsExt

CONSTANTS
  SeedCities,   \* number of cities of the seeds
  MaxCityId,    \* bound: ids of cities drawn
  MaxUserId,    \* bound: ids of users drawn
  Phones        \* numbers that sign up, none of the seeds'

VARIABLES
  env,        \* NODE_ENV, "test" being like "development" here
  at,         \* what the script does next, or how its last run ended
  cities,     \* [id -> name], of the rows
  lastCity,   \* the sequence of cities.id
  drawn,      \* ids of cities being inserted, of transactions not committed
  areas,      \* set of [city, en, ar]
  users,      \* [id -> phone]
  lastUser,   \* the sequence of users.id
  admin,      \* whether the seed's administrator exists
  sessions,   \* refresh tokens: [user, phone], the phone being a history
  edited,     \* history: whether an administrator edited since the run began
  touched,    \* history: ... since ever
  torn        \* history: the last setval met a city not committed

vars == <<env, at, cities, lastCity, drawn, areas, users, lastUser, admin,
          sessions, edited, touched, torn>>
histories == <<edited, touched, torn>>
people    == <<users, lastUser, admin, sessions>>
places    == <<cities, lastCity, drawn, areas>>

Seeds     == 1..SeedCities
CityNames == Seeds \union {0}              \* 0: a name that is not of the seeds
SeedAreas == {[city |-> i, en |-> "area", ar |-> "area"] : i \in Seeds}

Init ==
  /\ env \in {"development", "production"} /\ at = "off"
  /\ cities = <<>> /\ lastCity = 0 /\ drawn = {} /\ areas = {}
  /\ users = <<>> /\ lastUser = 0 /\ admin = FALSE /\ sessions = {}
  /\ edited = FALSE /\ touched = FALSE /\ torn = FALSE

-----------------------------------------------------------------------------
(* The script                                                               *)

Start ==
  /\ at \in {"off", "done", "failed", "cut"} /\ at' = "clear"
  /\ edited' = FALSE
  /\ UNCHANGED <<env, places, people, touched, torn>>

\* DatabaseCleaner.clear: TRUNCATE .. RESTART IDENTITY of users, admins and
\* areas; the refresh tokens have no foreign key to be cascaded along.
Clear ==
  /\ at = "clear" /\ at' = "cities"
  /\ IF env = "production" THEN UNCHANGED <<users, areas, admin, lastUser>>
     ELSE users' = <<>> /\ areas' = {} /\ admin' = FALSE /\ lastUser' = 0
  /\ UNCHANGED <<env, cities, lastCity, drawn, sessions, histories>>

\* One row of the upsert on id; names are unique.  (<<>> is failure: there is
\* at least the row itself otherwise.)
UpsertCity(i, rows) ==
  IF \/ i > 1 /\ rows = <<>>
     \/ \E j \in DOMAIN rows \ {i} : rows[j] = i
    THEN <<>>
    ELSE [j \in DOMAIN rows \union {i} |-> IF j = i THEN i ELSE rows[j]]

\* Mutant: ON CONFLICT DO NOTHING.
UpsertCitiesBug ==
  [j \in DOMAIN cities \union {i \in Seeds :
            \A k \in DOMAIN cities : cities[k] # i} |->
     IF j \in DOMAIN cities THEN cities[j] ELSE j]

UpsertCities ==
  LET upsert[i \in 0..SeedCities] ==
        IF i = 0 THEN cities ELSE UpsertCity(i, upsert[i - 1])
  IN upsert[SeedCities]

InsertCities ==
  /\ at = "cities"
  /\ IF UpsertCities = <<>> THEN at' = "failed" /\ UNCHANGED cities
                            ELSE at' = "setval" /\ cities' = UpsertCities
  /\ UNCHANGED <<env, lastCity, drawn, areas, people, histories>>

\* A statement of its own.  There may be no city any more: setval of NULL does
\* nothing.
SetSequence ==
  /\ at = "setval" /\ at' = "areas"
  /\ lastCity' = IF cities = <<>> THEN lastCity ELSE Max(DOMAIN cities)
  /\ torn' = (drawn # {})
  /\ UNCHANGED <<env, cities, drawn, areas, people, edited, touched>>

\* An upsert on (city, English name): it fails on a city that is gone, and on
\* an area of the same Arabic name under another English one.
InsertAreas ==
  /\ at = "areas"
  /\ IF \/ ~(Seeds \subseteq DOMAIN cities)
        \/ \E a \in areas, s \in SeedAreas :
             a.city = s.city /\ a.ar = s.ar /\ a.en # s.en
       THEN at' = "failed" /\ UNCHANGED areas
       ELSE /\ at' = "admin"
            /\ areas' = SeedAreas \union
                 {a \in areas : \A s \in SeedAreas : <<a.city, a.en>> # <<s.city, s.en>>}
  /\ UNCHANGED <<env, cities, lastCity, drawn, people, histories>>

\* Unless there is one of that name.  Users are not seeded in production.
InsertAdmin ==
  /\ at = "admin" /\ admin' = TRUE
  /\ at' = IF env = "production" THEN "done" ELSE "users"
  /\ UNCHANGED <<env, places, users, lastUser, sessions, histories>>

\* After Clear, the only other rows are those of sign-ups meanwhile.
InsertUsers ==
  /\ at = "users"
  /\ IF Seeds \subseteq DOMAIN cities
       THEN /\ at' = "done" /\ lastUser' = lastUser + SeedCities
            /\ users' = [u \in DOMAIN users \union
                               {lastUser + i : i \in Seeds} |->
                           IF u \in DOMAIN users THEN users[u] ELSE u - lastUser]
       ELSE at' = "failed" /\ UNCHANGED <<users, lastUser>>
  /\ UNCHANGED <<env, places, admin, sessions, histories>>

Cut ==
  /\ at \notin {"off", "done", "failed", "cut"} /\ at' = "cut"
  /\ UNCHANGED <<env, places, people, histories>>

-----------------------------------------------------------------------------
(* The program                                                              *)

Edits == edited' = TRUE /\ touched' = TRUE /\ UNCHANGED torn

\* POST /cities: its INSERT draws an id ...
DrawCityId ==
  /\ drawn = {} /\ lastCity < MaxCityId
  /\ lastCity' = lastCity + 1 /\ drawn' = {lastCity + 1}
  /\ Edits /\ UNCHANGED <<env, at, cities, areas, people>>

\* ... and commits, unless the id or the name is taken by then.
CommitCity ==
  /\ drawn # {} /\ drawn' = {}
  /\ \E id \in drawn, name \in CityNames :
       IF id \in DOMAIN cities \/ \E j \in DOMAIN cities : cities[j] = name
         THEN UNCHANGED cities
         ELSE cities' = [j \in DOMAIN cities \union {id} |->
                           IF j = id THEN name ELSE cities[j]]
  /\ Edits /\ UNCHANGED <<env, at, lastCity, areas, people>>

RenameCity ==
  /\ \E i \in DOMAIN cities, name \in CityNames :
       /\ \A j \in DOMAIN cities : cities[j] # name
       /\ cities' = [cities EXCEPT ![i] = name]
  /\ Edits /\ UNCHANGED <<env, at, lastCity, drawn, areas, people>>

\* Its areas go along; users in it, here those of the seeds, forbid it.
DeleteCity ==
  /\ \E i \in DOMAIN cities :
       /\ \A u \in DOMAIN users : users[u] # i
       /\ cities' = [j \in DOMAIN cities \ {i} |-> cities[j]]
       /\ areas'  = {a \in areas : a.city # i}
  /\ Edits /\ UNCHANGED <<env, at, lastCity, drawn, people>>

\* PATCH /areas/:id of the English name, or of the Arabic one.
RenameArea ==
  /\ \E a \in areas :
     \E b \in {[a EXCEPT !.en = "other"], [a EXCEPT !.ar = "other"]} :
       /\ \A o \in areas \ {a} : o.city = b.city => o.en # b.en /\ o.ar # b.ar
       /\ areas' = (areas \ {a}) \union {b}
  /\ Edits /\ UNCHANGED <<env, at, cities, lastCity, drawn, people>>

\* A new user, signed in.
SignUp ==
  /\ lastUser < MaxUserId /\ lastUser' = lastUser + 1
  /\ \E phone \in Phones :
       /\ \A u \in DOMAIN users : users[u] # phone
       /\ users' = [u \in DOMAIN users \union {lastUser + 1} |->
                      IF u \in DOMAIN users THEN users[u] ELSE phone]
       /\ sessions' = sessions \union {[user |-> lastUser + 1, phone |-> phone]}
  /\ UNCHANGED <<env, at, places, admin, histories>>

Next ==
  \/ Start \/ Clear \/ InsertCities \/ SetSequence \/ InsertAreas \/ InsertAdmin
  \/ InsertUsers \/ Cut
  \/ DrawCityId \/ CommitCity \/ RenameCity \/ DeleteCity \/ RenameArea \/ SignUp

Spec == Init /\ [][Next]_vars

-----------------------------------------------------------------------------
(* Properties                                                               *)

\* seed-cities.ts, seed-areas.ts and seed-admin.ts call themselves idempotent:
\* after a run that completed, whatever earlier ones left behind, the database
\* has every row of the seeds under the name and the number they give it; and a
\* run fails only over what administrators edited.
SeedingIsIdempotent ==
  /\ at = "done" /\ ~edited =>
       /\ \A i \in Seeds : i \in DOMAIN cities /\ cities[i] = i
       /\ SeedAreas \subseteq areas /\ admin
       /\ env # "production" => \A i \in Seeds : \E u \in DOMAIN users : users[u] = i
  /\ at = "failed" => touched

\* After a run that completed, the next city gets an id that is free, though
\* the seeds brought ids of their own: unless a city was being created while
\* the sequence was set.
CityIdsStayFree ==
  at = "done" /\ ~torn => \A id \in DOMAIN cities \union drawn : id <= lastCity

\* In production a session belongs for good to the user it was opened for,
\* however often the seeds run.  (Elsewhere the ids start again and the session
\* of one user becomes that of another.)
SessionsKeepTheirUser ==
  env = "production" =>
    \A s \in sessions : s.user \in DOMAIN users /\ users[s.user] = s.phone
=============================================================================
