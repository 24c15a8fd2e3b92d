------------------------------ MODULE MCParts ------------------------------
(***************************************************************************)
(* The parts of the program that share no state with one another, checked   *)
(* in one run: a behaviour is that of one of them, `part`, while the others  *)
(* stand at their first state.                                             *)
(***************************************************************************)
EXTENDS Storage, TLC

CONSTANTS
  PublicKeys, PrivateKeys, MaxLinks, Second, TTL, MaxNow,  \* AccessLinks
  QUALITY, MIN_QUALITY, STEP,                              \* FileRules
  MaxOffset, MaxJump, Day, Span,                           \* LocalTime
  Subscribers, Malformed,                                  \* Phones
  MULTICAST_BATCH_SIZE, MaxTokens,                         \* PushBatches
  Reference, Others, Namespaces, TextNames,                \* Translations
  SeedCities, MaxCityId, MaxUserId, Numbers,               \* Seeding
  MaxEdits                                                 \* Settings

\* There are seeds, a second has a tick, a batch a token, a step down from above the
\* least quality is one that sharp takes, and what bounds the runs are numbers.
ASSUME PartsAssumption ==
  /\ SeedCities \in Nat \ {0} /\ Second \in Nat \ {0} /\ MULTICAST_BATCH_SIZE \in Nat \ {0}
  /\ QUALITY \in Nat /\ MIN_QUALITY \in Nat /\ STEP \in Nat /\ TTL \in Nat /\ Day \in Nat
  /\ QUALITY >= MIN_QUALITY /\ MIN_QUALITY >= STEP /\ STEP > 0
  /\ MaxLinks \in Nat /\ MaxNow \in Nat /\ MaxTokens \in Nat
  /\ MaxOffset \in Nat /\ MaxJump \in Nat /\ Span \in Nat
  /\ MaxCityId \in Nat /\ MaxUserId \in Nat

VARIABLES
  part,
  linkDriver, now, stored, ask,
  at, file, round, quality, answer,
  zone, wall, named, day,
  given, kept,
  tokens, waiting, failed, result, outcome,
  texts, broken, verdict,
  env, thrown, reply,
  seedEnv, step, cities, lastCity, drawn, areas, users, lastUser, admin,
  sessions, edited, touched, torn,
  environment, edits, boot

Links  == INSTANCE AccessLinks WITH driver <- linkDriver, MaxBatch <- MaxLinks
Files  == INSTANCE FileRules
Time   == INSTANCE LocalTime
Phone  == INSTANCE Phones
Push   == INSTANCE PushBatches
Texts  == INSTANCE Translations WITH Names <- TextNames
Errors == INSTANCE HttpErrors WITH answer <- reply
Seeds  == INSTANCE Seeding WITH env <- seedEnv, at <- step, Phones <- Numbers
Start  == INSTANCE Settings

linksVars == <<linkDriver, now, stored, ask>>
filesVars == <<at, file, round, quality, answer>>
timeVars  == <<zone, wall, named, day>>
phoneVars == <<given, kept>>
pushVars  == <<tokens, waiting, failed, result, outcome>>
textsVars == <<texts, broken, verdict>>
errorsVars == <<env, thrown, reply>>
seedsVars == <<seedEnv, step, cities, lastCity, drawn, areas, users, lastUser,
               admin, sessions, edited, touched, torn>>
startVars == <<environment, edits, boot>>
parts == <<vars, linksVars, filesVars, timeVars, phoneVars, pushVars,
           textsVars, errorsVars, seedsVars, startVars>>

Parts == {"storage", "links", "files", "time", "phones", "push", "texts", "errors",
          "seeds", "start"}

PartsInit ==
  /\ part \in Parts
  /\ Init /\ Links!Init /\ Files!Init /\ Time!Init /\ Phone!Init /\ Push!Init
  /\ Texts!Init /\ Errors!Init /\ Seeds!Init
  /\ Start!Init
  \* What the parts that stand still choose does not matter.
  /\ part # "storage" => driver = "local"
  /\ part # "links" => linkDriver = "local"
  /\ part # "errors" => env = "production"
  /\ part # "seeds" => seedEnv = "production"
  /\ part # "start" => environment = Start!Full

RunsStorage ==
  /\ part = "storage" /\ Next
  /\ UNCHANGED <<part, linksVars, filesVars, timeVars, phoneVars, pushVars,
                 textsVars, errorsVars, seedsVars, startVars>>
RunsLinks ==
  /\ part = "links" /\ Links!Next
  /\ UNCHANGED <<part, vars, filesVars, timeVars, phoneVars, pushVars,
                 textsVars, errorsVars, seedsVars, startVars>>
RunsFiles ==
  /\ part = "files" /\ Files!Next
  /\ UNCHANGED <<part, vars, linksVars, timeVars, phoneVars, pushVars,
                 textsVars, errorsVars, seedsVars, startVars>>
RunsTime ==
  /\ part = "time" /\ Time!Next
  /\ UNCHANGED <<part, vars, linksVars, filesVars, phoneVars, pushVars,
                 textsVars, errorsVars, seedsVars, startVars>>
RunsPhones ==
  /\ part = "phones" /\ Phone!Next
  /\ UNCHANGED <<part, vars, linksVars, filesVars, timeVars, pushVars,
                 textsVars, errorsVars, seedsVars, startVars>>
RunsPush ==
  /\ part = "push" /\ Push!Next
  /\ UNCHANGED <<part, vars, linksVars, filesVars, timeVars, phoneVars,
                 textsVars, errorsVars, seedsVars, startVars>>
RunsTexts ==
  /\ part = "texts" /\ Texts!Next
  /\ UNCHANGED <<part, vars, linksVars, filesVars, timeVars, phoneVars,
                 pushVars, errorsVars, seedsVars, startVars>>
RunsErrors ==
  /\ part = "errors" /\ Errors!Next
  /\ UNCHANGED <<part, vars, linksVars, filesVars, timeVars, phoneVars,
                 pushVars, textsVars, seedsVars, startVars>>

RunsSeeds ==
  /\ part = "seeds" /\ Seeds!Next
  /\ UNCHANGED <<part, vars, linksVars, filesVars, timeVars, phoneVars, pushVars,
                 textsVars, errorsVars, startVars>>
RunsStart ==
  /\ part = "start" /\ Start!Next
  /\ UNCHANGED <<part, vars, linksVars, filesVars, timeVars, phoneVars, pushVars,
                 textsVars, errorsVars, seedsVars>>

PartsNext ==
  \/ RunsStorage \/ RunsLinks \/ RunsFiles \/ RunsTime \/ RunsPhones \/ RunsPush
  \/ RunsTexts \/ RunsErrors \/ RunsSeeds \/ RunsStart

PartsSpec == PartsInit /\ [][PartsNext]_<<part, parts>>

Symmetry == Permutations(Callers) \union Permutations(Names)

-----------------------------------------------------------------------------
(* Properties, each stated and explained in its module                      *)

\* Links name the objects asked for, in their order, and live as long as their
\* holder is told.
LinksHonest == part = "links" => Links!LinksMatchKeys /\ Links!ExpiryHonest

\* A stored photo is what its name and type say, the two checks agree, and it is
\* compressed until it fits or the quality is the least.
PhotosHonest ==
  part = "files" => Files!StoredIsWhatItSays /\ Files!ShrunkAsFarAsAllowed

\* A wall-clock time resolves to an instant that shows it, if there is one, to one
\* on a side of a transition that depends on the zone if there is none or two, and
\* the bounds of a local day hold its instants and no others.
LocalTimesHonest ==
  part = "time" =>
    Time!LocalTimesResolve /\ Time!TransitionsHaveASide /\ Time!DayIsWhole

\* What is let in from outside is fit for use: a subscriber has one spelling in
\* the tables, and settings that are accepted serve, save for the two that the
\* validation does not look into: a service account and TRUST_PROXY.
InputsHonest ==
  /\ part = "phones" => Phone!OneSpellingPerSubscriber
  /\ part = "start" => Start!AcceptedSettingsServe

\* A failure is reported of the token that failed.
FailuresPointAtTheirTokens ==
  part = "push" => Push!FailuresPointAtTheirTokens

\* Translation files that are accepted serve every key of the reference, unless
\* the reference's own file is no JSON.
AcceptedTextsServe == part = "texts" => Texts!AcceptedTextsServe

\* In production no answer tells what the program is made of, and errors of the
\* client are answered as such.
ErrorsHonest ==
  part = "errors" => Errors!InternalsStayInside /\ Errors!ClientLearnsItsMistake

\* The seed script can be run again, leaves the sequence of city ids where it has
\* to be, and in production gives no session to another user.
SeedsHonest ==
  part = "seeds" => /\ Seeds!SeedingIsIdempotent /\ Seeds!CityIdsStayFree
                    /\ Seeds!SessionsKeepTheirUser
=============================================================================
