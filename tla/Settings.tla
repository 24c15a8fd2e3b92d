------------------------------ MODULE Settings ------------------------------
(***************************************************************************)
(* A start of the program: the environment is validated as a whole, then    *)
(* the providers of the modules are made from it.                           *)
(*                                                                         *)
(* A variable has a class of values: "unset", "empty" (set to nothing, as    *)
(* `X=` in a file), "given" (what it is meant for), or one of its own.        *)
(* TEXT stands for the other required texts, COUNT for the other required    *)
(* positive numbers, and LIMIT for those with a default.                    *)
(***************************************************************************)
EXTENDS Naturals

CONSTANT MaxEdits  \* bound: variables changed in a working environment

VARIABLES
  environment,  \* [Variables -> class]
  edits,
  boot          \* what became of the start

vars == <<environment, edits, boot>>

\* The classes that the schema of a variable accepts, and the others.
Required == [good |-> {"given"}, bad |-> {"unset", "empty"}]
Optional == [good |-> {"unset", "given"}, bad |-> {"empty"}]
Lenient  == [good |-> {"unset", "empty", "given"}, bad |-> {}]
OneOf(names) == [good |-> {"unset"} \union names, bad |-> {"empty"}]

\* z.coerce.number(): an empty text is the number 0.
Delays   == [good |-> {"unset", "empty", "low", "high"}, bad |-> {}]
Positive == [good |-> {"unset", "given"}, bad |-> {"empty"}]

\* envBoolean(): a keyword, or not set.
Booleans == [good |-> {"unset", "yes", "no"}, bad |-> {"empty"}]

\* z.string().default(): any text, whether or not its consumer can read it.
Texts == [good |-> {"unset", "empty", "given", "other"}, bad |-> {}]

\* A list of origins, split at commas; "blank" has nothing between them.
Origins == [good |-> {"given", "*"}, bad |-> {"unset", "empty", "blank"}]

Schema ==
  [NODE_ENV        |-> [good |-> {"development", "production"},
                        bad  |-> {"unset", "empty"}],
   TEXT |-> Required, COUNT |-> Required, LIMIT |-> Positive,
   CORS_ORIGINS    |-> Origins, TRUST_PROXY |-> Texts, BODY_LIMIT |-> Texts,
   OTP_FIXED_CODE  |-> Lenient,
   DB_SSL_REJECT_UNAUTHORIZED |-> Booleans, DB_SSL_CA |-> Lenient,
   CACHE_DRIVER    |-> OneOf({"redis", "noop"}),
   REDIS_HOST      |-> Optional, REDIS_PORT |-> Positive, REDIS_DB |-> Lenient,
   STORAGE_DRIVER  |-> OneOf({"local", "supabase"}),
   STORAGE_LOCAL_PATH |-> Optional, APP_URL |-> Optional,
   SUPABASE_URL    |-> Optional, SUPABASE_SECRET_KEY |-> Optional,
   BUCKET_PUBLIC   |-> Optional, BUCKET_PRIVATE |-> Optional,
   WHATSAPP_DRIVER |-> OneOf({"baileys", "stub"}),
   MIN_DELAY       |-> Delays, MAX_DELAY |-> Delays,
   SERVICE_ACCOUNT |-> [good |-> {"unset", "given", "no JSON", "other JSON"},
                        bad  |-> {"empty"}]]

Variables == DOMAIN Schema

\* Two that work: what development needs, and all there is.
Sparse ==
  [v \in Variables |->
     CASE v = "NODE_ENV" -> "development"
       [] v \in {"TEXT", "COUNT", "CORS_ORIGINS", "STORAGE_LOCAL_PATH", "APP_URL"}
          -> "given"
       [] OTHER -> "unset"]
Full ==
  [v \in Variables |->
     CASE v = "NODE_ENV" -> "production"
       [] v = "CACHE_DRIVER" -> "redis" [] v = "STORAGE_DRIVER" -> "supabase"
       [] v = "WHATSAPP_DRIVER" -> "baileys"
       [] v \in {"OTP_FIXED_CODE", "DB_SSL_REJECT_UNAUTHORIZED", "MIN_DELAY",
                 "MAX_DELAY"} -> "unset"
       [] OTHER -> "given"]

NotYet == [outcome |-> "none"]

Init == environment \in {Sparse, Full} /\ edits = 0 /\ boot = NotYet

Edit ==
  /\ edits < MaxEdits /\ edits' = edits + 1
  /\ \E v \in Variables, class \in UNION {Schema[w].good \union Schema[w].bad :
                                            w \in Variables} :
       /\ class \in Schema[v].good \union Schema[v].bad
       /\ environment' = [environment EXCEPT ![v] = class]
  /\ boot' = NotYet

-----------------------------------------------------------------------------
(* Validation                                                               *)

WellFormed == \A v \in Variables : environment[v] \in Schema[v].good

\* The value of a variable that has a default.
Value(v, default) ==
  IF environment[v] = "unset" THEN default ELSE environment[v]

Production    == environment["NODE_ENV"] = "production"
StorageDriver == Value("STORAGE_DRIVER", "local")
CacheDriver   == Value("CACHE_DRIVER", "noop")
Given(vs)     == \A v \in vs : environment[v] = "given"
Supabase      == {"SUPABASE_URL", "SUPABASE_SECRET_KEY", "BUCKET_PUBLIC",
                  "BUCKET_PRIVATE"}

\* Mutant: the buckets are not among what the driver requires.
RefineStorageBug ==
  IF StorageDriver = "local" THEN Given({"STORAGE_LOCAL_PATH", "APP_URL"})
                             ELSE Given({"SUPABASE_URL", "SUPABASE_SECRET_KEY"})

RefineStorage ==
  IF StorageDriver = "local" THEN Given({"STORAGE_LOCAL_PATH", "APP_URL"})
                             ELSE Given(Supabase)
RefineOtp      == Production => environment["OTP_FIXED_CODE"] # "given"
RefineSecurity == Production => environment["CORS_ORIGINS"] # "*"
RefineCache    == CacheDriver = "redis" => Given({"REDIS_HOST", "REDIS_PORT"})

Accepted ==
  WellFormed /\ RefineStorage /\ RefineOtp /\ RefineSecurity /\ RefineCache

-----------------------------------------------------------------------------
(* What the modules make of it                                              *)

\* A provider of the local driver falls back to ./uploads and to links without
\* a host; the Supabase client is made only for its driver, from both inputs.
LocalStorage ==
  [driver |-> "local", whole |-> Given({"STORAGE_LOCAL_PATH", "APP_URL"})]
SupabaseStorage ==
  [driver |-> "supabase",
   whole  |-> /\ Given({"SUPABASE_URL", "SUPABASE_SECRET_KEY"})
              /\ Given({"BUCKET_PUBLIC", "BUCKET_PRIVATE"})]
Storage == IF StorageDriver = "supabase" THEN SupabaseStorage ELSE LocalStorage

\* Cache and request counters take Redis together.
Cache    == CacheDriver
Counters == IF CacheDriver = "redis" THEN "redis" ELSE "memory"

Push == IF environment["SERVICE_ACCOUNT"] \in {"unset", "empty", "no JSON"}
          THEN "disabled" ELSE "firebase"
Notifier == IF environment["WHATSAPP_DRIVER"] = "baileys" THEN "baileys" ELSE "stub"

\* In seconds: an empty text is 0.
Delay(v, default) ==
  CASE environment[v] = "unset" -> default
    [] environment[v] = "empty" -> 0
    [] environment[v] = "low"   -> 1
    [] environment[v] = "high"  -> 10

AnyOrigin    == environment["CORS_ORIGINS"] = "*"
FixedCode    == environment["OTP_FIXED_CODE"] = "given"
VerifiesPeer == Production /\ Value("DB_SSL_REJECT_UNAUTHORIZED", "yes") = "yes"

\* json and urlencoded fall back to a limit of their own for an empty text, and have
\* none when it is not a size.
Capped == environment["BODY_LIMIT"] # "other"

\* getOrThrow of what is not there, a service account of another shape, or a proxy
\* setting that Express cannot compile (an empty text is 0 hops).
Throws ==
  \/ CacheDriver = "redis" /\ \E v \in {"REDIS_HOST", "REDIS_PORT"} :
                                environment[v] = "unset"
  \/ environment["SERVICE_ACCOUNT"] = "other JSON"
  \/ environment["TRUST_PROXY"] = "other"

Start ==
  /\ boot = NotYet
  /\ boot' = CASE ~Accepted -> [outcome |-> "refused"]
               [] Accepted /\ Throws -> [outcome |-> "crashed"]
               [] OTHER ->
                  [outcome  |-> "started", storage |-> Storage,
                   cache    |-> Cache, counters |-> Counters, push |-> Push,
                   notifier |-> Notifier,
                   min |-> Delay("MIN_DELAY", 3), max |-> Delay("MAX_DELAY", 8),
                   anyOrigin |-> AnyOrigin, fixedCode |-> FixedCode,
                   verifies |-> VerifiesPeer, capped |-> Capped]
  /\ UNCHANGED <<environment, edits>>

Next == Edit \/ Start
Spec == Init /\ [][Next]_vars

-----------------------------------------------------------------------------
(* Properties                                                               *)

\* "The app refuses to boot on missing or malformed values": what starts has
\* the whole of the storage it uses, in production no fixed code, no wildcard
\* and a database whose certificate it verifies unless told otherwise, and
\* delays in order unless they were set, and a limit to the bodies it reads unless
\* BODY_LIMIT is no size; and what the validation accepts does start, save for a
\* service account and a TRUST_PROXY, which it does not look into.
AcceptedSettingsServe ==
  /\ boot.outcome = "crashed" => \/ environment["SERVICE_ACCOUNT"] = "other JSON"
                                 \/ environment["TRUST_PROXY"] = "other"
  /\ boot.outcome = "started" =>
       /\ boot.storage.whole
       /\ Production =>
            /\ ~boot.fixedCode /\ ~boot.anyOrigin
            /\ boot.verifies \/ environment["DB_SSL_REJECT_UNAUTHORIZED"] = "no"
       /\ boot.capped \/ environment["BODY_LIMIT"] = "other"
       /\ boot.min <= boot.max
            \/ environment["MIN_DELAY"] # "unset"
            \/ environment["MAX_DELAY"] # "unset"
=============================================================================
