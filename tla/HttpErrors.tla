----------------------------- MODULE HttpErrors -----------------------------
(***************************************************************************)
(* GlobalExceptionFilter: what becomes of an exception thrown anywhere in    *)
(* the handling of a request, by the first handler that takes it.           *)
(***************************************************************************)
EXTENDS Naturals, Sequences, SequencesExt

VARIABLES
  env,     \* NODE_ENV, for the whole behaviour
  thrown,  \* the exception
  answer   \* [status, error, message, context : what it tells, or {}]

vars == <<env, thrown, answer>>

\* The exceptions: their class, and the code or the status they carry.
Classes == {"multer", "jwt", "query", "validation", "http", "storage", "other"}
DbCodes == {"23502", "23503", "23505", "23001", "42P01", "08006", "unknown"}
Exceptions ==
  [class : {"query"}, code : DbCodes, status : {0}]
    \union [class : {"jwt"}, code : {"expired", "malformed"}, status : {0}]
    \union [class : {"http"}, code : {"given", "none"}, status : {401, 404, 409, 500}]
    \union [class : {"validation"}, code : {"none"}, status : {400}]
    \union [class : {"multer"}, code : {"LIMIT_UNEXPECTED_FILE", "none"}, status : {0}]
    \union [class : {"storage", "other"}, code : {"none"}, status : {0}]

Response(status, error, message, details) ==
  [status |-> status, error |-> error, message |-> message,
   context |-> {"timestamp"} \union details]

\* ERROR_CODE_MAP and DEFAULT_MAPPING, for the codes above.
DbStatus(code) ==
  CASE code \in {"23502", "23503", "23001"} -> 400
    [] code = "23505"                      -> 409
    [] code = "08006"                      -> 503
    [] OTHER                               -> 500

\* Mutant: the code of the database goes out whatever the status.
QueryBug(e) == Response(DbStatus(e.code), e.code, "fixed", {"details"})

\* TypeOrmErrorHandler: the driver's own message and error are left out.
Query(e) ==
  Response(DbStatus(e.code),
           IF DbStatus(e.code) >= 500 THEN "DATABASE_ERROR" ELSE e.code,
           "fixed", {"details"})

Multer(e) == Response(400, e.code, IF e.code = "none" THEN "its own" ELSE "fixed", {})
Jwt(e) == Response(401, IF e.code = "expired" THEN "TOKEN_EXPIRED"
                                               ELSE "TOKEN_INVALID",
                   "fixed", {"details"})
\* I18nValidationErrorHandler: the messages of every constraint violated.
Validation(e) == Response(e.status, "BAD_REQUEST", "constraints", {})
\* HttpExceptionHandler: what the thrower put in it.
Http(e) == Response(e.status, IF e.code = "given" THEN "given" ELSE "its name",
                    "its own", IF e.code = "given" THEN {"details"} ELSE {})
Fallback(e) == Response(500, "INTERNAL_SERVER_ERROR", "fixed", {"details"})

\* canHandle; an I18nValidationException is an HttpException too.
Takes(handler, e) ==
  CASE handler = "http" -> e.class \in {"http", "validation"}
    [] OTHER            -> e.class = handler

\* ErrorHandlerFactory: the first that takes it.
Handlers == <<"multer", "jwt", "query", "validation", "http">>
Handler(e) ==
  LET first == SelectInSeq(Handlers, LAMBDA h : Takes(h, e))
  IN IF first = 0 THEN "fallback" ELSE Handlers[first]

\* resolveResponse; a handler that throws is replaced by the same answer that
\* the fallback gives.
Resolved(e, throws) ==
  IF throws THEN Fallback(e)
  ELSE CASE Handler(e) = "multer"     -> Multer(e)
         [] Handler(e) = "jwt"        -> Jwt(e)
         [] Handler(e) = "query"      -> Query(e)
         [] Handler(e) = "validation" -> Validation(e)
         [] Handler(e) = "http"       -> Http(e)
         [] OTHER                     -> Fallback(e)

NoAnswer == [status |-> 0, error |-> "none", message |-> "none", context |-> {}]
NoThrow  == [class |-> "none", code |-> "none", status |-> 0]

Init == env \in {"development", "production"} /\ thrown = NoThrow /\ answer = NoAnswer

\* enrichContext, then the context goes unless in developer mode.
Catch ==
  /\ \E e \in Exceptions, throws, optsOut \in BOOLEAN :
       /\ throws => e.class = "validation"
       /\ thrown' = e
       /\ answer' = [Resolved(e, throws) EXCEPT
            !.context = IF env = "development" /\ ~optsOut
                          THEN @ \union {"path", "method", "stack"} ELSE {}]
  /\ UNCHANGED env

Next == Catch
Spec == Init /\ [][Next]_vars

-----------------------------------------------------------------------------
(* Properties                                                               *)

\* Outside development an answer tells nothing of the program: no context, and
\* of an error that is not the client's neither a code nor a message of its
\* own, unless the program threw it as an HttpException.
InternalsStayInside ==
  /\ env # "development" => answer.context = {}
  /\ answer.status >= 500 /\ thrown.class # "http" =>
       answer.error \in {"DATABASE_ERROR", "INTERNAL_SERVER_ERROR"}
       /\ answer.message = "fixed"

\* A client whose input fails validation is told which constraints, every
\* HttpException keeps its status, whichever handler takes it, and what is wrong
\* with a token or with a form is the client's mistake.
ClientLearnsItsMistake ==
  /\ thrown.class = "validation" /\ answer.status # 500 =>
       answer.message = "constraints"
  /\ thrown.class = "http" => answer.status = thrown.status
  /\ thrown.class \in {"jwt", "multer"} => answer.status \in 400..499
=============================================================================
