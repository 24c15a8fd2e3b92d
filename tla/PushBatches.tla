---------------------------- MODULE PushBatches ----------------------------
(***************************************************************************)
(* FirebaseNotificationProvider.sendToTokens: the tokens go out in batches   *)
(* side by side, which answer in any order and add to one result.           *)
(***************************************************************************)
EXTENDS Naturals, Sequences, FiniteSets, SequencesExt

CONSTANTS
  MULTICAST_BATCH_SIZE,  \* 500 in the code
  MaxTokens              \* bound: tokens of a call

VARIABLES
  tokens,   \* how many tokens the call has; they are named by their places
  waiting,  \* the batches, by their indexes, that have not answered
  failed,   \* tokens that Firebase refused (what the caller should learn)
  result,   \* [successCount, failureCount, failures]
  outcome   \* of the promise: "none", "pending", "ok" or "error"

vars == <<tokens, waiting, failed, result, outcome>>

NoResult == [successCount |-> 0, failureCount |-> 0, failures |-> <<>>]

Init ==
  /\ tokens = 0 /\ waiting = {} /\ failed = {}
  /\ result = NoResult /\ outcome = "none"

\* chunk: the places, from 0, of the tokens of a batch.
Batch(b) ==
  {t \in 0..(tokens - 1) : t \div MULTICAST_BATCH_SIZE = b}

\* validateTokensOptions refuses a call with no token, and one with no title
\* or no body; otherwise every batch is sent.
Send ==
  /\ outcome = "none"
  /\ \E n \in 0..MaxTokens, titled \in BOOLEAN :
       IF n = 0 \/ ~titled
         THEN outcome' = "error" /\ UNCHANGED <<tokens, waiting>>
         ELSE /\ outcome' = "pending" /\ tokens' = n
              /\ waiting' = 0..((n - 1) \div MULTICAST_BATCH_SIZE)
  /\ UNCHANGED <<failed, result>>

\* Mutant: the index of a failure is the one within its batch.
FailureIndexBug(b, t) == t - b * MULTICAST_BATCH_SIZE

\* The index that a failure is given: t is the token's place.
FailureIndex(b, t) ==
  LET index == t - b * MULTICAST_BATCH_SIZE   \* within the batch
  IN b * MULTICAST_BATCH_SIZE + index

\* The places of refused tokens, in their order.
InOrder(bad) ==
  CHOOSE list \in [1..Cardinality(bad) -> bad] :
    \A i, j \in DOMAIN list : i < j => list[i] < list[j]

BatchAnswers ==
  \E b \in waiting : \E bad \in SUBSET Batch(b) :
    /\ waiting' = waiting \ {b} /\ failed' = failed \union bad
    /\ result' =
         [successCount |-> result.successCount + Cardinality(Batch(b) \ bad),
          failureCount |-> result.failureCount + Cardinality(bad),
          failures |-> result.failures \o
            [i \in DOMAIN InOrder(bad) |-> FailureIndex(b, InOrder(bad)[i])]]
    /\ outcome' = IF outcome = "pending" /\ waiting' = {} THEN "ok" ELSE outcome
    /\ UNCHANGED tokens

\* A batch that fails as a whole ends the call; the others go on.
BatchFails ==
  \E b \in waiting :
    /\ waiting' = waiting \ {b} /\ outcome' = "error"
    /\ UNCHANGED <<tokens, failed, result>>

Next == Send \/ BatchAnswers \/ BatchFails
Spec == Init /\ [][Next]_vars

-----------------------------------------------------------------------------
(* Properties                                                               *)

\* A call that answers has counted every token, and lists each one refused
\* once, at its place in the caller's list, in whatever order the batches
\* ended.
FailuresPointAtTheirTokens ==
  outcome = "ok" =>
    /\ result.successCount + result.failureCount = tokens
    /\ result.failureCount = Len(result.failures)
    /\ ToSet(result.failures) = failed /\ IsInjective(result.failures)
=============================================================================
