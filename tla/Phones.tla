------------------------------- MODULE Phones -------------------------------
(***************************************************************************)
(* SyriaPhone({ formatToInternational: true }), through which every phone    *)
(* number enters the program: the number names the account, so its spellings *)
(* must end up one.  A number is a prefix and what follows it.              *)
(***************************************************************************)
CONSTANTS
  Subscribers,  \* what follows the prefix of a number of the six providers
  Malformed     \* ... and of others

VARIABLES given, kept   \* the number of a request, and what becomes of it

vars == <<given, kept>>

Prefixes  == {"", "0", "963", "+963", "00963"}
Spellings  == [prefix : Prefixes, rest : Subscribers \union Malformed]
Refused   == [prefix |-> "refused"]

\* transformSyriaPhone: 00963 becomes +963, then a leading 0 does.
Normalized(n) ==
  IF n.prefix \in {"0", "00963"} THEN [n EXCEPT !.prefix = "+963"] ELSE n

\* isValidSyriaPhone, on the transformed number.
Valid(n) == n.prefix \in {"0", "+963", "00963"} /\ n.rest \in Subscribers

Init == given = Refused /\ kept = Refused

Receive ==
  \E n \in Spellings :
    /\ given' = n
    /\ kept' = IF Valid(Normalized(n)) THEN Normalized(n) ELSE Refused

Next == Receive
Spec == Init /\ [][Next]_vars

-----------------------------------------------------------------------------
(* Properties                                                               *)

\* The three spellings that the decorator documents are accepted for every
\* subscriber and kept as one and the same; nothing else is accepted.
OneSpellingPerSubscriber ==
  given # Refused =>
    IF given.rest \in Subscribers /\ given.prefix \in {"0", "+963", "00963"}
      THEN kept = [prefix |-> "+963", rest |-> given.rest]
      ELSE kept = Refused
=============================================================================
