------------------------------ MODULE Sessions ------------------------------
(***************************************************************************)
(* What the refresh-token authority promises its callers, whatever rows,     *)
(* statements and locks it is made of: a login opens a session that one      *)
(* token stands for at a time; the token can be exchanged for a new one or   *)
(* be ended, and no token ever stands for a session again.  A session is     *)
(* named by its first token.                                               *)
(***************************************************************************)
CONSTANTS Tokens

VARIABLES
  holds,  \* pairs <<session, token>>: the token is good for the session
  used    \* tokens that were handed out once, or never will be

vars == <<holds, used>>

Init == holds = {} /\ used = {}

LogIn(t) ==
  /\ t \notin used /\ used' = used \union {t}
  /\ holds' = holds \union {<<t, t>>}

Exchange(s, t, u) ==
  /\ <<s, t>> \in holds
  /\ u \notin used /\ used' = used \union {u}
  /\ holds' = (holds \ {<<s, t>>}) \union {<<s, u>>}

\* By logout, by the end of all sessions of a principal, or because the tokens
\* expired and were pruned.
End ==
  /\ holds' \subseteq holds
  /\ UNCHANGED used

\* A token that was made and not handed out.
Discard(t) ==
  /\ used' = used \union {t}
  /\ UNCHANGED holds

Next ==
  \/ \E t \in Tokens : LogIn(t) \/ Discard(t)
  \/ \E s, t, u \in Tokens : Exchange(s, t, u)
  \/ End

Spec == Init /\ [][Next]_vars
=============================================================================
