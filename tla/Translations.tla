---------------------------- MODULE Translations ----------------------------
(***************************************************************************)
(* `npm run i18n:sync` (scripts/i18n): the check of the translation files    *)
(* and the key and placeholder types generated from them, while the files    *)
(* are edited.  A language has one file per namespace.                      *)
(***************************************************************************)
EXTENDS Naturals, FiniteSets

CONSTANTS
  Reference,   \* DEFAULT_REFERENCE_LANGUAGE
  Others,      \* the other languages
  Namespaces,
  Names        \* bound: keys of a namespace

VARIABLES
  texts,    \* [Languages -> [Keys -> Text]]
  broken,   \* files, as <<language, namespace>>, that are not JSON
  verdict   \* of the last run, if nothing was edited since:
            \* [exit, keys, params : [keys -> placeholders]]

vars == <<texts, broken, verdict>>

Languages == {Reference} \union Others
Keys      == Namespaces \X Names
Text      == {"absent", "blank", "plain", "param", "params"}
None      == [exit |-> 2, keys |-> {}, params |-> <<>>]   \* no run

\* extractParameters
Placeholders(text) ==
  CASE text = "param"  -> {"property"}
    [] text = "params" -> {"property", "min"}
    [] OTHER           -> {}

Init ==
  /\ texts = [l \in Languages |-> [k \in Keys |-> "plain"]]
  /\ broken = {} /\ verdict = None

Edit ==
  /\ \E l \in Languages, k \in Keys, t \in Text :
       texts' = [texts EXCEPT ![l][k] = t]
  /\ verdict' = None /\ UNCHANGED broken

BreakOrMend ==
  /\ \E l \in Languages, n \in Namespaces :
       broken' = IF <<l, n>> \in broken THEN broken \ {<<l, n>>}
                                        ELSE broken \union {<<l, n>>}
  /\ verdict' = None /\ UNCHANGED texts

-----------------------------------------------------------------------------
(* The script                                                               *)

\* loadLanguageData: a file that does not parse is named on the console, and
\* otherwise taken to have no entries.
Has(l) == {k \in Keys : texts[l][k] # "absent" /\ <<l, k[1]>> \notin broken}

\* Mutant: the two sides are swapped.
MissingBug(l) == Has(l) \ Has(Reference)

\* computeStatistics
Missing(l) == Has(Reference) \ Has(l)
Blank(l)   == {k \in Has(l) : texts[l][k] = "blank"}

\* hasBlockingErrors, of some language.
Blocking == \E l \in Languages : Missing(l) # {} \/ Blank(l) # {}

\* The keys and placeholders of the generated types, whatever the exit code.
AllKeys       == UNION {Has(l) : l \in Languages}
KeyParameters == [k \in AllKeys |->
  UNION {Placeholders(texts[l][k]) : l \in {m \in Languages : k \in Has(m)}}]

Sync ==
  /\ verdict' = [exit |-> IF Blocking THEN 1 ELSE 0,
                 keys |-> AllKeys, params |-> KeyParameters]
  /\ UNCHANGED <<texts, broken>>

Next == Edit \/ BreakOrMend \/ Sync
Spec == Init /\ [][Next]_vars

-----------------------------------------------------------------------------
(* Properties                                                               *)

\* When the script accepts the files, a key of the reference language has a text
\* in every language and a file that can be read, and whatever placeholders one of
\* the texts uses, though the others do not, the types make the caller give them;
\* unless the reference's own file is not JSON: then its keys are not looked at.
AcceptedTextsServe ==
  verdict.exit = 0 =>
    \A k \in Keys, l \in Languages :
      texts[Reference][k] # "absent" =>
        \/ <<Reference, k[1]>> \in broken
        \/ /\ k \in verdict.keys
           /\ texts[l][k] \notin {"absent", "blank"} /\ <<l, k[1]>> \notin broken
           /\ Placeholders(texts[l][k]) \subseteq verdict.params[k]
=============================================================================
