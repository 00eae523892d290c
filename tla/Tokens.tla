------------------------------- MODULE Tokens --------------------------------
(***************************************************************************)
(* What a lexer promises: it cuts a text into tokens, each the longest     *)
(* beginning of the rest that is a word of the first language of the list  *)
(* that has one, and fails where no language has one.                      *)
(***************************************************************************)
EXTENDS CharGroups, FiniteSetsExt

CONSTANT Languages       \* lists of languages: a name and the groups it stands for

VARIABLES languages, text, from, tokens, status

vars == << languages, text, from, tokens, status >>

Init ==
    /\ languages \in Languages
    /\ text = << >> /\ from = 1
    /\ tokens = << >> /\ status = "waiting"

\* Any text.
Open ==
    /\ status = "waiting" /\ status' = "reading"
    /\ Len(text') >= 0
    /\ UNCHANGED << languages, from, tokens >>

EndsOf(k) == Reached(languages[k].groups, text, from)

Take ==
    /\ status = "reading" /\ from <= Len(text)
    /\ \E k \in DOMAIN languages :
          /\ tokens' = Append(tokens, [type  |-> languages[k].name,
                                       value |-> SubSeq(text, from, from' - 1)])
          /\ EndsOf(k) # {} /\ from' = Max(EndsOf(k))
          /\ \A j \in 1 .. k - 1 : EndsOf(j) = {}
    /\ UNCHANGED << languages, text, status >>

Fail ==
    /\ status = "reading" /\ status' = "failed"
    /\ from <= Len(text)
    /\ \A k \in DOMAIN languages : EndsOf(k) = {}
    /\ UNCHANGED << languages, text, from, tokens >>

Finish ==
    /\ status = "reading" /\ from > Len(text)
    /\ status' = "done"
    /\ UNCHANGED << languages, text, from, tokens >>

Next == Open \/ Take \/ Fail \/ Finish

Spec == Init /\ [][Next]_vars
==============================================================================
