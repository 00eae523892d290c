-------------------------------- MODULE Lexer --------------------------------
(***************************************************************************)
(* The lexer of the assembler: main reads the regular expressions, then    *)
(* lexem_read (lexem.c) cuts the source text with re_match (regexp.c).     *)
(* re_match is one action per operator, one step per turn of its loop.     *)
(* lexing is where lexem_read stands: closed -> read <-> match -> done, or *)
(* failed where no expression matches (main goes on with what was read).   *)
(***************************************************************************)
EXTENDS RegexpReader

CONSTANTS
    Texts,               \* the source texts that may be lexed with a database
    Meaning              \* its languages, a name and groups for each

ASSUME TextsAssumption == Texts \in [Databases -> SUBSET Seq(STRING)]
ASSUME MeaningAssumption ==
    Meaning \in [Databases ->
        Seq([name   : Seq(Chars),
             groups : Seq([chars : SUBSET Chars, operator : Operators])])]

VARIABLES content, source, l, c, g, exp_ok, first_char, lexems, lexing

matchVars == << c, g, exp_ok, first_char >>
lexerVars == << content, source, l, matchVars, lexems, lexing >>
vars == << readerVars, lexerVars >>

Init ==
    /\ ReaderInit
    /\ content = << >> /\ source = 1 /\ l = 1
    /\ c = 1 /\ g = 1 /\ exp_ok = TRUE /\ first_char = FALSE
    /\ lexems = << >> /\ lexing = "closed"

ReadDatabase == ReaderNext /\ UNCHANGED lexerVars

OpenText ==
    /\ reading_state = "DONE" /\ lexing = "closed"
    /\ content' \in Texts[database]
    /\ lexing' = "read"
    /\ UNCHANGED << readerVars, source, l, matchVars, lexems >>

-----------------------------------------------------------------------------
(* lexem_read *)

\* Another expression is tried.
CallMatch ==
    /\ lexing = "read"
    /\ source <= Len(content) /\ l <= Len(regexps)
    /\ c' = source /\ g' = 1 /\ exp_ok' = TRUE /\ first_char' = FALSE
    /\ lexing' = "match"
    /\ UNCHANGED << readerVars, content, source, l, lexems >>

NoMatch ==
    /\ lexing = "read"
    /\ source <= Len(content) /\ l > Len(regexps)
    /\ lexing' = "failed"
    /\ UNCHANGED << readerVars, content, source, l, matchVars, lexems >>

EndOfText ==
    /\ lexing = "read" /\ source > Len(content)
    /\ lexing' = "done"
    /\ UNCHANGED << readerVars, content, source, l, matchVars, lexems >>

\* Faulty variant: the next text starts one character too far.
AcceptAndSkip(rest) ==
    /\ lexems' = Append(lexems, [type  |-> regexps[l].name,
                                 value |-> SubSeq(content, source, rest - 1)])
    /\ source' = rest + 1 /\ l' = 1 /\ lexing' = "read"
    /\ UNCHANGED matchVars

\* Faulty variant: the list is not gone through from its start again.
AcceptInPlace(rest) ==
    /\ lexems' = Append(lexems, [type  |-> regexps[l].name,
                                 value |-> SubSeq(content, source, rest - 1)])
    /\ source' = rest /\ lexing' = "read"
    /\ UNCHANGED << l, matchVars >>

\* re_match returns 1 with the rest of the text, or 0.
Accept(rest) ==
    /\ lexems' = Append(lexems, [type  |-> regexps[l].name,
                                 value |-> SubSeq(content, source, rest - 1)])
    /\ source' = rest /\ l' = 1 /\ lexing' = "read"
    /\ UNCHANGED matchVars
Refuse ==
    /\ l' = l + 1 /\ lexing' = "read"
    /\ UNCHANGED << source, matchVars, lexems >>

-----------------------------------------------------------------------------
(* re_match *)

Groups == regexps[l].groups
Matching(operator) ==
    /\ lexing = "match" /\ exp_ok /\ c <= Len(content)
    /\ Groups[g].operator = operator
Seen == In(Groups[g], content[c])

\* The end of a turn: with no group left, the text matches.
Continue(next, group, ok, seen) ==
    /\ IF group > Len(Groups)
       THEN Accept(next)
       ELSE /\ c' = next /\ g' = group /\ exp_ok' = ok /\ first_char' = seen
            /\ UNCHANGED << source, l, lexems, lexing >>
    /\ UNCHANGED << readerVars, content >>

MatchOne ==
    /\ Matching("NOP")
    /\ IF Seen THEN Continue(c + 1, g + 1, TRUE, first_char)
               ELSE Continue(c, g, FALSE, first_char)

MatchZeroOrMore ==
    /\ Matching("ZOM")
    /\ IF Seen THEN Continue(c + 1, g, TRUE, first_char)
               ELSE Continue(c, g + 1, TRUE, first_char)

\* Faulty variant: first_char stays set for the next group.
AfterOneOrMoreStale == Continue(c, g + 1, TRUE, first_char)

AfterOneOrMore == Continue(c, g + 1, TRUE, FALSE)

MatchOneOrMore ==
    /\ Matching("OOM")
    /\ IF Seen THEN Continue(c + 1, g, TRUE, TRUE)
       ELSE IF first_char THEN AfterOneOrMore
       ELSE Continue(c, g, FALSE, first_char)

\* Faulty variant: the group stays when its character is not there.
AfterZeroOrOneSame ==
    IF Seen THEN Continue(c + 1, g + 1, TRUE, first_char)
            ELSE Continue(c, g, TRUE, first_char)

AfterZeroOrOne == Continue(IF Seen THEN c + 1 ELSE c, g + 1, TRUE, first_char)

MatchZeroOrOne == Matching("ZOO") /\ AfterZeroOrOne

\* Faulty variant: any group that repeats is the last one.
TakenAnywhere == exp_ok /\ Groups[g].operator \in {"ZOM", "OOM"}

\* The loop is over.  At the end of the text, a last group that repeats is
\* taken to be matched, whether it has seen a character or not.
TakenAtEnd ==
    exp_ok /\ g = Len(Groups) /\ Groups[g].operator \in {"ZOM", "OOM"}

MatchEnds ==
    /\ lexing = "match"
    /\ ~exp_ok \/ c > Len(content)
    /\ IF TakenAtEnd THEN Accept(c) ELSE Refuse
    /\ UNCHANGED << readerVars, content >>

Terminated == lexing \in {"done", "failed"} /\ UNCHANGED vars

LexText ==
    \/ OpenText \/ CallMatch \/ NoMatch \/ EndOfText
    \/ MatchOne \/ MatchZeroOrMore \/ MatchOneOrMore \/ MatchZeroOrOne
    \/ MatchEnds

Next == ReadDatabase \/ LexText \/ Terminated

Spec == Init /\ [][Next]_vars

\* A sequential program that nothing holds up; the reader is a loop over the
\* length of its file and needs no fairness to be trusted.
FairSpec == Spec /\ WF_vars(LexText)

-----------------------------------------------------------------------------
(* Properties *)

TypeOK ==
    /\ ReaderTypeOK
    /\ source \in 1 .. Len(content) + 1
    /\ l \in 1 .. Len(regexps) + 1
    /\ exp_ok \in BOOLEAN /\ first_char \in BOOLEAN
    /\ lexing \in {"closed", "read", "match", "done", "failed"}
    /\ lexing = "match" =>
            c \in source .. Len(content) + 1 /\ g \in DOMAIN Groups

\* The list has the expressions of the file in their order, under their
\* names, and each accepts what was written, at every place of every text,
\* be it rewritten or not: the words of the texts tell apart the languages.
DatabaseRead ==
    reading_state = "DONE" /\ lexing = "closed" =>
        LET meaning == Meaning[database]
        IN  /\ Len(regexps) = Len(meaning)
            /\ \A k \in DOMAIN meaning :
                 /\ regexps[k].name = meaning[k].name
                 /\ \A text \in Texts[database] : \A from \in DOMAIN text :
                      Reached(regexps[k].groups, text, from)
                          = Reached(meaning[k].groups, text, from)

\* Of the expressions read, opti_regexp leaves none where a loop that never
\* goes back has a choice: a*a would keep the last a to itself.
NoChoice ==
    reading_state = "DONE" /\ lexing = "closed" =>
        \A k \in DOMAIN regexps : Determinate(regexps[k].groups)

\* No expression that regexp_new read is in the middle of a word at the end of
\* a text, a newline in practice: there re_match looks at the last group only.
NotCutShort ==
    reading_state = "DONE" /\ lexing = "closed" =>
        \A text \in Texts[database] \ {<< >>} : \A k \in DOMAIN regexps :
            ClosedBy(regexps[k].groups, text[Len(text)])

\* The shortcut re_match takes at the end of the text is right: it accepts
\* there what is a word, and nothing else.
EndJudged ==
    lexing = "match" /\ exp_ok /\ c > Len(content) =>
        (TakenAtEnd <=> c \in Reached(Groups, content, source))

\* Whatever the database and the text, a lexem is a word of the expression
\* that gives its type, but for the last one: the text may end before a last
\* group that must see a character has seen any.
LexemsAreWords ==
    [][lexems' # lexems =>
         \/ source' \in Reached(Groups, content, source)
         \/ /\ source' = Len(content) + 1
            /\ Last(Groups).operator = "OOM"
            /\ source' \in Reached(Front(Groups), content, source)]_vars

Status ==
    CASE lexing = "closed" -> "waiting"
      [] lexing \in {"read", "match"} -> "reading"
      [] OTHER -> lexing

\* The lexer is what a reader of the database expects, although its loop
\* never goes back on a choice: the first expression that matches, and the
\* longest beginning that it matches.
Abstract == INSTANCE Tokens WITH
    Languages <- Range(Meaning),
    languages <- Meaning[database], text <- content, from <- source,
    tokens <- lexems, status <- Status
ImplementsTokens == Abstract!Spec

\* Which is not enough: first means that a mnemonic may be cut in two by a
\* shorter one that stands before it in database.txt.  None is: a lexem that
\* is an instruction is the longest one that starts there.
IsInsn(type) == Len(type) > 4 /\ SubSeq(type, 1, 4) = << "i", "n", "s", "n" >>
MnemonicsWhole ==
    [][lexems' # lexems /\ IsInsn(Last(lexems').type) =>
         \A k \in DOMAIN regexps :
            IsInsn(regexps[k].name) =>
                \A end \in Reached(regexps[k].groups, content, source) :
                    end <= source']_vars

\* Once the database is there, every text comes to its end, or to a place
\* that nothing matches: no choice of re_match turns in circles.
LexerEnds == reading_state = "DONE" ~> lexing \in {"done", "failed"}
==============================================================================
