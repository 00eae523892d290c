---------------------------- MODULE RegexpReader -----------------------------
(***************************************************************************)
(* regexp_read (regexp.c): the reader of the file that names the lexems    *)
(* and gives their regular expressions, one line each, comments after #.   *)
(* One action per state of its loop, one step per character.               *)
(***************************************************************************)
EXTENDS CharGroups

CONSTANTS
    Databases,           \* the files that may be read
    FileText             \* the text of each

\* An expression that is only ^ puts a null pointer into its list, and the
\* matcher goes through it: a file has none.
NullExpression(text) ==
    \E i \in DOMAIN text : \E j \in i + 1 .. Len(text) :
        /\ text[i] \in Blanks
        /\ \A k \in i + 1 .. j : text[k] = "^"
        /\ j < Len(text) => text[j + 1] = Newline

ASSUME DatabasesAssumption ==
    /\ {Newline, "\t"} \subseteq Chars
    /\ FileText \in [Databases -> Seq(Chars)]
    /\ \A d \in Databases : ~NullExpression(FileText[d])

VARIABLES database, place, reading_state, start_point, name, regexps

readerVars ==
    << database, place, reading_state, start_point, name, regexps >>

ReaderInit ==
    /\ database \in Databases
    /\ place = 1 /\ start_point = 1
    /\ reading_state = "READ_FIRST_BLANKS"
    /\ name = << >> /\ regexps = << >>

-----------------------------------------------------------------------------

Size == Len(FileText[database])
Char == FileText[database][place]
Word == SubSeq(FileText[database], start_point, place - 1)

\* A turn of the loop in state: the next state, and the character it starts
\* from if it is a new word.
Turn(state, next, newWord) ==
    /\ reading_state = state
    /\ place <= Size
    /\ reading_state' = next
    /\ start_point' = IF newWord THEN place ELSE start_point
    /\ place' = place + 1
    /\ UNCHANGED database

ReadFirstBlanks ==
    /\ LET blank == Char \in Blanks \cup {Newline}
       IN  Turn("READ_FIRST_BLANKS",
                IF Char = "#" THEN "SKIP_COMMENT"
                ELSE IF blank THEN reading_state ELSE "READING_NAME",
                ~blank)
    /\ UNCHANGED << name, regexps >>

\* A newline does not end a name.
ReadName ==
    /\ Turn("READING_NAME",
            IF Char = "#" THEN "SKIP_COMMENT"
            ELSE IF Char \in Blanks THEN "READ_SECOND_BLANKS" ELSE reading_state,
            FALSE)
    /\ name' = IF Char \in Blanks THEN Word ELSE name
    /\ UNCHANGED regexps

\* Nor does it end the blanks: the expression may start with it.
ReadSecondBlanks ==
    /\ LET blank == Char \in Blanks
       IN  Turn("READ_SECOND_BLANKS",
                IF blank THEN reading_state ELSE "READ_REGEXP", ~blank)
    /\ UNCHANGED << name, regexps >>

\* The expression goes to regexp_new and opti_regexp, and into the list.
AddRegexp ==
    \E groups \in GroupsRead(Word) :
        regexps' = Append(regexps, [name |-> name, groups |-> Optimised(groups)])

ReadRegexp ==
    /\ Turn("READ_REGEXP",
            IF Char = Newline THEN "READ_FIRST_BLANKS" ELSE reading_state, FALSE)
    /\ IF Char = Newline THEN AddRegexp ELSE UNCHANGED regexps
    /\ UNCHANGED name

SkipComment ==
    /\ Turn("SKIP_COMMENT",
            IF Char = Newline THEN "READ_FIRST_BLANKS" ELSE reading_state, FALSE)
    /\ UNCHANGED << name, regexps >>

\* The end of the file, where a last line may lack its newline.
EndOfDatabase ==
    /\ reading_state # "DONE"
    /\ place = Size + 1
    /\ IF reading_state = "READ_REGEXP" THEN AddRegexp ELSE UNCHANGED regexps
    /\ reading_state' = "DONE"
    /\ UNCHANGED << database, place, start_point, name >>

ReaderNext ==
    \/ ReadFirstBlanks \/ ReadName \/ ReadSecondBlanks \/ ReadRegexp
    \/ SkipComment \/ EndOfDatabase

ReaderTypeOK ==
    /\ place \in 1 .. Size + 1
    /\ start_point \in 1 .. place
    /\ reading_state \in {"READ_FIRST_BLANKS", "READING_NAME",
            "READ_SECOND_BLANKS", "READ_REGEXP", "SKIP_COMMENT", "DONE"}
    /\ \A k \in DOMAIN regexps : \A g \in DOMAIN regexps[k].groups :
            /\ regexps[k].groups[g].chars \subseteq Chars
            /\ regexps[k].groups[g].operator \in {"NOP", "ZOM", "OOM", "ZOO"}
==============================================================================
