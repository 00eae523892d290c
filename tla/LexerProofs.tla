----------------------------- MODULE LexerProofs ------------------------------
(***************************************************************************)
(* Theorems about Lexer, for every database, every text and every alphabet *)
(* that holds the newline and the tabulation.                              *)
(***************************************************************************)
EXTENDS Lexer, RegexpProofs

-----------------------------------------------------------------------------
(* Types.  An expression is never without a group, so that re_match always  *)
(* has one to look at: what is read for one is a word that starts after a   *)
(* blank, and is not only an exclusion.                                     *)

Entries == [name : Seq(Chars), groups : Seq(GroupRecords) \ {<< >>}]

AfterBlank(p) == p > 1 /\ FileText[database][p - 1] \in Blanks

ReaderTyped ==
    /\ database \in Databases
    /\ place \in 1 .. Size + 1 /\ start_point \in 1 .. place
    /\ reading_state \in {"READ_FIRST_BLANKS", "READING_NAME",
            "READ_SECOND_BLANKS", "READ_REGEXP", "SKIP_COMMENT", "DONE"}
    /\ name \in Seq(Chars) /\ regexps \in Seq(Entries)
    /\ reading_state = "READ_SECOND_BLANKS" => AfterBlank(place)
    /\ reading_state = "READ_REGEXP" =>
            start_point < place /\ AfterBlank(start_point)

MatcherTyped ==
    /\ content \in Seq(STRING) /\ source \in 1 .. Len(content) + 1
    /\ l \in 1 .. Len(regexps) + 1
    /\ exp_ok \in BOOLEAN /\ first_char \in BOOLEAN
    /\ lexing \in {"closed", "read", "match", "done", "failed"}
    /\ lexing = "closed" => content = << >> /\ source = 1 /\ l = 1
    /\ lexing # "closed" => reading_state = "DONE"
    /\ lexing = "match" =>
            /\ source <= Len(content) /\ l <= Len(regexps)
            /\ c \in source .. Len(content) + 1
            /\ g \in 1 .. Len(Groups)

Typed == ReaderTyped /\ MatcherTyped

LEMMA FileRead ==
  ASSUME ReaderTyped
  PROVE  /\ FileText[database] \in Seq(Chars) /\ Size \in Nat
         /\ \A k \in 1 .. Size : FileText[database][k] \in Chars
         /\ place \in Nat /\ start_point \in Nat
<1>1. FileText[database] \in Seq(Chars)
  BY DatabasesAssumption DEF ReaderTyped
<1>2. Len(FileText[database]) \in Nat
  BY <1>1, LenProperties
<1> QED
  BY <1>1, <1>2, ElementOfSeq DEF Size, ReaderTyped

LEMMA WordRead ==
  ASSUME ReaderTyped
  PROVE  /\ Word \in Seq(Chars) /\ Len(Word) = place - start_point
         /\ \A k \in 1 .. place - start_point :
                Word[k] = FileText[database][start_point + k - 1]
<1>1. /\ start_point \in Int /\ place \in Int /\ place - 1 \in Int
      /\ 1 <= start_point
      /\ start_point <= place /\ place - 1 <= Size
      /\ (place - 1) - start_point + 1 = place - start_point
  BY FileRead DEF ReaderTyped
<1>2. \A k \in start_point .. place - 1 : FileText[database][k] \in Chars
  BY <1>1, FileRead
<1>3. /\ Word \in Seq(Chars)
      /\ Len(Word) = IF start_point <= place - 1
                     THEN (place - 1) - start_point + 1 ELSE 0
      /\ \A k \in 1 .. (place - 1) - start_point + 1 :
            Word[k] = FileText[database][start_point + k - 1]
  BY <1>1, <1>2, SubSeqProperties DEF Word
<1> QED
  BY <1>1, <1>3

\* The word of an expression holds something to match.
LEMMA WordIsNotNull ==
  ASSUME ReaderTyped, reading_state = "READ_REGEXP",
         place <= Size => Char = Newline
  PROVE  ~ \A k \in 1 .. Len(Word) : Word[k] = "^"
<1> SUFFICES ASSUME \A k \in 1 .. Len(Word) : Word[k] = "^"
             PROVE  FALSE
  OBVIOUS
<1> DEFINE text == FileText[database]
           i == start_point - 1
           j == place - 1
<1>1. /\ start_point \in Nat /\ place \in Nat /\ start_point < place
      /\ start_point > 1 /\ place <= Size + 1 /\ Size \in Nat
      /\ text[i] \in Blanks /\ text \in Seq(Chars)
  BY FileRead DEF ReaderTyped, AfterBlank
<1>2. i \in DOMAIN text /\ j \in i + 1 .. Len(text)
  BY <1>1 DEF Size
<1>3. ASSUME NEW k \in i + 1 .. j PROVE text[k] = "^"
  <2>1. PICK n \in 1 .. place - start_point : k = start_point + n - 1
    <3>1. k - start_point + 1 \in 1 .. place - start_point
      BY <1>1
    <3>2. k = start_point + (k - start_point + 1) - 1
      BY <1>1
    <3> QED
      BY <3>1, <3>2
  <2> QED
    BY <2>1, WordRead
<1>4. j < Len(text) => text[j + 1] = Newline
  BY <1>1 DEF Size, Char
<1>5. NullExpression(text)
  BY <1>1, <1>2, <1>3, <1>4 DEF NullExpression
<1> QED
  BY <1>5, DatabasesAssumption DEF ReaderTyped

LEMMA RegexpAdded ==
  ASSUME ReaderTyped, reading_state = "READ_REGEXP",
         place <= Size => Char = Newline, AddRegexp
  PROVE  regexps' \in Seq(Entries)
<1>1. PICK groups \in GroupsRead(Word) :
        regexps' = Append(regexps, [name |-> name, groups |-> Optimised(groups)])
  BY DEF AddRegexp
<1>2. groups \in Seq(GroupRecords) /\ groups # << >>
  BY WordRead, WordIsNotNull, GroupsReadTyped, DatabasesAssumption
<1>3. Optimised(groups) \in Seq(GroupRecords) \ {<< >>}
  BY <1>2, OptimisedKeeps
<1>4. name \in Seq(Chars) /\ regexps \in Seq(Entries)
  BY DEF ReaderTyped
<1>5. [name |-> name, groups |-> Optimised(groups)] \in Entries
  BY <1>3, <1>4 DEF Entries
<1> QED
  BY <1>1, <1>4, <1>5, AppendProperties

\* The characters read, and those a turn of the loop adds to them.
LEMMA TurnKeeps ==
  ASSUME ReaderTyped, NEW state, NEW next, NEW newWord \in BOOLEAN,
         Turn(state, next, newWord)
  PROVE  /\ database' \in Databases /\ place' \in 1 .. Size' + 1
         /\ start_point' \in 1 .. place'
         /\ Char \in Blanks => AfterBlank(place)'
         /\ AfterBlank(start_point) /\ start_point < place /\ ~newWord =>
                start_point' < place' /\ AfterBlank(start_point)'
         /\ AfterBlank(place) /\ newWord =>
                start_point' < place' /\ AfterBlank(start_point)'
<1>1. /\ place' = place + 1 /\ database' = database /\ Size' = Size
      /\ start_point' = IF newWord THEN place ELSE start_point
      /\ place <= Size
  BY DEF Turn, Size
<1>2. /\ place \in Nat /\ start_point \in Nat /\ Size \in Nat
      /\ 1 <= start_point /\ start_point <= place /\ database \in Databases
  BY FileRead DEF ReaderTyped
<1>3. (place + 1) - 1 = place
  BY <1>2
<1> QED
  BY <1>1, <1>2, <1>3 DEF AfterBlank, Char

LEMMA ReaderTypedInit == ReaderInit => ReaderTyped
<1> SUFFICES ASSUME ReaderInit PROVE ReaderTyped
  OBVIOUS
<1>1. FileText[database] \in Seq(Chars) /\ database \in Databases
  BY DatabasesAssumption DEF ReaderInit
<1>2. Size \in Nat
  BY <1>1, LenProperties DEF Size
<1>3. regexps \in Seq(Entries) /\ name \in Seq(Chars)
  BY DEF ReaderInit
<1> QED
  BY <1>1, <1>2, <1>3 DEF ReaderInit, ReaderTyped

LEMMA ReaderTypedNext == ReaderTyped /\ ReaderNext => ReaderTyped'
<1> SUFFICES ASSUME ReaderTyped, ReaderNext PROVE ReaderTyped'
  OBVIOUS
<1>1. ASSUME NEW state, NEW next, NEW newWord \in BOOLEAN,
             Turn(state, next, newWord), name' \in Seq(Chars),
             regexps' \in Seq(Entries),
             next \in {"READ_FIRST_BLANKS", "READING_NAME",
                    "READ_SECOND_BLANKS", "READ_REGEXP", "SKIP_COMMENT"},
             next = "READ_SECOND_BLANKS" => Char \in Blanks,
             next = "READ_REGEXP" =>
                IF newWord THEN AfterBlank(place)
                ELSE AfterBlank(start_point) /\ start_point < place
      PROVE  ReaderTyped'
  <2>1. /\ database' \in Databases /\ place' \in 1 .. Size' + 1
        /\ start_point' \in 1 .. place' /\ reading_state' = next
        /\ next = "READ_SECOND_BLANKS" => AfterBlank(place)'
        /\ next = "READ_REGEXP" => start_point' < place' /\ AfterBlank(start_point)'
    BY <1>1, TurnKeeps DEF Turn
  <2> QED
    BY <1>1, <2>1 DEF ReaderTyped
<1>2. name \in Seq(Chars) /\ regexps \in Seq(Entries)
  BY DEF ReaderTyped
<1>3. CASE ReadFirstBlanks
  <2> DEFINE blank == Char \in Blanks \cup {Newline}
             next == IF Char = "#" THEN "SKIP_COMMENT"
                     ELSE IF blank THEN reading_state ELSE "READING_NAME"
  <2>1. Turn("READ_FIRST_BLANKS", next, ~blank) /\ UNCHANGED << name, regexps >>
    BY <1>3 DEF ReadFirstBlanks
  <2>2. next \in {"READ_FIRST_BLANKS", "READING_NAME", "SKIP_COMMENT"}
    BY <2>1 DEF Turn
  <2>3. (~blank) \in BOOLEAN
    OBVIOUS
  <2> HIDE DEF blank, next
  <2> QED
    BY <1>1, <1>2, <2>1, <2>2, <2>3
<1>4. CASE ReadName
  <2> DEFINE next == IF Char = "#" THEN "SKIP_COMMENT"
                     ELSE IF Char \in Blanks THEN "READ_SECOND_BLANKS"
                     ELSE reading_state
  <2>1. Turn("READING_NAME", next, FALSE) /\ regexps' = regexps
    BY <1>4 DEF ReadName
  <2>2. name' \in Seq(Chars)
    BY <1>2, <1>4, WordRead DEF ReadName
  <2>3. /\ next \in {"READING_NAME", "READ_SECOND_BLANKS", "SKIP_COMMENT"}
        /\ next = "READ_SECOND_BLANKS" => Char \in Blanks
    BY <2>1 DEF Turn
  <2> HIDE DEF next
  <2> QED
    BY <1>1, <1>2, <2>1, <2>2, <2>3
<1>5. CASE ReadSecondBlanks
  <2> DEFINE blank == Char \in Blanks
             next == IF blank THEN reading_state ELSE "READ_REGEXP"
  <2>1. Turn("READ_SECOND_BLANKS", next, ~blank) /\ UNCHANGED << name, regexps >>
    BY <1>5 DEF ReadSecondBlanks
  <2>2. /\ next \in {"READ_SECOND_BLANKS", "READ_REGEXP"} /\ AfterBlank(place)
        /\ next = "READ_SECOND_BLANKS" => Char \in Blanks
        /\ next = "READ_REGEXP" => ~blank
    BY <2>1 DEF Turn, ReaderTyped
  <2>3. (~blank) \in BOOLEAN
    OBVIOUS
  <2> HIDE DEF blank, next
  <2> QED
    BY <1>1, <1>2, <2>1, <2>2, <2>3
<1>6. CASE ReadRegexp
  <2> DEFINE next == IF Char = Newline THEN "READ_FIRST_BLANKS" ELSE reading_state
  <2>1. Turn("READ_REGEXP", next, FALSE) /\ name' = name
    BY <1>6 DEF ReadRegexp
  <2>2. /\ next \in {"READ_FIRST_BLANKS", "READ_REGEXP"}
        /\ AfterBlank(start_point) /\ start_point < place
        /\ reading_state = "READ_REGEXP"
    BY <2>1 DEF Turn, ReaderTyped
  <2>3. regexps' \in Seq(Entries)
    BY <1>2, <1>6, <2>2, RegexpAdded DEF ReadRegexp
  <2> HIDE DEF next
  <2> QED
    BY <1>1, <1>2, <2>1, <2>2, <2>3
<1>7. CASE SkipComment
  <2> DEFINE next == IF Char = Newline THEN "READ_FIRST_BLANKS" ELSE reading_state
  <2>1. Turn("SKIP_COMMENT", next, FALSE) /\ UNCHANGED << name, regexps >>
    BY <1>7 DEF SkipComment
  <2>2. next \in {"READ_FIRST_BLANKS", "SKIP_COMMENT"}
    BY <2>1 DEF Turn
  <2> HIDE DEF next
  <2> QED
    BY <1>1, <1>2, <2>1, <2>2
<1>8. CASE EndOfDatabase
  <2>1. /\ UNCHANGED << database, place, start_point, name, Size >>
        /\ reading_state' = "DONE" /\ place = Size + 1
    BY <1>8 DEF EndOfDatabase, Size
  <2>2. regexps' \in Seq(Entries)
    <3>1. Size \in Nat
      BY FileRead
    <3> QED
      BY <1>2, <1>8, <2>1, <3>1, RegexpAdded DEF EndOfDatabase
  <2> QED
    BY <2>1, <2>2 DEF ReaderTyped
<1> QED
  BY <1>3, <1>4, <1>5, <1>6, <1>7, <1>8 DEF ReaderNext

LEMMA ReaderRuns == ReaderNext => reading_state # "DONE"
  BY DEF ReaderNext, ReadFirstBlanks, ReadName, ReadSecondBlanks, ReadRegexp,
         SkipComment, EndOfDatabase, Turn

\* The lengths the matcher stays within.
LEMMA MatcherBounds ==
  ASSUME Typed
  PROVE  /\ Len(content) \in Nat /\ Len(regexps) \in Nat
         /\ source \in Nat /\ l \in Nat /\ regexps \in Seq(Entries)
         /\ lexing = "match" =>
                /\ regexps[l] \in Entries
                /\ Groups \in Seq(GroupRecords) /\ Groups # << >>
                /\ Len(Groups) \in Nat /\ Len(Groups) >= 1
                /\ c \in Nat /\ g \in Nat /\ Groups[g] \in GroupRecords
<1>1. /\ Len(content) \in Nat /\ Len(regexps) \in Nat /\ regexps \in Seq(Entries)
  BY LenProperties DEF Typed, ReaderTyped, MatcherTyped
<1>2. source \in Nat /\ l \in Nat
  BY <1>1 DEF Typed, MatcherTyped
<1>3. ASSUME lexing = "match"
      PROVE  /\ regexps[l] \in Entries
             /\ Groups \in Seq(GroupRecords) /\ Groups # << >>
             /\ Len(Groups) \in Nat /\ Len(Groups) >= 1
             /\ c \in Nat /\ g \in Nat /\ Groups[g] \in GroupRecords
  <2>1. l \in 1 .. Len(regexps)
    BY <1>1, <1>3 DEF Typed, MatcherTyped
  <2>2. regexps[l] \in Entries
    BY <1>1, <2>1, ElementOfSeq
  <2>3. Groups \in Seq(GroupRecords) /\ Groups # << >>
    BY <2>2 DEF Entries, Groups
  <2>4. Len(Groups) \in Nat /\ Len(Groups) >= 1
    BY <2>3, EmptySeq, LenProperties
  <2>5. g \in 1 .. Len(Groups) /\ c \in source .. Len(content) + 1
    BY <1>3 DEF Typed, MatcherTyped
  <2>6. Groups[g] \in GroupRecords
    BY <2>3, <2>5, ElementOfSeq
  <2> QED
    BY <1>1, <1>2, <2>2, <2>3, <2>4, <2>5, <2>6
<1> QED
  BY <1>1, <1>2, <1>3

LEMMA AcceptTyped ==
  ASSUME Typed, lexing = "match", UNCHANGED << readerVars, content >>,
         NEW rest \in source .. Len(content) + 1, Accept(rest)
  PROVE  MatcherTyped'
<1>1. /\ content' = content /\ regexps' = regexps /\ reading_state' = reading_state
      /\ source' = rest /\ l' = 1 /\ lexing' = "read"
      /\ exp_ok' = exp_ok /\ first_char' = first_char
  BY DEF Accept, readerVars, matchVars
<1>2. /\ 1 \in 1 .. Len(regexps) + 1 /\ rest \in 1 .. Len(content) + 1
  BY MatcherBounds DEF Typed, MatcherTyped
<1> QED
  BY <1>1, <1>2 DEF Typed, MatcherTyped

LEMMA RefuseTyped ==
  ASSUME Typed, lexing = "match", UNCHANGED << readerVars, content >>, Refuse
  PROVE  MatcherTyped'
<1>1. /\ content' = content /\ regexps' = regexps /\ reading_state' = reading_state
      /\ source' = source /\ l' = l + 1 /\ lexing' = "read"
      /\ exp_ok' = exp_ok /\ first_char' = first_char
  BY DEF Refuse, readerVars, matchVars
<1>2. l + 1 \in 1 .. Len(regexps) + 1
  BY MatcherBounds DEF Typed, MatcherTyped
<1> QED
  BY <1>1, <1>2 DEF Typed, MatcherTyped

LEMMA ContinueTyped ==
  ASSUME Typed, NEW operator, Matching(operator),
         NEW next \in {c, c + 1}, NEW group \in {g, g + 1},
         NEW ok \in BOOLEAN, NEW seen \in BOOLEAN,
         Continue(next, group, ok, seen)
  PROVE  MatcherTyped'
<1>1. /\ lexing = "match" /\ c <= Len(content)
      /\ UNCHANGED << readerVars, content >>
  BY DEF Matching, Continue
<1>2. /\ c \in source .. Len(content) + 1 /\ g \in 1 .. Len(Groups)
      /\ next \in source .. Len(content) + 1 /\ group \in Nat /\ group >= 1
  BY <1>1, MatcherBounds DEF Typed, MatcherTyped
<1>3. CASE group > Len(Groups)
  BY <1>1, <1>2, <1>3, AcceptTyped DEF Continue
<1>4. CASE ~(group > Len(Groups))
  <2>1. /\ c' = next /\ g' = group /\ exp_ok' = ok /\ first_char' = seen
        /\ UNCHANGED << source, l, lexing, content, regexps, reading_state, Groups >>
    BY <1>1, <1>4 DEF Continue, readerVars, Groups
  <2>2. group \in 1 .. Len(Groups)
    BY <1>1, <1>2, <1>4, MatcherBounds
  <2> QED
    BY <1>1, <1>2, <2>1, <2>2 DEF Typed, MatcherTyped
<1> QED
  BY <1>3, <1>4

LEMMA MatcherTypedNext == Typed /\ [Next]_vars => MatcherTyped'
<1> SUFFICES ASSUME Typed, [Next]_vars PROVE MatcherTyped'
  OBVIOUS
<1>1. exp_ok \in BOOLEAN /\ first_char \in BOOLEAN
  BY DEF Typed, MatcherTyped
<1>2. CASE ReadDatabase
  <2>1. reading_state # "DONE" /\ UNCHANGED lexerVars
    BY <1>2, ReaderRuns DEF ReadDatabase
  <2>2. lexing = "closed" /\ l = 1
    BY <2>1 DEF Typed, MatcherTyped
  <2>3. Len(regexps') \in Nat
    BY <1>2, ReaderTypedNext, LenProperties DEF ReadDatabase, Typed, ReaderTyped
  <2>4. 1 \in 1 .. Len(regexps') + 1
    BY <2>3
  <2> QED
    BY <2>1, <2>2, <2>4 DEF Typed, MatcherTyped, lexerVars, matchVars
<1>3. CASE OpenText
  <2>1. /\ content' \in Texts[database] /\ lexing = "closed" /\ lexing' = "read"
        /\ reading_state = "DONE"
        /\ UNCHANGED << readerVars, source, l, matchVars >>
    BY <1>3 DEF OpenText
  <2>2. content' \in Seq(STRING)
    BY <2>1, TextsAssumption DEF Typed, ReaderTyped
  <2>3. source \in 1 .. Len(content') + 1
    <3>1. Len(content') \in Nat
      BY <2>2, LenProperties
    <3> QED
      BY <2>1, <3>1 DEF Typed, MatcherTyped
  <2> QED
    BY <2>1, <2>2, <2>3 DEF Typed, MatcherTyped, readerVars, matchVars
<1>4. CASE CallMatch
  <2>1. /\ source <= Len(content) /\ l <= Len(regexps) /\ lexing = "read"
        /\ c' = source /\ g' = 1 /\ exp_ok' = TRUE /\ first_char' = FALSE
        /\ lexing' = "match"
        /\ UNCHANGED << regexps, reading_state, content, source, l, Groups >>
    BY <1>4 DEF CallMatch, readerVars, Groups
  <2>2. l \in 1 .. Len(regexps) /\ source \in source .. Len(content) + 1
    BY <2>1, MatcherBounds DEF Typed, MatcherTyped
  <2>3. Groups \in Seq(GroupRecords) /\ Groups # << >>
    <3>1. regexps[l] \in Entries
      BY <2>2, MatcherBounds, ElementOfSeq
    <3> QED
      BY <3>1 DEF Entries, Groups
  <2>4. 1 \in 1 .. Len(Groups)
    BY <2>3, EmptySeq, LenProperties
  <2> QED
    BY <2>1, <2>2, <2>4 DEF Typed, MatcherTyped
<1>5. CASE NoMatch
  BY <1>5 DEF NoMatch, readerVars, matchVars, Typed, MatcherTyped
<1>6. CASE EndOfText
  BY <1>6 DEF EndOfText, readerVars, matchVars, Typed, MatcherTyped
<1>7. CASE MatchOne
  BY <1>1, <1>7, ContinueTyped DEF MatchOne
<1>8. CASE MatchZeroOrMore
  BY <1>1, <1>8, ContinueTyped DEF MatchZeroOrMore
<1>9. CASE MatchOneOrMore
  BY <1>1, <1>9, ContinueTyped DEF MatchOneOrMore, AfterOneOrMore
<1>10. CASE MatchZeroOrOne
  BY <1>1, <1>10, ContinueTyped DEF MatchZeroOrOne, AfterZeroOrOne
<1>11. CASE MatchEnds
  <2>1. lexing = "match" /\ UNCHANGED << readerVars, content >>
    BY <1>11 DEF MatchEnds
  <2>2. c \in source .. Len(content) + 1
    BY <2>1 DEF Typed, MatcherTyped
  <2>3. Accept(c) \/ Refuse
    BY <1>11 DEF MatchEnds
  <2> QED
    BY <2>1, <2>2, <2>3, AcceptTyped, RefuseTyped
<1>12. CASE Terminated \/ UNCHANGED vars
  BY <1>12 DEF Terminated, vars, readerVars, lexerVars, matchVars, Typed,
               MatcherTyped, Groups
<1> QED
  BY <1>2, <1>3, <1>4, <1>5, <1>6, <1>7, <1>8, <1>9, <1>10, <1>11, <1>12
     DEF Next, LexText

LEMMA TypedInit == Init => Typed
<1> SUFFICES ASSUME Init PROVE Typed
  OBVIOUS
<1>1. ReaderTyped /\ regexps = << >>
  BY ReaderTypedInit DEF Init, ReaderInit
<1>2. content \in Seq(STRING) /\ Len(content) = 0 /\ Len(regexps) = 0
  BY <1>1 DEF Init
<1>3. source \in 1 .. Len(content) + 1 /\ l \in 1 .. Len(regexps) + 1
  BY <1>2 DEF Init
<1>4. /\ lexing = "closed" /\ content = << >> /\ source = 1 /\ l = 1
      /\ exp_ok \in BOOLEAN /\ first_char \in BOOLEAN
  BY DEF Init
<1>5. content \in Seq(STRING)
  BY <1>2
<1> QED
  BY <1>1, <1>3, <1>4, <1>5 DEF Typed, MatcherTyped

LEMMA TypedNext == Typed /\ [Next]_vars => Typed'
<1> SUFFICES ASSUME Typed, [Next]_vars PROVE ReaderTyped'
  BY MatcherTypedNext DEF Typed
<1>1. CASE ReadDatabase
  BY <1>1, ReaderTypedNext DEF ReadDatabase, Typed
<1>2. CASE UNCHANGED readerVars
  BY <1>2 DEF readerVars, Typed, ReaderTyped, AfterBlank, Size
<1>3. LexText => UNCHANGED readerVars
  BY DEF LexText, OpenText, CallMatch, NoMatch, EndOfText, MatchOne,
         MatchZeroOrMore, MatchOneOrMore, MatchZeroOrOne, MatchEnds,
         AfterOneOrMore, AfterZeroOrOne, Continue
<1>4. Terminated \/ UNCHANGED vars => UNCHANGED readerVars
  BY DEF Terminated, vars
<1> QED
  BY <1>1, <1>2, <1>3, <1>4 DEF Next

LEMMA AlwaysTyped == Spec => []Typed
  BY TypedInit, TypedNext, PTL DEF Spec

\* The reader and the matcher stay within the file, the list, the text and
\* the groups of the expression, whatever the database says: no expression
\* read from it is empty (regexp.c:205-297, 320-400).
THEOREM TypeCorrect == Spec => []TypeOK
<1>1. Typed => TypeOK
  <2> SUFFICES ASSUME Typed PROVE TypeOK
    OBVIOUS
  <2>1. ASSUME NEW k \in DOMAIN regexps, NEW i \in DOMAIN regexps[k].groups
        PROVE  /\ regexps[k].groups[i].chars \subseteq Chars
               /\ regexps[k].groups[i].operator \in {"NOP", "ZOM", "OOM", "ZOO"}
    <3>1. regexps[k].groups \in Seq(GroupRecords)
      <4>1. regexps[k] \in Entries
        BY MatcherBounds
      <4> QED
        BY <4>1 DEF Entries
    <3>2. regexps[k].groups[i] \in GroupRecords
      BY <3>1
    <3> QED
      BY <3>2 DEF GroupRecords, Operators
  <2>2. lexing = "match" => c \in source .. Len(content) + 1 /\ g \in DOMAIN Groups
    BY MatcherBounds DEF Typed, MatcherTyped
  <2> QED
    BY <2>1, <2>2 DEF Typed, ReaderTyped, MatcherTyped, TypeOK, ReaderTypeOK
<1> QED
  BY <1>1, AlwaysTyped, PTL

-----------------------------------------------------------------------------
(* Where re_match stands in the words of its expression.                    *)

\* Its group was entered at m, and the text from there to c is of the group.
Entered(m) ==
    /\ m \in source .. c
    /\ Leads(Groups, content, source, g - 1, m)
    /\ c \in RunFrom(Groups[g], content, m)
    /\ Groups[g].operator \in {"NOP", "ZOO"} => c = m
    /\ first_char <=> (Groups[g].operator = "OOM" /\ c # m)

Pursuing ==
    lexing = "match" =>
        IF exp_ok THEN \E m \in Nat : Entered(m)
        ELSE Determinate(Groups) => Reached(Groups, content, source) = {}

\* A turn of the loop: it goes on, or it ends with a word.
Goes ==
    \/ UNCHANGED << source, l, lexems, lexing >> /\ Pursuing'
    \/ /\ Accept(source')
       /\ Leads(Groups, content, source, Len(Groups), source')

LEMMA GroupLeft ==
  ASSUME Typed, lexing = "match", NEW m \in Nat, Entered(m),
         NEW next \in Nat, Passed(Groups[g], content, m, next)
  PROVE  Leads(Groups, content, source, g, next)
<1>1. /\ Groups \in Seq(GroupRecords) /\ g - 1 \in Nat /\ (g - 1) + 1 = g
      /\ g - 1 < Len(Groups) /\ Len(content) \in Nat /\ source \in Nat
  BY MatcherBounds DEF Typed, MatcherTyped
<1>2. Leads(Groups, content, source, g - 1, m)
  BY DEF Entered
<1>3. Passed(Groups[(g - 1) + 1], content, m, next)
  BY <1>1
<1>4. Leads(Groups, content, source, (g - 1) + 1, next)
  BY <1>1, <1>2, <1>3, LeadsOn
<1> QED
  BY <1>1, <1>4

LEMMA Leaves ==
  ASSUME Typed, NEW operator, Matching(operator), NEW m \in Nat, Entered(m),
         NEW next \in {c, c + 1}, Passed(Groups[g], content, m, next),
         Continue(next, g + 1, TRUE, FALSE)
  PROVE  Goes
<1>1. /\ lexing = "match" /\ c <= Len(content)
      /\ UNCHANGED << readerVars, content >>
  BY DEF Matching, Continue
<1>2. /\ c \in source .. Len(content) + 1 /\ g \in 1 .. Len(Groups)
      /\ Len(Groups) \in Nat /\ Len(content) \in Nat /\ next \in Nat
      /\ source \in Nat /\ source <= next /\ next <= Len(content) + 1
  BY <1>1, MatcherBounds DEF Typed, MatcherTyped
<1>3. Leads(Groups, content, source, g, next)
  BY <1>1, <1>2, GroupLeft
<1>4. CASE g + 1 > Len(Groups)
  <2>1. g = Len(Groups) /\ Accept(next)
    BY <1>2, <1>4 DEF Continue
  <2>2. source' = next
    BY <2>1 DEF Accept
  <2> QED
    BY <1>3, <2>1, <2>2 DEF Goes
<1>5. CASE ~(g + 1 > Len(Groups))
  <2>1. /\ c' = next /\ g' = g + 1 /\ exp_ok' = TRUE /\ first_char' = FALSE
        /\ UNCHANGED << source, l, lexems, lexing, content, Groups >>
    BY <1>1, <1>5 DEF Continue, readerVars, Groups
  <2>2. /\ next \in RunFrom(Groups[g + 1], content, next)
        /\ next \in source .. next /\ (g + 1) - 1 = g
    BY <1>2 DEF RunFrom
  <2>3. Entered(next)'
    BY <1>3, <2>1, <2>2 DEF Entered
  <2>4. Pursuing'
    BY <1>2, <2>1, <2>3 DEF Pursuing
  <2> QED
    BY <2>1, <2>4 DEF Goes
<1> QED
  BY <1>4, <1>5

LEMMA Stays ==
  ASSUME Typed, NEW operator \in {"ZOM", "OOM"}, Matching(operator), Seen,
         NEW m \in Nat, Entered(m),
         NEW seen \in BOOLEAN, seen <=> operator = "OOM",
         Continue(c + 1, g, TRUE, seen)
  PROVE  Goes
<1>1. /\ lexing = "match" /\ c <= Len(content) /\ Groups[g].operator = operator
      /\ UNCHANGED << readerVars, content >>
  BY DEF Matching, Continue
<1>2. /\ g \in 1 .. Len(Groups) /\ Len(Groups) \in Nat /\ Len(content) \in Nat
      /\ source \in Nat /\ c \in Nat
  BY <1>1, MatcherBounds DEF Typed, MatcherTyped
<1>3. /\ c' = c + 1 /\ g' = g /\ exp_ok' = TRUE /\ first_char' = seen
      /\ UNCHANGED << source, l, lexems, lexing, content, Groups >>
  BY <1>1, <1>2 DEF Continue, readerVars, Groups
<1>4. c + 1 \in RunFrom(Groups[g], content, m) /\ c + 1 # m
  <2>1. c \in RunFrom(Groups[g], content, m) /\ m <= c
    BY <1>2 DEF Entered
  <2>2. \A k \in m .. (c + 1) - 1 : k = c \/ k \in m .. c - 1
    BY <1>2
  <2> QED
    BY <1>1, <1>2, <2>1, <2>2 DEF RunFrom, Seen
<1>5. m \in source .. c + 1 /\ Leads(Groups, content, source, g - 1, m)
  BY <1>2 DEF Entered
<1>6. Entered(m)'
  BY <1>1, <1>3, <1>4, <1>5 DEF Entered
<1>7. Pursuing'
  BY <1>3, <1>6 DEF Pursuing
<1> QED
  BY <1>3, <1>7 DEF Goes

\* Where a group misses a character it needs, no word goes on.
LEMMA NoWord ==
  ASSUME Typed, lexing = "match", NEW m \in Nat, Entered(m), c = m,
         Groups[g].operator \in {"NOP", "OOM"}, Outside(Groups[g], content, c),
         Determinate(Groups)
  PROVE  /\ PlacesAfter(Groups, content, source)[g] = {}
         /\ Reached(Groups, content, source) = {}
<1>1. /\ Groups \in Seq(GroupRecords) /\ g - 1 \in Nat /\ (g - 1) + 1 = g
      /\ g - 1 < Len(Groups) /\ Len(content) \in Nat /\ source \in Nat
      /\ g \in 0 .. Len(Groups)
  BY MatcherBounds DEF Typed, MatcherTyped
<1>2. Leads(Groups, content, source, g - 1, m)
  BY DEF Entered
<1>3. /\ Groups[(g - 1) + 1].operator \in {"NOP", "OOM"}
      /\ Outside(Groups[(g - 1) + 1], content, m)
  BY <1>1
<1>4. PlacesAfter(Groups, content, source)[(g - 1) + 1] = {}
  BY <1>1, <1>2, <1>3, DeadEnd
<1>5. PlacesAfter(Groups, content, source)[g] = {}
  BY <1>1, <1>4
<1> QED
  BY <1>1, <1>5, NothingAfter

LEMMA Misses ==
  ASSUME Typed, NEW operator \in {"NOP", "OOM"}, Matching(operator), ~Seen,
         NEW m \in Nat, Entered(m), c = m, Continue(c, g, FALSE, first_char)
  PROVE  Goes
<1>1. /\ lexing = "match" /\ c <= Len(content) /\ Groups[g].operator = operator
      /\ UNCHANGED << readerVars, content >>
  BY DEF Matching, Continue
<1>2. g \in 1 .. Len(Groups) /\ Len(Groups) \in Nat
  BY <1>1, MatcherBounds DEF Typed, MatcherTyped
<1>3. /\ exp_ok' = FALSE
      /\ UNCHANGED << source, l, lexems, lexing, content, Groups >>
  BY <1>1, <1>2 DEF Continue, readerVars, Groups
<1>4. Outside(Groups[g], content, c)
  BY DEF Outside, Seen
<1>5. Determinate(Groups) => Reached(Groups, content, source) = {}
  BY <1>1, <1>4, NoWord
<1>6. Pursuing'
  BY <1>3, <1>5 DEF Pursuing
<1> QED
  BY <1>3, <1>6 DEF Goes

\* What a group of each operator takes of the character at c.
LEMMA Takings ==
  ASSUME Typed, NEW operator, Matching(operator), NEW m \in Nat, Entered(m)
  PROVE  /\ Groups[g] \in GroupRecords /\ Groups[g].operator = operator
         /\ m <= c /\ c \in Nat /\ first_char \in BOOLEAN
         /\ operator = "NOP" /\ Seen => Passed(Groups[g], content, m, c + 1)
         /\ operator = "ZOM" /\ ~Seen => Passed(Groups[g], content, m, c)
         /\ operator = "OOM" /\ ~Seen /\ c # m => Passed(Groups[g], content, m, c)
         /\ operator = "ZOO" =>
                Passed(Groups[g], content, m, IF Seen THEN c + 1 ELSE c)
<1> DEFINE group == Groups[g]
<1>1. /\ group \in GroupRecords /\ group.operator = operator
      /\ c <= Len(content) /\ Len(content) \in Nat /\ c \in Nat
  BY MatcherBounds DEF Matching
<1>2. /\ m <= c /\ c \in RunFrom(group, content, m)
      /\ operator \in {"NOP", "ZOO"} => c = m
  BY <1>1 DEF Entered
<1>3. Seen <=> ~Outside(group, content, c)
  BY <1>1 DEF Seen, Outside
<1>4. operator \in {"NOP", "ZOO"} /\ Seen => c + 1 \in RunFrom(group, content, m)
  <2> SUFFICES ASSUME c = m, Seen PROVE c + 1 \in RunFrom(group, content, m)
    BY <1>2
  <2>1. \A k \in m .. (c + 1) - 1 : k = c
    BY <1>1
  <2> QED
    BY <1>1, <2>1 DEF RunFrom, Seen
<1>5. first_char \in BOOLEAN
  BY DEF Typed, MatcherTyped
<1> HIDE DEF group
<1>6. operator = "NOP" /\ Seen => Passed(group, content, m, c + 1)
  BY <1>1, <1>2, <1>4, EndsAre DEF Passed
<1>7. operator = "ZOM" /\ ~Seen => Passed(group, content, m, c)
  BY <1>1, <1>2, <1>3, EndsAre DEF Passed
<1>8. operator = "OOM" /\ ~Seen /\ c # m => Passed(group, content, m, c)
  BY <1>1, <1>2, <1>3, EndsAre DEF Passed
<1>9. operator = "ZOO" => Passed(group, content, m, IF Seen THEN c + 1 ELSE c)
  <2>1. CASE Seen
    BY <1>1, <1>2, <1>4, <2>1, EndsAre DEF Passed
  <2>2. CASE ~Seen
    BY <1>1, <1>2, <1>3, <2>2, EndsAre DEF Passed
  <2> QED
    BY <2>1, <2>2
<1> QED
  BY <1>1, <1>2, <1>5, <1>6, <1>7, <1>8, <1>9 DEF group

LEMMA Turns ==
  ASSUME Typed, Pursuing,
         MatchOne \/ MatchZeroOrMore \/ MatchOneOrMore \/ MatchZeroOrOne
  PROVE  Goes
<1>1. ASSUME NEW operator, Matching(operator)
      PROVE  \E m \in Nat : Entered(m)
  BY <1>1 DEF Matching, Pursuing
<1>2. CASE MatchOne
  <2>1. Matching("NOP")
    BY <1>2 DEF MatchOne
  <2>2. PICK m \in Nat : Entered(m)
    BY <1>1, <2>1
  <2>3. c = m /\ first_char = FALSE
    BY <2>1, <2>2, Takings DEF Entered
  <2>4. CASE Seen
    BY <1>2, <2>1, <2>2, <2>3, <2>4, Takings, Leaves DEF MatchOne
  <2>5. CASE ~Seen
    BY <1>2, <2>1, <2>2, <2>3, <2>5, Misses DEF MatchOne
  <2> QED
    BY <2>4, <2>5
<1>3. CASE MatchZeroOrMore
  <2>1. Matching("ZOM")
    BY <1>3 DEF MatchZeroOrMore
  <2>2. PICK m \in Nat : Entered(m)
    BY <1>1, <2>1
  <2>3. first_char = FALSE
    BY <2>1, <2>2, Takings DEF Entered
  <2>4. CASE Seen
    BY <1>3, <2>1, <2>2, <2>3, <2>4, Stays DEF MatchZeroOrMore
  <2>5. CASE ~Seen
    BY <1>3, <2>1, <2>2, <2>3, <2>5, Takings, Leaves DEF MatchZeroOrMore
  <2> QED
    BY <2>4, <2>5
<1>4. CASE MatchOneOrMore
  <2>1. Matching("OOM")
    BY <1>4 DEF MatchOneOrMore
  <2>2. PICK m \in Nat : Entered(m)
    BY <1>1, <2>1
  <2>3. first_char <=> c # m
    BY <2>1, <2>2, Takings DEF Entered
  <2>4. CASE Seen
    BY <1>4, <2>1, <2>2, <2>4, Stays DEF MatchOneOrMore
  <2>5. CASE ~Seen /\ first_char
    BY <1>4, <2>1, <2>2, <2>3, <2>5, Takings, Leaves
       DEF MatchOneOrMore, AfterOneOrMore
  <2>6. CASE ~Seen /\ ~first_char
    BY <1>4, <2>1, <2>2, <2>3, <2>6, Misses DEF MatchOneOrMore
  <2> QED
    BY <2>4, <2>5, <2>6
<1>5. CASE MatchZeroOrOne
  <2>1. Matching("ZOO") /\ AfterZeroOrOne
    BY <1>5 DEF MatchZeroOrOne
  <2>2. PICK m \in Nat : Entered(m)
    BY <1>1, <2>1
  <2>3. first_char = FALSE
    BY <2>1, <2>2, Takings DEF Entered
  <2> DEFINE next == IF Seen THEN c + 1 ELSE c
  <2>4. next \in {c, c + 1} /\ Passed(Groups[g], content, m, next)
    BY <2>1, <2>2, Takings
  <2>5. Continue(next, g + 1, TRUE, FALSE)
    BY <2>1, <2>3 DEF AfterZeroOrOne
  <2> HIDE DEF next
  <2> QED
    BY <2>1, <2>2, <2>4, <2>5, Leaves
<1> QED
  BY <1>2, <1>3, <1>4, <1>5

\* The end of the loop.  What is taken at the end of the text is a word, or
\* lacks its last group; and what is refused is none, but for one that ends
\* with the text.
Cut ==
    /\ source' = Len(content) + 1
    /\ Last(Groups).operator = "OOM"
    /\ source' \in Reached(Front(Groups), content, source)

LEMMA Ending ==
  ASSUME Typed, Pursuing, MatchEnds
  PROVE  \/ Accept(source') /\ Leads(Groups, content, source, Len(Groups), source')
         \/ Accept(source') /\ Cut
         \/ Refuse
<1>1. /\ lexing = "match"
      /\ ~exp_ok \/ c > Len(content)
      /\ IF TakenAtEnd THEN Accept(c) ELSE Refuse
  BY DEF MatchEnds
<1> SUFFICES ASSUME TakenAtEnd, Accept(c)
             PROVE  \/ Accept(source')
                       /\ Leads(Groups, content, source, Len(Groups), source')
                    \/ Accept(source') /\ Cut
  BY <1>1
<1>2. /\ exp_ok /\ g = Len(Groups) /\ Groups[g].operator \in {"ZOM", "OOM"}
      /\ source' = c
  BY DEF TakenAtEnd, Accept
<1>3. /\ Groups \in Seq(GroupRecords) /\ Groups # << >> /\ Groups[g] \in GroupRecords
      /\ Len(content) \in Nat /\ c \in Nat /\ source \in Nat
  BY <1>1, MatcherBounds
<1>4. c = Len(content) + 1
  BY <1>1, <1>2, <1>3 DEF Typed, MatcherTyped
<1>5. PICK m \in Nat : Entered(m)
  BY <1>1, <1>2 DEF Pursuing
<1>6. /\ c \in RunFrom(Groups[g], content, m) /\ Outside(Groups[g], content, c)
      /\ Leads(Groups, content, source, g - 1, m)
  BY <1>3, <1>4, <1>5 DEF Entered, Outside
<1>7. CASE Groups[g].operator = "ZOM" \/ c # m
  <2>1. Passed(Groups[g], content, m, c)
    BY <1>2, <1>3, <1>6, <1>7, EndsAre DEF Passed
  <2>2. Leads(Groups, content, source, g, c)
    BY <1>1, <1>3, <1>5, <2>1, GroupLeft
  <2> QED
    BY <1>2, <2>2
<1>8. CASE Groups[g].operator = "OOM" /\ c = m
  <2>1. c \in PlacesAfter(Groups, content, source)[Len(Groups) - 1]
    BY <1>2, <1>6, <1>8 DEF Leads
  <2>2. c \in Reached(Front(Groups), content, source)
    BY <1>3, <2>1, PlacesBeforeLast
  <2>3. Last(Groups).operator = "OOM"
    BY <1>2, <1>8 DEF Last
  <2> QED
    BY <1>2, <1>4, <2>2, <2>3 DEF Cut
<1> QED
  BY <1>2, <1>7, <1>8

LEMMA PursuingInit == Init => Pursuing
  BY DEF Init, Pursuing

LEMMA PursuingNext == Typed /\ Pursuing /\ [Next]_vars => Pursuing'
<1> SUFFICES ASSUME Typed, Pursuing, [Next]_vars PROVE Pursuing'
  OBVIOUS
<1>1. CASE MatchOne \/ MatchZeroOrMore \/ MatchOneOrMore \/ MatchZeroOrOne
  <2>1. Goes
    BY <1>1, Turns
  <2> QED
    BY <2>1 DEF Goes, Accept, Pursuing
<1>2. CASE CallMatch
  <2>1. /\ c' = source /\ g' = 1 /\ exp_ok' = TRUE /\ first_char' = FALSE
        /\ lexing' = "match" /\ content' = content /\ source' = source
    BY <1>2 DEF CallMatch
  <2>2. /\ Groups' \in Seq(GroupRecords) /\ Len(content) \in Nat /\ source \in Nat
        /\ source <= Len(content)
    <3>1. /\ source <= Len(content) /\ l <= Len(regexps) /\ Groups' = Groups
      BY <1>2 DEF CallMatch, readerVars, Groups
    <3>2. l \in 1 .. Len(regexps)
      BY <3>1, MatcherBounds DEF Typed, MatcherTyped
    <3>3. regexps[l] \in Entries
      BY <3>2, MatcherBounds, ElementOfSeq
    <3> QED
      BY <3>1, <3>3, MatcherBounds DEF Entries, Groups
  <2>3. PlacesAfter(Groups', content, source)[0] = {source}
    BY <2>2, PlacesAfterEach
  <2>4. Leads(Groups', content, source, 1 - 1, source)
    BY <2>3 DEF Leads
  <2>5. source \in RunFrom(Groups'[1], content, source) /\ source \in source .. source
    BY <2>2 DEF RunFrom
  <2>6. Entered(source)'
    BY <2>1, <2>4, <2>5 DEF Entered
  <2> QED
    BY <2>1, <2>2, <2>6 DEF Pursuing
<1>3. CASE ReadDatabase
  BY <1>3, ReaderRuns
     DEF ReadDatabase, Typed, MatcherTyped, Pursuing, lexerVars
<1>4. CASE OpenText \/ NoMatch \/ EndOfText \/ MatchEnds
  BY <1>4 DEF OpenText, NoMatch, EndOfText, MatchEnds, Accept, Refuse, Pursuing
<1>5. CASE Terminated \/ UNCHANGED vars
  BY <1>5 DEF Terminated, vars, readerVars, lexerVars, matchVars, Pursuing,
              Entered, Groups
<1> QED
  BY <1>1, <1>2, <1>3, <1>4, <1>5 DEF Next, LexText

LEMMA AlwaysPursuing == Spec => [](Typed /\ Pursuing)
<1>1. Init => Typed /\ Pursuing
  BY TypedInit, PursuingInit
<1>2. Typed /\ Pursuing /\ [Next]_vars => (Typed /\ Pursuing)'
  BY TypedNext, PursuingNext
<1> QED
  BY <1>1, <1>2, PTL DEF Spec

\* The steps that give a lexem.
LEMMA LexemsGrow ==
  ASSUME [Next]_vars, lexems' # lexems
  PROVE  \/ MatchOne \/ MatchZeroOrMore \/ MatchOneOrMore \/ MatchZeroOrOne
         \/ MatchEnds
  BY DEF Next, LexText, vars, lexerVars, ReadDatabase, OpenText, CallMatch,
         NoMatch, EndOfText, Terminated

\* What re_match accepts is a word of the expression, from the place it was
\* called at, and the lexem is that word: for every list of expressions, with
\* or without choices, and every text (regexp.c:320-400, lexem.c:151-165).
THEOREM LexemsSound == Spec => LexemsAreWords
<1>1. Typed /\ Pursuing /\ [Next]_vars =>
        [lexems' # lexems =>
           \/ source' \in Reached(Groups, content, source)
           \/ /\ source' = Len(content) + 1
              /\ Last(Groups).operator = "OOM"
              /\ source' \in Reached(Front(Groups), content, source)]_vars
  <2> SUFFICES ASSUME Typed, Pursuing, [Next]_vars, lexems' # lexems
               PROVE  source' \in Reached(Groups, content, source) \/ Cut
    BY DEF Cut
  <2>1. \/ Accept(source') /\ Leads(Groups, content, source, Len(Groups), source')
        \/ Accept(source') /\ Cut
    <3>1. CASE MatchOne \/ MatchZeroOrMore \/ MatchOneOrMore \/ MatchZeroOrOne
      BY <3>1, Turns DEF Goes
    <3>2. CASE MatchEnds
      BY <3>2, Ending DEF Refuse
    <3> QED
      BY <3>1, <3>2, LexemsGrow
  <2> QED
    BY <2>1 DEF Leads, Reached
<1> QED
  BY <1>1, AlwaysPursuing, PTL DEF Spec, LexemsAreWords

-----------------------------------------------------------------------------
(* The end of the text.  That the shortcut re_match takes there is right     *)
(* follows from what the list and the texts are when a text is opened:       *)
(* NoChoice and NotCutShort, which a run checks for the repository's         *)
(* database and texts.                                                       *)

\* What NoChoice and NotCutShort say of the list, since the text was opened.
Fit ==
    lexing # "closed" =>
        \A k \in 1 .. Len(regexps) :
            /\ Determinate(regexps[k].groups)
            /\ content # << >> => ClosedBy(regexps[k].groups, content[Len(content)])

\* The last character was taken by the group re_match stands at, or by the one
\* before it.
Took ==
    lexing = "match" /\ exp_ok /\ c > Len(content) =>
        \/ g > 1 /\ In(Groups[g - 1], content[c - 1])
        \/ /\ In(Groups[g], content[c - 1])
           /\ Groups[g].operator = "ZOM" \/ first_char

LEMMA FitInit == Init => Fit /\ Took
  BY DEF Init, Fit, Took

LEMMA FitNext ==
  ASSUME Typed, Fit, NoChoice, NotCutShort, [Next]_vars
  PROVE  Fit'
<1>1. CASE OpenText
  <2>1. /\ reading_state = "DONE" /\ lexing = "closed"
        /\ content' \in Texts[database] /\ regexps' = regexps
    BY <1>1 DEF OpenText, readerVars
  <2>2. DOMAIN regexps = 1 .. Len(regexps)
    BY MatcherBounds
  <2>3. \A k \in DOMAIN regexps : Determinate(regexps[k].groups)
    BY <2>1 DEF NoChoice
  <2>4. content' # << >> =>
          \A k \in DOMAIN regexps : ClosedBy(regexps[k].groups, content'[Len(content')])
    BY <2>1 DEF NotCutShort
  <2> QED
    BY <2>1, <2>2, <2>3, <2>4 DEF Fit
<1>2. CASE ReadDatabase
  BY <1>2, ReaderRuns DEF ReadDatabase, lexerVars, Typed, MatcherTyped, Fit
<1>3. CASE UNCHANGED << regexps, content >> /\ lexing # "closed"
  BY <1>3 DEF Fit
<1>4. \/ OpenText \/ ReadDatabase
      \/ UNCHANGED << regexps, content >> /\ lexing # "closed"
      \/ UNCHANGED << regexps, content, lexing >>
  BY DEF Next, LexText, CallMatch, NoMatch, EndOfText, MatchOne, MatchZeroOrMore,
         MatchOneOrMore, MatchZeroOrOne, MatchEnds, AfterOneOrMore,
         AfterZeroOrOne, Continue, Matching, Terminated, vars, readerVars,
         lexerVars
<1> QED
  BY <1>1, <1>2, <1>3, <1>4 DEF Fit

\* A turn that goes on after the last character has just taken it.
LEMMA TookNext == Typed /\ Took /\ [Next]_vars => Took'
<1> SUFFICES ASSUME Typed, Took, [Next]_vars PROVE Took'
  OBVIOUS
<1>1. ASSUME NEW operator, Matching(operator),
             NEW next, NEW group, NEW ok \in BOOLEAN, NEW seen \in BOOLEAN,
             Continue(next, group, ok, seen),
             \/ ~ok \/ next = c
             \/ next = c + 1 /\ group = g + 1 /\ Seen
             \/ next = c + 1 /\ group = g /\ Seen /\ (operator = "ZOM" \/ seen)
      PROVE  Took'
  <2>1. CASE Accept(next)
    BY <2>1 DEF Accept, Took
  <2>2. CASE /\ c' = next /\ g' = group /\ exp_ok' = ok /\ first_char' = seen
             /\ UNCHANGED << source, l, lexems, lexing >>
    <3>1. /\ c \in Nat /\ g \in Nat /\ g >= 1 /\ Len(content) \in Nat
          /\ c <= Len(content) /\ Groups[g].operator = operator
      BY <1>1, MatcherBounds DEF Matching, Typed, MatcherTyped
    <3>2. UNCHANGED << content, Groups >>
      BY <1>1, <2>2 DEF Continue, readerVars, Groups
    <3>3. (c + 1) - 1 = c /\ (g + 1) - 1 = g /\ g + 1 > 1
      BY <3>1
    <3> QED
      BY <1>1, <2>2, <3>1, <3>2, <3>3 DEF Took, Seen
  <2> QED
    BY <1>1, <2>1, <2>2 DEF Continue
<1>2. first_char \in BOOLEAN
  BY DEF Typed, MatcherTyped
<1>3. CASE MatchOne
  BY <1>1, <1>2, <1>3 DEF MatchOne
<1>4. CASE MatchZeroOrMore
  BY <1>1, <1>2, <1>4 DEF MatchZeroOrMore
<1>5. CASE MatchOneOrMore
  BY <1>1, <1>2, <1>5 DEF MatchOneOrMore, AfterOneOrMore
<1>6. CASE MatchZeroOrOne
  BY <1>1, <1>2, <1>6 DEF MatchZeroOrOne, AfterZeroOrOne
<1>7. CASE CallMatch
  <2>1. c' = source /\ content' = content /\ source <= Len(content)
    BY <1>7 DEF CallMatch
  <2> QED
    BY <2>1, MatcherBounds DEF Took
<1>8. CASE ReadDatabase
  BY <1>8, ReaderRuns DEF ReadDatabase, Typed, MatcherTyped, Took, lexerVars
<1>9. CASE OpenText \/ NoMatch \/ EndOfText \/ MatchEnds
  BY <1>9 DEF OpenText, NoMatch, EndOfText, MatchEnds, Accept, Refuse, Took
<1>10. CASE Terminated \/ UNCHANGED vars
  BY <1>10 DEF Terminated, vars, readerVars, lexerVars, matchVars, Took, Groups
<1> QED
  BY <1>3, <1>4, <1>5, <1>6, <1>7, <1>8, <1>9, <1>10 DEF Next, LexText

LEMMA RightAtEnd == Typed /\ Pursuing /\ Fit /\ Took => EndJudged
<1> SUFFICES ASSUME Typed, Pursuing, Fit, Took,
                    lexing = "match", exp_ok, c > Len(content)
             PROVE  TakenAtEnd <=> c \in Reached(Groups, content, source)
  BY DEF EndJudged
<1> DEFINE N == Len(Groups)
           letter == content[Len(content)]
<1>1. /\ Groups \in Seq(GroupRecords) /\ Groups[g] \in GroupRecords /\ N \in Nat
      /\ Len(content) \in Nat /\ source \in Nat /\ g \in Nat /\ g >= 1 /\ g <= N
      /\ l \in 1 .. Len(regexps) /\ c = Len(content) + 1 /\ Len(content) >= 1
  BY MatcherBounds DEF Typed, MatcherTyped
<1>2. /\ Determinate(Groups) /\ ClosedBy(Groups, letter)
      /\ c - 1 = Len(content)
  <2>1. content # << >>
    BY <1>1
  <2> QED
    BY <1>1, <2>1 DEF Fit, Groups
<1>3. PICK m \in Nat : Entered(m)
  BY DEF Pursuing
<1>4. /\ Leads(Groups, content, source, g - 1, m)
      /\ c \in RunFrom(Groups[g], content, m) /\ m <= c
      /\ Groups[g].operator \in {"NOP", "ZOO"} => c = m
      /\ first_char <=> (Groups[g].operator = "OOM" /\ c # m)
  BY <1>1, <1>3 DEF Entered
<1>5. Outside(Groups[g], content, c)
  BY <1>1 DEF Outside
\* A group that must still take a character: no word.
<1>6. ASSUME NEW n \in 0 .. N, Leads(Groups, content, source, n, c),
             NEW j \in n + 1 .. N, Groups[j].operator = "NOP"
      PROVE  Reached(Groups, content, source) = {}
  BY <1>1, <1>2, <1>6, LeadsNowhere
<1>7. ASSUME Groups[g].operator = "ZOM" \/ (Groups[g].operator = "OOM" /\ c # m)
      PROVE  Leads(Groups, content, source, g, c)
  <2>1. Passed(Groups[g], content, m, c)
    BY <1>1, <1>3, <1>4, <1>5, <1>7, EndsAre DEF Passed
  <2> QED
    BY <1>1, <1>3, <2>1, GroupLeft
<1>8. CASE g > 1 /\ In(Groups[g - 1], letter)
  <2>1. PICK j \in (g - 1) + 1 .. N : Groups[j].operator = "NOP"
    <3>1. g - 1 \in 1 .. N - 1
      BY <1>1, <1>8
    <3> QED
      BY <1>2, <1>8, <3>1 DEF ClosedBy
  <2>2. ~TakenAtEnd
    BY <1>1, <2>1 DEF TakenAtEnd
  <2>3. CASE c = m
    <3>1. g - 1 \in 0 .. N
      BY <1>1
    <3>2. Reached(Groups, content, source) = {}
      BY <1>4, <1>6, <2>1, <2>3, <3>1
    <3> QED
      BY <2>2, <3>2
  <2>4. CASE c # m
    <3>1. Groups[g].operator \in {"ZOM", "OOM"}
      BY <1>1, <1>4, <2>4 DEF GroupRecords, Operators
    <3>2. j \in g + 1 .. N /\ g \in 0 .. N
      BY <1>1, <2>1, <3>1
    <3>3. Reached(Groups, content, source) = {}
      BY <1>6, <1>7, <2>1, <2>4, <3>1, <3>2
    <3> QED
      BY <2>2, <3>3
  <2> QED
    BY <2>3, <2>4
<1>9. CASE In(Groups[g], letter) /\ (Groups[g].operator = "ZOM" \/ first_char)
  <2>1. Leads(Groups, content, source, g, c) /\ Groups[g].operator \in {"ZOM", "OOM"}
    BY <1>4, <1>7, <1>9
  <2>2. CASE g = N
    BY <2>1, <2>2 DEF TakenAtEnd, Leads, Reached
  <2>3. CASE g # N
    <3>1. g \in 1 .. N - 1 /\ g \in 0 .. N
      BY <1>1, <2>3
    <3>2. PICK j \in g + 1 .. N : Groups[j].operator = "NOP"
      BY <1>2, <1>9, <3>1 DEF ClosedBy
    <3>3. Reached(Groups, content, source) = {}
      BY <1>6, <2>1, <3>1, <3>2
    <3> QED
      BY <2>3, <3>3 DEF TakenAtEnd
  <2> QED
    BY <2>2, <2>3
<1> QED
  BY <1>1, <1>2, <1>8, <1>9 DEF Took

\* Where no expression leaves a choice and none is in the middle of a word at
\* the end of a text, what re_match accepts there is a word and what it refuses
\* is none, although it looks at the last group only (regexp.c:377-400).
THEOREM EndIsJudged == Spec /\ []NoChoice /\ []NotCutShort => []EndJudged
<1> DEFINE Inv == Typed /\ Pursuing /\ Fit /\ Took
<1>1. Init => Inv
  BY TypedInit, PursuingInit, FitInit
<1>2. Inv /\ NoChoice /\ NotCutShort /\ [Next]_vars => Inv'
  BY TypedNext, PursuingNext, FitNext, TookNext
<1>3. Inv => EndJudged
  BY RightAtEnd
<1> HIDE DEF Inv
<1> QED
  BY <1>1, <1>2, <1>3, PTL DEF Spec

-----------------------------------------------------------------------------
(* The abstract lexer.  It is implemented where the list means what the      *)
(* file says, and where the end of the text is judged rightly as above:      *)
(* DatabaseRead, NoChoice and NotCutShort.                                   *)

\* What DatabaseRead says of the list, since the text was opened.
Meant ==
    lexing # "closed" =>
        /\ Len(regexps) = Len(Meaning[database])
        /\ \A k \in 1 .. Len(regexps) :
             /\ regexps[k].name = Meaning[database][k].name
             /\ \A from \in 1 .. Len(content) :
                  Reached(regexps[k].groups, content, from)
                      = Reached(Meaning[database][k].groups, content, from)

\* The expressions tried have no word here.
Missed ==
    lexing \in {"read", "match"} =>
        \A k \in 1 .. l - 1 : Reached(regexps[k].groups, content, source) = {}

LEMMA MeantNext ==
  ASSUME Typed, Meant, DatabaseRead, [Next]_vars
  PROVE  Meant'
<1>1. CASE OpenText
  <2>1. /\ reading_state = "DONE" /\ lexing = "closed"
        /\ content' \in Texts[database]
        /\ regexps' = regexps /\ database' = database
    BY <1>1 DEF OpenText, readerVars
  <2>2. /\ Len(regexps) = Len(Meaning[database])
        /\ \A k \in DOMAIN Meaning[database] :
             /\ regexps[k].name = Meaning[database][k].name
             /\ \A from \in DOMAIN content' :
                  Reached(regexps[k].groups, content', from)
                      = Reached(Meaning[database][k].groups, content', from)
    BY <2>1 DEF DatabaseRead
  <2>3. /\ DOMAIN Meaning[database] = 1 .. Len(Meaning[database])
        /\ DOMAIN content' = 1 .. Len(content')
    BY <2>1, MeaningAssumption, TextsAssumption, MatcherBounds
       DEF Typed, ReaderTyped
  <2> QED
    BY <2>1, <2>2, <2>3 DEF Meant
<1>2. CASE ReadDatabase
  BY <1>2, ReaderRuns DEF ReadDatabase, lexerVars, Typed, MatcherTyped, Meant
<1>3. CASE UNCHANGED << regexps, database, content >> /\ lexing # "closed"
  BY <1>3 DEF Meant
<1>4. \/ OpenText \/ ReadDatabase
      \/ UNCHANGED << regexps, database, content >> /\ lexing # "closed"
      \/ UNCHANGED << regexps, database, content, lexing >>
  BY DEF Next, LexText, CallMatch, NoMatch, EndOfText, MatchOne, MatchZeroOrMore,
         MatchOneOrMore, MatchZeroOrOne, MatchEnds, AfterOneOrMore,
         AfterZeroOrOne, Continue, Matching, Terminated, vars, readerVars,
         lexerVars
<1> QED
  BY <1>1, <1>2, <1>3, <1>4 DEF Meant

\* re_match gives the longest word, or says rightly that there is none.
LEMMA Answers ==
  ASSUME Typed, Pursuing, EndJudged, Determinate(Groups),
         \/ MatchOne \/ MatchZeroOrMore \/ MatchOneOrMore \/ MatchZeroOrOne
         \/ MatchEnds
  PROVE  \/ UNCHANGED << source, l, lexems, lexing >>
         \/ /\ Accept(source') /\ source' \in Reached(Groups, content, source)
            /\ \A r \in Reached(Groups, content, source) : r <= source'
         \/ Refuse /\ Reached(Groups, content, source) = {}
<1>1. lexing = "match"
  BY DEF MatchOne, MatchZeroOrMore, MatchOneOrMore, MatchZeroOrOne, MatchEnds,
         Matching
<1>2. /\ Groups \in Seq(GroupRecords) /\ Groups # << >> /\ Groups[g] \in GroupRecords
      /\ Len(content) \in Nat /\ c \in Nat /\ source \in Nat
      /\ g \in 0 .. Len(Groups) /\ c <= Len(content) + 1
  BY <1>1, MatcherBounds DEF Typed, MatcherTyped
<1>3. ASSUME NEW m \in Nat, Leads(Groups, content, source, Len(Groups), m)
      PROVE  /\ m \in Reached(Groups, content, source)
             /\ \A r \in Reached(Groups, content, source) : r <= m
  BY <1>2, <1>3, LeadsIsLongest
<1>4. ASSUME Leads(Groups, content, source, Len(Groups), source')
      PROVE  source' \in Nat
  BY <1>2, <1>4, ReachedPlaces DEF Leads, Reached
<1>5. CASE MatchOne \/ MatchZeroOrMore \/ MatchOneOrMore \/ MatchZeroOrOne
  BY <1>3, <1>4, <1>5, Turns DEF Goes
<1>6. CASE MatchEnds /\ ~exp_ok
  BY <1>1, <1>6 DEF MatchEnds, TakenAtEnd, Pursuing
<1>7. CASE MatchEnds /\ exp_ok
  <2>1. /\ c = Len(content) + 1
        /\ IF TakenAtEnd THEN Accept(c) ELSE Refuse
    BY <1>2, <1>7 DEF MatchEnds
  <2>2. PICK m \in Nat : Entered(m)
    BY <1>1, <1>7 DEF Pursuing
  <2>3. /\ Outside(Groups[g], content, c) /\ c \in RunFrom(Groups[g], content, m)
        /\ Groups[g].operator \in {"NOP", "ZOO"} => c = m
    BY <1>2, <2>1, <2>2 DEF Entered, Outside
  <2>4. \/ PlacesAfter(Groups, content, source)[g] = {}
        \/ Leads(Groups, content, source, g, c)
    <3>1. CASE Groups[g].operator \in {"NOP", "OOM"} /\ c = m
      BY <1>1, <2>2, <2>3, <3>1, NoWord
    <3>2. CASE Groups[g].operator = "OOM" /\ c # m
      BY <1>1, <1>2, <2>2, <2>3, <3>2, EndsAre, GroupLeft DEF Passed
    <3>3. CASE Groups[g].operator \in {"ZOM", "ZOO"}
      BY <1>1, <1>2, <2>2, <2>3, <3>3, EndsAre, GroupLeft DEF Passed
    <3> QED
      BY <1>2, <2>3, <3>1, <3>2, <3>3, EndsAre DEF Operators
  <2>5. \/ Reached(Groups, content, source) = {}
        \/ Leads(Groups, content, source, Len(Groups), c)
    BY <1>2, <2>1, <2>4, LeadsToTheEnd
  <2>6. TakenAtEnd <=> c \in Reached(Groups, content, source)
    BY <1>1, <1>2, <1>7, <2>1 DEF EndJudged
  <2>7. Leads(Groups, content, source, Len(Groups), c) =>
          /\ c \in Reached(Groups, content, source)
          /\ \A r \in Reached(Groups, content, source) : r <= c
    BY <1>2, <1>3
  <2>8. CASE TakenAtEnd
    <3>1. Accept(c) /\ source' = c
      BY <2>1, <2>8 DEF Accept
    <3> QED
      BY <2>5, <2>6, <2>7, <2>8, <3>1
  <2>9. CASE ~TakenAtEnd
    BY <2>1, <2>5, <2>6, <2>7, <2>9
  <2> QED
    BY <2>8, <2>9
<1> QED
  BY <1>5, <1>6, <1>7

LEMMA MissedNext ==
  ASSUME Typed, Pursuing, Fit, Took, Meant, Missed, [Next]_vars
  PROVE  Missed'
<1>1. CASE MatchOne \/ MatchZeroOrMore \/ MatchOneOrMore \/ MatchZeroOrOne \/ MatchEnds
  <2>1. lexing = "match" /\ UNCHANGED << regexps, content >>
    BY <1>1 DEF MatchOne, MatchZeroOrMore, MatchOneOrMore, MatchZeroOrOne,
                MatchEnds, Matching, AfterOneOrMore, AfterZeroOrOne, Continue,
                readerVars
  <2>2. l \in 1 .. Len(regexps) /\ l \in Nat
    BY <2>1, MatcherBounds DEF Typed, MatcherTyped
  <2>3. Determinate(Groups)
    BY <2>1, <2>2 DEF Fit, Groups
  <2>4. \A k \in 1 .. l - 1 : Reached(regexps[k].groups, content, source) = {}
    BY <2>1 DEF Missed
  <2>5. CASE UNCHANGED << source, l, lexems, lexing >>
    BY <2>1, <2>5 DEF Missed
  <2>6. CASE Accept(source')
    <3>1. l' = 1
      BY <2>6 DEF Accept
    <3> QED
      BY <3>1 DEF Missed
  <2>7. CASE Refuse /\ Reached(Groups, content, source) = {}
    <3>1. l' = l + 1 /\ source' = source
      BY <2>7 DEF Refuse
    <3>2. \A k \in 1 .. l' - 1 : k \in 1 .. l - 1 \/ k = l
      BY <2>2, <3>1
    <3> QED
      BY <2>1, <2>4, <2>7, <3>1, <3>2 DEF Missed, Groups
  <2> QED
    BY <1>1, <2>3, <2>5, <2>6, <2>7, RightAtEnd, Answers
<1>2. CASE ReadDatabase
  BY <1>2, ReaderRuns DEF ReadDatabase, lexerVars, Typed, MatcherTyped, Missed
<1>3. CASE OpenText
  <2>1. l' = 1
    BY <1>3 DEF OpenText, Typed, MatcherTyped
  <2> QED
    BY <2>1 DEF Missed
<1>4. CASE CallMatch \/ NoMatch \/ EndOfText
  BY <1>4 DEF CallMatch, NoMatch, EndOfText, readerVars, Missed
<1>5. CASE Terminated \/ UNCHANGED vars
  BY <1>5 DEF Terminated, vars, readerVars, lexerVars, Missed
<1> QED
  BY <1>1, <1>2, <1>3, <1>4, <1>5 DEF Next, LexText

-----------------------------------------------------------------------------
(* Steps of the lexer as steps of the abstract one. *)

LEMMA SameReached ==
  ASSUME NEW groups, NEW text, NEW from
  PROVE  Abstract!Reached(groups, text, from) = Reached(groups, text, from)
  BY DEF Abstract!Reached, Abstract!PlacesAfter, Abstract!Ends, Abstract!RunFrom,
         Abstract!In, Reached, PlacesAfter, Ends, RunFrom, In

LEMMA SameEnds ==
  ASSUME Typed, Meant, lexing # "closed", source <= Len(content),
         NEW k \in 1 .. Len(regexps)
  PROVE  Abstract!EndsOf(k) = Reached(regexps[k].groups, content, source)
<1>1. source \in 1 .. Len(content)
  BY MatcherBounds DEF Typed, MatcherTyped
<1>2. Reached(regexps[k].groups, content, source)
        = Reached(Meaning[database][k].groups, content, source)
  BY <1>1 DEF Meant
<1> QED
  BY <1>2, SameReached DEF Abstract!EndsOf

LEMMA MeaningDomain ==
  ASSUME Typed, Meant, lexing # "closed"
  PROVE  DOMAIN Meaning[database] = 1 .. Len(regexps)
<1>1. DOMAIN Meaning[database] = 1 .. Len(Meaning[database])
  BY MeaningAssumption DEF Typed, ReaderTyped
<1> QED
  BY <1>1 DEF Meant

LEMMA LongestIsMax ==
  ASSUME NEW S \in SUBSET Nat, NEW m \in S, \A r \in S : r <= m
  PROVE  Abstract!Max(S) = m
<1>1. \A r \in S : m >= r
  OBVIOUS
<1>2. /\ Abstract!Max(S) \in S /\ \A r \in S : Abstract!Max(S) >= r
  BY <1>1 DEF Abstract!Max
<1>3. Abstract!Max(S) \in Nat /\ m \in Nat
  BY <1>2
<1>4. m >= Abstract!Max(S) /\ Abstract!Max(S) >= m
  BY <1>1, <1>2
<1> HIDE DEF Abstract!Max
<1> QED
  BY <1>3, <1>4

\* An accepted lexem is the token the abstract lexer takes.
LEMMA AcceptTakes ==
  ASSUME Typed, Meant, Missed, lexing = "match",
         UNCHANGED << readerVars, content >>,
         Accept(source'), source' \in Reached(Groups, content, source),
         \A r \in Reached(Groups, content, source) : r <= source'
  PROVE  Abstract!Take
<1>1. /\ l \in 1 .. Len(regexps) /\ source <= Len(content) /\ l \in Nat
      /\ Groups \in Seq(GroupRecords) /\ Len(content) \in Nat /\ source \in Nat
      /\ Len(regexps) \in Nat
  BY MatcherBounds DEF Typed, MatcherTyped
<1>2. DOMAIN Meaning[database] = 1 .. Len(regexps)
  BY MeaningDomain
<1>3. Abstract!EndsOf(l) = Reached(Groups, content, source)
  BY <1>1, SameEnds DEF Groups
<1>4. source' = Abstract!Max(Abstract!EndsOf(l)) /\ Abstract!EndsOf(l) # {}
  BY <1>1, <1>3, ReachedPlaces, LongestIsMax
<1>5. ASSUME NEW j \in 1 .. l - 1 PROVE Abstract!EndsOf(j) = {}
  <2>1. j \in 1 .. Len(regexps)
    BY <1>1
  <2>2. Abstract!EndsOf(j) = Reached(regexps[j].groups, content, source)
    BY <1>1, <2>1, SameEnds
  <2> QED
    BY <2>2 DEF Missed
<1>6. lexems' = Append(lexems, [type  |-> Meaning[database][l].name,
                                value |-> SubSeq(content, source, source' - 1)])
  <2>1. regexps[l].name = Meaning[database][l].name
    BY <1>1 DEF Meant
  <2> QED
    BY <2>1 DEF Accept
<1>7. /\ Status = "reading" /\ Status' = "reading"
      /\ UNCHANGED << Meaning[database], content >>
  BY DEF Accept, Status, readerVars
<1> QED
  BY <1>1, <1>2, <1>4, <1>5, <1>6, <1>7 DEF Abstract!Take

LEMMA Simulates ==
  ASSUME Typed, Pursuing, Fit, Took, Meant, Missed, [Next]_vars
  PROVE  [Abstract!Next]_Abstract!vars
<1>1. ASSUME UNCHANGED << database, content, source, lexems, Status >>
      PROVE  UNCHANGED Abstract!vars
  BY <1>1 DEF Abstract!vars
<1>2. CASE MatchOne \/ MatchZeroOrMore \/ MatchOneOrMore \/ MatchZeroOrOne \/ MatchEnds
  <2>1. lexing = "match" /\ UNCHANGED << readerVars, content >>
    BY <1>2 DEF MatchOne, MatchZeroOrMore, MatchOneOrMore, MatchZeroOrOne,
                MatchEnds, Matching, AfterOneOrMore, AfterZeroOrOne, Continue
  <2>2. database' = database
    BY <2>1 DEF readerVars
  <2>3. Determinate(Groups)
    <3>1. l \in 1 .. Len(regexps)
      BY <2>1, MatcherBounds DEF Typed, MatcherTyped
    <3> QED
      BY <2>1, <3>1 DEF Fit, Groups
  <2>4. CASE UNCHANGED << source, l, lexems, lexing >>
    BY <1>1, <2>1, <2>2, <2>4 DEF Status
  <2>5. CASE /\ Accept(source') /\ source' \in Reached(Groups, content, source)
             /\ \A r \in Reached(Groups, content, source) : r <= source'
    BY <2>1, <2>5, AcceptTakes DEF Abstract!Next
  <2>6. CASE Refuse
    <3>1. lexing' = "read" /\ UNCHANGED << source, lexems >>
      BY <2>6 DEF Refuse
    <3>2. Status' = Status
      BY <2>1, <3>1 DEF Status
    <3> QED
      BY <1>1, <2>1, <2>2, <3>1, <3>2
  <2> QED
    BY <1>2, <2>3, <2>4, <2>5, <2>6, RightAtEnd, Answers
<1>3. CASE ReadDatabase
  BY <1>1, <1>3 DEF ReadDatabase, lexerVars, ReaderNext, ReadFirstBlanks,
     ReadName, ReadSecondBlanks, ReadRegexp, SkipComment, EndOfDatabase, Turn,
     Status
<1>4. CASE OpenText
  <2>1. /\ Status = "waiting" /\ Status' = "reading"
        /\ UNCHANGED << Meaning[database], source, lexems >>
    BY <1>4 DEF OpenText, Status, readerVars
  <2>2. Len(content') >= 0
    <3>1. content' \in Seq(STRING)
      BY <1>4, TextsAssumption DEF OpenText, Typed, ReaderTyped
    <3>2. Len(content') \in Nat
      BY <3>1, LenProperties
    <3> QED
      BY <3>2
  <2> QED
    BY <2>1, <2>2 DEF Abstract!Next, Abstract!Open
<1>5. CASE CallMatch
  BY <1>1, <1>5 DEF CallMatch, readerVars, Status
<1>6. CASE NoMatch
  <2>1. /\ lexing = "read" /\ lexing' = "failed" /\ l > Len(regexps)
        /\ source <= Len(content)
        /\ UNCHANGED << database, content, source, lexems >>
    BY <1>6 DEF NoMatch, readerVars
  <2>2. Status = "reading" /\ Status' = "failed"
    BY <2>1 DEF Status
  <2>3. ASSUME NEW k \in DOMAIN Meaning[database] PROVE Abstract!EndsOf(k) = {}
    <3>1. k \in 1 .. Len(regexps)
      BY <2>1, MeaningDomain
    <3>2. k \in 1 .. l - 1
      BY <2>1, <3>1, MatcherBounds
    <3>3. Abstract!EndsOf(k) = Reached(regexps[k].groups, content, source)
      BY <2>1, <3>1, SameEnds
    <3> QED
      BY <2>1, <3>2, <3>3 DEF Missed
  <2> QED
    BY <2>1, <2>2, <2>3 DEF Abstract!Next, Abstract!Fail
<1>7. CASE EndOfText
  <2>1. /\ lexing = "read" /\ lexing' = "done" /\ source > Len(content)
        /\ UNCHANGED << database, content, source, lexems >>
    BY <1>7 DEF EndOfText, readerVars
  <2>2. Status = "reading" /\ Status' = "done"
    BY <2>1 DEF Status
  <2> QED
    BY <2>1, <2>2 DEF Abstract!Next, Abstract!Finish
<1>8. CASE Terminated \/ UNCHANGED vars
  BY <1>1, <1>8 DEF Terminated, vars, readerVars, lexerVars, Status
<1> QED
  BY <1>2, <1>3, <1>4, <1>5, <1>6, <1>7, <1>8 DEF Next, LexText

LEMMA SimulatesInit == Init => Abstract!Init /\ Meant /\ Missed
<1> SUFFICES ASSUME Init PROVE Abstract!Init /\ Meant /\ Missed
  OBVIOUS
<1>1. Meaning[database] \in Range(Meaning)
  BY MeaningAssumption DEF Init, ReaderInit, Range
<1> QED
  BY <1>1 DEF Init, Abstract!Init, Meant, Missed, Status

\* The lexer is the abstract one: every lexem is the longest word of the
\* first expression of the file that has one, and it fails only where none
\* has, although re_match never goes back.  It takes that the list means what
\* the file says, that no expression leaves a choice, and that no text ends
\* inside of a word (lexem.c:130-169, regexp.c:320-400).
THEOREM TokensImplemented ==
  Spec /\ []DatabaseRead /\ []NoChoice /\ []NotCutShort => ImplementsTokens
<1> DEFINE Inv == Typed /\ Pursuing /\ Fit /\ Took /\ Meant /\ Missed
           Given == DatabaseRead /\ NoChoice /\ NotCutShort
<1>1. Init => Inv /\ Abstract!Init
  BY TypedInit, PursuingInit, FitInit, SimulatesInit
<1>2. Inv /\ Given /\ [Next]_vars => Inv'
  BY TypedNext, PursuingNext, FitNext, TookNext, MeantNext, MissedNext
<1>3. Inv /\ Given /\ [Next]_vars => [Abstract!Next]_Abstract!vars
  BY Simulates
<1> HIDE DEF Inv
<1> QED
  BY <1>1, <1>2, <1>3, PTL DEF Spec, ImplementsTokens, Abstract!Spec, Given
===============================================================================
