---------------------------- MODULE RegexpProofs -----------------------------
(***************************************************************************)
(* Regular expressions: what is read is a sequence of groups, and the      *)
(* rewriting of opti_regexp keeps its language.                            *)
(***************************************************************************)
EXTENDS CharGroups, ProofLemmas

GroupRecords == [chars : SUBSET Chars, operator : Operators]

LEMMA GroupIsRecord ==
  ASSUME NEW chars \in SUBSET Chars, NEW operator \in Operators
  PROVE  Group(chars, operator) \in GroupRecords
  BY DEF Group, GroupRecords

LEMMA OperatorOfChar == \A c : OperatorOf(c) \in Operators
  BY DEF OperatorOf, Operators

-----------------------------------------------------------------------------
(* A class *)

Classes ==
  [at : {"plain", "operator", "interval", "escaped", "escaped_end", "skip",
         "stopped"},
   from : Chars, exclude : BOOLEAN, group : GroupRecords]

LEMMA IntervalOfChars ==
  ASSUME NEW from \in Chars, NEW to \in Chars
  PROVE  Interval(from, to) \in SUBSET Chars
<1> DEFINE code(c) == CHOOSE k \in DOMAIN Alphabet : Alphabet[k] = c
<1>1. ASSUME NEW c \in Chars PROVE code(c) \in 1 .. Len(Alphabet)
  <2>1. \E k \in DOMAIN Alphabet : Alphabet[k] = c
    BY DEF Chars, Range
  <2>2. DOMAIN Alphabet = 1 .. Len(Alphabet)
    BY AlphabetAssumption
  <2> QED
    BY <2>1, <2>2
<1>2. code(from) .. code(to) \subseteq DOMAIN Alphabet
  <2>1. code(from) \in 1 .. Len(Alphabet) /\ code(to) \in 1 .. Len(Alphabet)
    BY <1>1
  <2>2. DOMAIN Alphabet = 1 .. Len(Alphabet) /\ Len(Alphabet) \in Nat
    BY AlphabetAssumption
  <2> HIDE DEF code
  <2> QED
    BY <2>1, <2>2
<1> HIDE DEF code
<1>3. {Alphabet[k] : k \in code(from) .. code(to)} \subseteq Chars
  BY <1>2 DEF Chars, Range
<1> QED
  BY <1>3 DEF Interval, code

LEMMA OpenClassIsClass ==
  ASSUME NEW exclude \in BOOLEAN
  PROVE  OpenClass(exclude) \in Classes
<1>1. Head(Alphabet) \in Chars
  <2>1. 1 \in DOMAIN Alphabet /\ Head(Alphabet) = Alphabet[1]
    BY AlphabetAssumption
  <2> QED
    BY <2>1 DEF Chars, Range
<1>2. Group(IF exclude THEN Chars ELSE {}, "NOP") \in GroupRecords
  BY DEF Group, GroupRecords, Operators
<1> QED
  BY <1>1, <1>2 DEF OpenClass, Classes

LEMMA PutKeeps ==
  ASSUME NEW class \in Classes, NEW chars \in SUBSET Chars
  PROVE  Put(class, chars) \in Classes
<1>1. /\ class.group \in GroupRecords /\ class.group.chars \in SUBSET Chars
      /\ class.group.operator \in Operators
  BY DEF Classes, GroupRecords
<1>2. Put(class, chars) =
        [class EXCEPT !.group = [class.group EXCEPT !.chars =
            IF class.exclude THEN @ \ chars ELSE @ \cup chars]]
  BY <1>1 DEF Put, Classes
<1>3. [class.group EXCEPT !.chars =
            IF class.exclude THEN @ \ chars ELSE @ \cup chars] \in GroupRecords
  BY <1>1 DEF GroupRecords
<1> QED
  BY <1>2, <1>3 DEF Classes

LEMMA PutOneKeeps ==
  ASSUME NEW class \in Classes, NEW c \in Chars
  PROVE  PutOne(class, c) \in Classes
<1>1. Put(class, {c}) \in Classes
  BY PutKeeps
<1> QED
  BY <1>1 DEF PutOne, Classes

LEMMA ClassStepKeeps ==
  ASSUME Newline \in Chars, "\t" \in Chars, NEW class \in Classes, NEW c \in Chars
  PROVE  ClassStep(class, c) \in Classes
<1>1. class.from \in Chars /\ class.group \in GroupRecords
  BY DEF Classes
<1>2. Escaped(c) \in Chars
  BY DEF Escaped
<1>3. PutOne(class, c) \in Classes /\ PutOne(class, Escaped(c)) \in Classes
  BY <1>2, PutOneKeeps
<1>4. /\ [class EXCEPT !.at = "operator"] \in Classes
      /\ [class EXCEPT !.at = "interval"] \in Classes
      /\ [class EXCEPT !.at = "escaped"] \in Classes
      /\ [class EXCEPT !.at = "escaped_end"] \in Classes
      /\ [class EXCEPT !.at = "stopped"] \in Classes
      /\ [class EXCEPT !.at = "plain"] \in Classes
  BY DEF Classes
<1>5. [class EXCEPT !.group.operator = OperatorOf(c), !.at = "plain"] \in Classes
  <2>1. [class.group EXCEPT !.operator = OperatorOf(c)] \in GroupRecords
    BY <1>1, OperatorOfChar DEF GroupRecords
  <2>2. [class EXCEPT !.group.operator = OperatorOf(c), !.at = "plain"]
          = [class EXCEPT !.group = [class.group EXCEPT !.operator = OperatorOf(c)],
                          !.at = "plain"]
    BY <1>1 DEF Classes, GroupRecords
  <2> QED
    BY <2>1, <2>2 DEF Classes
<1>6. ASSUME NEW to \in Chars, NEW at \in {"plain", "skip"}
      PROVE  [Put(class, Interval(class.from, to)) EXCEPT !.at = at] \in Classes
  <2>1. Put(class, Interval(class.from, to)) \in Classes
    BY <1>1, PutKeeps, IntervalOfChars
  <2> QED
    BY <2>1 DEF Classes
<1>7. /\ [Put(class, Interval(class.from, c)) EXCEPT !.at = "plain"] \in Classes
      /\ [Put(class, Interval(class.from, Escaped(c))) EXCEPT !.at = "skip"]
            \in Classes
  BY <1>2, <1>6
<1>8. CASE class.at = "plain"
  BY <1>3, <1>4, <1>8 DEF ClassStep
<1>9. CASE class.at = "operator"
  BY <1>5, <1>9 DEF ClassStep
<1>10. CASE class.at = "interval"
  BY <1>4, <1>7, <1>10 DEF ClassStep
<1>11. CASE class.at \in {"escaped_end", "escaped", "skip", "stopped"}
  BY <1>3, <1>4, <1>7, <1>11 DEF ClassStep
<1> QED
  BY <1>8, <1>9, <1>10, <1>11 DEF Classes

LEMMA ClassAfterEach ==
  ASSUME Newline \in Chars, "\t" \in Chars, NEW exclude \in BOOLEAN,
         NEW body \in Seq(Chars)
  PROVE  /\ ClassAfter(exclude, body)[0] = OpenClass(exclude)
         /\ \A n \in 1 .. Len(body) :
                ClassAfter(exclude, body)[n]
                    = ClassStep(ClassAfter(exclude, body)[n - 1], body[n])
<1> DEFINE N == Len(body)
           step == [s \in (1 .. N) \X Classes |-> ClassStep(s[2], body[s[1]])]
           def(f) == [n \in 0 .. N |-> IF n = 0 THEN OpenClass(exclude)
                                       ELSE ClassStep(f[n - 1], body[n])]
<1>1. N \in Nat /\ \A n \in 1 .. N : body[n] \in Chars
  OBVIOUS
<1>2. step \in [(1 .. N) \X Classes -> Classes]
  BY <1>1, ClassStepKeeps
<1>3. OpenClass(exclude) \in Classes
  BY OpenClassIsClass
<1>4. PICK f \in [0 .. N -> Classes] :
         Recurs(f, OpenClass(exclude), N, step)
  <2> HIDE DEF N, step
  <2> QED
    BY <1>1, <1>2, <1>3, BoundedRecursion
<1>5. f = def(f)
  <2>1. ASSUME NEW n \in 1 .. N
        PROVE  step[<< n, f[n - 1] >>] = ClassStep(f[n - 1], body[n])
    <3>1. n - 1 \in 0 .. N
      BY <1>1
    <3>2. << n, f[n - 1] >> \in (1 .. N) \X Classes
      BY <3>1
    <3> QED
      BY <3>2
  <2> HIDE DEF step
  <2>2. ASSUME NEW n \in 0 .. N PROVE f[n] = def(f)[n]
    <3>1. n = 0 \/ n \in 1 .. N
      BY <1>1
    <3> HIDE DEF N
    <3> QED
      BY <1>4, <2>1, <3>1 DEF Recurs
  <2> QED
    BY <2>2
<1> DEFINE class == CHOOSE g : g = def(g)
<1>6. class = def(class)
  BY <1>5
<1>7. ClassAfter(exclude, body) = class
  BY DEF ClassAfter
<1> HIDE DEF class
<1>8. class[0] = OpenClass(exclude)
  BY <1>1, <1>6
<1>9. ASSUME NEW n \in 1 .. N
      PROVE  class[n] = ClassStep(class[n - 1], body[n])
  <2>1. n \in 0 .. N /\ n # 0
    BY <1>1
  <2> QED
    BY <1>6, <2>1
<1> QED
  BY <1>7, <1>8, <1>9

LEMMA ClassAfterType ==
  ASSUME Newline \in Chars, "\t" \in Chars, NEW exclude \in BOOLEAN,
         NEW body \in Seq(Chars)
  PROVE  \A n \in 0 .. Len(body) : ClassAfter(exclude, body)[n] \in Classes
<1> DEFINE class == ClassAfter(exclude, body)
           T == {n \in 0 .. Len(body) : class[n] \in Classes}
<1>1. Len(body) \in Nat /\ \A n \in 1 .. Len(body) : body[n] \in Chars
  OBVIOUS
<1>2. class[0] = OpenClass(exclude)
  BY ClassAfterEach
<1>3. ASSUME NEW n \in 1 .. Len(body)
      PROVE  class[n] = ClassStep(class[n - 1], body[n])
  BY ClassAfterEach
<1> HIDE DEF class
<1>4. 0 \in T
  BY <1>1, <1>2, OpenClassIsClass
<1>5. ASSUME NEW n \in 1 .. Len(body), n - 1 \in T PROVE n \in T
  BY <1>1, <1>3, <1>5, ClassStepKeeps
<1> HIDE DEF T
<1>6. \A n \in 0 .. Len(body) : n \in T
  BY <1>1, <1>4, <1>5, BoundedInduction
<1> QED
  BY <1>6 DEF T, class

\* The text of a class has its two brackets.
LEMMA ClassGroupIsRecord ==
  ASSUME Newline \in Chars, "\t" \in Chars, NEW text \in Seq(Chars),
         Len(text) >= 2
  PROVE  ClassGroup(text) \in GroupRecords
<1> DEFINE exclude == text[2] = "^"
           body == SubSeq(text, IF exclude THEN 3 ELSE 2, Len(text))
<1>1. exclude \in BOOLEAN
  OBVIOUS
<1>2. body \in Seq(Chars)
  OBVIOUS
<1>3. Len(body) \in 0 .. Len(body)
  BY <1>2
<1>4. ClassGroup(text) = ClassAfter(exclude, body)[Len(body)].group
  BY DEF ClassGroup
<1> HIDE DEF exclude, body
<1>5. ClassAfter(exclude, body)[Len(body)] \in Classes
  BY <1>1, <1>2, <1>3, ClassAfterType
<1> QED
  BY <1>4, <1>5 DEF Classes

-----------------------------------------------------------------------------
(* The reading of an expression *)

ReadingStates == {"INIT", "GROUP", "BACKSLASH", "OPERATOR", "CLOSED"}
ReadingRecords ==
  [state : ReadingStates, inverse : BOOLEAN, text : Seq(Chars),
   group : GroupRecords, groups : Seq(GroupRecords)]
Readings ==
  {r \in ReadingRecords :
      /\ r.state = "GROUP" => Len(r.text) >= 1
      /\ r.state = "CLOSED" => Len(r.text) >= 2}

LEMMA NewReadingIsReading == NewReading \in Readings
<1>1. Group({}, "NOP") \in GroupRecords
  BY DEF Group, GroupRecords, Operators
<1>2. << >> \in Seq(Chars) /\ << >> \in Seq(GroupRecords)
  OBVIOUS
<1> QED
  BY <1>1, <1>2 DEF NewReading, Readings, ReadingRecords, ReadingStates

LEMMA TextKeeps ==
  ASSUME NEW reading \in Readings, NEW text \in Seq(Chars),
         NEW state \in ReadingStates,
         state = "GROUP" => Len(text) >= 1, state = "CLOSED" => Len(text) >= 2
  PROVE  [reading EXCEPT !.text = text, !.state = state] \in Readings
<1> DEFINE r == [reading EXCEPT !.text = text, !.state = state]
<1>1. r \in ReadingRecords /\ r.state = state /\ r.text = text
  BY DEF Readings, ReadingRecords
<1> HIDE DEF r
<1>2. r \in Readings
  BY <1>1 DEF Readings
<1> QED
  BY <1>2 DEF r

LEMMA SingleCharIsRecord ==
  \A c : \A exclude \in BOOLEAN : SingleChar(c, exclude) \in GroupRecords
  BY DEF SingleChar, Group, GroupRecords, Operators

LEMMA SavedKeeps ==
  ASSUME NEW reading \in Readings, NEW group \in GroupRecords
  PROVE  Saved(reading, group) \in Readings
<1>1. Append(reading.groups, group) \in Seq(GroupRecords)
  BY DEF Readings, ReadingRecords, ReadingStates
<1>2. NewReading.state = "INIT"
  BY DEF NewReading
<1> QED
  BY <1>1, <1>2, NewReadingIsReading DEF Saved, Readings, ReadingRecords, ReadingStates

LEMMA ClosedKeeps ==
  ASSUME Newline \in Chars, "\t" \in Chars, NEW reading \in Readings,
         Len(reading.text) >= 2
  PROVE  Closed(reading) \in Readings
<1> DEFINE group == ClassGroup(reading.text)
<1>1. reading.text \in Seq(Chars)
  BY DEF Readings, ReadingRecords, ReadingStates
<1>2. group \in GroupRecords
  BY <1>1, ClassGroupIsRecord
<1> HIDE DEF group
<1>3. Inverted(group) \in GroupRecords
  BY <1>2 DEF Inverted, GroupRecords
<1>4. (IF reading.inverse THEN Inverted(group) ELSE group) \in GroupRecords
  BY <1>2, <1>3
<1>5. Saved(reading, IF reading.inverse THEN Inverted(group) ELSE group)
        \in Readings
  BY <1>4, SavedKeeps
<1> QED
  BY <1>5 DEF Closed, group

LEMMA InitStepKeeps ==
  ASSUME NEW reading \in Readings, NEW c \in Chars
  PROVE  InitStep(reading, c) \in Readings
<1>1. reading.inverse \in BOOLEAN
  BY DEF Readings, ReadingRecords, ReadingStates
<1>2. SingleChar(c, reading.inverse) \in GroupRecords
  BY <1>1, SingleCharIsRecord
<1>3. Group(IF reading.inverse THEN {} ELSE Chars, "NOP") \in GroupRecords
  BY DEF Group, GroupRecords, Operators
<1>4. << c >> \in Seq(Chars) /\ Len(<< c >>) = 1
  OBVIOUS
<1>5. [reading EXCEPT !.state = "GROUP", !.text = << c >>] \in Readings
  <2>1. [reading EXCEPT !.state = "GROUP", !.text = << c >>]
          = [reading EXCEPT !.text = << c >>, !.state = "GROUP"]
    BY DEF Readings, ReadingRecords
  <2>2. "GROUP" \in ReadingStates
    BY DEF ReadingStates
  <2> DEFINE text == << c >>
  <2>3. text \in Seq(Chars) /\ Len(text) >= 1
    BY <1>4
  <2> HIDE DEF text
  <2>4. [reading EXCEPT !.text = text, !.state = "GROUP"] \in Readings
    BY <2>2, <2>3, TextKeeps
  <2> QED
    BY <2>1, <2>4 DEF text
<1>6. ASSUME NEW group \in GroupRecords
      PROVE  [reading EXCEPT !.state = "OPERATOR", !.group = group] \in Readings
  BY DEF Readings, ReadingRecords, ReadingStates
<1>7. [reading EXCEPT !.state = "BACKSLASH"] \in Readings
  BY DEF Readings, ReadingRecords, ReadingStates
<1>8. [reading EXCEPT !.inverse = TRUE] \in Readings
  BY DEF Readings, ReadingRecords, ReadingStates
<1> QED
  BY <1>2, <1>3, <1>5, <1>6, <1>7, <1>8 DEF InitStep

LEMMA ReadingStepKeeps ==
  ASSUME Newline \in Chars, "\t" \in Chars, NEW reading \in Readings,
         NEW c \in Chars
  PROVE  ReadingStep(reading, c) \in Readings
<1>1. /\ reading.inverse \in BOOLEAN /\ reading.group \in GroupRecords
      /\ reading.text \in Seq(Chars)
  BY DEF Readings, ReadingRecords, ReadingStates
<1>2. CASE reading.state = "INIT"
  BY <1>2, InitStepKeeps DEF ReadingStep
<1>3. CASE reading.state = "BACKSLASH"
  <2>1. SingleChar(Escaped(c), reading.inverse) \in GroupRecords
    BY <1>1, SingleCharIsRecord
  <2>2. [reading EXCEPT !.state = "OPERATOR",
                        !.group = SingleChar(Escaped(c), reading.inverse)]
          \in Readings
    BY <2>1 DEF Readings, ReadingRecords, ReadingStates
  <2> QED
    BY <1>3, <2>2 DEF ReadingStep
<1>4. CASE reading.state = "OPERATOR"
  <2> DEFINE saved == Saved(reading, [reading.group EXCEPT
                                        !.operator = OperatorOf(c)])
  <2>1. [reading.group EXCEPT !.operator = OperatorOf(c)] \in GroupRecords
    BY <1>1, OperatorOfChar DEF GroupRecords
  <2>2. saved \in Readings
    BY <2>1, SavedKeeps
  <2>3. ReadingStep(reading, c) = IF IsOperator(c) THEN saved
                                  ELSE InitStep(saved, c)
    BY <1>4 DEF ReadingStep
  <2> HIDE DEF saved
  <2> QED
    BY <2>2, <2>3, InitStepKeeps
<1>5. CASE reading.state = "GROUP"
  <2> DEFINE text == Append(reading.text, c)
  <2>1. text \in Seq(Chars) /\ Len(text) >= 2
    BY <1>1, <1>5 DEF Readings, ReadingRecords, ReadingStates
  <2> HIDE DEF text
  <2>2. ASSUME NEW state \in {"GROUP", "CLOSED"}
        PROVE  [reading EXCEPT !.text = text, !.state = state] \in Readings
    <3>1. state \in ReadingStates /\ Len(text) >= 1
      BY <2>1, LenProperties DEF ReadingStates
    <3> QED
      BY <2>1, <3>1, TextKeeps
  <2>3. ReadingStep(reading, c) =
          [reading EXCEPT !.text = text,
              !.state = IF c = "]" /\ Last(reading.text) # "\\"
                        THEN "CLOSED" ELSE "GROUP"]
    BY <1>5 DEF ReadingStep, text, Readings, ReadingRecords
  <2> QED
    BY <2>2, <2>3
<1>6. CASE reading.state = "CLOSED"
  <2>1. Append(reading.text, c) \in Seq(Chars)
          /\ Len(Append(reading.text, c)) >= 2 /\ Len(reading.text) >= 2
    BY <1>1, <1>6 DEF Readings, ReadingRecords, ReadingStates
  <2>2. [reading EXCEPT !.text = Append(@, c)] \in Readings
    <3> DEFINE text == Append(reading.text, c)
    <3>1. [reading EXCEPT !.text = Append(@, c)]
            = [reading EXCEPT !.text = text, !.state = "CLOSED"]
      BY <1>6 DEF Readings, ReadingRecords
    <3>2. "CLOSED" \in ReadingStates
      BY DEF ReadingStates
    <3> HIDE DEF text
    <3>3. text \in Seq(Chars) /\ Len(text) >= 2
      BY <2>1 DEF text
    <3> QED
      BY <3>1, <3>2, <3>3, TextKeeps
  <2>3. [reading EXCEPT !.text = Append(@, c)].text = Append(reading.text, c)
    BY DEF Readings, ReadingRecords, ReadingStates
  <2>4. /\ Closed([reading EXCEPT !.text = Append(@, c)]) \in Readings
        /\ Closed(reading) \in Readings
    BY <2>1, <2>2, <2>3, ClosedKeeps
  <2>5. ReadingStep(reading, c) =
          IF IsOperator(c) THEN Closed([reading EXCEPT !.text = Append(@, c)])
          ELSE InitStep(Closed(reading), c)
    BY <1>6 DEF ReadingStep
  <2> QED
    BY <2>4, <2>5, InitStepKeeps
<1> QED
  BY <1>2, <1>3, <1>4, <1>5, <1>6 DEF Readings, ReadingRecords, ReadingStates

LEMMA ReadingAfterEach ==
  ASSUME Newline \in Chars, "\t" \in Chars, NEW source \in Seq(Chars)
  PROVE  /\ ReadingAfter(source)[0] = NewReading
         /\ \A n \in 1 .. Len(source) :
                ReadingAfter(source)[n]
                    = ReadingStep(ReadingAfter(source)[n - 1], source[n])
<1> DEFINE N == Len(source)
           step == [s \in (1 .. N) \X Readings |-> ReadingStep(s[2], source[s[1]])]
           def(f) == [n \in 0 .. N |-> IF n = 0 THEN NewReading
                                       ELSE ReadingStep(f[n - 1], source[n])]
<1>1. N \in Nat /\ \A n \in 1 .. N : source[n] \in Chars
  OBVIOUS
<1>2. step \in [(1 .. N) \X Readings -> Readings]
  BY <1>1, ReadingStepKeeps
<1>3. PICK f \in [0 .. N -> Readings] : Recurs(f, NewReading, N, step)
  <2> HIDE DEF N, step
  <2> QED
    BY <1>1, <1>2, NewReadingIsReading, BoundedRecursion
<1>4. f = def(f)
  <2>1. ASSUME NEW n \in 1 .. N
        PROVE  step[<< n, f[n - 1] >>] = ReadingStep(f[n - 1], source[n])
    <3>1. n - 1 \in 0 .. N
      BY <1>1
    <3>2. << n, f[n - 1] >> \in (1 .. N) \X Readings
      BY <3>1
    <3> QED
      BY <3>2
  <2> HIDE DEF step
  <2>2. ASSUME NEW n \in 0 .. N PROVE f[n] = def(f)[n]
    <3>1. n = 0 \/ n \in 1 .. N
      BY <1>1
    <3> HIDE DEF N
    <3> QED
      BY <1>3, <2>1, <3>1 DEF Recurs
  <2> QED
    BY <2>2
<1> DEFINE reading == CHOOSE g : g = def(g)
<1>5. reading = def(reading)
  BY <1>4
<1>6. ReadingAfter(source) = reading
  BY DEF ReadingAfter
<1> HIDE DEF reading
<1>7. reading[0] = NewReading
  BY <1>1, <1>5
<1>8. ASSUME NEW n \in 1 .. N
      PROVE  reading[n] = ReadingStep(reading[n - 1], source[n])
  <2>1. n \in 0 .. N /\ n # 0
    BY <1>1
  <2> QED
    BY <1>5, <2>1
<1> QED
  BY <1>6, <1>7, <1>8

LEMMA ReadingAfterType ==
  ASSUME Newline \in Chars, "\t" \in Chars, NEW source \in Seq(Chars)
  PROVE  \A n \in 0 .. Len(source) : ReadingAfter(source)[n] \in Readings
<1> DEFINE reading == ReadingAfter(source)
           T == {n \in 0 .. Len(source) : reading[n] \in Readings}
<1>1. Len(source) \in Nat /\ \A n \in 1 .. Len(source) : source[n] \in Chars
  OBVIOUS
<1>2. reading[0] = NewReading
  BY ReadingAfterEach
<1>3. ASSUME NEW n \in 1 .. Len(source)
      PROVE  reading[n] = ReadingStep(reading[n - 1], source[n])
  BY ReadingAfterEach
<1> HIDE DEF reading
<1>4. 0 \in T
  BY <1>1, <1>2, NewReadingIsReading
<1>5. ASSUME NEW n \in 1 .. Len(source), n - 1 \in T PROVE n \in T
  BY <1>1, <1>3, <1>5, ReadingStepKeeps
<1> HIDE DEF T
<1>6. \A n \in 0 .. Len(source) : n \in T
  BY <1>1, <1>4, <1>5, BoundedInduction
<1> QED
  BY <1>6 DEF T, reading

\* Before a group is begun, all that was read is an exclusion.
OnlyExclusion(reading) == reading.state = "INIT" /\ reading.groups = << >>

LEMMA NotEmptied ==
  ASSUME Newline \in Chars, "\t" \in Chars, NEW reading \in Readings,
         NEW c \in Chars, OnlyExclusion(ReadingStep(reading, c))
  PROVE  OnlyExclusion(reading) /\ c = "^"
<1>1. ASSUME NEW r, r.groups \in Seq(GroupRecords), NEW group
      PROVE  Saved(r, group).groups # << >>
  BY <1>1 DEF Saved, NewReading
<1>2. ASSUME NEW r, r.groups \in Seq(GroupRecords)
      PROVE  Closed(r).groups # << >>
  <2>1. \E group : Closed(r) = Saved(r, group)
    BY DEF Closed
  <2> QED
    BY <1>1, <1>2, <2>1
<1>3. ASSUME NEW r \in Readings, OnlyExclusion(InitStep(r, c))
      PROVE  c = "^" /\ OnlyExclusion([r EXCEPT !.state = "INIT"])
  BY <1>3 DEF OnlyExclusion, InitStep, Readings, ReadingRecords
<1>4. /\ reading.groups \in Seq(GroupRecords) /\ reading.group \in GroupRecords
      /\ reading.text \in Seq(Chars)
  BY DEF Readings, ReadingRecords
<1>5. CASE reading.state = "INIT"
  BY <1>3, <1>5 DEF ReadingStep, OnlyExclusion, Readings, ReadingRecords
<1>6. CASE reading.state = "BACKSLASH"
  BY <1>6 DEF ReadingStep, OnlyExclusion, Readings, ReadingRecords
<1>7. CASE reading.state = "OPERATOR"
  <2> DEFINE group == [reading.group EXCEPT !.operator = OperatorOf(c)]
             saved == Saved(reading, group)
  <2>1. group \in GroupRecords
    BY <1>4, OperatorOfChar DEF GroupRecords
  <2> HIDE DEF group
  <2>2. saved \in Readings /\ saved.groups # << >>
    BY <1>1, <1>4, <2>1, SavedKeeps
  <2>3. ReadingStep(reading, c) = IF IsOperator(c) THEN saved
                                  ELSE InitStep(saved, c)
    BY <1>7 DEF ReadingStep, group
  <2> HIDE DEF saved
  <2>4. ~OnlyExclusion(saved) /\ ~OnlyExclusion([saved EXCEPT !.state = "INIT"])
    BY <2>2 DEF OnlyExclusion, Readings, ReadingRecords
  <2> QED
    BY <1>3, <2>2, <2>3, <2>4
<1>8. CASE reading.state = "GROUP"
  BY <1>8 DEF ReadingStep, OnlyExclusion, Readings, ReadingRecords
<1>9. CASE reading.state = "CLOSED"
  <2> DEFINE longer == [reading EXCEPT !.text = Append(@, c)]
             closed == Closed(reading)
  <2>1. longer.groups = reading.groups /\ Len(reading.text) >= 2
    BY <1>9 DEF Readings, ReadingRecords
  <2>2. Closed(longer).groups # << >> /\ closed.groups # << >>
    BY <1>2, <1>4, <2>1
  <2>3. closed \in Readings
    BY <2>1, ClosedKeeps
  <2>4. ReadingStep(reading, c) = IF IsOperator(c) THEN Closed(longer)
                                  ELSE InitStep(closed, c)
    BY <1>9 DEF ReadingStep
  <2> HIDE DEF longer, closed
  <2>5. ~OnlyExclusion(Closed(longer))
        /\ ~OnlyExclusion([closed EXCEPT !.state = "INIT"])
    BY <2>2, <2>3 DEF OnlyExclusion, Readings, ReadingRecords
  <2> QED
    BY <1>3, <2>3, <2>4, <2>5
<1> QED
  BY <1>5, <1>6, <1>7, <1>8, <1>9 DEF Readings, ReadingRecords, ReadingStates

\* What is read is a sequence of groups, and an empty one only of an
\* expression that is nothing but exclusions.
LEMMA GroupsReadTyped ==
  ASSUME Newline \in Chars, "\t" \in Chars, NEW source \in Seq(Chars),
         NEW groups \in GroupsRead(source)
  PROVE  /\ groups \in Seq(GroupRecords)
         /\ groups = << >> => \A k \in 1 .. Len(source) : source[k] = "^"
<1> DEFINE N == Len(source)
           reading == ReadingAfter(source)
           last == reading[N]
<1>1. N \in Nat /\ \A n \in 1 .. N : source[n] \in Chars
  OBVIOUS
<1>2. \A n \in 0 .. N : reading[n] \in Readings
  BY ReadingAfterType
<1>3. \A n \in 1 .. N : reading[n] = ReadingStep(reading[n - 1], source[n])
  BY ReadingAfterEach
<1>4. OnlyExclusion(last) => \A k \in 1 .. N : source[k] = "^"
  <2> HIDE DEF N, reading
  <2> DEFINE T == {m \in 0 .. N : OnlyExclusion(reading[m]) =>
                      \A k \in 1 .. m : source[k] = "^"}
  <2>1. 0 \in T
    BY <1>1
  <2>2. ASSUME NEW m \in 1 .. N, m - 1 \in T PROVE m \in T
    <3>1. m - 1 \in 0 .. N /\ reading[m - 1] \in Readings /\ source[m] \in Chars
      BY <1>1, <1>2
    <3>2. OnlyExclusion(reading[m]) => OnlyExclusion(reading[m - 1]) /\ source[m] = "^"
      BY <1>3, <3>1, NotEmptied
    <3>3. \A k \in 1 .. m : k = m \/ k \in 1 .. m - 1
      OBVIOUS
    <3> QED
      BY <2>2, <3>1, <3>2, <3>3
  <2>3. N \in T
    <3> HIDE DEF T
    <3>1. \A n \in 0 .. N : n \in T
      BY <1>1, <2>1, <2>2, BoundedInduction
    <3> QED
      BY <1>1, <3>1
  <2> QED
    BY <2>3
<1>5. last \in Readings
  BY <1>1, <1>2
<1>6. groups \in
        CASE last.state = "GROUP" ->
                {Append(last.groups, Group(chars, "NOP")) : chars \in HeapGroups}
          [] last.state = "CLOSED" -> {Closed(last).groups}
          [] last.state = "OPERATOR" -> {Append(last.groups, last.group)}
          [] last.state = "BACKSLASH" ->
                {Append(last.groups, SingleChar("\\", last.inverse))}
          [] OTHER -> {last.groups}
  BY DEF GroupsRead
<1> HIDE DEF reading, last
<1>7. /\ last.groups \in Seq(GroupRecords) /\ last.group \in GroupRecords
      /\ last.inverse \in BOOLEAN /\ last.state \in ReadingStates
  BY <1>5 DEF Readings, ReadingRecords
<1>8. ASSUME NEW group \in GroupRecords, groups = Append(last.groups, group)
      PROVE  groups \in Seq(GroupRecords) /\ groups # << >>
  BY <1>7, <1>8
<1>9. CASE last.state = "GROUP"
  <2>1. PICK chars \in HeapGroups :
          groups = Append(last.groups, Group(chars, "NOP"))
    BY <1>6, <1>9
  <2>2. Group(chars, "NOP") \in GroupRecords
    BY AlphabetAssumption, GroupIsRecord DEF Operators
  <2> QED
    BY <1>8, <2>1, <2>2
<1>10. CASE last.state = "CLOSED"
  <2>1. groups = Closed(last).groups
    BY <1>6, <1>10
  <2>2. Closed(last) \in Readings
    BY <1>5, <1>10, ClosedKeeps DEF Readings
  <2>3. \E group : Closed(last) = Saved(last, group)
    BY DEF Closed
  <2>4. groups # << >>
    BY <1>7, <2>1, <2>3 DEF Saved, NewReading
  <2> QED
    BY <2>1, <2>2, <2>4 DEF Readings, ReadingRecords
<1>11. CASE last.state = "OPERATOR"
  BY <1>6, <1>7, <1>8, <1>11
<1>12. CASE last.state = "BACKSLASH"
  <2>1. SingleChar("\\", last.inverse) \in GroupRecords
    BY <1>7, SingleCharIsRecord
  <2> QED
    BY <1>6, <1>8, <1>12, <2>1
<1>13. CASE last.state = "INIT"
  BY <1>4, <1>6, <1>7, <1>13 DEF OnlyExclusion
<1> QED
  BY <1>7, <1>9, <1>10, <1>11, <1>12, <1>13 DEF ReadingStates

-----------------------------------------------------------------------------
(* The rewriting *)

LEMMA FrontOf ==
  ASSUME NEW S, NEW s \in Seq(S), s # << >>
  PROVE  /\ Front(s) \in Seq(S) /\ Len(Front(s)) = Len(s) - 1
         /\ \A k \in 1 .. Len(s) - 1 : Front(s)[k] = s[k]
         /\ Len(s) - 1 \in Nat
<1> DEFINE n == Len(s) - 1
<1>1. n \in Nat /\ n \in Int /\ \A k \in 1 .. n : s[k] \in S
  BY EmptySeq, ElementOfSeq, LenProperties
<1>2. /\ SubSeq(s, 1, n) \in Seq(S)
      /\ Len(SubSeq(s, 1, n)) = IF 1 <= n THEN n - 1 + 1 ELSE 0
      /\ \A k \in 1 .. n - 1 + 1 : SubSeq(s, 1, n)[k] = s[1 + k - 1]
  BY <1>1, SubSeqProperties
<1>3. Front(s) = SubSeq(s, 1, n)
  BY DEF Front
<1> HIDE DEF n
<1>4. Len(SubSeq(s, 1, n)) = n /\ \A k \in 1 .. n : SubSeq(s, 1, n)[k] = s[k]
  BY <1>1, <1>2
<1> QED
  BY <1>1, <1>2, <1>3, <1>4 DEF n

LEMMA FrontThenLast ==
  ASSUME NEW S, NEW s \in Seq(S), s # << >>
  PROVE  Last(s) \in S /\ Append(Front(s), Last(s)) = s
<1>1. /\ Front(s) \in Seq(S) /\ Len(s) = Len(Front(s)) + 1
      /\ \A k \in 1 .. Len(Front(s)) : s[k] = Front(s)[k]
      /\ Len(s) \in 1 .. Len(s)
  BY FrontOf, LenProperties
<1>2. Last(s) \in S
  BY <1>1 DEF Last
<1>3. s[Len(Front(s)) + 1] = Last(s)
  BY <1>1 DEF Last
<1> QED
  BY <1>1, <1>2, <1>3, Appended

\* What Merge does, by the two cases of opti_regexp and the others.
MergedCase(groups, group, before, after) ==
  /\ groups # << >>
  /\ Last(groups).chars = group.chars /\ Last(groups).operator = before
  /\ group.operator \in after

LEMMA MergeCases ==
  ASSUME NEW groups, NEW group
  PROVE  \/ /\ MergedCase(groups, group, "ZOM", {"NOP", "OOM"})
            /\ Merge(groups, group)
                  = Append(Front(groups), Group(group.chars, "OOM"))
         \/ /\ MergedCase(groups, group, "OOM", {"NOP"})
            /\ Merge(groups, group)
                  = Append(Append(Front(groups), Group(group.chars, "NOP")),
                           Group(group.chars, "OOM"))
         \/ Merge(groups, group) = Append(groups, group)
  BY DEF Merge, MergedCase

LEMMA MergeKeeps ==
  ASSUME NEW groups \in Seq(GroupRecords), NEW group \in GroupRecords
  PROVE  Merge(groups, group) \in Seq(GroupRecords) \ {<< >>}
<1>1. /\ Group(group.chars, "OOM") \in GroupRecords
      /\ Group(group.chars, "NOP") \in GroupRecords
  BY DEF Group, GroupRecords, Operators
<1>2. groups # << >> => Front(groups) \in Seq(GroupRecords)
  BY FrontOf
<1>3. ASSUME NEW s \in Seq(GroupRecords), NEW g \in GroupRecords
      PROVE  Append(s, g) \in Seq(GroupRecords) \ {<< >>}
  BY AppendProperties
<1> QED
  BY <1>1, <1>2, <1>3, MergeCases DEF MergedCase

LEMMA MergedAfterEach ==
  ASSUME NEW groups \in Seq(GroupRecords)
  PROVE  /\ MergedAfter(groups)[0] = << >>
         /\ \A n \in 1 .. Len(groups) :
                MergedAfter(groups)[n] = Merge(MergedAfter(groups)[n - 1], groups[n])
<1> DEFINE N == Len(groups)
           Lists == Seq(GroupRecords)
           step == [s \in (1 .. N) \X Lists |-> Merge(s[2], groups[s[1]])]
           def(f) == [n \in 0 .. N |-> IF n = 0 THEN << >>
                                       ELSE Merge(f[n - 1], groups[n])]
<1>1. N \in Nat /\ \A n \in 1 .. N : groups[n] \in GroupRecords
  OBVIOUS
<1>2. step \in [(1 .. N) \X Lists -> Lists] /\ << >> \in Lists
  <2>1. \A n \in 1 .. N : \A s \in Lists : Merge(s, groups[n]) \in Lists
    BY <1>1, MergeKeeps
  <2>2. << >> \in Lists
    OBVIOUS
  <2> HIDE DEF Lists, N
  <2> QED
    BY <2>1, <2>2
<1>3. PICK f \in [0 .. N -> Lists] : Recurs(f, << >>, N, step)
  <2> HIDE DEF N, step, Lists
  <2> QED
    BY <1>1, <1>2, BoundedRecursion
<1>4. f = def(f)
  <2>1. ASSUME NEW n \in 1 .. N
        PROVE  step[<< n, f[n - 1] >>] = Merge(f[n - 1], groups[n])
    <3>1. n - 1 \in 0 .. N
      BY <1>1
    <3>2. << n, f[n - 1] >> \in (1 .. N) \X Lists
      BY <3>1
    <3> QED
      BY <3>2
  <2> HIDE DEF step
  <2>2. ASSUME NEW n \in 0 .. N PROVE f[n] = def(f)[n]
    <3>1. n = 0 \/ n \in 1 .. N
      BY <1>1
    <3> HIDE DEF N
    <3> QED
      BY <1>3, <2>1, <3>1 DEF Recurs
  <2> QED
    BY <2>2
<1> DEFINE merged == CHOOSE g : g = def(g)
<1>5. merged = def(merged)
  BY <1>4
<1>6. MergedAfter(groups) = merged
  BY DEF MergedAfter
<1> HIDE DEF merged
<1>7. merged[0] = << >>
  BY <1>1, <1>5
<1>8. ASSUME NEW n \in 1 .. N
      PROVE  merged[n] = Merge(merged[n - 1], groups[n])
  <2>1. n \in 0 .. N /\ n # 0
    BY <1>1
  <2> QED
    BY <1>5, <2>1
<1> QED
  BY <1>6, <1>7, <1>8

LEMMA MergedAfterType ==
  ASSUME NEW groups \in Seq(GroupRecords)
  PROVE  \A n \in 0 .. Len(groups) :
            /\ MergedAfter(groups)[n] \in Seq(GroupRecords)
            /\ n # 0 => MergedAfter(groups)[n] # << >>
<1> DEFINE merged == MergedAfter(groups)
           Good(n) == /\ merged[n] \in Seq(GroupRecords)
                      /\ n # 0 => merged[n] # << >>
           T == {n \in 0 .. Len(groups) : Good(n)}
<1>1. Len(groups) \in Nat /\ \A n \in 1 .. Len(groups) : groups[n] \in GroupRecords
  OBVIOUS
<1>2. merged[0] = << >> /\ << >> \in Seq(GroupRecords)
  BY MergedAfterEach
<1>3. ASSUME NEW n \in 1 .. Len(groups)
      PROVE  merged[n] = Merge(merged[n - 1], groups[n])
  BY MergedAfterEach
<1> HIDE DEF merged
<1>4. 0 \in T
  <2>1. Good(0)
    BY <1>2
  <2> HIDE DEF Good
  <2> QED
    BY <1>1, <2>1
<1>5. ASSUME NEW n \in 1 .. Len(groups), n - 1 \in T PROVE n \in T
  <2>1. merged[n - 1] \in Seq(GroupRecords) /\ groups[n] \in GroupRecords
    BY <1>1, <1>5
  <2>2. Good(n)
    BY <1>3, <2>1, MergeKeeps
  <2> HIDE DEF Good
  <2> QED
    BY <1>1, <2>2
<1> HIDE DEF T
<1>6. \A n \in 0 .. Len(groups) : n \in T
  BY <1>1, <1>4, <1>5, BoundedInduction
<1> QED
  BY <1>6 DEF T, merged

\* An expression stays an expression, and does not vanish.
LEMMA OptimisedKeeps ==
  ASSUME NEW groups \in Seq(GroupRecords)
  PROVE  /\ Optimised(groups) \in Seq(GroupRecords)
         /\ groups # << >> => Optimised(groups) # << >>
<1>1. /\ Len(groups) \in 0 .. Len(groups)
      /\ groups # << >> => Len(groups) # 0
  BY EmptySeq, LenProperties
<1> QED
  BY <1>1, MergedAfterType DEF Optimised

-----------------------------------------------------------------------------
(* The language of a sequence of groups *)

LEMMA EndsAre ==
  ASSUME NEW group \in GroupRecords, NEW text, NEW p
  PROVE  /\ group.operator = "ZOM" => Ends(group, text, p) = RunFrom(group, text, p)
         /\ group.operator = "OOM" =>
                Ends(group, text, p) = RunFrom(group, text, p) \ {p}
         /\ group.operator = "ZOO" =>
                Ends(group, text, p) = RunFrom(group, text, p) \cap {p, p + 1}
         /\ group.operator = "NOP" =>
                Ends(group, text, p) = RunFrom(group, text, p) \cap {p + 1}
         /\ group.operator \in Operators
  BY DEF Ends, GroupRecords, Operators

LEMMA EndsInText ==
  ASSUME NEW group \in GroupRecords, NEW text, Len(text) \in Nat, NEW p \in Nat
  PROVE  /\ Ends(group, text, p) \subseteq RunFrom(group, text, p)
         /\ RunFrom(group, text, p) \subseteq p .. Len(text) + 1
         /\ Ends(group, text, p) \in SUBSET Nat
<1>1. Ends(group, text, p) \subseteq RunFrom(group, text, p)
  BY EndsAre DEF Operators
<1>2. RunFrom(group, text, p) \subseteq p .. Len(text) + 1
  BY DEF RunFrom
<1> QED
  BY <1>1, <1>2

\* The places after group, from any of places.
Through(group, text, places) == UNION {Ends(group, text, p) : p \in places}

LEMMA ThroughPlaces ==
  ASSUME NEW group \in GroupRecords, NEW text, Len(text) \in Nat,
         NEW places \in SUBSET Nat
  PROVE  Through(group, text, places) \in SUBSET Nat
  BY EndsInText DEF Through

LEMMA PlacesAfterEach ==
  ASSUME NEW groups \in Seq(GroupRecords), NEW text, Len(text) \in Nat,
         NEW from \in Nat
  PROVE  /\ PlacesAfter(groups, text, from)[0] = {from}
         /\ \A n \in 1 .. Len(groups) :
                PlacesAfter(groups, text, from)[n]
                    = Through(groups[n], text, PlacesAfter(groups, text, from)[n - 1])
<1> DEFINE N == Len(groups)
           Sets == SUBSET Nat
           step == [s \in (1 .. N) \X Sets |-> Through(groups[s[1]], text, s[2])]
           def(f) == [n \in 0 .. N |-> IF n = 0 THEN {from}
                        ELSE UNION {Ends(groups[n], text, p) : p \in f[n - 1]}]
<1>1. N \in Nat /\ \A n \in 1 .. N : groups[n] \in GroupRecords
  OBVIOUS
<1>2. step \in [(1 .. N) \X Sets -> Sets] /\ {from} \in Sets
  <2>1. \A n \in 1 .. N : \A s \in Sets : Through(groups[n], text, s) \in Sets
    BY <1>1, ThroughPlaces
  <2>2. {from} \in Sets
    OBVIOUS
  <2> HIDE DEF Sets, N
  <2> QED
    BY <2>1, <2>2
<1>3. PICK f \in [0 .. N -> Sets] : Recurs(f, {from}, N, step)
  <2> HIDE DEF N, step, Sets
  <2> QED
    BY <1>1, <1>2, BoundedRecursion
<1>4. f = def(f)
  <2>1. ASSUME NEW n \in 1 .. N
        PROVE  step[<< n, f[n - 1] >>]
                  = UNION {Ends(groups[n], text, p) : p \in f[n - 1]}
    <3>1. n - 1 \in 0 .. N
      BY <1>1
    <3>2. << n, f[n - 1] >> \in (1 .. N) \X Sets
      BY <3>1
    <3>3. step[<< n, f[n - 1] >>] = Through(groups[n], text, f[n - 1])
      BY <3>2
    <3> QED
      BY <3>3 DEF Through
  <2> HIDE DEF step
  <2>2. ASSUME NEW n \in 0 .. N PROVE f[n] = def(f)[n]
    <3>1. n = 0 \/ n \in 1 .. N
      BY <1>1
    <3> HIDE DEF N
    <3> QED
      BY <1>3, <2>1, <3>1 DEF Recurs
  <2> QED
    BY <2>2
<1> DEFINE places == CHOOSE g : g = def(g)
<1>5. places = def(places)
  BY <1>4
<1>6. PlacesAfter(groups, text, from) = places
  BY DEF PlacesAfter
<1> HIDE DEF places
<1>7. places[0] = {from}
  BY <1>1, <1>5
<1>8. ASSUME NEW n \in 1 .. N
      PROVE  places[n] = Through(groups[n], text, places[n - 1])
  <2>1. n \in 0 .. N /\ n # 0
    BY <1>1
  <2>2. places[n] = UNION {Ends(groups[n], text, p) : p \in places[n - 1]}
    BY <1>5, <2>1
  <2> QED
    BY <2>2 DEF Through
<1> QED
  BY <1>6, <1>7, <1>8

LEMMA PlacesAfterType ==
  ASSUME NEW groups \in Seq(GroupRecords), NEW text, Len(text) \in Nat,
         NEW from \in Nat
  PROVE  \A n \in 0 .. Len(groups) :
            PlacesAfter(groups, text, from)[n] \in SUBSET Nat
<1> DEFINE places == PlacesAfter(groups, text, from)
           T == {n \in 0 .. Len(groups) : places[n] \in SUBSET Nat}
<1>1. Len(groups) \in Nat /\ \A n \in 1 .. Len(groups) : groups[n] \in GroupRecords
  OBVIOUS
<1>2. places[0] = {from}
  BY PlacesAfterEach
<1>3. ASSUME NEW n \in 1 .. Len(groups)
      PROVE  places[n] = Through(groups[n], text, places[n - 1])
  BY PlacesAfterEach
<1> HIDE DEF places
<1>4. 0 \in T
  BY <1>1, <1>2
<1>5. ASSUME NEW n \in 1 .. Len(groups), n - 1 \in T PROVE n \in T
  <2>1. places[n - 1] \in SUBSET Nat /\ groups[n] \in GroupRecords
    BY <1>1, <1>5
  <2>2. places[n] \in SUBSET Nat
    BY <1>3, <2>1, ThroughPlaces
  <2> QED
    BY <1>1, <2>2
<1> HIDE DEF T
<1>6. \A n \in 0 .. Len(groups) : n \in T
  BY <1>1, <1>4, <1>5, BoundedInduction
<1> QED
  BY <1>6 DEF T, places

LEMMA ReachedEmpty ==
  ASSUME NEW text, Len(text) \in Nat, NEW from \in Nat
  PROVE  Reached(<< >>, text, from) = {from}
<1> DEFINE none == << >>
<1>1. none \in Seq(GroupRecords)
  OBVIOUS
<1>2. Len(none) = 0
  OBVIOUS
<1> HIDE DEF none
<1>3. PlacesAfter(none, text, from)[0] = {from}
  BY <1>1, PlacesAfterEach, Zenon
<1>4. Reached(none, text, from) = {from}
  BY <1>2, <1>3, Zenon DEF Reached
<1> QED
  BY <1>4 DEF none

LEMMA ReachedPlaces ==
  ASSUME NEW groups \in Seq(GroupRecords), NEW text, Len(text) \in Nat,
         NEW from \in Nat
  PROVE  Reached(groups, text, from) \in SUBSET Nat
<1>1. Len(groups) \in 0 .. Len(groups)
  BY LenProperties
<1> QED
  BY <1>1, PlacesAfterType DEF Reached

\* groups are the first of more.
Begins(groups, more) ==
    /\ Len(groups) <= Len(more)
    /\ \A n \in 1 .. Len(groups) : more[n] = groups[n]

\* What comes later leaves the places before it as they were.
LEMMA PlacesOfPrefix ==
  ASSUME NEW groups \in Seq(GroupRecords), NEW more \in Seq(GroupRecords),
         Begins(groups, more),
         NEW text, Len(text) \in Nat, NEW from \in Nat
  PROVE  PlacesAfter(more, text, from)[Len(groups)] = Reached(groups, text, from)
<1> DEFINE before == PlacesAfter(groups, text, from)
           after == PlacesAfter(more, text, from)
           N == Len(groups)
           T == {n \in 0 .. N : after[n] = before[n]}
<1>1. /\ N \in Nat /\ Len(more) \in Nat /\ N <= Len(more)
      /\ \A n \in 1 .. N : more[n] = groups[n]
  BY LenProperties DEF Begins
<1>2. /\ before[0] = {from}
      /\ \A n \in 1 .. N : before[n] = Through(groups[n], text, before[n - 1])
  BY PlacesAfterEach
<1>3. /\ after[0] = {from}
      /\ \A n \in 1 .. N : after[n] = Through(more[n], text, after[n - 1])
  <2>1. /\ after[0] = {from}
        /\ \A n \in 1 .. Len(more) : after[n] = Through(more[n], text, after[n - 1])
    BY PlacesAfterEach
  <2> QED
    BY <1>1, <2>1
<1>4. Reached(groups, text, from) = before[N]
  BY DEF Reached
<1> HIDE DEF before, after, N
<1>5. 0 \in T
  <2>1. after[0] = before[0]
    BY <1>2, <1>3, Zenon
  <2>2. 0 \in 0 .. N
    BY <1>1
  <2> QED
    BY <2>1, <2>2
<1>6. ASSUME NEW n \in 1 .. N, n - 1 \in T PROVE n \in T
  <2>1. n \in 0 .. N /\ more[n] = groups[n]
    BY <1>1
  <2> QED
    BY <1>2, <1>3, <1>6, <2>1
<1> HIDE DEF T
<1>7. \A n \in 0 .. N : n \in T
  BY <1>1, <1>5, <1>6, BoundedInduction
<1>8. after[N] = before[N]
  BY <1>1, <1>7 DEF T
<1> QED
  BY <1>4, <1>8 DEF after, N

LEMMA PlacesBefore ==
  ASSUME NEW groups \in Seq(GroupRecords), NEW group \in GroupRecords,
         NEW text, Len(text) \in Nat, NEW from \in Nat
  PROVE  /\ Append(groups, group) \in Seq(GroupRecords)
         /\ Len(Append(groups, group)) = Len(groups) + 1
         /\ Append(groups, group)[Len(groups) + 1] = group
         /\ PlacesAfter(Append(groups, group), text, from)[Len(groups)]
                = Reached(groups, text, from)
<1> DEFINE more == Append(groups, group)
<1>1. /\ more \in Seq(GroupRecords) /\ Len(more) = Len(groups) + 1
      /\ Len(groups) \in Nat /\ more[Len(groups) + 1] = group
      /\ \A n \in 1 .. Len(groups) : more[n] = groups[n]
  BY AppendProperties, LenProperties
<1> HIDE DEF more
<1>2. Begins(groups, more)
  BY <1>1 DEF Begins
<1>3. PlacesAfter(more, text, from)[Len(groups)] = Reached(groups, text, from)
  BY <1>1, <1>2, PlacesOfPrefix
<1> QED
  BY <1>1, <1>3 DEF more

Follow(groups, text, from) ==
    LET places == PlacesAfter(groups, text, from)
    IN  \A n \in 1 .. Len(groups) :
            places[n] = Through(groups[n], text, places[n - 1])

LEMMA PlacesFollow ==
  ASSUME NEW groups \in Seq(GroupRecords), NEW text, Len(text) \in Nat,
         NEW from \in Nat
  PROVE  Follow(groups, text, from)
BY PlacesAfterEach DEF Follow

\* one2 is one, other2 is other, with the same m groups behind.
SameTail(one, one2, other, other2, m) ==
    /\ Begins(one, one2) /\ Begins(other, other2)
    /\ Len(one2) = Len(one) + m /\ Len(other2) = Len(other) + m
    /\ \A k \in 1 .. m : one2[Len(one) + k] = other2[Len(other) + k]

\* Expressions with the same words have the same words with the same groups
\* behind them.
LEMMA SameBehind ==
  ASSUME NEW one \in Seq(GroupRecords), NEW other \in Seq(GroupRecords),
         NEW one2 \in Seq(GroupRecords), NEW other2 \in Seq(GroupRecords),
         NEW m \in Nat, SameTail(one, one2, other, other2, m),
         NEW text, Len(text) \in Nat, NEW from \in Nat,
         Reached(one, text, from) = Reached(other, text, from)
  PROVE  Reached(one2, text, from) = Reached(other2, text, from)
<1> DEFINE A == Len(one)
           B == Len(other)
           a == PlacesAfter(one2, text, from)
           b == PlacesAfter(other2, text, from)
           T == {k \in 0 .. m : a[A + k] = b[B + k]}
<1>1. /\ A \in Nat /\ B \in Nat
      /\ Len(one2) = A + m /\ Len(other2) = B + m
      /\ \A k \in 1 .. m : one2[A + k] = other2[B + k]
  BY LenProperties DEF SameTail
<1>2. a[A] = b[B]
  <2>1. a[A] = Reached(one, text, from)
    BY PlacesOfPrefix DEF SameTail
  <2>2. b[B] = Reached(other, text, from)
    BY PlacesOfPrefix DEF SameTail
  <2> QED
    BY <2>1, <2>2
<1>3. \A n \in 1 .. Len(one2) : a[n] = Through(one2[n], text, a[n - 1])
  <2>1. Follow(one2, text, from)
    BY PlacesFollow
  <2> QED
    BY <2>1 DEF Follow
<1>4. \A n \in 1 .. Len(other2) : b[n] = Through(other2[n], text, b[n - 1])
  <2>1. Follow(other2, text, from)
    BY PlacesFollow
  <2> QED
    BY <2>1 DEF Follow
<1>5. /\ Reached(one2, text, from) = a[A + m]
      /\ Reached(other2, text, from) = b[B + m]
  BY <1>1 DEF Reached
<1> HIDE DEF a, b, A, B
<1>6. 0 \in T
  <2>1. A + 0 = A /\ B + 0 = B /\ 0 \in 0 .. m
    BY <1>1
  <2> QED
    BY <1>2, <2>1
<1>7. ASSUME NEW k \in 1 .. m, k - 1 \in T PROVE k \in T
  <2> \A N \in Nat : N + k \in 1 .. N + m /\ (N + k) - 1 = N + (k - 1)
    OBVIOUS
  <2>1. /\ k \in 0 .. m /\ A + k \in 1 .. Len(one2) /\ B + k \in 1 .. Len(other2)
        /\ (A + k) - 1 = A + (k - 1) /\ (B + k) - 1 = B + (k - 1)
    BY <1>1
  <2> one2[A + k] = other2[B + k]
    BY <1>1
  <2>2. a[A + (k - 1)] = b[B + (k - 1)]
    BY <1>7
  <2>3. /\ a[A + k] = Through(one2[A + k], text, a[A + (k - 1)])
        /\ b[B + k] = Through(other2[B + k], text, b[B + (k - 1)])
    BY <1>3, <1>4, <2>1
  <2> QED
    BY <2>1, <2>2, <2>3
<1> HIDE DEF T
<1>8. \A k \in 0 .. m : k \in T
  BY <1>6, <1>7, BoundedInduction
<1> QED
  BY <1>5, <1>8 DEF T

LEMMA ReachedAppend ==
  ASSUME NEW groups \in Seq(GroupRecords), NEW group \in GroupRecords,
         NEW text, Len(text) \in Nat, NEW from \in Nat
  PROVE  Reached(Append(groups, group), text, from)
            = Through(group, text, Reached(groups, text, from))
<1> DEFINE more == Append(groups, group)
           after == PlacesAfter(more, text, from)
           N == Len(groups)
<1>1. /\ more \in Seq(GroupRecords) /\ Len(more) = N + 1 /\ N \in Nat
      /\ more[N + 1] = group /\ after[N] = Reached(groups, text, from)
  BY PlacesBefore, LenProperties
<1>2. more \in Seq(GroupRecords)
  BY <1>1
<1> HIDE DEF more
<1>3. /\ after[0] = {from}
      /\ \A n \in 1 .. Len(more) : after[n] = Through(more[n], text, after[n - 1])
  BY <1>2, PlacesAfterEach
<1>4. Reached(more, text, from) = after[N + 1]
  BY <1>1 DEF Reached
<1> HIDE DEF after, N
<1>5. N + 1 \in 1 .. Len(more) /\ (N + 1) - 1 = N
  BY <1>1
<1>6. Reached(more, text, from) = Through(group, text, Reached(groups, text, from))
  BY <1>1, <1>3, <1>4, <1>5
<1> QED
  BY <1>6 DEF more

\* The places before the last group.
LEMMA PlacesBeforeLast ==
  ASSUME NEW groups \in Seq(GroupRecords), groups # << >>,
         NEW text, Len(text) \in Nat, NEW from \in Nat
  PROVE  PlacesAfter(groups, text, from)[Len(groups) - 1]
            = Reached(Front(groups), text, from)
<1> DEFINE front == Front(groups)
           last == Last(groups)
<1>1. front \in Seq(GroupRecords) /\ Len(front) = Len(groups) - 1
  BY FrontOf
<1>2. last \in GroupRecords
  BY FrontThenLast
<1>3. Append(front, last) = groups
  BY FrontThenLast
<1> HIDE DEF front, last
<1>4. PlacesAfter(Append(front, last), text, from)[Len(front)]
        = Reached(front, text, from)
  BY <1>1, <1>2, PlacesBefore
<1> QED
  BY <1>1, <1>3, <1>4 DEF front

LEMMA RunSplits ==
  ASSUME NEW group, NEW text, Len(text) \in Nat, NEW p \in Nat, NEW q \in Nat,
         NEW r \in Nat, p <= q, q <= r
  PROVE  r \in RunFrom(group, text, p)
            <=> q \in RunFrom(group, text, p) /\ r \in RunFrom(group, text, q)
<1>1. \A k \in p .. r - 1 : k \in p .. q - 1 \/ k \in q .. r - 1
  OBVIOUS
<1>2. \A k \in p .. q - 1 : k \in p .. r - 1
  OBVIOUS
<1>3. \A k \in q .. r - 1 : k \in p .. r - 1
  OBVIOUS
<1> QED
  BY <1>1, <1>2, <1>3 DEF RunFrom

LEMMA RunByChars ==
  ASSUME NEW a, NEW b, a.chars = b.chars, NEW text, NEW p
  PROVE  RunFrom(a, text, p) = RunFrom(b, text, p)
  BY DEF RunFrom, In

\* a*a and a*a+ are a+, and a+a is aa+, from any place.
LEMMA TwoRuns ==
  ASSUME NEW chars \in SUBSET Chars, NEW text, Len(text) \in Nat,
         NEW places \in SUBSET Nat
  PROVE  LET after(first, next) ==
                Through(Group(chars, next), text,
                        Through(Group(chars, first), text, places))
         IN  /\ after("ZOM", "NOP") = Through(Group(chars, "OOM"), text, places)
             /\ after("ZOM", "OOM") = Through(Group(chars, "OOM"), text, places)
             /\ after("OOM", "NOP") = after("NOP", "OOM")
<1> DEFINE Run(p) == RunFrom(Group(chars, "NOP"), text, p)
<1>1. ASSUME NEW p
      PROVE  /\ Ends(Group(chars, "ZOM"), text, p) = Run(p)
             /\ Ends(Group(chars, "OOM"), text, p) = Run(p) \ {p}
             /\ Ends(Group(chars, "NOP"), text, p) = Run(p) \cap {p + 1}
  <2>1. ASSUME NEW operator \in Operators
        PROVE  /\ Group(chars, operator) \in GroupRecords
               /\ Group(chars, operator).operator = operator
               /\ RunFrom(Group(chars, operator), text, p) = Run(p)
    <3>1. Group(chars, operator).chars = Group(chars, "NOP").chars
      BY DEF Group
    <3>2. Group(chars, operator).operator = operator
      BY DEF Group
    <3>3. RunFrom(Group(chars, operator), text, p) = Run(p)
      BY <3>1, RunByChars
    <3> QED
      BY <3>2, <3>3, GroupIsRecord
  <2>2. {"ZOM", "OOM", "NOP"} \subseteq Operators
    BY DEF Operators
  <2> HIDE DEF Run
  <2> QED
    BY <2>1, <2>2, EndsAre
<1>2. ASSUME NEW p \in Nat, NEW q \in Nat, NEW r \in Nat, p <= q, q <= r
      PROVE  r \in Run(p) <=> q \in Run(p) /\ r \in Run(q)
  BY <1>2, RunSplits
<1>3. ASSUME NEW p \in Nat
      PROVE  \A q \in Run(p) : q \in Nat /\ p <= q
  BY <1>3 DEF RunFrom
<1> HIDE DEF Run
<1>4. ASSUME NEW p \in Nat, NEW r
      PROVE  (r \in Run(p) \ {p}) <=> \E q \in Run(p) : r \in Run(q) \cap {q + 1}
  <2>1. ASSUME r \in Run(p) \ {p}
        PROVE  \E q \in Run(p) : r \in Run(q) \cap {q + 1}
    <3>1. r \in Nat /\ p <= r - 1 /\ r - 1 <= r /\ r - 1 \in Nat
      BY <1>3, <2>1
    <3>2. r - 1 \in Run(p) /\ r \in Run(r - 1)
      BY <1>2, <2>1, <3>1
    <3>3. r = (r - 1) + 1
      BY <3>1
    <3> QED
      BY <3>2, <3>3
  <2>2. ASSUME NEW q \in Run(p), r \in Run(q) \cap {q + 1}
        PROVE  r \in Run(p) \ {p}
    <3>1. q \in Nat /\ p <= q /\ r \in Nat /\ q <= r /\ r # p
      BY <1>3, <2>2
    <3> QED
      BY <1>2, <2>2, <3>1
  <2> QED
    BY <2>1, <2>2
<1>5. ASSUME NEW p \in Nat, NEW r
      PROVE  (r \in Run(p) \ {p}) <=> \E q \in Run(p) : r \in Run(q) \ {q}
  <2>1. ASSUME r \in Run(p) \ {p}
        PROVE  \E q \in Run(p) : r \in Run(q) \ {q}
    <3>1. r \in Nat /\ p <= r
      BY <1>3, <2>1
    <3>2. p \in Run(p)
      BY <1>2, <2>1, <3>1
    <3> QED
      BY <2>1, <3>2
  <2>2. ASSUME NEW q \in Run(p), r \in Run(q) \ {q}
        PROVE  r \in Run(p) \ {p}
    <3>1. q \in Nat /\ p <= q /\ r \in Nat /\ q <= r /\ r # p
      BY <1>3, <2>2
    <3> QED
      BY <1>2, <2>2, <3>1
  <2> QED
    BY <2>1, <2>2
<1>6. ASSUME NEW p \in Nat, NEW r
      PROVE  (\E q \in Run(p) \ {p} : r \in Run(q) \cap {q + 1})
                <=> \E q \in Run(p) \cap {p + 1} : r \in Run(q) \ {q}
  <2>1. ASSUME NEW q \in Run(p) \ {p}, r \in Run(q) \cap {q + 1}
        PROVE  \E x \in Run(p) \cap {p + 1} : r \in Run(x) \ {x}
    <3>1. q \in Nat /\ p + 1 <= q /\ r \in Nat /\ q <= r /\ r # p + 1
      BY <1>3, <2>1
    <3>2. p + 1 \in Run(p) /\ q \in Run(p + 1)
      BY <1>2, <2>1, <3>1
    <3>3. r \in Run(p + 1)
      BY <1>2, <2>1, <3>1, <3>2
    <3> QED
      BY <3>1, <3>2, <3>3
  <2>2. ASSUME NEW x \in Run(p) \cap {p + 1}, r \in Run(x) \ {x}
        PROVE  \E q \in Run(p) \ {p} : r \in Run(q) \cap {q + 1}
    <3>1. x = p + 1 /\ r \in Nat /\ p + 1 <= r /\ r # p + 1
      BY <1>3, <2>2
    <3> DEFINE q == r - 1
    <3>2. q \in Nat /\ p + 1 <= q /\ q <= r /\ r = q + 1 /\ q # p
      BY <3>1
    <3> HIDE DEF q
    <3>3. q \in Run(p + 1) /\ r \in Run(q)
      BY <1>2, <2>2, <3>1, <3>2
    <3>4. q \in Run(p)
      BY <1>2, <2>2, <3>1, <3>2, <3>3
    <3> QED
      BY <3>2, <3>3, <3>4
  <2> QED
    BY <2>1, <2>2
<1>7. \A r : \A first, next \in GroupRecords :
        r \in Through(next, text, Through(first, text, places))
          <=> \E p \in places : \E q \in Ends(first, text, p) : r \in Ends(next, text, q)
  BY DEF Through
<1>8. ASSUME NEW operator \in {"ZOM", "OOM", "NOP"}
      PROVE  Group(chars, operator) \in GroupRecords
  BY GroupIsRecord DEF Operators
<1>9. ASSUME NEW r, NEW first \in {"ZOM", "OOM", "NOP"},
             NEW next \in {"ZOM", "OOM", "NOP"}
      PROVE  r \in Through(Group(chars, next), text,
                           Through(Group(chars, first), text, places))
               <=> \E p \in places : \E q \in Ends(Group(chars, first), text, p) :
                      r \in Ends(Group(chars, next), text, q)
  BY <1>7, <1>8
<1>10. \A r : r \in Through(Group(chars, "OOM"), text, places)
                <=> \E p \in places : r \in Run(p) \ {p}
  BY <1>1 DEF Through
<1>11. \A r : r \in Through(Group(chars, "NOP"), text,
                            Through(Group(chars, "ZOM"), text, places))
                <=> \E p \in places : r \in Run(p) \ {p}
  BY <1>1, <1>4, <1>9
<1>12. \A r : r \in Through(Group(chars, "OOM"), text,
                            Through(Group(chars, "ZOM"), text, places))
                <=> \E p \in places : r \in Run(p) \ {p}
  BY <1>1, <1>5, <1>9
<1>13. \A r : r \in Through(Group(chars, "NOP"), text,
                            Through(Group(chars, "OOM"), text, places))
                <=> r \in Through(Group(chars, "OOM"), text,
                                  Through(Group(chars, "NOP"), text, places))
  <2> TAKE r
  <2>1. r \in Through(Group(chars, "NOP"), text,
                     Through(Group(chars, "OOM"), text, places))
          <=> \E p \in places : \E q \in Run(p) \ {p} : r \in Run(q) \cap {q + 1}
    BY <1>1, <1>9
  <2>2. r \in Through(Group(chars, "OOM"), text,
                     Through(Group(chars, "NOP"), text, places))
          <=> \E p \in places : \E q \in Run(p) \cap {p + 1} : r \in Run(q) \ {q}
    BY <1>1, <1>9
  <2> QED
    BY <1>6, <2>1, <2>2
<1> QED
  BY <1>10, <1>11, <1>12, <1>13

\* One turn of opti_regexp.
LEMMA MergeReaches ==
  ASSUME NEW groups \in Seq(GroupRecords), NEW group \in GroupRecords,
         NEW text, Len(text) \in Nat, NEW from \in Nat
  PROVE  Reached(Merge(groups, group), text, from)
            = Reached(Append(groups, group), text, from)
<1> DEFINE chars == group.chars
           reach(s) == Reached(s, text, from)
           through(operator, places) == Through(Group(chars, operator), text, places)
<1>1. chars \in SUBSET Chars /\ group.operator \in Operators
  BY DEF GroupRecords
<1>2. ASSUME NEW s \in Seq(GroupRecords), NEW operator \in Operators
      PROVE  /\ Append(s, Group(chars, operator)) \in Seq(GroupRecords)
             /\ reach(Append(s, Group(chars, operator))) = through(operator, reach(s))
  <2>1. Group(chars, operator) \in GroupRecords
    BY <1>1, GroupIsRecord
  <2> QED
    BY <2>1, ReachedAppend, AppendProperties
<1>3. ASSUME NEW g \in GroupRecords, g.chars = chars
      PROVE  g = Group(chars, g.operator)
  BY <1>3 DEF GroupRecords, Group
<1>4. ASSUME NEW before, NEW after \in SUBSET Operators,
             MergedCase(groups, group, before, after)
      PROVE  /\ Front(groups) \in Seq(GroupRecords)
             /\ reach(Front(groups)) \in SUBSET Nat
             /\ before \in Operators /\ group.operator \in after
             /\ reach(Append(groups, group))
                  = through(group.operator, through(before, reach(Front(groups))))
  <2>1. /\ groups # << >> /\ Last(groups).chars = chars
        /\ Last(groups).operator = before /\ group.operator \in after
    BY <1>4 DEF MergedCase
  <2>2. /\ Front(groups) \in Seq(GroupRecords) /\ Last(groups) \in GroupRecords
        /\ Append(Front(groups), Last(groups)) = groups
    BY <2>1, FrontOf, FrontThenLast
  <2>3. Last(groups) = Group(chars, before) /\ group = Group(chars, group.operator)
    BY <1>3, <2>1, <2>2
  <2>4. before \in Operators
    BY <2>1, <2>2 DEF GroupRecords
  <2>5. reach(groups) = through(before, reach(Front(groups)))
    BY <1>2, <2>2, <2>3, <2>4
  <2>6. reach(Append(groups, group)) = through(group.operator, reach(groups))
    BY <1>1, <1>2, <2>3
  <2> QED
    BY <2>1, <2>2, <2>4, <2>5, <2>6, ReachedPlaces
<1>5. {"ZOM", "OOM", "NOP"} \subseteq Operators
  BY DEF Operators
<1>6. CASE /\ MergedCase(groups, group, "ZOM", {"NOP", "OOM"})
           /\ Merge(groups, group)
                = Append(Front(groups), Group(group.chars, "OOM"))
  <2> DEFINE front == Front(groups)
  <2>1. /\ front \in Seq(GroupRecords) /\ reach(front) \in SUBSET Nat
        /\ group.operator \in {"NOP", "OOM"}
        /\ reach(Append(groups, group))
             = through(group.operator, through("ZOM", reach(front)))
    BY <1>4, <1>5, <1>6
  <2>2. reach(Merge(groups, group)) = through("OOM", reach(front))
    BY <1>2, <1>5, <1>6, <2>1
  <2>3. /\ through("NOP", through("ZOM", reach(front))) = through("OOM", reach(front))
        /\ through("OOM", through("ZOM", reach(front))) = through("OOM", reach(front))
    BY <1>1, <2>1, TwoRuns
  <2> QED
    BY <2>1, <2>2, <2>3
<1>7. CASE /\ MergedCase(groups, group, "OOM", {"NOP"})
           /\ Merge(groups, group)
                = Append(Append(Front(groups), Group(group.chars, "NOP")),
                         Group(group.chars, "OOM"))
  <2> DEFINE front == Front(groups)
  <2>1. /\ front \in Seq(GroupRecords) /\ reach(front) \in SUBSET Nat
        /\ group.operator \in {"NOP"}
        /\ reach(Append(groups, group))
             = through(group.operator, through("OOM", reach(front)))
    BY <1>4, <1>5, <1>7
  <2>2. reach(Merge(groups, group)) = through("OOM", through("NOP", reach(front)))
    BY <1>2, <1>5, <1>7, <2>1
  <2>3. through("NOP", through("OOM", reach(front)))
          = through("OOM", through("NOP", reach(front)))
    BY <1>1, <2>1, TwoRuns
  <2> QED
    BY <2>1, <2>2, <2>3
<1> QED
  BY <1>6, <1>7, MergeCases

\* opti_regexp rewrites an expression without changing what it accepts, of
\* whatever text and from whatever place (regexp.c:35-77).
THEOREM OptimisedReaches ==
  ASSUME NEW groups \in Seq(GroupRecords), NEW text, Len(text) \in Nat,
         NEW from \in Nat
  PROVE  Reached(Optimised(groups), text, from) = Reached(groups, text, from)
<1> DEFINE N == Len(groups)
           merged == MergedAfter(groups)
           places == PlacesAfter(groups, text, from)
           T == {n \in 0 .. N : Reached(merged[n], text, from) = places[n]}
<1>1. N \in Nat /\ \A n \in 1 .. N : groups[n] \in GroupRecords
  OBVIOUS
<1>2. /\ merged[0] = << >>
      /\ \A n \in 1 .. N : merged[n] = Merge(merged[n - 1], groups[n])
  BY MergedAfterEach
<1>3. \A n \in 0 .. N : merged[n] \in Seq(GroupRecords)
  BY MergedAfterType
<1>4. places[0] = {from}
  BY PlacesAfterEach
<1>5. \A n \in 1 .. N : places[n] = Through(groups[n], text, places[n - 1])
  BY PlacesAfterEach
<1> HIDE DEF merged, places
<1>6. 0 \in T
  <2>1. Reached(merged[0], text, from) = places[0]
    BY <1>2, <1>4, ReachedEmpty
  <2> QED
    BY <1>1, <2>1
<1>7. ASSUME NEW n \in 1 .. N, n - 1 \in T PROVE n \in T
  <2>1. /\ merged[n - 1] \in Seq(GroupRecords) /\ groups[n] \in GroupRecords
        /\ Reached(merged[n - 1], text, from) = places[n - 1]
    BY <1>1, <1>3, <1>7
  <2>2. Reached(merged[n], text, from)
          = Reached(Append(merged[n - 1], groups[n]), text, from)
    BY <1>2, <2>1, MergeReaches
  <2>3. Reached(Append(merged[n - 1], groups[n]), text, from)
          = Through(groups[n], text, places[n - 1])
    BY <2>1, ReachedAppend
  <2>4. Reached(merged[n], text, from) = places[n]
    BY <1>5, <2>2, <2>3
  <2> QED
    BY <1>1, <2>4
<1>8. Reached(merged[N], text, from) = places[N]
  <2> HIDE DEF T
  <2>1. \A n \in 0 .. N : n \in T
    BY <1>1, <1>6, <1>7, BoundedInduction
  <2> QED
    BY <1>1, <2>1 DEF T
<1> QED
  BY <1>8 DEF Optimised, Reached, merged, places

-----------------------------------------------------------------------------
(* A matcher that never goes back: where it leaves each group, and why no   *)
(* word is lost where an expression is determinate.                         *)

\* No group that may follow the n-th takes the character at p.
Stuck(groups, text, n, p) ==
  /\ p <= Len(text)
  /\ \A j \in n + 1 .. Len(groups) :
        (\A k \in n + 1 .. j - 1 : groups[k].operator \in {"ZOM", "ZOO"})
          => ~In(groups[j], text[p])

\* m is a place after the n-th group, and no word goes on from another one.
Leads(groups, text, from, n, m) ==
  /\ m \in PlacesAfter(groups, text, from)[n]
  /\ Determinate(groups) =>
        \A p \in PlacesAfter(groups, text, from)[n] :
            p = m \/ (p < m /\ Stuck(groups, text, n, p))

\* There, the text does not go on in group.
Outside(group, text, p) == p > Len(text) \/ ~In(group, text[p])

\* q is where a matcher that takes all it can leaves group from m.
Passed(group, text, m, q) ==
  /\ q \in Ends(group, text, m)
  /\ group.operator \in {"ZOM", "OOM"} => Outside(group, text, q)
  /\ group.operator = "ZOO" /\ q = m => Outside(group, text, q)

\* The first step of a run.
LEMMA RunHead ==
  ASSUME NEW group, NEW text, Len(text) \in Nat, NEW p \in Nat,
         NEW q \in RunFrom(group, text, p), q # p
  PROVE  ~Outside(group, text, p)
<1>1. /\ q \in Nat /\ p < q /\ q <= Len(text) + 1
      /\ \A k \in p .. q - 1 : In(group, text[k])
  BY DEF RunFrom
<1>2. p \in p .. q - 1
  BY <1>1
<1> QED
  BY <1>1, <1>2 DEF Outside

LEMMA StuckEnds ==
  ASSUME NEW groups \in Seq(GroupRecords), NEW text, Len(text) \in Nat,
         NEW n \in Nat, n < Len(groups), NEW p \in Nat,
         Stuck(groups, text, n, p), NEW r \in Ends(groups[n + 1], text, p)
  PROVE  r = p /\ Stuck(groups, text, n + 1, p)
<1> DEFINE group == groups[n + 1]
<1>1. Len(groups) \in Nat /\ n + 1 \in n + 1 .. Len(groups) /\ group \in GroupRecords
  BY LenProperties, ElementOfSeq
<1>2. ~In(group, text[p])
  <2>1. \A k \in n + 1 .. (n + 1) - 1 : FALSE
    OBVIOUS
  <2> QED
    BY <1>1, <2>1 DEF Stuck
<1>3. r \in RunFrom(group, text, p)
  BY <1>1, EndsInText
<1>4. r = p
  BY <1>2, <1>3, RunHead DEF Outside, Stuck
<1>5. group.operator \in {"ZOM", "ZOO"}
  BY <1>1, <1>4, EndsAre DEF Operators
<1>6. ASSUME NEW j \in (n + 1) + 1 .. Len(groups),
             \A k \in (n + 1) + 1 .. j - 1 : groups[k].operator \in {"ZOM", "ZOO"}
      PROVE  ~In(groups[j], text[p])
  <2>1. \A k \in n + 1 .. j - 1 : k = n + 1 \/ k \in (n + 1) + 1 .. j - 1
    BY <1>1
  <2>2. j \in n + 1 .. Len(groups)
    BY <1>1
  <2> QED
    BY <1>5, <1>6, <2>1, <2>2 DEF Stuck
<1> QED
  BY <1>4, <1>6 DEF Stuck

\* A matcher that takes all it can passes the other ends of the group, at
\* which the text goes on in it.
LEMMA PassedIsLast ==
  ASSUME NEW group \in GroupRecords, NEW text, Len(text) \in Nat, NEW m \in Nat,
         NEW q, Passed(group, text, m, q), NEW r \in Ends(group, text, m), r # q
  PROVE  r < q /\ ~Outside(group, text, r) /\ group.operator # "NOP"
<1>1. /\ q \in RunFrom(group, text, m) /\ r \in RunFrom(group, text, m)
      /\ q \in Ends(group, text, m)
  BY EndsInText DEF Passed
<1>2. q \in Nat /\ r \in Nat /\ m <= q /\ m <= r
  BY <1>1 DEF RunFrom
<1>3. r \in RunFrom(group, text, q) \/ q \in RunFrom(group, text, r)
  BY <1>1, <1>2, RunSplits
<1>4. CASE q < r
  <2>1. ~Outside(group, text, q)
    <3>1. q \notin RunFrom(group, text, r)
      BY <1>2, <1>4 DEF RunFrom
    <3> QED
      BY <1>2, <1>3, <3>1, RunHead
  <2>2. group.operator \in {"NOP", "ZOO"}
    BY <2>1, EndsAre DEF Passed, Operators
  <2>3. q # m
    <3>1. CASE group.operator = "ZOO"
      BY <2>1, <3>1 DEF Passed
    <3>2. CASE group.operator = "NOP"
      BY <1>1, <3>2, EndsAre
    <3> QED
      BY <2>2, <3>1, <3>2
  <2>4. q \in {m, m + 1} /\ r \in {m, m + 1}
    BY <1>1, <2>2, EndsAre
  <2> QED
    BY <1>2, <1>4, <2>3, <2>4
<1>5. CASE r < q
  <2>1. ~Outside(group, text, r)
    <3>1. r \notin RunFrom(group, text, q)
      BY <1>2, <1>5 DEF RunFrom
    <3> QED
      BY <1>2, <1>3, <3>1, RunHead
  <2>2. group.operator # "NOP"
    BY <1>1, <1>5, EndsAre
  <2> QED
    BY <1>5, <2>1, <2>2
<1> QED
  BY <1>2, <1>4, <1>5

LEMMA LeadsOn ==
  ASSUME NEW groups \in Seq(GroupRecords), NEW text, Len(text) \in Nat,
         NEW from \in Nat, NEW n \in Nat, n < Len(groups),
         NEW m \in Nat, Leads(groups, text, from, n, m),
         NEW q \in Nat, Passed(groups[n + 1], text, m, q)
  PROVE  Leads(groups, text, from, n + 1, q)
<1> DEFINE places == PlacesAfter(groups, text, from)
           group == groups[n + 1]
<1>1. /\ Len(groups) \in Nat /\ n + 1 \in 1 .. Len(groups)
      /\ n \in 0 .. Len(groups) /\ (n + 1) - 1 = n
  BY LenProperties
<1>2. group \in GroupRecords
  BY <1>1, ElementOfSeq
<1>3. places[n + 1] = Through(group, text, places[n])
  BY <1>1, PlacesAfterEach
<1>4. places[n] \in SUBSET Nat
  BY <1>1, PlacesAfterType
<1>5. /\ m \in places[n]
      /\ Determinate(groups) => \A p \in places[n] :
            p = m \/ (p < m /\ Stuck(groups, text, n, p))
  BY DEF Leads
<1>6. q \in Ends(group, text, m) /\ m <= q
  BY <1>2, EndsInText DEF Passed
<1>7. q \in places[n + 1]
  BY <1>3, <1>5, <1>6 DEF Through
<1>8. ASSUME Determinate(groups), NEW r \in places[n + 1], r # q
      PROVE  r < q /\ Stuck(groups, text, n + 1, r)
  <2>1. PICK p \in places[n] : r \in Ends(group, text, p)
    BY <1>3 DEF Through
  <2>2. p \in Nat /\ m \in Nat
    BY <1>4
  <2>3. CASE p < m /\ Stuck(groups, text, n, p)
    <3>1. r = p /\ Stuck(groups, text, n + 1, p)
      BY <2>1, <2>2, <2>3, StuckEnds
    <3> QED
      BY <1>6, <2>2, <2>3, <3>1
  <2>4. CASE p = m
    <3>1. r < q /\ ~Outside(group, text, r) /\ group.operator # "NOP"
      BY <1>2, <1>8, <2>1, <2>4, PassedIsLast
    <3>2. ASSUME NEW j \in (n + 1) + 1 .. Len(groups),
                 \A k \in (n + 1) + 1 .. j - 1 :
                    groups[k].operator \in {"ZOM", "ZOO"}
          PROVE  ~In(groups[j], text[r])
      <4>1. n + 1 \in DOMAIN groups
        BY <1>1
      <4>2. group.chars \cap groups[j].chars = {}
        BY <1>8, <3>1, <3>2, <4>1 DEF Determinate
      <4> QED
        BY <3>1, <4>2 DEF Outside, In
    <3>3. r <= Len(text)
      <4>1. r \in Nat
        BY <1>2, <2>1, <2>2, EndsInText
      <4> QED
        BY <3>1, <4>1 DEF Outside
    <3> QED
      BY <3>1, <3>2, <3>3 DEF Stuck
  <2> QED
    BY <1>5, <1>8, <2>1, <2>3, <2>4
<1> QED
  BY <1>7, <1>8 DEF Leads

\* Where a group that must take a character cannot, nothing goes on.
LEMMA DeadEnd ==
  ASSUME NEW groups \in Seq(GroupRecords), NEW text, Len(text) \in Nat,
         NEW from \in Nat, NEW n \in Nat, n < Len(groups),
         NEW m \in Nat, Leads(groups, text, from, n, m), Determinate(groups),
         groups[n + 1].operator \in {"NOP", "OOM"},
         Outside(groups[n + 1], text, m)
  PROVE  PlacesAfter(groups, text, from)[n + 1] = {}
<1> DEFINE places == PlacesAfter(groups, text, from)
           group == groups[n + 1]
<1>1. /\ Len(groups) \in Nat /\ n + 1 \in 1 .. Len(groups)
      /\ n \in 0 .. Len(groups) /\ (n + 1) - 1 = n
  BY LenProperties
<1>2. group \in GroupRecords
  BY <1>1, ElementOfSeq
<1>3. places[n + 1] = Through(group, text, places[n])
  BY <1>1, PlacesAfterEach
<1>4. places[n] \in SUBSET Nat
  BY <1>1, PlacesAfterType
<1>5. ASSUME NEW p \in places[n], NEW r \in Ends(group, text, p) PROVE FALSE
  <2>1. p \in Nat /\ r \in RunFrom(group, text, p)
    BY <1>2, <1>4, EndsInText
  <2>2. r # p
    BY <1>2, <1>5, EndsAre, <2>1
  <2>3. ~Outside(group, text, p)
    BY <2>1, <2>2, RunHead
  <2>4. Stuck(groups, text, n, p)
    BY <2>3 DEF Leads
  <2> QED
    BY <2>1, <2>2, <2>4, StuckEnds
<1> QED
  BY <1>3, <1>5 DEF Through

\* What has no place after one of its groups has no word.
LEMMA NothingAfter ==
  ASSUME NEW groups \in Seq(GroupRecords), NEW text, Len(text) \in Nat,
         NEW from \in Nat, NEW n \in 0 .. Len(groups),
         PlacesAfter(groups, text, from)[n] = {}
  PROVE  Reached(groups, text, from) = {}
<1> DEFINE places == PlacesAfter(groups, text, from)
           N == Len(groups)
           T == {k \in 0 .. N : k >= n => places[k] = {}}
<1>1. N \in Nat /\ n \in Nat /\ n <= N
  BY LenProperties
<1>2. \A k \in 1 .. N : places[k] = Through(groups[k], text, places[k - 1])
  BY PlacesAfterEach
<1>3. places[n] = {}
  OBVIOUS
<1> HIDE DEF places
<1>4. 0 \in T
  BY <1>1, <1>3
<1>5. ASSUME NEW k \in 1 .. N, k - 1 \in T PROVE k \in T
  <2>1. CASE k = n
    BY <1>1, <1>3, <2>1
  <2>2. CASE k > n
    <3>1. places[k - 1] = {}
      BY <1>1, <1>5, <2>2
    <3>2. places[k] = {}
      BY <1>2, <3>1 DEF Through
    <3> QED
      BY <1>1, <3>2
  <2> QED
    BY <1>1, <2>1, <2>2
<1> HIDE DEF T
<1>6. \A k \in 0 .. N : k \in T
  BY <1>1, <1>4, <1>5, BoundedInduction
<1>7. places[N] = {}
  BY <1>1, <1>6 DEF T
<1> QED
  BY <1>7 DEF Reached, places

\* At the end of the text a group is left without a character, if a word is
\* to come of it.
LEMMA LeadsPastEnd ==
  ASSUME NEW groups \in Seq(GroupRecords), NEW text, Len(text) \in Nat,
         NEW from \in Nat, NEW k \in 1 .. Len(groups), Determinate(groups),
         Reached(groups, text, from) # {},
         Leads(groups, text, from, k - 1, Len(text) + 1)
  PROVE  Leads(groups, text, from, k, Len(text) + 1)
<1> DEFINE end == Len(text) + 1
<1>1. /\ k - 1 \in Nat /\ k - 1 < Len(groups) /\ (k - 1) + 1 = k
      /\ end \in Nat /\ k \in 0 .. Len(groups)
  BY LenProperties
<1>2. groups[k] \in GroupRecords
  BY <1>1, ElementOfSeq
<1>3. Outside(groups[k], text, end)
  BY <1>1 DEF Outside
<1>4. groups[k].operator \notin {"NOP", "OOM"}
  <2>1. SUFFICES ASSUME groups[k].operator \in {"NOP", "OOM"} PROVE FALSE
    OBVIOUS
  <2>2. PlacesAfter(groups, text, from)[k] = {}
    BY <1>1, <1>3, <2>1, DeadEnd
  <2> QED
    BY <1>1, <2>2, NothingAfter
<1>5. end \in RunFrom(groups[k], text, end)
  BY <1>1 DEF RunFrom
<1>6. Passed(groups[k], text, end, end)
  BY <1>1, <1>2, <1>3, <1>4, <1>5, EndsAre DEF Passed, Operators
<1> QED
  BY <1>1, <1>6, LeadsOn

\* The end of the text: there is no word, or one that ends with it.
LEMMA LeadsToTheEnd ==
  ASSUME NEW groups \in Seq(GroupRecords), NEW text, Len(text) \in Nat,
         NEW from \in Nat, NEW n \in 0 .. Len(groups), Determinate(groups),
         \/ PlacesAfter(groups, text, from)[n] = {}
         \/ Leads(groups, text, from, n, Len(text) + 1)
  PROVE  \/ Reached(groups, text, from) = {}
         \/ Leads(groups, text, from, Len(groups), Len(text) + 1)
<1> SUFFICES ASSUME Reached(groups, text, from) # {}
             PROVE  Leads(groups, text, from, Len(groups), Len(text) + 1)
  OBVIOUS
<1> DEFINE N == Len(groups)
           end == Len(text) + 1
           leads(k) == Leads(groups, text, from, k, end)
           T == {k \in 0 .. N : k >= n => leads(k)}
<1>1. N \in Nat /\ n \in Nat /\ n <= N /\ end \in Nat
  BY LenProperties
<1>2. leads(n)
  BY NothingAfter
<1>3. 0 \in T
  BY <1>1, <1>2
<1>4. ASSUME NEW k \in 1 .. N, k - 1 \in T PROVE k \in T
  <2>1. CASE k <= n
    BY <1>1, <1>2, <2>1
  <2>2. CASE k > n
    <3>1. /\ k \in 1 .. Len(groups) /\ leads(k - 1)
      BY <1>1, <1>4, <2>2
    <3> QED
      BY <3>1, LeadsPastEnd
  <2> QED
    BY <1>1, <2>1, <2>2
<1> HIDE DEF T
<1>5. \A k \in 0 .. N : k \in T
  BY <1>1, <1>3, <1>4, BoundedInduction
<1> QED
  BY <1>1, <1>5 DEF T

\* The end of the text, where a group to come must have a character.
LEMMA LeadsNowhere ==
  ASSUME NEW groups \in Seq(GroupRecords), NEW text, Len(text) \in Nat,
         NEW from \in Nat, NEW n \in 0 .. Len(groups), Determinate(groups),
         Leads(groups, text, from, n, Len(text) + 1),
         NEW j \in n + 1 .. Len(groups), groups[j].operator = "NOP"
  PROVE  Reached(groups, text, from) = {}
<1> DEFINE N == Len(groups)
           end == Len(text) + 1
           T == {k \in 0 .. j - 1 : k >= n => Leads(groups, text, from, k, end)}
<1> SUFFICES ASSUME Reached(groups, text, from) # {} PROVE FALSE
  OBVIOUS
<1>1. N \in Nat /\ n \in Nat /\ j \in Nat /\ n < j /\ j <= N /\ end \in Nat
  BY LenProperties
<1>2. Leads(groups, text, from, n, end)
  OBVIOUS
<1>3. 0 \in T
  BY <1>1, <1>2
<1>4. ASSUME NEW k \in 1 .. j - 1, k - 1 \in T PROVE k \in T
  <2>1. CASE k <= n
    BY <1>1, <1>2, <2>1
  <2>2. CASE k > n
    <3>1. /\ k - 1 \in Nat /\ k - 1 < Len(groups) /\ (k - 1) + 1 = k
          /\ k \in 1 .. Len(groups) /\ Leads(groups, text, from, k - 1, end)
      BY <1>1, <1>4, <2>2
    <3> QED
      BY <1>1, <3>1, LeadsPastEnd
  <2> QED
    BY <1>1, <2>1, <2>2
<1> HIDE DEF T
<1>5. j - 1 \in 0 .. j - 1 /\ j - 1 \in Nat /\ j - 1 >= n
  BY <1>1
<1>6. \A k \in 0 .. j - 1 : k \in T
  BY <1>3, <1>4, <1>5, BoundedInduction
<1>7. Leads(groups, text, from, j - 1, end)
  BY <1>5, <1>6 DEF T
<1>8. Outside(groups[j], text, end)
  BY <1>1 DEF Outside
<1>9. PlacesAfter(groups, text, from)[j] = {}
  <2>1. (j - 1) + 1 = j /\ j - 1 \in Nat /\ j - 1 < Len(groups)
    BY <1>1
  <2> QED
    BY <1>1, <1>7, <1>8, <2>1, DeadEnd
<1> QED
  BY <1>1, <1>9, NothingAfter

\* The place a matcher ends at is that of a word, and of the longest one.
LEMMA LeadsIsLongest ==
  ASSUME NEW groups \in Seq(GroupRecords), NEW text, Len(text) \in Nat,
         NEW from \in Nat, NEW m \in Nat,
         Leads(groups, text, from, Len(groups), m)
  PROVE  /\ m \in Reached(groups, text, from)
         /\ Determinate(groups) =>
                \A r \in Reached(groups, text, from) : r <= m
  BY ReachedPlaces DEF Leads, Reached
==============================================================================
