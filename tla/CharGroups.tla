------------------------------ MODULE CharGroups ------------------------------
(***************************************************************************)
(* Regular expressions as the assembler keeps them: a sequence of groups   *)
(* of characters (char_group.c), each with an operator, read by regexp_new *)
(* (regexp.c) and rewritten by opti_regexp.  A text is a sequence of       *)
(* one-letter strings.  A char is signed, so that one outside of ASCII is  *)
(* in no group, whatever the group: here, a letter outside of Alphabet.    *)
(***************************************************************************)
EXTENDS Naturals, Sequences, SequencesExt

CONSTANTS
    Alphabet,        \* the characters, in the order of their codes
    HeapGroups       \* what a group may hold that nobody has filled

Chars == Range(Alphabet)

ASSUME AlphabetAssumption ==
    /\ Alphabet \in Seq(STRING) \ {<< >>} /\ IsInjective(Alphabet)
    /\ HeapGroups \subseteq SUBSET Chars

Newline == "\n"
Blanks  == {" ", "\t"}

\* c outside and inside of a class: both functions know the same letters.
Escaped(c) == IF c = "n" THEN Newline ELSE IF c = "t" THEN "\t" ELSE c

Operators == {"NOP", "ZOM", "OOM", "ZOO"}
Group(chars, operator) == [chars |-> chars, operator |-> operator]
Inverted(group) == [group EXCEPT !.chars = Chars \ @]
SingleChar(c, exclude) ==
    Group(IF exclude THEN Chars \ {c} ELSE {c} \cap Chars, "NOP")
In(group, c) == c \in group.chars

OperatorOf(c) ==
    IF c = "*" THEN "ZOM" ELSE IF c = "+" THEN "OOM"
    ELSE IF c = "?" THEN "ZOO" ELSE "NOP"
IsOperator(c) == OperatorOf(c) # "NOP"

-----------------------------------------------------------------------------
(* process_char_group: the text of a class, one character at a time.  at is *)
(* the case of the switch the character falls in.                           *)

Interval(from, to) ==
    LET code(c) == CHOOSE k \in DOMAIN Alphabet : Alphabet[k] = c
    IN  {Alphabet[k] : k \in code(from) .. code(to)}

OpenClass(exclude) ==
    [at |-> "plain", from |-> Head(Alphabet), exclude |-> exclude,
     group |-> Group(IF exclude THEN Chars ELSE {}, "NOP")]

Put(class, chars) ==
    [class EXCEPT !.group.chars =
        IF class.exclude THEN @ \ chars ELSE @ \cup chars]
PutOne(class, c) == [Put(class, {c}) EXCEPT !.from = c, !.at = "plain"]

\* An interval that ends with an escaped character skips the one after it;
\* one that ends with the class, and a ^ inside of it, end the reading.
ClassStep(class, c) ==
    CASE class.at = "plain" ->
            IF c = "]" THEN [class EXCEPT !.at = "operator"]
            ELSE IF c = "-" THEN [class EXCEPT !.at = "interval"]
            ELSE IF c = "\\" THEN [class EXCEPT !.at = "escaped"]
            ELSE IF c = "^" THEN [class EXCEPT !.at = "stopped"]
            ELSE PutOne(class, c)
      [] class.at = "operator" ->
            [class EXCEPT !.group.operator = OperatorOf(c), !.at = "plain"]
      [] class.at = "interval" ->
            IF c = "]" THEN [class EXCEPT !.at = "stopped"]
            ELSE IF c = "\\" THEN [class EXCEPT !.at = "escaped_end"]
            ELSE [Put(class, Interval(class.from, c)) EXCEPT !.at = "plain"]
      [] class.at = "escaped_end" ->
            [Put(class, Interval(class.from, Escaped(c))) EXCEPT !.at = "skip"]
      [] class.at = "escaped" -> PutOne(class, Escaped(c))
      [] class.at = "skip" -> [class EXCEPT !.at = "plain"]
      [] OTHER -> class

\* The class after each character of its body.
ClassAfter(exclude, body) ==
    LET class[n \in 0 .. Len(body)] ==
            IF n = 0 THEN OpenClass(exclude) ELSE ClassStep(class[n - 1], body[n])
    IN  class

\* The group of the class written text, its brackets and operator included.
ClassGroup(text) ==
    LET exclude == text[2] = "^"
        body == SubSeq(text, IF exclude THEN 3 ELSE 2, Len(text))
    IN  ClassAfter(exclude, body)[Len(body)].group

-----------------------------------------------------------------------------
(* regexp_new *)

NewReading ==
    [state |-> "INIT", inverse |-> FALSE, text |-> << >>,
     group |-> Group({}, "NOP"), groups |-> << >>]

Saved(reading, group) ==
    [NewReading EXCEPT !.groups = Append(reading.groups, group)]

\* The class the text of which is complete.
Closed(reading) ==
    LET group == ClassGroup(reading.text)
    IN  Saved(reading, IF reading.inverse THEN Inverted(group) ELSE group)

InitStep(reading, c) ==
    CASE c = "^" -> [reading EXCEPT !.inverse = TRUE]
      [] c = "[" -> [reading EXCEPT !.state = "GROUP", !.text = << c >>]
      [] c = "\\" -> [reading EXCEPT !.state = "BACKSLASH"]
      [] c = "." -> [reading EXCEPT !.state = "OPERATOR",
                        !.group = Group(IF reading.inverse THEN {} ELSE Chars,
                                        "NOP")]
      [] OTHER -> [reading EXCEPT !.state = "OPERATOR",
                        !.group = SingleChar(c, reading.inverse)]

\* One character.  A class ends at a bracket with no backslash before it,
\* be that backslash escaped or not; its operator, if any, is part of it.
ReadingStep(reading, c) ==
    CASE reading.state = "INIT" -> InitStep(reading, c)
      [] reading.state = "BACKSLASH" ->
            [reading EXCEPT !.state = "OPERATOR",
                            !.group = SingleChar(Escaped(c), reading.inverse)]
      [] reading.state = "OPERATOR" ->
            LET saved == Saved(reading, [reading.group EXCEPT
                                            !.operator = OperatorOf(c)])
            IN  IF IsOperator(c) THEN saved ELSE InitStep(saved, c)
      [] reading.state = "GROUP" ->
            [reading EXCEPT !.text = Append(@, c),
                !.state = IF c = "]" /\ Last(reading.text) # "\\"
                          THEN "CLOSED" ELSE @]
      [] reading.state = "CLOSED" ->
            IF IsOperator(c)
            THEN Closed([reading EXCEPT !.text = Append(@, c)])
            ELSE InitStep(Closed(reading), c)

\* The reading after each character of source.
ReadingAfter(source) ==
    LET reading[n \in 0 .. Len(source)] ==
            IF n = 0 THEN NewReading ELSE ReadingStep(reading[n - 1], source[n])
    IN  reading

\* Faulty variant: a group whose operator has not been seen is not saved.
GroupsReadSaved(source) == {ReadingAfter(source)[Len(source)].groups}

\* The groups a source may give.  What is pending at its end is saved; a
\* class that is still open is a group nobody has filled.  (A source that is
\* only "^" would save a null pointer, here no group at all.)
GroupsRead(source) ==
    LET reading == ReadingAfter(source)[Len(source)]
        with(group) == Append(reading.groups, group)
    IN  CASE reading.state = "GROUP" ->
                {with(Group(chars, "NOP")) : chars \in HeapGroups}
          [] reading.state = "CLOSED" -> {Closed(reading).groups}
          [] reading.state = "OPERATOR" -> {with(reading.group)}
          [] reading.state = "BACKSLASH" ->
                {with(SingleChar("\\", reading.inverse))}
          [] OTHER -> {reading.groups}

-----------------------------------------------------------------------------
(* opti_regexp: a*a and a*a+ become a+, and a+a becomes aa+. *)

\* Faulty variant: the star stays when the group after it is dropped.
MergeKeepingStar(groups, group) ==
    IF groups # << >> /\ Last(groups).chars = group.chars
         /\ Last(groups).operator = "ZOM" /\ group.operator \in {"NOP", "OOM"}
    THEN groups ELSE Append(groups, group)

\* Faulty variant: a*a+ is merged and a*a is not.
MergeOnlyMore(groups, group) ==
    IF groups # << >> /\ Last(groups).chars = group.chars
         /\ Last(groups).operator = "ZOM" /\ group.operator = "OOM"
    THEN Append(Front(groups), group) ELSE Append(groups, group)

Merge(groups, group) ==
    LET same(before, after) ==
            /\ groups # << >>
            /\ Last(groups).chars = group.chars
            /\ Last(groups).operator = before
            /\ group.operator \in after
        with(operator) ==
            Append(Front(groups), Group(group.chars, operator))
    IN  IF same("ZOM", {"NOP", "OOM"}) THEN with("OOM")
        ELSE IF same("OOM", {"NOP"})
        THEN Append(with("NOP"), Group(group.chars, "OOM"))
        ELSE Append(groups, group)

\* The list after each of its groups was visited.
MergedAfter(groups) ==
    LET merged[n \in 0 .. Len(groups)] ==
            IF n = 0 THEN << >> ELSE Merge(merged[n - 1], groups[n])
    IN  merged
Optimised(groups) == MergedAfter(groups)[Len(groups)]

-----------------------------------------------------------------------------
(* What a sequence of groups means: the places of a text where a word of   *)
(* its language that starts at place from may end.                         *)

RunFrom(group, text, p) ==
    {q \in p .. Len(text) + 1 : \A k \in p .. q - 1 : In(group, text[k])}
Ends(group, text, p) ==
    LET run == RunFrom(group, text, p)
    IN  CASE group.operator = "ZOM" -> run
          [] group.operator = "OOM" -> run \ {p}
          [] group.operator = "ZOO" -> run \cap {p, p + 1}
          [] group.operator = "NOP" -> run \cap {p + 1}
PlacesAfter(groups, text, from) ==
    LET places[n \in 0 .. Len(groups)] ==
            IF n = 0 THEN {from}
            ELSE UNION {Ends(groups[n], text, p) : p \in places[n - 1]}
    IN  places
Reached(groups, text, from) == PlacesAfter(groups, text, from)[Len(groups)]

\* No group takes what may follow it, from the next one on: where the text
\* goes on in a group, no word leaves it.
Determinate(groups) ==
    \A i \in DOMAIN groups : \A j \in i + 1 .. Len(groups) :
        /\ groups[i].operator # "NOP"
        /\ \A k \in i + 1 .. j - 1 : groups[k].operator \in {"ZOM", "ZOO"}
        => groups[i].chars \cap groups[j].chars = {}

\* A word is not over where a group before the last one takes c: it lacks a
\* character that some group after it must have.
ClosedBy(groups, c) ==
    \A i \in 1 .. Len(groups) - 1 :
        In(groups[i], c) =>
            \E j \in i + 1 .. Len(groups) : groups[j].operator = "NOP"
==============================================================================
