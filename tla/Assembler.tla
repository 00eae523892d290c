------------------------------ MODULE Assembler -------------------------------
(***************************************************************************)
(* The assembler rv32icomp: main of rv32icomp.c with the recursive descent *)
(* of parser.c, one action per function or loop iteration that changes its *)
(* state.  phase is where main and parse_code stand:                       *)
(*   read -> code -> first -> eol -> line -> eol ... -> parsed             *)
(*        -> resolved (only with -v) -> done, or failed (EXIT_FAILURE).    *)
(* The types of the lexems of a source stand for its text; "none" is text  *)
(* no regular expression of database.txt matches.                          *)
(***************************************************************************)
EXTENDS Encoder, FiniteSets

CONSTANTS
    LexemSet,            \* the lexems of the files
    Sources,             \* the files that may be assembled
    Options              \* whether -v is given: a set of Booleans

ASSUME OptionsAssumption == Options \subseteq BOOLEAN
ASSUME SourcesAssumption ==
    /\ Sources \subseteq Seq(LexemSet)
    /\ \A x \in LexemSet : x.type = "dec" => x.value \in CInt

VARIABLES source, verbose, lexems, instructions, line_addr, output, phase

vars == << source, verbose, lexems, instructions, line_addr, output, phase >>

Start == "PROG_START"
LoopRegister == 6

Init ==
    /\ source \in Sources /\ verbose \in Options
    /\ lexems = << >> /\ instructions = << >> /\ line_addr = 0
    /\ output = << >> /\ phase = "read"

-----------------------------------------------------------------------------
\* lexem_read keeps what it read when it meets text that matches nothing,
\* and main does not look at what it returns.
Matched(s) ==
    {n \in 0 .. Len(s) : \A k \in 1 .. n : s[k].type # "none"}
Read ==
    /\ phase = "read"
    /\ \E n \in Matched(source) :
          /\ n < Len(source) => source[n + 1].type = "none"
          /\ lexems' = SubSeq(source, 1, n)
    /\ phase' = "code"
    /\ UNCHANGED << source, verbose, instructions, line_addr, output >>

Begin ==
    /\ phase = "code"
    /\ instructions' = Append(instructions, LabelLine(Start, line_addr))
    /\ lexems' = Skip(lexems, "comment")
    /\ phase' = "first"
    /\ UNCHANGED << source, verbose, line_addr, output >>

\* parse_code_line on a label.
Label ==
    /\ phase \in {"first", "line"}
    /\ NextIs(lexems, "label")
    /\ instructions' =
          Append(instructions, LabelLine(Head(lexems).value, line_addr))
    /\ lexems' = Tail(lexems)
    /\ phase' = "eol"
    /\ UNCHANGED << source, verbose, line_addr, output >>

\* parse_code_line on an instruction, and the label that may follow it on
\* the same line.
Insn ==
    /\ phase \in {"first", "line"}
    /\ ~NextIs(lexems, "label")
    /\ StartsWithInsn(lexems)
    /\ LET new  == LinesOf(lexems, line_addr)
           rest == AfterInsn(lexems)
           next == AddressAfter(new, line_addr)
       IN  /\ line_addr' = next
           /\ instructions' =
                instructions \o new
                    \o IF NextIs(rest, "label")
                       THEN << LabelLine(Head(rest).value, next) >> ELSE << >>
           /\ lexems' = Skip(rest, "label")
    /\ phase' = "eol"
    /\ UNCHANGED << source, verbose, output >>

\* The first line is optional.
Nothing ==
    /\ phase = "first"
    /\ ~NextIs(lexems, "label") /\ ~StartsWithInsn(lexems)
    /\ phase' = "eol"
    /\ UNCHANGED << source, verbose, lexems, instructions, line_addr, output >>

\* Faulty variant: the newline stays.
AtNewline(s) == Skip(s, "blank")

AfterNewline(s) == Skip(Tail(s), "blank")

\* One turn of the loop of parse_eol: a newline, maybe with blanks and a
\* comment before it, is required once one of them is there.
Eol ==
    /\ phase = "eol"
    /\ \E type \in {"blank", "comment", "newline"} : NextIs(lexems, type)
    /\ LET rest == Skip(Skip(lexems, "blank"), "comment")
       IN  IF NextIs(rest, "newline")
           THEN lexems' = AfterNewline(rest) /\ phase' = phase
           ELSE lexems' = rest /\ phase' = "failed"
    /\ UNCHANGED << source, verbose, instructions, line_addr, output >>

EolEnd ==
    /\ phase = "eol"
    /\ \A type \in {"blank", "comment", "newline"} : ~NextIs(lexems, type)
    /\ phase' = "line"
    /\ UNCHANGED << source, verbose, lexems, instructions, line_addr, output >>

\* No further line: the jump back to the start, and an error if lexems are
\* left.  This jump does not move line_addr.
End ==
    /\ phase = "line"
    /\ ~NextIs(lexems, "label") /\ ~StartsWithInsn(lexems)
    /\ instructions' = Append(instructions,
            InsnLine("JAL", LoopRegister, 0, 0, 0, Start, line_addr))
    /\ phase' = IF lexems = << >> THEN "parsed" ELSE "failed"
    /\ UNCHANGED << source, verbose, lexems, line_addr, output >>

-----------------------------------------------------------------------------
(* Labels and output *)

LabelsNamed(name, lines) ==
    {k \in 1 .. Len(lines) : lines[k].kind = "LABEL" /\ lines[k].label = name}

\* The last label of that name wins.
LastNamed(name, lines) ==
    CHOOSE k \in LabelsNamed(name, lines) :
        \A j \in LabelsNamed(name, lines) : j <= k
OffsetTo(line, lines) ==
    lines[LastNamed(line.label, lines)].line_addr - line.line_addr

\* asm_line_update_adress.  It is called only with -v.
UpdateAddress ==
    /\ phase = "parsed" /\ verbose
    /\ LET jumps == {k \in 1 .. Len(instructions) : IsJump(instructions[k])}
       IN  IF \A k \in jumps :
                LabelsNamed(instructions[k].label, instructions) # {}
           THEN /\ instructions' =
                    [k \in 1 .. Len(instructions) |->
                        IF k \in jumps
                        THEN [instructions[k] EXCEPT
                                !.imm = OffsetTo(instructions[k], instructions)]
                        ELSE instructions[k]]
                /\ phase' = "resolved"
           ELSE UNCHANGED instructions /\ phase' = "failed"
    /\ UNCHANGED << source, verbose, lexems, line_addr, output >>

Writing == phase = "resolved" \/ (phase = "parsed" /\ ~verbose)

\* The places of the lines that are written, and the place of the nth.
Written(lines) == {k \in 1 .. Len(lines) : IsInsnLine(lines[k])}
Before(k, lines) == {j \in Written(lines) : j < k}
NthWritten(n, lines) ==
    CHOOSE k \in Written(lines) : Cardinality(Before(k, lines)) = n - 1

\* asm_line_write: a word for each instruction, nothing for a label.
WordsOf(lines) ==
    [n \in 1 .. Cardinality(Written(lines)) |->
        WordOfLine(lines[NthWritten(n, lines)])]
Write ==
    /\ Writing
    /\ output' = WordsOf(instructions)
    /\ phase' = "done"
    /\ UNCHANGED << source, verbose, lexems, instructions, line_addr >>

\* The file to write cannot be opened, or a register without a code is
\* printed as a null string, which may also crash.
CannotWrite ==
    /\ Writing
    /\ phase' = "failed"
    /\ UNCHANGED << source, verbose, lexems, instructions, line_addr, output >>

Terminated == phase \in {"done", "failed"} /\ UNCHANGED vars

Next ==
    \/ Read \/ Begin \/ Label \/ Insn \/ Nothing \/ Eol \/ EolEnd \/ End
    \/ UpdateAddress \/ Write \/ CannotWrite \/ Terminated

Spec == Init /\ [][Next]_vars

\* A sequential program that nothing holds up.
FairSpec == Spec /\ WF_vars(Next)

-----------------------------------------------------------------------------
(* Properties *)

Size(line) == IF IsInsnLine(line) THEN 4 ELSE 0
Last(lines) == lines[Len(lines)]
Reg == (0 .. 31) \cup {NoReg}
Names ==
    {NoLabel, Start} \cup {x.value : x \in {y \in LexemSet : y.type # "dec"}}
Line == [kind : {"INSN", "LABEL"}, insn : Insns, rd : Reg, rs1 : Reg, rs2 : Reg,
         imm : Int, label : Names, line_addr : Nat]

TypeOK ==
    /\ instructions \in Seq(Line)
    /\ line_addr \in Nat
    /\ phase \in {"read", "code", "first", "eol", "line", "parsed",
                  "resolved", "done", "failed"}

\* The addresses the parser keeps by hand, in a counter each parse function
\* moves on its own, are those of the words in the file: a line starts where
\* the line before it ends, and line_addr is where the next will start.
AddressesInStep ==
    /\ \A k \in 1 .. Len(instructions) - 1 :
          instructions[k + 1].line_addr =
              instructions[k].line_addr + Size(instructions[k])
    /\ phase \in {"first", "eol", "line"} =>
          line_addr = Last(instructions).line_addr + Size(Last(instructions))

\* The word of a line, and the first instruction after the line at place k.
WordAt(line) == output[(line.line_addr \div 4) + 1]
InsnAfter(k, lines) ==
    CHOOSE j \in Written(lines) :
        k < j /\ \A i \in Written(lines) : k < i => j <= i

\* What imm_gen.sv reads in the file is what the source says: the signed
\* twelve bits of loads, stores, and arithmetic, the amount of a shift, the
\* upper twenty bits of LUI and AUIPC.  An integer out of range is cut to the
\* width of its field, and to nothing else.
ImmediatesDecode ==
    phase = "done" =>
        \A k \in 1 .. Len(instructions) :
            LET line == instructions[k]
            IN  IsInsnLine(line) =>
                    Carries(ImmediateOf(WordAt(line)), line.insn, line.imm)

\* The assembler and the circuit each have their tables of opcodes and of
\* funct fields: the circuit does with a word what its mnemonic means.  SRLI
\* and SRAI are left out, which the circuit does not decode.
WordsDecode ==
    phase = "done" =>
        \A k \in 1 .. Len(instructions) :
            LET line == instructions[k]
            IN  IsInsnLine(line) /\ line.insn \notin {"SRLI", "SRAI"} =>
                    Does(Decoded(WordAt(line)), line.insn)

\* The instruction memory indexes with nine bits (imem.sv:15): a JAL whose upper
\* offset bits are lost still arrives, as long as the program fits.
FetchCount == 512

\* With -v, an offset counted from a JAL as the circuit reads it leads to the
\* first instruction after the last label of its name, the jump back to the
\* start included.
JumpsReachTheirLabel ==
    phase = "done" /\ verbose /\ Len(output) <= FetchCount =>
        \A k \in Written(instructions) :
            LET line == instructions[k]
                to == line.line_addr + ImmediateOf(WordAt(line))
                place == ((to \div 4) % FetchCount) + 1
                target == InsnAfter(LastNamed(line.label, instructions),
                                    instructions)
            IN  line.insn = "JAL" =>
                    /\ LabelsNamed(line.label, instructions) # {}
                    /\ place \in DOMAIN output
                    /\ output[place] = WordOfLine(instructions[target])

\* Every run ends, with a file or with an error.
Terminates == <>(phase \in {"done", "failed"})
==============================================================================
