--------------------------- MODULE AssemblerClaims ---------------------------
(***************************************************************************)
(* What the repository says of its assembler where the code does something *)
(* else.  Each is checked by a run that finds it violated.                 *)
(***************************************************************************)
EXTENDS Assembler

\* README.md:113, the assembler "calcule automatiquement les offsets des
\* instructions de branchement"; README.md:90, -v only shows the parsing.
OffsetsComputed ==
    phase = "done" =>
        \A k \in 1 .. Len(instructions) :
            IsJump(instructions[k]) =>
                \E j \in LabelsNamed(instructions[k].label, instructions) :
                    instructions[k].imm = instructions[j].line_addr
                                            - instructions[k].line_addr

\* README.md:113, for the word in the file: the offset the circuit reads in
\* a branch is the one that was computed.
BranchOffsetsDecode ==
    phase = "done" =>
        \A k \in 1 .. Len(instructions) :
            instructions[k].insn \in Branch =>
                ImmediateOf(WordAt(instructions[k])) = instructions[k].imm

\* parser.c:6-24, the grammar: an instruction is taken from lexems of exactly
\* the types of its rule.
Exactly(rule, s) ==
    /\ s[1].type \in rule.heads
    /\ \A k \in 1 .. Len(rule.tail) : s[k + 1].type = rule.tail[k]
GrammarFollowed ==
    [][line_addr' # line_addr =>
         \E k \in DOMAIN Rules : Fits(Rules[k], lexems)
                                 /\ Exactly(Rules[k], lexems)]_vars
==============================================================================
