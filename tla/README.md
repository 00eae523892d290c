# A verification project for Miniprojet_RISC_V

The repository holds a five-stage RV32I processor in SystemVerilog (`rtl/`) and
`rv32icomp`, the assembler that produces its programs (`compilateur/`). This
directory holds TLA+ modules of both, TLC configurations that model-check them
and theorems about the processor, the lexer, the assembler and its lists that TLAPS
has checked. `PROJECT.json` gives,
for every definition, the source lines it stands for.

## 1. Inventory

| Part | State | Operations | Hard because |
|---|---|---|---|
| `imem.sv` | `tab_inst`, `inst_out` | fetch at `pc/4`, nine bits | the index is narrower than the largest program |
| `regfile.sv`, `3dff.sv` | registers, two delayed read addresses, three delayed copies of `rd` | read, write, reset | the delays are private; nothing but their length keeps them in step with the instruction registers; the read addresses are not reset |
| `imm_gen.sv` | `imm_o` | decode an immediate | bits that no format assigns keep the sign |
| `opti.sv`, `branch_comp.sv` | `dataW_o` (never reset) | select and compare operands | operands come from four stages |
| `alu.sv` | `alu_result_o` | eleven operations | precedence, signedness, one-bit wires |
| `mem.sv` | bytes, `data_o`, `alu_o` | byte, half and word accesses | accesses across the last byte |
| `wb.sv` | `pc_o` | write-back multiplexers, next program counter | links and targets are formed from the current `pc`, not the instruction's |
| `control_logic.sv` | `inst_reg0..2` | all selectors | two stages drive `pc_sel_o`; forwarding from two older instructions |
| `riscv.sv` | the above | one clock edge | everything at once; reset at any edge |
| `regexp.c`, `char_group.c` | the list of expressions: groups of characters with an operator | read `database.txt`, rewrite expressions, match one | two hand-written state machines over the same text; the matcher never goes back on a choice; its flag outlives a group |
| `lexem.c` | the lexem list, the rest of the text | cut a source into typed lexems | the first expression wins; types are compared by prefix; an error leaves a partial list |
| `parser.c` | lexems left, line list, `line_addr` | recursive descent, emission of lines | alternatives tried in order; a hand-kept address counter |
| `asm_line.c`, `asm_line.h` | line list | constructors, tables, label resolution, encoding | bit fields cut by hand; opcodes and functs written down a second time |
| `rv32icomp.c` | options, exit | read, parse, resolve, write | results that are ignored; `-v` changes more than the output |
| `list.c` | links in the heap | add, take out, delete; clients walk the links themselves | a link freed while two pointers walk over it; a flag shared by the turns of that walk |
| `queue.c`, `string.c`, `unitest.c` | - | a queue that nothing uses, buffers, test harness | not modelled |
| `bench/`, `prog/`, `asic/`, `config/`, `winconfig/`, `doc/` | - | benches, programs, tool scripts, reports | environment, inputs, documents: not modelled |

Interaction. In the circuit, every register changes on the same edge and reads
the state before it; the wires between them are combinational. The assembler is
one sequential process: `main` reads the expressions, then the lexems, frees the
expressions, parses, resolves and writes. It meets the circuit only in the words
of its output file, which `$readmemb` loads into `imem`.

What makes each part correct: the delays agree on which instruction is in which
stage; operands have the values of all older instructions; the whole circuit
executes one instruction per edge in program order; programs without jumps keep
running; the expressions denote the languages they are written for, whatever is
rewritten, and the matcher finds the longest beginning in the first of them;
addresses kept by the parser are the places of words in the file; immediates
and operations written by the assembler are the ones the circuit decodes; a
jump leads to its label; the lexer and the assembler end.

## 2. Modules

| Module | Models |
|---|---|
| `Words` | bytes, words, arithmetic modulo the word size; bitwise operators and shifts as operator constants |
| `Instructions` | an instruction as its fields, and the two tests control logic makes on it |
| `Imem`, `RegFile`, `ImmGen`, `Alu`, `Mem`, `Wb`, `ControlLogic` | one component each: variables, `...Init`, `...Reset` (an edge with `rst` high), `...Clock` (an edge with `rst` low), `...TypeOK` |
| `Decoder` | what control logic decodes from one instruction, as functions of its opcode and functs: used by `ControlLogic` and, of the assembler's words, by `Encoder` |
| `Riscv` | the components wired as in `riscv.sv`, with the multiplexers of `opti.sv`: actions `Tick` and `Reset`; the safety properties |
| `Isa` | the abstract machine: RV32I with a queue of the next `Depth` addresses |
| `RiscvIsa` | a history variable, the refinement mappings to `Isa`, the fair specification |
| `RiscvClaims` | statements of comments, benches and README that the circuit does not satisfy |
| `RiscvProofs` | theorems about the circuit's own state: types, stages, operands |
| `RiscvIsaProofs` | the circuit implements the exposed-pipeline machine, and RV32I on straight programs |
| `CharGroups` | classes, expressions and their rewriting, as functions; the reference meaning of an expression |
| `RegexpReader` | `regexp_read`: one action per state, one step per character |
| `Lexer` | `lexem_read` and `re_match`: one action per operator of an expression and per outcome; its properties |
| `Tokens` | the abstract lexer: longest word of the first language |
| `Lists` | the links of one expression: built by `regexp_new`, rewritten in place by `opti_regexp`, deleted by `regexp_free` |
| `GroupSequence` | the abstract list: a sequence, rewritten in one pass |
| `Parser` | the grammar as a table of rules, the tables of mnemonics and registers, the lines an instruction becomes |
| `Encoder` | the words of `asm_line_write` with immediates at full width, and what `imm_gen.sv` and control logic read in them |
| `Assembler` | `main` and the parse functions as a state machine; its properties |
| `AssemblerClaims` | statements of README, grammar and messages that the assembler does not satisfy |
| `EncoderProofs` | every word decodes to its mnemonic and carries its immediate |
| `AssemblerProofs` | types and addresses of the assembler, line by line of its parse functions; the finished file: words, immediates and jumps |
| `RegexpProofs` | what reading and rewriting an expression keep, and when a loop that never goes back finds its longest word |
| `LexerProofs` | types of the lexer, what a lexem is, and its refinement of `Tokens` |
| `ListsProofs` | no link of a list is lost; the list implements the sequence of its groups; rewriting keeps its words |
| `ProofLemmas` | facts about numbers, tuples and functions defined by recursion the proofs share |
| `MCRiscv`, `MCAssembler`, `MCLexer`, `MCLists` | small instances for TLC |

### Correspondence

An action of `Riscv` is one rising edge. A combinational signal is an operator
with the name it has in the source. Registers that the source resets start at
their reset value; those it does not (`Old_AddrA_r`, `Old_AddrB_r`, `dataW_o`)
start at any value of `PowerUpRegs`, `PowerUpWords`. `Init` is the state after
the first edge with `rst` high, as in the benches (`bench_riscv.sv:69-87`);
`Reset` may occur again at any edge. A read of a byte or a word outside a
memory yields an unknown value: one successor per value.

An instruction keeps the fields `op`, `f3`, `f7`, `rd`, `rs1`, `rs2`, `imm`.
In the encoding some of them share bits; here they are independent, which only
adds instructions. How the bits of the immediate lie in a word is the subject
of `Encoder`.

`Assembler` follows `main`: `Read` is `lexem_read`, `Begin` ... `End` are
`parse_code` and the functions it calls (one action per loop turn),
`UpdateAddress` is `asm_line_update_adress` and runs only with `-v`, `Write` is
`asm_line_write`. `Rules` lists, in the order they are tried, the functions
`parse_insn_*` and `parse_unsninsn_*`: a rule fits when its lexems are there,
compared as `next_lexem_is` compares them (by prefix); a rule that does not fit
gives back what it consumed. Text is abstracted to lexems with a type and a
value; text that no regular expression matches is one lexem of type `"none"`.
A word is a record of its fields: opcode and functs from the tables of
`asm_line.h`, registers by number (-1 where `reg2code` has no code), and the
immediate bit by bit.

`Lexer` starts where `main` does. `RegexpReader` reads one character of
`database.txt` per step and calls `regexp_new` at the end of a line: that
function and `process_char_group`, which work on one line's text, are functions of
the place in it in `CharGroups` (`ReadingAfter`, `ClassAfter`), one case per case of
their `switch`. `Lexer` is
`lexem_read` (`CallMatch`, `NoMatch`, `EndOfText`) around `re_match`
(`MatchOne`, `MatchZeroOrMore`, `MatchOneOrMore`, `MatchZeroOrOne`,
`MatchEnds`); `Accept` and `Refuse` are the two ways a call returns. `Tokens`
keeps only the text, the place reached and the tokens. It knows a list of
languages, given as groups, and the places where a word of one may end
(`Reached`, computed over sets of places, so that no order of choices matters).
The mapping takes the languages from what the database was written to mean
(`Meaning`), not from what the reader made of it: the refinement covers the
reader, the rewriting and the matcher together.

`Lists` goes below one definition of `CharGroups`: `Optimised`, one pass over a
sequence there (`MergedAfter`), is in the code a walk over links that changes and frees them.
`p`, `l` and `same_group` are the variables of `opti_regexp`; each turn of its loop
implements one step of the pass of `GroupSequence`. Five links hold two
rewritings in a row with a group before and after.

The two models of the assembler meet in the list of lexems. `Assembler` reads it
as far as the text matches (`Read`), which is what `Lexer` leaves when it fails.

### The exposed pipeline

The circuit does not stall and does not cancel instructions. `Isa` states
precisely what it computes instead of RV32I: a queue of five addresses, of which
the first is executed and at the end of which a new one is added. A jump adds
its target, so the four instructions after it execute; its target is relative
to the third address of the queue and its link to the fifth. The same module
with a queue of one address is RV32I.

## 3. Runs

All runs of `MCRiscv` use words of four 2-bit bytes, four registers, eight
bytes of memory and eight or sixteen instructions. Two-bit bytes keep every
lane and the sign, carry and wrap of a word; four registers allow three
operands and register 0; eight bytes hold two words and an end to cross. The
fetch counter wraps at the end of the program as nine bits wrap at 512. The
constraints `PcBound` and `LongPcBound` stop the exploration when the program
counter is past the program. The real sizes are covered by the theorems.

| Run | Shows |
|---|---|
| `alu` | for all programs of four instructions out of eight, and jumps in the slots of jumps with readers of the link, with resets and any power-up read address: types, `Aligned`, `OperandsForwarded`, `PipelineTransparent`, and that the circuit implements the exposed-pipeline machine |
| `straight` | on programs without jumps, with stores and loads of all widths at and across the end of the memory, the circuit implements RV32I, and every instruction retires again and again |
| `assemble` | all sources of up to four lines out of a pool, legal or not, and every instruction with an integer at the ends of its range, with and without `-v`: types, `AddressesInStep`, `JumpsReachTheirLabel`, `ImmediatesDecode`, `WordsDecode`, `Terminates` |
| `lexer` | `database.txt` with texts that hold every mnemonic, every kind of lexem, names that begin like something else and characters nothing matches; and every pair of twelve expressions, in a file with comments and odd blanks, with every text of up to four letters: types, `DatabaseRead`, `NoChoice`, `NotCutShort`, `EndJudged`, `LexemsAreWords`, `ImplementsTokens`, `MnemonicsWhole`, `LexerEnds` |
| `lists` | every list of up to five groups out of six: types, `LinksOwned`, `ImplementsSequence`, `WordsKept` with two texts of three and four letters, `ListsEnd` |

The twelve expressions of `lexer` have each operator, each construct of a class
(interval, escape, exclusion) and each rewriting, alone and before a newline;
with four letters of text a group may repeat, stop, and leave enough for the two
after it. All texts of this run end with a newline, as the sources of the
repository do; what happens otherwise is run `end_of_text`: `NotCutShort`, which says that
no expression can be in the middle of a word at the last letter, does not hold there. `DatabaseRead` compares, at every place of every text, the words of what was
read and rewritten with those of what was meant. `NoChoice` says that after the rewriting
no group that may repeat or be left out shares a letter with what may follow it, which is
all that a loop without a way back needs. `WordsDecode` leaves out SRLI and
SRAI, which the circuit does not decode.

The programs of `alu` and `straight` have no instruction that reads
the result of a load or jump just before it (`Scheduled`); what happens
otherwise is run `load_use`. `straight` uses no instruction of the disagreements below.
The states of `alu` satisfy `Supported` and the programs of `straight` satisfy
`Straight`, the conditions of the two refinement theorems: the runs show that
what those theorems assume does occur.

`JumpsReachTheirLabel` speaks of files of at most `FetchCount` (512) words: the fetch
counter has nine bits, and a jump over the 512th word goes somewhere else.

Fairness. `straight` assumes `WF(HistoryTick)` and that `rst` eventually stays low:
the benches run the clock for ever and lower `rst` once. `assemble` assumes weak
fairness of the assembler's next step: nothing blocks a sequential program.
`lexer` assumes it of the steps of `lexem_read` and `re_match` only; the reader
before them is a loop over the length of its file. `lists` assumes it of the next
step, for the same reason as `assemble`.

### Disagreements found

Each of these is a run that must find its property violated; the quoted texts
are in `PROJECT.json`.

| Run | Disagreement |
|---|---|
| `load_use` | the instruction after a load gets the load's address |
| `loop` | a backward offset is one too large, and loops drift |
| `two_nops` | a taken branch first selects the result of an older instruction, so what follows its two NOPs is not its target |
| `quiet` | without `-v` offsets are 0 |
| `branch_offset` | a branch offset is read back wrong |
| `grammar` | a register is accepted for an integer |
| `end_of_text` | at the end of a text without a newline, `r` is a register |

`two_nops` says where fetch stands when a taken branch is in memory, with its NOPs in
execute and decode: at the target, counted from the base the circuit itself uses, if
the redirect in execute were right. It loads the 36 of an ADDI instead, while the
target is in `alu_l`.

The modules also contain the following ones, which have no run of their own.

| Source | What it does |
|---|---|
| `branch_comp.sv:26` | SLT and SLTU are exchanged |
| `control_logic.sv:302` | a branch that is not taken restarts the program at 0 |
| `control_logic.sv:158` | SLTI and SLTIU compare with a register |
| `control_logic.sv:223` | no SRLI and SRAI: the result is 0 |
| `alu.sv:92` | SRA fills with zeros |
| `alu.sv:59` | AUIPC shifts the program counter with its immediate |
| `wb.sv:52` | AUIPC, JAL: bases and links from later program counters |
| `control_logic.sv:166` | JALR ignores its register |
| `mem.sv:96` | LB and LH do not extend the sign |
| `mem.sv:80` | the test for three bytes before the end can never hold |
| `regfile.sv:74` | register 0 is writable |
| `imem.sv:15` | words past the fetch counter are never fetched |
| `asm_line.c:636` | the sign of a JAL is lost |
| `asm_line.c:130` | `pc` and `r32` are registers without a number, printed as a null string |
| `lexem.c:134` | a label that begins with a mnemonic or a register is cut: `j jump` is refused |
| `char_group.c:87` | a class with an interval that ends in an escaped character skips the next one |
| `char_group.c:92`, `char_group.c:105` | a class that ends with a hyphen, or has an inner `^`, is left unfinished without an error |
| `regexp.c:146` | a class that ends with an escaped backslash is not closed |
| `regexp.c:256` | a name without an expression takes the next line |
| `char_group.c:168` | a character outside of ASCII matches nothing, even in a comment |
| `rv32icomp.c:50` | a source is cut at unknown text and assembled |

A backward JAL still arrives: its offset is wrong by a multiple of the size the
fetch counter wraps at, which is why `JumpsReachTheirLabel` holds in `assemble`.

## 4. Proofs

Every theorem holds for every value of the constants that satisfies the named
assumptions of the modules: sizes are positive, operators are closed on words,
programs are programs, a lexed integer fits an `int` (`parser.c` reads it with
`atoi`), a group is a set of letters with an operator, the file of expressions is made
of letters of the alphabet, which has a newline and a tab, and has no expression that
is only `^`: `regexp_new` puts a null pointer into its list for one
(`regexp.c:185`), which `re_match` goes through. None of the assumptions is about
behaviour.

### Circuit

`RiscvProofs` proves of the circuit's own state:

- `TypeCorrect`: `Spec => []TypeOK`, by one closure lemma per component.
- `PipelineAligned`: `Spec => []Aligned`. It is inductive with `TypeOK`. The
  two read addresses are not reset, which is why that conjunct holds only of
  an instruction that executes: a reset puts NOPs there.
- `ForwardingCorrect`: `Spec => []OperandsForwarded`, which follows from
  `TypeOK` and `Aligned` in each state: `Aligned` says that the register
  number in the register file's delay line is the one control logic compares.
- `TransparentPipeline`: `Spec => []PipelineTransparent`. The proof shows that
  an edge moves the instruction in execute, whose operands are `Visible` by
  the previous theorem, to the memory stage, where `Visible` has become the
  architectural registers; `LateOperand` is the exception the code has.

`RiscvIsaProofs` proves the two refinements that `alu` and `straight` check:

- `ExposedRefined`: `HistorySpec /\ []Supported => ImplementsExposed`. Every
  edge is one instruction of the machine with five addresses ahead, an edge
  that fills the pipeline, or a reset.
- `RV32IImplemented`: if `CountValues <= ImemLast + 1` and every program is
  `Straight`, `HistorySpec => ImplementsRV32I`, with no condition on behaviours.

The conditions are what the disagreements of §3 leave. `Supported` asks that
the program counter is in the program, that the fetched instruction is
`Conforming` (none that the circuit executes otherwise than RV32I, no write of
register 0), and that no instruction uses a late result. `Straight` says the
last two of a program and excludes jumps, whose four delay slots are not RV32I.
`CountValues <= ImemLast + 1` says that the memory has a word for each value of
the fetch counter, as in `bench_riscv.sv`, whose memory has 649; in a smaller
one, as those of the other benches, the counter of a program that ends runs out of
the array (`imem.sv:15`), what is fetched is unknown, and only the first theorem
applies, for as long as the counter is in the program.

The invariants are `Conforms` (what is in the pipeline conforms, register 0 is
0) and, for the first theorem, `Stages`: how full the pipeline is, and at
which address each of its instructions was fetched. `Ahead` derives the
queue of `Isa` from it. For the second `InLine` replaces `Stages`: without jumps
the addresses in the pipeline are consecutive, so the instruction that forwards
to the one in execute is the one before it in the program.

### Assembler

`EncoderProofs` is about one word. `WordDoes`: for every mnemonic but SRLI and
SRAI, control logic decodes the word to what the mnemonic means. `WordCarries`:
the immediate generator reads from the word the immediate of the line, reduced
to the field of its format. `JalCarries` says it of jumps, whose low eleven bits are
right. Both sum the bit ranges of `asm_line_write` and of `imm_gen.sv`.

`AssemblerProofs` is about the lines while they are parsed. Its invariant `Sound`
is `TypeOK`, the addresses of the lines in step, and, while parsing,
`line_addr` the address after the last line: without that conjunct the next line
could be out of step. One lemma per action shows that it is kept; those of the
actions that emit lines use that every line a rule adds is typed and follows
the one before it (`LinesFollow`, `InStepConcat`). It gives `TypeCorrect` and `AddressesCorrect`.

Its second part is about the finished file. Its invariant `Complete`: upper
immediates fit an `int`; after parsing the last line is an instruction; with
`-v`, after resolution, every jump has the offset to a line with its label; at the end
the output is the words of the lines. With `Sound` and the lemmas on words it
gives `WordsCorrect`, `ImmediatesCorrect` and `JumpsCorrect`.

### Lexer

`RegexpProofs` is about expressions as values. The words of one are the places
`Reached` computes group by group. Its theorem `OptimisedReaches`: for every expression,
text and place, `opti_regexp` keeps them. It follows the pass group by
group: each `Merge` keeps the words of what is behind it (`MergeReaches`: `a*a`, `a*a+`
and `a+` have the same, as have `a+a` and `aa+`), and what follows sees the places only
(`ReachedAppend`). The
module proves as well that what is read from letters are groups (`GroupsReadTyped`
and the lemmas before it) and describes a matcher
that never goes back by two sets: from where it `Leads` on, and where it is
`Stuck`. In an expression that is `Determinate` the places it passes by are
dead ends (`DeadEnd`), so that where it arrives is the longest word (`LeadsIsLongest`), and
where it is stuck there is none. At the end of the text, where a group that must have a
letter is still to come, there is no word either (`LeadsNowhere`).

`LexerProofs` has two invariants. `Typed` gives `TypeCorrect`: no turn looks at a group past
the last or a letter past the end, and the words that are read lie in the file.
`Pursuing` says of a match that the place and group it stands at were reached
by words of the groups before, and `Entered` that `first_char` tells whether the
group at hand has seen a letter. They give three results:

- `LexemsSound`: `Spec => LexemsAreWords`, for every database and every text. A flag that
  outlives its group, or a group left too early, would break it. Its second case is the
  defect of `end_of_text`.
- `EndIsJudged`: `Spec /\ []NoChoice /\ []NotCutShort => []EndJudged`. At the end of the
  text `re_match` looks at one group only, the last. It takes two more invariants: `Fit`,
  that the list is as it was when the text was opened, and `Took`, that the last letter was
  taken by the group at hand or the one before it. If that is not the last group,
  `NotCutShort` gives a group that must still have a letter, and there is no word.
- `TokensImplemented`: `Spec /\ []DatabaseRead /\ []NoChoice /\ []NotCutShort =>
  ImplementsTokens`. One lemma per outcome: a call of `re_match` that accepts is the step of
  `Tokens` that takes the longest word of the first language with one, a call that refuses
  shows that its language has none (`Missed` keeps it for those before), and all other steps stutter.

The three hypotheses say nothing of how `re_match` runs. They speak of one database, as it is read, and its texts, and run `lexer` checks each
of them, as invariants, on the database of the repository and on pairs of expressions:
what the theorem assumes does occur. None follows from the code. The first
relates the file to what its author meant. The second is false of an expression as `a?a`,
which `opti_regexp` leaves as it is. The third is false of the text of `end_of_text`.

### Line list

`ListsProofs` proves `TypeCorrect`, `Owned`, `SequenceImplemented`
(`Spec => ImplementsSequence`: one turn of `opti_regexp` is one merge of the
abstract sequence) and `RewritingKeepsWords` (`Spec => WordsKept`), from
`GroupsAssumption`, `LinkCountAssumption` and `TextsAssumption` (texts are sequences).
Its invariant says that the list is a *chain*: a sequence of different links,
each linked to the next, that covers the heap; and that `opti_regexp` stands on
one of them. `LinksFrom`, which follows the links from one, is bounded by
the number of links; a chain is no longer than that (`ChainsAreShort`, by
cardinalities), so `LinksFrom` of its first link is the chain
(`LinksFollowChains`). `AddKeeps`, `DropKeeps`, `ExchangeKeeps` and `DeleteKeeps`
say what an operation on the heap does to the chain, and `Views` what the
refinement mapping shows of it. For `WordsKept`, `WholeSplits` says that during the walk
the list is `merged` and then `rest`; a merge keeps the words of the first
(`MergeReaches`), and expressions with the same words keep them with the same groups behind
(`SameBehind`).

Induction over lengths is by `SetInduction` and `BoundedInduction` of `ProofLemmas`,
which speak of a set of numbers and not of an operator; a step that needs one defines
its set. `BoundedRecursion` shows, from a set its values stay in, that a function
defined by recursion on `0 .. n` exists; the readers, the rewriting and the places of a word are such functions.

### What only TLC checks

- Liveness: `EveryInstructionRuns`, `Terminates`, `LexerEnds`, `ListsEnd`.
- `DatabaseRead`, `NoChoice`, `NotCutShort` and `MnemonicsWhole` of the lexer: each depends on the
  database and the text, and is false of some.
- Bitwise operators and shifts are constants in the proofs, with their ranges
  assumed; the instances give them their meaning.

## 5. Not modelled

The queue, which nothing uses, and the buffers of `string.c` (strings and all
other lists than those of `Lists` are sequences here), positions of
lexems (for messages only), timing below a clock edge, `X` propagation other
than by unknown values, memory management of the assembler, an expression that
is empty or a single `^` (a null group), and the parts marked so in the
inventory: the test library, the benches, tool scripts and reports hold no
behaviour of the program.

## 6. Plan

Done: the processor, its abstract machine and its refinement; the assembler with
its lexer and their abstract tokenizer; the list and its refinement; the tables of
the assembler against the decoder of the circuit; theorems about each of them. Next:

1. `Toolchain`: the words of `Assembler` loaded into `Isa`, end to end.
2. `DatabaseRead` as a theorem of the reader, against a grammar of expressions.
