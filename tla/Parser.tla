------------------------------- MODULE Parser --------------------------------
(***************************************************************************)
(* The grammar of the assembler (parser.c) and the lines it produces       *)
(* (asm_line.c).  A lexem is its type and its value: the name of a         *)
(* register, an integer, a label's name without its colon, "" for none.    *)
(***************************************************************************)
EXTENDS Integers, Sequences

\* The instructions in the order of insnset_t, and the types insnset2insn
\* cuts that order into.
InsnSet == <<
    "NOP", "ADD", "AND", "SLL", "SRL", "OR", "XOR", "SLTU", "SLT", "SRA",
    "SUB", "ADDI", "ANDI", "SLLI", "SRLI", "ORI", "XORI", "SLTIU", "SLTI",
    "SRAI", "BEQ", "BNE", "BGEU", "BGE", "BLTU", "BLT", "LUI", "AUIPC",
    "LBU", "LHU", "LB", "LH", "LW", "SB", "SW", "SH", "JAL", "JALR" >>

Insns == {InsnSet[k] : k \in DOMAIN InsnSet}
Between(first, last) == {InsnSet[k + 1] : k \in first .. last}

RegReg == Between(1, 10)
RegImm == Between(11, 19)
Branch == Between(20, 25)
Upper  == Between(26, 27)
Load   == Between(28, 32)
Store  == Between(33, 35)

\* Faulty variant: the last register instruction is taken for an immediate.
TypeOfShort(insn) ==
    CASE insn \in RegReg \ {"SUB"}   -> "REGREG"
      [] insn \in RegImm \cup {"SUB"} -> "REGIMM"
      [] insn \in Branch -> "BRANCH"
      [] insn \in Load   -> "LOAD"
      [] insn \in Store  -> "STORE"
      [] OTHER -> insn

TypeOf(insn) ==
    CASE insn \in RegReg -> "REGREG"
      [] insn \in RegImm -> "REGIMM"
      [] insn \in Branch -> "BRANCH"
      [] insn \in Load   -> "LOAD"
      [] insn \in Store  -> "STORE"
      [] OTHER -> insn                 \* LUI, AUIPC, JAL, JALR and NOP

\* The names str2reg knows, from those of register 0 on.
RegNames == <<
    {"zero", "r0"}, {"ra", "r1"}, {"sp", "r2"}, {"r3"}, {"r4"}, {"r5"}, {"r6"},
    {"r7"}, {"s0", "r8"}, {"s1", "r9"}, {"a0", "r10"}, {"a1", "r11"},
    {"a2", "r12"}, {"a3", "r13"}, {"a4", "r14"}, {"a5", "r15"}, {"a6", "r16"},
    {"a7", "r17"}, {"r18"}, {"r19"}, {"r20"}, {"r21"}, {"r22"}, {"r23"},
    {"r24"}, {"r25"}, {"r26"}, {"r27"}, {"r28"}, {"r29"}, {"r30"}, {"r31"} >>

\* The number of a register, and that of the others that the expressions of
\* the database let pass, as pc and r32.
NoReg == -1
Str2Reg(name) ==
    LET numbers == {n \in 0 .. 31 : name \in RegNames[n + 1]}
    IN  IF numbers = {} THEN NoReg ELSE CHOOSE n \in numbers : TRUE

\* The types that begin with another type: << short, long >>.
Prefixes ==
    { <<"ADD", "ADDI">>, <<"AND", "ANDI">>, <<"SLL", "SLLI">>,
      <<"SRL", "SRLI">>, <<"OR", "ORI">>, <<"XOR", "XORI">>,
      <<"SLT", "SLTI">>, <<"SLT", "SLTU">>, <<"SLT", "SLTIU">>,
      <<"SLTI", "SLTIU">>, <<"SRA", "SRAI">>, <<"BLT", "BLTU">>,
      <<"BGE", "BGEU">>, <<"LB", "LBU">>, <<"LH", "LHU">>, <<"JAL", "JALR">> }

\* next_lexem_is compares no more than the prefix it is given.
Is(lexem, type) == lexem.type = type \/ << type, lexem.type >> \in Prefixes
NextIs(s, type) == s # << >> /\ Is(Head(s), type)

\* The lexems after the first one, if it has that type.
Skip(s, type) == IF NextIs(s, type) THEN Tail(s) ELSE s

-----------------------------------------------------------------------------
(* Lines *)

NoLabel == ""
NewLine(addr) ==
    [kind |-> "INSN", insn |-> "NOP", rd |-> 0, rs1 |-> 0, rs2 |-> 0,
     imm |-> 0, label |-> NoLabel, line_addr |-> addr]
LabelLine(name, addr) ==
    [NewLine(addr) EXCEPT !.kind = "LABEL", !.label = name]
InsnLine(insn, rd, rs1, rs2, imm, label, addr) ==
    [NewLine(addr) EXCEPT !.insn = insn, !.rd = rd, !.rs1 = rs1, !.rs2 = rs2,
                          !.imm = imm, !.label = label]

IsInsnLine(line) == line.kind = "INSN"
IsJump(line) ==
    IsInsnLine(line) /\ TypeOf(line.insn) \in {"BRANCH", "JAL", "JALR"}

-----------------------------------------------------------------------------
(* Instructions *)

Rule(name, heads, tail) == [name |-> name, heads |-> heads, tail |-> tail]

\* In the order parse_insn and parse_unsninsn try them.  parse_unsninsn_ble
\* is not here: it refuses everything.
Rules == <<
    Rule("regreg", RegReg, <<"blank", "register", "comma", "register",
                             "comma", "register">>),
    Rule("imm", RegImm, <<"blank", "register", "comma", "register", "comma",
                          "dec">>),
    Rule("branch", Branch, <<"blank", "register", "comma", "register",
                             "comma", "symbol">>),
    Rule("load", Load, <<"blank", "register", "comma", "dec", "(",
                         "register", ")">>),
    Rule("store", Store, <<"blank", "register", "comma", "dec", "(",
                           "register", ")">>),
    Rule("jal", {"JAL"}, <<"blank", "register", "comma", "symbol">>),
    Rule("jalr", {"JALR"}, <<"blank", "register", "comma", "register",
                             "comma", "symbol">>),
    Rule("upper", Upper, <<"blank", "register", "comma", "dec">>),
    Rule("j", {"J"}, <<"blank", "symbol">>),
    Rule("li", {"LI"}, <<"blank", "register", "comma", "dec">>),
    Rule("mv", {"MV"}, <<"blank", "register", "comma", "register">>) >>

Fits(rule, s) ==
    /\ Len(s) > Len(rule.tail)
    /\ \E head \in rule.heads : Is(s[1], head)
    /\ \A k \in 1 .. Len(rule.tail) : Is(s[k + 1], rule.tail[k])

StartsWithInsn(s) == \E k \in DOMAIN Rules : Fits(Rules[k], s)

\* The first rule that fits; a rule that fails gives its lexems back.
RuleOf(s) ==
    Rules[CHOOSE k \in DOMAIN Rules :
            Fits(Rules[k], s) /\ \A j \in 1 .. k - 1 : ~Fits(Rules[j], s)]

AfterInsn(s) == SubSeq(s, Len(RuleOf(s).tail) + 2, Len(s))

\* Faulty variant: the base and the offset of a load are exchanged.
LoadLineExchanged(s, addr) ==
    InsnLine(s[1].type, Str2Reg(s[3].value), s[5].value, 0,
             Str2Reg(s[7].value), NoLabel, addr)

LoadLine(s, addr) ==
    InsnLine(s[1].type, Str2Reg(s[3].value), Str2Reg(s[7].value), 0,
             s[5].value, NoLabel, addr)

\* The instruction a pseudo-instruction stands for: J is a JAL that links
\* register 6, LI adds to register 0, MV adds register 0.
PseudoLine(name, s, addr) ==
    LET reg(k) == Str2Reg(s[k].value)
    IN  CASE name = "j"  -> InsnLine("JAL", 6, 0, 0, 0, s[3].value, addr)
          [] name = "li" -> InsnLine("ADDI", reg(3), 0, 0, s[5].value, NoLabel,
                                     addr)
          [] name = "mv" -> InsnLine("ADD", reg(3), reg(5), 0, 0, NoLabel, addr)

\* What an instruction becomes: one line, or three for a branch, since its
\* two successors may run although it is taken.
LinesOf(s, addr) ==
    LET reg(k) == Str2Reg(s[k].value)
        value(k) == s[k].value
        insn(rd, rs1, rs2, imm, label) ==
            InsnLine(s[1].type, rd, rs1, rs2, imm, label, addr)
        name == RuleOf(s).name
    IN  CASE name = "regreg" -> << insn(reg(3), reg(5), reg(7), 0, NoLabel) >>
          [] name = "imm"    -> << insn(reg(3), reg(5), 0, value(7), NoLabel) >>
          [] name = "branch" -> << insn(0, reg(3), reg(5), 0, value(7)),
                                   NewLine(addr + 4), NewLine(addr + 8) >>
          [] name = "load"   -> << LoadLine(s, addr) >>
          [] name = "store"  -> << insn(0, reg(7), reg(3), value(5), NoLabel) >>
          [] name = "jal"    -> << insn(reg(3), 0, 0, 0, value(5)) >>
          [] name = "jalr"   -> << insn(reg(3), reg(5), 0, 0, value(7)) >>
          [] name = "upper"  -> << insn(reg(3), 0, 0, value(5), NoLabel) >>
          [] OTHER -> << PseudoLine(name, s, addr) >>

\* Faulty variant: the NOPs do not count.
AddressAfterOne(lines, addr) == addr + 4

AddressAfter(lines, addr) == addr + 4 * Len(lines)
==============================================================================
