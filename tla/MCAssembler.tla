----------------------------- MODULE MCAssembler ------------------------------
(* Every source of a few lines out of a pool; two labels.                   *)
EXTENDS AssemblerClaims

Lexem(type) == [type |-> type, value |-> ""]
R(name) == [type |-> "register", value |-> name]
Dec(n) == [type |-> "dec", value |-> n]
To(name) == [type |-> "symbol", value |-> name]
At(name) == [type |-> "label", value |-> name]
Blank == Lexem("blank")
Comma == Lexem("comma")
Newline == Lexem("newline")
Comment == Lexem("comment")

Three(insn, a, b, c) == << Lexem(insn), Blank, a, Comma, b, Comma, c >>
Two(insn, a, b) == << Lexem(insn), Blank, a, Comma, b >>
Access(insn, a, imm, b) ==
    << Lexem(insn), Blank, a, Comma, Dec(imm), Lexem("("), b, Lexem(")") >>

\* The beginning of a line with what ends it.
Ended(line) == Append(line, Newline)

Lines ==
    { Ended(<< At("A") >>), Ended(<< At("B"), Comment >>),
      Ended(<< Blank >> \o << Comment >>),
      Ended(Three("BEQ", R("r1"), R("r2"), To("A"))),
      Ended(Two("JAL", R("r1"), To("B")) \o << Blank, Comment >>),
      Ended(<< Lexem("J"), Blank, To("A") >>),
      Ended(Three("ADDI", R("r1"), R("r2"), Dec(-1))) \o << Blank >>,
      Ended(Access("LW", R("r3"), -28, R("r6"))),
      Ended(Two("MV", R("r3"), R("r4"))) }

Unfinished ==
    { Ended(Three("ADDI", R("r1"), R("r2"), R("r3"))), Ended(<< Lexem("NOP") >>),
      Ended(<< At("PROG_START") >>),
      Two("LI", R("r1"), Dec(5)) \o << At("A") >>, << Comment >>,
      Ended(Three("JALR", R("r1"), R("r2"), To("B"))), << Lexem("none") >>, << >> }

\* Every instruction: those with an immediate with values at the ends of its
\* range and past them, the others once; and every register, known or not.
Values == {0, 1, 2, 5, 31, 32, 1024, 2047, -1, -2, -2047, -2048,
           2048, 4095, 4096, -2049, 100000}
Immediates ==
    {Ended(Three(insn, R("r1"), R("r2"), Dec(n))) : insn \in RegImm, n \in Values}
    \cup {Ended(Access(insn, R("r1"), n, R("r2"))) :
            insn \in Load \cup Store, n \in Values}
    \cup {Ended(Two(insn, R("r1"), Dec(n))) :
            insn \in Upper, n \in {4096 * v : v \in Values} \cup Values}
Others ==
    {Ended(Three(insn, R("s0"), R("zero"), R("a7"))) : insn \in RegReg}
    \cup {Ended(<< At("A") >>) \o Ended(Three(insn, R("ra"), R("sp"), To("A"))) :
            insn \in Branch}
    \cup {Ended(Two("MV", R(name), R("r31"))) :
            name \in {"pc", "r32"} \cup UNION {RegNames[k] : k \in 1 .. 32}}

\* Comments may come first; the pool includes lines the grammar refuses.
MCSources ==
    {<< Comment >> \o a \o b \o c \o d :
        a \in Lines, b \in Lines, c \in Lines, d \in Unfinished}
    \cup {a \o b : a \in Lines, b \in Unfinished}
    \cup Immediates \cup Others
MCLexemSet == UNION {{s[k] : k \in DOMAIN s} : s \in MCSources}

\* One source for each disagreement.
ForwardBranch ==
    {Ended(Three("BEQ", R("r1"), R("r2"), To("A"))) \o Ended(<< At("A") >>)}
RegisterForInteger == {Ended(Three("ADDI", R("r1"), R("r2"), R("r3")))}
==============================================================================
