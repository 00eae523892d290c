--------------------------- MODULE AssemblerProofs ---------------------------
(***************************************************************************)
(* Theorems about Assembler, for every set of source files and options:    *)
(* what holds of the lines at every step, then the file that is written.   *)
(***************************************************************************)
EXTENDS Assembler, EncoderProofs, FiniteSetTheorems

Lexems == Seq(LexemSet)

-----------------------------------------------------------------------------
(* Lexems *)

\* The types that are no prefix of another name exactly themselves.
LEMMA IsType ==
  ASSUME NEW lexem, NEW type \in {"dec", "symbol", "label", "register"}
  PROVE  Is(lexem, type) => lexem.type = type
  BY DEF Is, Prefixes

LEMMA IntegerValue ==
  ASSUME NEW lexem \in LexemSet, Is(lexem, "dec") PROVE lexem.value \in CInt
  BY SourcesAssumption, IsType

LEMMA NameValue ==
  ASSUME NEW lexem \in LexemSet, Is(lexem, "symbol") \/ Is(lexem, "label")
  PROVE  lexem.value \in Names
  BY SourcesAssumption, IsType DEF Names

LEMMA SkipIsLexems ==
  ASSUME NEW s \in Lexems, NEW type
  PROVE  Skip(s, type) \in Lexems
  BY HeadTailProperties DEF Skip, NextIs, Lexems

LEMMA HeadIsLexem ==
  ASSUME NEW s \in Lexems, NEW type, NextIs(s, type)
  PROVE  Head(s) \in LexemSet /\ Tail(s) \in Lexems /\ Is(Head(s), type)
  BY HeadTailProperties DEF NextIs, Lexems

-----------------------------------------------------------------------------
(* Lines *)

LEMMA RegisterNumber == \A name : Str2Reg(name) \in Reg
  BY DEF Str2Reg, Reg, NoReg

LEMMA InsnLineIsLine ==
  ASSUME NEW insn \in Insns, NEW rd \in Reg, NEW rs1 \in Reg, NEW rs2 \in Reg,
         NEW imm \in CInt, NEW label \in Names, NEW addr \in Nat
  PROVE  LET line == InsnLine(insn, rd, rs1, rs2, imm, label, addr)
         IN  /\ line \in Line /\ IsInsnLine(line)
             /\ line.insn = insn /\ line.imm = imm /\ line.line_addr = addr
  BY DEF InsnLine, NewLine, Line, IsInsnLine, CInt

LEMMA InsnsNamed ==
  /\ RegReg \subseteq Insns /\ RegImm \subseteq Insns /\ Branch \subseteq Insns
  /\ Upper \subseteq Insns /\ Load \subseteq Insns /\ Store \subseteq Insns
  /\ {"NOP", "ADD", "ADDI", "JAL", "JALR"} \subseteq Insns
<1>1. DOMAIN InsnSet = 1 .. 38
  BY DEF InsnSet
<1>2. \A k \in 0 .. 37 : InsnSet[k + 1] \in Insns
  BY <1>1 DEF Insns
<1>3. InsnSet[1] = "NOP" /\ InsnSet[2] = "ADD" /\ InsnSet[12] = "ADDI"
      /\ InsnSet[37] = "JAL" /\ InsnSet[38] = "JALR"
  BY DEF InsnSet
<1>4. {"NOP", "ADD", "ADDI", "JAL", "JALR"} \subseteq Insns
  BY <1>1, <1>3 DEF Insns
<1> QED
  BY <1>2, <1>4 DEF RegReg, RegImm, Branch, Upper, Load, Store, Between

LEMMA NewLineIsLine ==
  ASSUME NEW addr \in Nat
  PROVE  /\ NewLine(addr) \in Line
         /\ IsInsnLine(NewLine(addr)) /\ NewLine(addr).line_addr = addr
         /\ NewLine(addr).insn = "NOP" /\ NewLine(addr).imm = 0
  BY InsnsNamed DEF NewLine, Line, IsInsnLine, Names, Reg

LEMMA LabelLineIsLine ==
  ASSUME NEW name \in Names, NEW addr \in Nat
  PROVE  LET line == LabelLine(name, addr)
         IN  /\ line \in Line /\ ~IsInsnLine(line)
             /\ line.insn = "NOP" /\ line.line_addr = addr
  BY NewLineIsLine DEF LabelLine, NewLine, Line, IsInsnLine

\* A lexem that begins like a mnemonic is a mnemonic.
LEMMA MnemonicIsInsn ==
  ASSUME NEW lexem, NEW type \in Insns, Is(lexem, type)
  PROVE  lexem.type \in Insns
<1>1. \A pair \in Prefixes : pair[2] \in Insns
  BY DEF Prefixes, Insns, InsnSet
<1> QED
  BY <1>1 DEF Is

-----------------------------------------------------------------------------
(* Instructions *)

\* The rule that is applied is one that fits.
LEMMA RuleFits ==
  ASSUME NEW s, StartsWithInsn(s)
  PROVE  \E k \in DOMAIN Rules : RuleOf(s) = Rules[k] /\ Fits(Rules[k], s)
<1> DEFINE fitting == {k \in DOMAIN Rules : Fits(Rules[k], s)}
           first(k) == Fits(Rules[k], s) /\ \A j \in 1 .. k - 1 : ~Fits(Rules[j], s)
<1>1. DOMAIN Rules = 1 .. 11
  BY DEF Rules
<1>2. PICK k \in fitting : \A j \in fitting : k <= j
  <2>1. fitting \subseteq Nat /\ fitting # {}
    BY <1>1 DEF StartsWithInsn
  <2> HIDE DEF fitting
  <2> QED
    BY <2>1, LeastNat
<1>3. first(k) /\ k \in DOMAIN Rules
  BY <1>1, <1>2
<1>4. RuleOf(s) = Rules[CHOOSE i \in DOMAIN Rules : first(i)]
  BY DEF RuleOf
<1> HIDE DEF first
<1>5. first(CHOOSE i \in DOMAIN Rules : first(i))
      /\ (CHOOSE i \in DOMAIN Rules : first(i)) \in DOMAIN Rules
  BY <1>3
<1> QED
  BY <1>4, <1>5 DEF first

\* What the rules leave of the lexems.
LEMMA RestIsLexems ==
  ASSUME NEW s \in Lexems, StartsWithInsn(s)
  PROVE  AfterInsn(s) \in Lexems
<1>1. PICK k \in DOMAIN Rules : RuleOf(s) = Rules[k]
  BY RuleFits
<1>2. Len(RuleOf(s).tail) \in Nat
  BY <1>1 DEF Rules, Rule
<1> QED
  BY <1>2, SubSeqProperties DEF AfterInsn, Lexems

\* Lines of instructions that follow one another from addr on, with integers
\* an int holds.
Follow(lines, addr) ==
  /\ lines \in Seq(Line) /\ Len(lines) > 0
  /\ \A k \in 1 .. Len(lines) :
        /\ IsInsnLine(lines[k]) /\ lines[k].imm \in CInt
        /\ lines[k].line_addr = addr + 4 * (k - 1)

LEMMA ZeroIsInt == 0 \in CInt
  BY DEF CInt

LEMMA InsnFollows ==
  ASSUME NEW insn \in Insns, NEW rd \in Reg, NEW rs1 \in Reg, NEW rs2 \in Reg,
         NEW imm \in CInt, NEW label \in Names, NEW addr \in Nat
  PROVE  Follow(<< InsnLine(insn, rd, rs1, rs2, imm, label, addr) >>, addr)
<1> DEFINE line == InsnLine(insn, rd, rs1, rs2, imm, label, addr)
<1>1. /\ line \in Line /\ IsInsnLine(line)
      /\ line.imm \in CInt /\ line.line_addr = addr
  BY InsnLineIsLine
<1> HIDE DEF line
<1>2. Follow(<< line >>, addr)
  BY <1>1 DEF Follow
<1> QED
  BY <1>2 DEF line

LEMMA BranchFollows ==
  ASSUME NEW insn \in Insns, NEW rs1 \in Reg, NEW rs2 \in Reg,
         NEW label \in Names, NEW addr \in Nat
  PROVE  Follow(<< InsnLine(insn, 0, rs1, rs2, 0, label, addr),
                   NewLine(addr + 4), NewLine(addr + 8) >>, addr)
<1> DEFINE line == InsnLine(insn, 0, rs1, rs2, 0, label, addr)
<1>1. /\ line \in Line /\ IsInsnLine(line)
      /\ line.imm \in CInt /\ line.line_addr = addr
  <2>1. 0 \in Reg /\ 0 \in CInt
    BY ZeroIsInt DEF Reg
  <2> QED
    BY <2>1, InsnLineIsLine
<1>2. /\ NewLine(addr + 4) \in Line /\ IsInsnLine(NewLine(addr + 4))
      /\ NewLine(addr + 4).imm \in CInt
      /\ NewLine(addr + 4).line_addr = addr + 4
      /\ NewLine(addr + 8) \in Line /\ IsInsnLine(NewLine(addr + 8))
      /\ NewLine(addr + 8).imm \in CInt
      /\ NewLine(addr + 8).line_addr = addr + 8
  BY NewLineIsLine, ZeroIsInt
<1> HIDE DEF line
<1>3. Follow(<< line, NewLine(addr + 4), NewLine(addr + 8) >>, addr)
  BY <1>1, <1>2 DEF Follow
<1> QED
  BY <1>3 DEF line

\* Every rule gives lines of instructions at the addresses that come next.
LEMMA LinesFollow ==
  ASSUME NEW s \in Lexems, StartsWithInsn(s), NEW addr \in Nat
  PROVE  Follow(LinesOf(s, addr), addr)
<1> DEFINE reg(k) == Str2Reg(s[k].value)
           name == RuleOf(s).name
<1>1. PICK n \in DOMAIN Rules : RuleOf(s) = Rules[n] /\ Fits(Rules[n], s)
  BY RuleFits
<1>2. n \in 1 .. 11
  BY <1>1 DEF Rules
<1>3. /\ Len(s) > Len(Rules[n].tail)
      /\ \E head \in Rules[n].heads : Is(s[1], head)
      /\ \A k \in 1 .. Len(Rules[n].tail) : Is(s[k + 1], Rules[n].tail[k])
  BY <1>1 DEF Fits
<1>4. \A k \in 1 .. Len(s) : s[k] \in LexemSet
  BY ElementOfSeq DEF Lexems
<1>5. Len(s) \in Nat
  BY LenProperties DEF Lexems
<1>6. \A k : reg(k) \in Reg
  BY RegisterNumber
<1>7. 0 \in Reg /\ 6 \in Reg /\ NoLabel \in Names /\ 0 \in CInt
  BY ZeroIsInt DEF Reg, Names
<1>8. ASSUME n \in 1 .. 8 PROVE s[1].type \in Insns
  <2>1. Rules[n].heads \subseteq Insns
    BY <1>8, InsnsNamed DEF Rules, Rule
  <2> QED
    BY <1>3, <2>1, MnemonicIsInsn
<1> HIDE DEF reg
<1>10. CASE n = 1
  <2>1. name = "regreg"
    BY <1>1, <1>10 DEF Rules, Rule
  <2>2. LinesOf(s, addr) =
          << InsnLine(s[1].type, reg(3), reg(5), reg(7), 0, NoLabel, addr) >>
    BY <2>1 DEF LinesOf, reg
  <2> QED
    BY <1>6, <1>7, <1>8, <1>10, <2>2, InsnFollows
<1>11. CASE n = 2
  <2>1. name = "imm" /\ Len(Rules[n].tail) = 6 /\ Rules[n].tail[6] = "dec"
    BY <1>1, <1>11 DEF Rules, Rule
  <2>2. s[7].value \in CInt
    BY <1>3, <1>4, <1>5, <2>1, IntegerValue
  <2>3. LinesOf(s, addr) =
          << InsnLine(s[1].type, reg(3), reg(5), 0, s[7].value, NoLabel, addr) >>
    BY <2>1 DEF LinesOf, reg
  <2> QED
    BY <1>6, <1>7, <1>8, <1>11, <2>2, <2>3, InsnFollows
<1>12. CASE n = 3
  <2>1. name = "branch" /\ Len(Rules[n].tail) = 6 /\ Rules[n].tail[6] = "symbol"
    BY <1>1, <1>12 DEF Rules, Rule
  <2>2. s[7].value \in Names
    BY <1>3, <1>4, <1>5, <2>1, NameValue
  <2>3. LinesOf(s, addr) =
          << InsnLine(s[1].type, 0, reg(3), reg(5), 0, s[7].value, addr),
             NewLine(addr + 4), NewLine(addr + 8) >>
    BY <2>1 DEF LinesOf, reg
  <2> QED
    BY <1>6, <1>8, <1>12, <2>2, <2>3, BranchFollows
<1>13. CASE n = 4
  <2>1. name = "load" /\ Len(Rules[n].tail) = 7 /\ Rules[n].tail[4] = "dec"
    BY <1>1, <1>13 DEF Rules, Rule
  <2>2. s[5].value \in CInt
    BY <1>3, <1>4, <1>5, <2>1, IntegerValue
  <2>3. LinesOf(s, addr) =
          << InsnLine(s[1].type, reg(3), reg(7), 0, s[5].value, NoLabel, addr) >>
    BY <2>1 DEF LinesOf, LoadLine, reg
  <2> QED
    BY <1>6, <1>7, <1>8, <1>13, <2>2, <2>3, InsnFollows
<1>14. CASE n = 5
  <2>1. name = "store" /\ Len(Rules[n].tail) = 7 /\ Rules[n].tail[4] = "dec"
    BY <1>1, <1>14 DEF Rules, Rule
  <2>2. s[5].value \in CInt
    BY <1>3, <1>4, <1>5, <2>1, IntegerValue
  <2>3. LinesOf(s, addr) =
          << InsnLine(s[1].type, 0, reg(7), reg(3), s[5].value, NoLabel, addr) >>
    BY <2>1 DEF LinesOf, reg
  <2> QED
    BY <1>6, <1>7, <1>8, <1>14, <2>2, <2>3, InsnFollows
<1>15. CASE n = 6
  <2>1. name = "jal" /\ Len(Rules[n].tail) = 4 /\ Rules[n].tail[4] = "symbol"
    BY <1>1, <1>15 DEF Rules, Rule
  <2>2. s[5].value \in Names
    BY <1>3, <1>4, <1>5, <2>1, NameValue
  <2>3. LinesOf(s, addr) =
          << InsnLine(s[1].type, reg(3), 0, 0, 0, s[5].value, addr) >>
    BY <2>1 DEF LinesOf, reg
  <2> QED
    BY <1>6, <1>7, <1>8, <1>15, <2>2, <2>3, InsnFollows
<1>16. CASE n = 7
  <2>1. name = "jalr" /\ Len(Rules[n].tail) = 6 /\ Rules[n].tail[6] = "symbol"
    BY <1>1, <1>16 DEF Rules, Rule
  <2>2. s[7].value \in Names
    BY <1>3, <1>4, <1>5, <2>1, NameValue
  <2>3. LinesOf(s, addr) =
          << InsnLine(s[1].type, reg(3), reg(5), 0, 0, s[7].value, addr) >>
    BY <2>1 DEF LinesOf, reg
  <2> QED
    BY <1>6, <1>7, <1>8, <1>16, <2>2, <2>3, InsnFollows
<1>17. CASE n = 8
  <2>1. name = "upper" /\ Len(Rules[n].tail) = 4 /\ Rules[n].tail[4] = "dec"
    BY <1>1, <1>17 DEF Rules, Rule
  <2>2. s[5].value \in CInt
    BY <1>3, <1>4, <1>5, <2>1, IntegerValue
  <2>3. LinesOf(s, addr) =
          << InsnLine(s[1].type, reg(3), 0, 0, s[5].value, NoLabel, addr) >>
    BY <2>1 DEF LinesOf, reg
  <2> QED
    BY <1>6, <1>7, <1>8, <1>17, <2>2, <2>3, InsnFollows
<1>18. CASE n = 9
  <2>1. name = "j" /\ Len(Rules[n].tail) = 2 /\ Rules[n].tail[2] = "symbol"
    BY <1>1, <1>18 DEF Rules, Rule
  <2>2. s[3].value \in Names
    BY <1>3, <1>4, <1>5, <2>1, NameValue
  <2>3. LinesOf(s, addr) = << InsnLine("JAL", 6, 0, 0, 0, s[3].value, addr) >>
    BY <2>1 DEF LinesOf, PseudoLine
  <2> QED
    BY <1>7, <2>2, <2>3, InsnsNamed, InsnFollows
<1>19. CASE n = 10
  <2>1. name = "li" /\ Len(Rules[n].tail) = 4 /\ Rules[n].tail[4] = "dec"
    BY <1>1, <1>19 DEF Rules, Rule
  <2>2. s[5].value \in CInt
    BY <1>3, <1>4, <1>5, <2>1, IntegerValue
  <2>3. LinesOf(s, addr) =
          << InsnLine("ADDI", reg(3), 0, 0, s[5].value, NoLabel, addr) >>
    BY <2>1 DEF LinesOf, PseudoLine, reg
  <2> QED
    BY <1>6, <1>7, <2>2, <2>3, InsnsNamed, InsnFollows
<1>20. CASE n = 11
  <2>1. name = "mv"
    BY <1>1, <1>20 DEF Rules, Rule
  <2>2. LinesOf(s, addr) =
          << InsnLine("ADD", reg(3), reg(5), 0, 0, NoLabel, addr) >>
    BY <2>1 DEF LinesOf, PseudoLine, reg
  <2> QED
    BY <1>6, <1>7, <2>2, InsnsNamed, InsnFollows
<1> QED
  BY <1>2, <1>10, <1>11, <1>12, <1>13, <1>14, <1>15, <1>16, <1>17, <1>18,
     <1>19, <1>20

-----------------------------------------------------------------------------
(* Addresses *)

InStep(lines) ==
  \A k \in 1 .. Len(lines) - 1 :
     lines[k + 1].line_addr = lines[k].line_addr + Size(lines[k])

NextAddr(lines) == Last(lines).line_addr + Size(Last(lines))

LEMMA InStepAppend ==
  ASSUME NEW lines \in Seq(Line), lines # << >>, InStep(lines),
         NEW line \in Line, line.line_addr = NextAddr(lines)
  PROVE  LET longer == Append(lines, line)
         IN  /\ longer \in Seq(Line) /\ longer # << >>
             /\ InStep(longer)
             /\ NextAddr(longer) = line.line_addr + Size(line)
             /\ longer[1] = lines[1]
<1> DEFINE longer == Append(lines, line)
<1>1. Len(lines) \in Nat \ {0}
  BY EmptySeq
<1>2. /\ longer \in Seq(Line) /\ longer # << >>
      /\ Len(longer) = Len(lines) + 1
      /\ \A k \in 1 .. Len(lines) : longer[k] = lines[k]
      /\ longer[Len(lines) + 1] = line
  BY AppendProperties
<1> HIDE DEF longer
<1>3. InStep(longer)
  <2> SUFFICES ASSUME NEW k \in 1 .. Len(longer) - 1
               PROVE  longer[k + 1].line_addr
                        = longer[k].line_addr + Size(longer[k])
    BY DEF InStep
  <2>1. CASE k = Len(lines)
    BY <1>1, <1>2, <2>1 DEF NextAddr, Last
  <2>2. CASE k \in 1 .. Len(lines) - 1
    BY <1>1, <1>2, <2>2 DEF InStep
  <2> QED
    BY <1>1, <1>2, <2>1, <2>2
<1>4. NextAddr(longer) = line.line_addr + Size(line)
  BY <1>1, <1>2 DEF NextAddr, Last
<1> QED
  BY <1>1, <1>2, <1>3, <1>4 DEF longer

LEMMA InStepConcat ==
  ASSUME NEW lines \in Seq(Line), lines # << >>, InStep(lines),
         NEW new, NextAddr(lines) \in Nat, Follow(new, NextAddr(lines))
  PROVE  LET longer == lines \o new
         IN  /\ longer \in Seq(Line) /\ longer # << >>
             /\ InStep(longer)
             /\ NextAddr(longer) = NextAddr(lines) + 4 * Len(new)
             /\ longer[1] = lines[1]
<1> DEFINE longer == lines \o new
           addr == NextAddr(lines)
<1>1. Len(lines) \in Nat \ {0}
  BY EmptySeq
<1>2. /\ new \in Seq(Line) /\ Len(new) > 0 /\ Len(new) \in Nat
      /\ \A k \in 1 .. Len(new) :
            Size(new[k]) = 4 /\ new[k].line_addr = addr + 4 * (k - 1)
  BY LenProperties DEF Follow, Size
<1>3. /\ longer \in Seq(Line)
      /\ Len(longer) = Len(lines) + Len(new)
      /\ \A k \in 1 .. Len(lines) : longer[k] = lines[k]
      /\ \A k \in Len(lines) + 1 .. Len(lines) + Len(new) :
            longer[k] = new[k - Len(lines)]
  BY <1>1, <1>2, ConcatProperties
<1>4. addr \in Nat
  OBVIOUS
<1>5. addr = lines[Len(lines)].line_addr + Size(lines[Len(lines)])
  BY DEF NextAddr, Last
<1> HIDE DEF longer, addr
<1>6. InStep(longer)
  <2> SUFFICES ASSUME NEW k \in 1 .. Len(longer) - 1
               PROVE  longer[k + 1].line_addr
                        = longer[k].line_addr + Size(longer[k])
    BY DEF InStep
  <2>1. CASE k \in 1 .. Len(lines) - 1
    BY <1>1, <1>3, <2>1 DEF InStep
  <2>2. CASE k = Len(lines)
    BY <1>1, <1>2, <1>3, <1>4, <1>5, <2>2
  <2>3. CASE k \in Len(lines) + 1 .. Len(longer) - 1
    <3>1. /\ longer[k] = new[k - Len(lines)]
          /\ longer[k + 1] = new[(k - Len(lines)) + 1]
      BY <1>1, <1>2, <1>3, <2>3
    <3>2. k - Len(lines) \in 1 .. Len(new) - 1
      BY <1>1, <1>2, <1>3, <2>3
    <3> QED
      BY <1>2, <1>4, <3>1, <3>2
  <2> QED
    BY <1>1, <1>2, <1>3, <2>1, <2>2, <2>3
<1>7. NextAddr(longer) = addr + 4 * Len(new)
  <2>1. Last(longer) = new[Len(new)]
    BY <1>1, <1>2, <1>3 DEF Last
  <2> QED
    BY <1>2, <1>4, <2>1 DEF NextAddr
<1>8. longer # << >> /\ longer[1] = lines[1]
  BY <1>1, <1>2, <1>3
<1> QED
  BY <1>3, <1>6, <1>7, <1>8 DEF longer, addr

-----------------------------------------------------------------------------
(* The invariant *)

\* What the parser keeps true: the lexems are lexems, the first line is at
\* address 0, the lines follow one another, line_addr is where the next will
\* start.
Parsing == phase \in {"first", "eol", "line"}
Sound ==
  /\ TypeOK
  /\ source \in Sources /\ lexems \in Lexems
  /\ InStep(instructions)
  /\ phase \in {"read", "code"} => instructions = << >> /\ line_addr = 0
  /\ phase \notin {"read", "code"} =>
        instructions # << >> /\ instructions[1].line_addr = 0
  /\ Parsing => line_addr = NextAddr(instructions)

LEMMA SoundInit == Init => Sound
  BY EmptySeq DEF Init, Sound, TypeOK, InStep, Lexems, Parsing

LEMMA SoundRead == Sound /\ Read => Sound'
<1> SUFFICES ASSUME Sound, Read PROVE Sound'
  OBVIOUS
<1>1. PICK n \in Matched(source) : lexems' = SubSeq(source, 1, n)
  BY DEF Read
<1>2. source \in Seq(LexemSet) /\ n \in 0 .. Len(source)
  BY SourcesAssumption DEF Sound, Matched
<1>3. lexems' \in Lexems
  BY <1>1, <1>2, ElementOfSeq, LenProperties, SubSeqProperties DEF Lexems
<1> QED
  BY <1>3 DEF Sound, TypeOK, Read, InStep, Parsing, NextAddr, Last

LEMMA SoundBegin == Sound /\ Begin => Sound'
<1> SUFFICES ASSUME Sound, Begin PROVE Sound'
  OBVIOUS
<1> DEFINE line == LabelLine(Start, line_addr)
<1>1. line \in Line /\ ~IsInsnLine(line) /\ line.line_addr = 0
  BY LabelLineIsLine DEF Sound, TypeOK, Begin, Names
<1>2. instructions' = << line >>
  BY DEF Begin, Sound
<1> HIDE DEF line
<1>3. lexems' \in Lexems
  BY SkipIsLexems DEF Begin, Sound
<1>4. NextAddr(instructions') = 0
  BY <1>1, <1>2 DEF NextAddr, Last, Size
<1> QED
  BY <1>1, <1>2, <1>3, <1>4 DEF Sound, TypeOK, Begin, InStep, Parsing

LEMMA SoundLabel == Sound /\ Label => Sound'
<1> SUFFICES ASSUME Sound, Label PROVE Sound'
  OBVIOUS
<1> DEFINE line == LabelLine(Head(lexems).value, line_addr)
<1>1. Head(lexems).value \in Names /\ lexems' \in Lexems
  BY HeadIsLexem, NameValue DEF Sound, Label
<1>2. line \in Line /\ ~IsInsnLine(line) /\ line.line_addr = line_addr
  BY <1>1, LabelLineIsLine DEF Sound, TypeOK
<1>3. instructions' = Append(instructions, line)
  BY DEF Label
<1> HIDE DEF line
<1>4. instructions # << >> /\ line_addr = NextAddr(instructions)
  BY DEF Label, Sound, Parsing
<1>5. /\ instructions' \in Seq(Line) /\ instructions' # << >>
      /\ InStep(instructions')
      /\ NextAddr(instructions') = line.line_addr + Size(line)
      /\ instructions'[1] = instructions[1]
  BY <1>2, <1>3, <1>4, InStepAppend DEF Sound, TypeOK
<1>6. NextAddr(instructions') = line_addr /\ line_addr \in Nat
  BY <1>2, <1>5 DEF Size, Sound, TypeOK
<1> QED
  BY <1>1, <1>5, <1>6 DEF Sound, TypeOK, Label, Parsing

LEMMA SoundInsn == Sound /\ Insn => Sound'
<1> SUFFICES ASSUME Sound, Insn PROVE Sound'
  OBVIOUS
<1> DEFINE new == LinesOf(lexems, line_addr)
           rest == AfterInsn(lexems)
           next == AddressAfter(new, line_addr)
           label == LabelLine(Head(rest).value, next)
           longer == instructions \o new
<1>1. /\ lexems \in Lexems /\ StartsWithInsn(lexems) /\ line_addr \in Nat
      /\ instructions \in Seq(Line) /\ instructions # << >>
      /\ InStep(instructions) /\ line_addr = NextAddr(instructions)
      /\ instructions[1].line_addr = 0 /\ source \in Sources
  BY DEF Insn, Sound, TypeOK, Parsing
<1>2. Follow(new, line_addr) /\ rest \in Lexems
  BY <1>1, LinesFollow, RestIsLexems
<1>3. new \in Seq(Line) /\ Len(new) \in Nat
  BY <1>2, LenProperties DEF Follow
<1>4. next = line_addr + 4 * Len(new)
  BY DEF AddressAfter
<1>5. /\ line_addr' = next /\ lexems' = Skip(rest, "label") /\ phase' = "eol"
      /\ source' = source
      /\ instructions' = longer \o IF NextIs(rest, "label")
                                    THEN << label >> ELSE << >>
  <2>1. /\ line_addr' = next /\ lexems' = Skip(rest, "label") /\ phase' = "eol"
        /\ source' = source
        /\ instructions' = instructions \o new \o IF NextIs(rest, "label")
                                                   THEN << label >> ELSE << >>
    BY DEF Insn
  <2> QED
    BY <2>1
<1> HIDE DEF new, rest, next
<1>6. /\ longer \in Seq(Line) /\ longer # << >> /\ InStep(longer)
      /\ NextAddr(longer) = next /\ longer[1] = instructions[1]
  BY <1>1, <1>2, <1>4, InStepConcat
<1> HIDE DEF longer
<1>7. lexems' \in Lexems /\ next \in Nat
  BY <1>1, <1>2, <1>3, <1>4, <1>5, SkipIsLexems
<1>8. CASE ~NextIs(rest, "label")
  <2>1. instructions' = longer
    BY <1>5, <1>6, <1>8, ConcatEmptySeq
  <2> QED
    BY <1>1, <1>5, <1>6, <1>7, <2>1 DEF Sound, TypeOK, Parsing
<1>9. CASE NextIs(rest, "label")
  <2>1. Head(rest).value \in Names
    BY <1>2, <1>9, HeadIsLexem, NameValue
  <2>2. label \in Line /\ ~IsInsnLine(label) /\ label.line_addr = next
    BY <1>7, <2>1, LabelLineIsLine
  <2> HIDE DEF label
  <2>3. instructions' = Append(longer, label)
    BY <1>5, <1>6, <1>9, <2>2, AppendIsConcat
  <2>4. /\ instructions' \in Seq(Line) /\ instructions' # << >>
        /\ InStep(instructions')
        /\ NextAddr(instructions') = label.line_addr + Size(label)
        /\ instructions'[1] = longer[1]
    BY <1>6, <2>2, <2>3, InStepAppend
  <2>5. NextAddr(instructions') = next
    BY <1>7, <2>2, <2>4 DEF Size
  <2> QED
    BY <1>1, <1>5, <1>6, <1>7, <2>4, <2>5 DEF Sound, TypeOK, Parsing
<1> QED
  BY <1>8, <1>9

LEMMA SoundNothing == Sound /\ (Nothing \/ EolEnd) => Sound'
  BY DEF Sound, TypeOK, Parsing, Nothing, EolEnd, NextAddr, Last

LEMMA SoundEol == Sound /\ Eol => Sound'
<1> SUFFICES ASSUME Sound, Eol PROVE Sound'
  OBVIOUS
<1> DEFINE rest == Skip(Skip(lexems, "blank"), "comment")
<1>1. rest \in Lexems
  BY SkipIsLexems DEF Sound
<1>2. NextIs(rest, "newline") => Skip(Tail(rest), "blank") \in Lexems
  BY <1>1, HeadIsLexem, SkipIsLexems
<1>3. lexems' \in Lexems
  BY <1>1, <1>2 DEF Eol, AfterNewline
<1>4. phase' \in {"eol", "failed"}
  BY DEF Eol
<1> QED
  BY <1>3, <1>4 DEF Sound, TypeOK, Parsing, Eol, NextAddr, Last

LEMMA SoundEnd == Sound /\ End => Sound'
<1> SUFFICES ASSUME Sound, End PROVE Sound'
  OBVIOUS
<1> DEFINE line == InsnLine("JAL", LoopRegister, 0, 0, 0, Start, line_addr)
<1>1. line \in Line /\ IsInsnLine(line) /\ line.line_addr = line_addr
  <2>1. LoopRegister \in Reg /\ 0 \in Reg /\ Start \in Names
    BY DEF LoopRegister, Reg, Names
  <2>2. line_addr \in Nat
    BY DEF Sound, TypeOK
  <2> QED
    BY <2>1, <2>2, ZeroIsInt, InsnLineIsLine, InsnsNamed
<1>2. instructions' = Append(instructions, line)
  BY DEF End
<1> HIDE DEF line
<1>3. instructions # << >> /\ line_addr = NextAddr(instructions)
  BY DEF End, Sound, Parsing
<1>4. /\ instructions' \in Seq(Line) /\ instructions' # << >>
      /\ InStep(instructions') /\ instructions'[1] = instructions[1]
  BY <1>1, <1>2, <1>3, InStepAppend DEF Sound, TypeOK
<1>5. phase' \in {"parsed", "failed"}
  BY DEF End
<1> QED
  BY <1>3, <1>4, <1>5 DEF Sound, TypeOK, End, Parsing

LEMMA SoundWrite == Sound /\ (Write \/ CannotWrite \/ Terminated) => Sound'
  BY DEF Sound, TypeOK, Parsing, Write, CannotWrite, Terminated, Writing, vars,
         NextAddr, Last

\* The label a jump goes to is there when one of that name is.
LEMMA LastNamedIsLast ==
  ASSUME NEW lines \in Seq(Line), NEW name, LabelsNamed(name, lines) # {}
  PROVE  /\ LastNamed(name, lines) \in LabelsNamed(name, lines)
         /\ \A j \in LabelsNamed(name, lines) : j <= LastNamed(name, lines)
<1> DEFINE named == LabelsNamed(name, lines)
           after == {Len(lines) - k : k \in named}
           last(k) == \A j \in named : j <= k
<1>1. Len(lines) \in Nat /\ named \subseteq 1 .. Len(lines)
  BY LenProperties DEF LabelsNamed
<1> HIDE DEF named
<1>2. after \subseteq Nat /\ after # {}
  BY <1>1 DEF named
<1>3. PICK m \in after : \A n \in after : m <= n
  BY <1>2, LeastNat
<1>4. PICK k \in named : m = Len(lines) - k
  BY <1>3
<1>5. last(k)
  <2> SUFFICES ASSUME NEW j \in named PROVE j <= k
    OBVIOUS
  <2>1. Len(lines) - k <= Len(lines) - j
    BY <1>3, <1>4
  <2> QED
    BY <1>1, <2>1
<1>6. LastNamed(name, lines) = CHOOSE i \in named : last(i)
  BY DEF LastNamed, named
<1> HIDE DEF last
<1>7. LastNamed(name, lines) \in named /\ last(LastNamed(name, lines))
  BY <1>5, <1>6
<1> QED
  BY <1>7 DEF last, named

\* Resolving labels changes offsets and nothing else.
LEMMA Resolved ==
  ASSUME Sound, UpdateAddress, phase' = "resolved"
  PROVE  /\ instructions' \in Seq(Line)
         /\ Len(instructions') = Len(instructions)
         /\ \A k \in 1 .. Len(instructions) :
              /\ instructions'[k].kind = instructions[k].kind
              /\ instructions'[k].insn = instructions[k].insn
              /\ instructions'[k].label = instructions[k].label
              /\ instructions'[k].line_addr = instructions[k].line_addr
              /\ IsJump(instructions[k]) =>
                    /\ LabelsNamed(instructions[k].label, instructions) # {}
                    /\ instructions'[k].imm =
                            OffsetTo(instructions[k], instructions)
<1> DEFINE jumps == {k \in 1 .. Len(instructions) : IsJump(instructions[k])}
           to(k) == [instructions[k] EXCEPT
                        !.imm = OffsetTo(instructions[k], instructions)]
<1>1. /\ instructions \in Seq(Line) /\ Len(instructions) \in Nat
      /\ \A k \in 1 .. Len(instructions) : instructions[k] \in Line
  BY LenProperties, ElementOfSeq DEF Sound, TypeOK
<1>2. /\ \A k \in jumps : LabelsNamed(instructions[k].label, instructions) # {}
      /\ instructions' = [k \in 1 .. Len(instructions) |->
                            IF k \in jumps THEN to(k) ELSE instructions[k]]
  BY DEF UpdateAddress
<1>3. ASSUME NEW k \in jumps
      PROVE  /\ to(k) \in Line
             /\ to(k).imm = OffsetTo(instructions[k], instructions)
             /\ to(k).kind = instructions[k].kind
             /\ to(k).insn = instructions[k].insn
             /\ to(k).label = instructions[k].label
             /\ to(k).line_addr = instructions[k].line_addr
  <2>1. LastNamed(instructions[k].label, instructions) \in 1 .. Len(instructions)
    BY <1>1, <1>2, LastNamedIsLast DEF LabelsNamed
  <2>2. OffsetTo(instructions[k], instructions) \in Int
    BY <1>1, <2>1 DEF OffsetTo, Line
  <2> QED
    BY <1>1, <2>2 DEF Line
<1> HIDE DEF to
<1>4. \A k \in 1 .. Len(instructions) : instructions'[k] \in Line
  BY <1>1, <1>2, <1>3
<1>5. instructions' \in [1 .. Len(instructions) -> Line]
  BY <1>2, <1>4
<1>6. instructions' \in Seq(Line) /\ Len(instructions') = Len(instructions)
  BY <1>1, <1>5
<1> QED
  BY <1>1, <1>2, <1>3, <1>6

LEMMA SoundUpdate == Sound /\ UpdateAddress => Sound'
<1> SUFFICES ASSUME Sound, UpdateAddress PROVE Sound'
  OBVIOUS
<1>1. CASE phase' = "resolved"
  <2>1. Len(instructions) \in Nat \ {0}
    BY <1>1, EmptySeq DEF Sound, TypeOK, UpdateAddress
  <2>2. InStep(instructions') /\ instructions'[1].line_addr = 0
    BY <1>1, <2>1, Resolved DEF Sound, InStep, Size, IsInsnLine, UpdateAddress
  <2>3. instructions' # << >> /\ instructions' \in Seq(Line)
    BY <1>1, <2>1, Resolved, EmptySeq
  <2> QED
    BY <1>1, <2>2, <2>3 DEF Sound, TypeOK, UpdateAddress, Parsing
<1>2. CASE phase' # "resolved"
  BY <1>2 DEF Sound, TypeOK, UpdateAddress, Parsing
<1> QED
  BY <1>1, <1>2

LEMMA SoundNext == Sound /\ [Next]_vars => Sound'
<1>1. Sound /\ UNCHANGED vars => Sound'
  BY DEF Sound, TypeOK, Parsing, vars, NextAddr, Last
<1> QED
  BY <1>1, SoundRead, SoundBegin, SoundLabel, SoundInsn, SoundNothing, SoundEol,
     SoundEnd, SoundUpdate, SoundWrite DEF Next

\* What the parser keeps true in every behaviour, for any sources.
THEOREM ParserSound == Spec => []Sound
  BY SoundInit, SoundNext, PTL DEF Spec

\* The lines have their types, registers without a number included, whatever
\* the sources are (asm_line.c, parser.c).
THEOREM TypeCorrect == Spec => []TypeOK
<1>1. Sound => TypeOK
  BY DEF Sound
<1> QED
  BY <1>1, ParserSound, PTL

\* The addresses the parser counts by hand are those of the words, for every
\* source: each of the functions of parser.c moves line_addr by what it adds.
THEOREM AddressesCorrect == Spec => []AddressesInStep
<1>1. Sound => AddressesInStep
  BY DEF Sound, AddressesInStep, InStep, Parsing, NextAddr
<1> QED
  BY <1>1, ParserSound, PTL

-----------------------------------------------------------------------------
(* The file that is written: its words are those of the lines, at the       *)
(* addresses the parser counted, and the circuit reads in them what the     *)
(* source says.                                                             *)

(* The places of the words *)

LEMMA WrittenFinite ==
  ASSUME NEW lines \in Seq(Line)
  PROVE  /\ IsFiniteSet(Written(lines)) /\ Cardinality(Written(lines)) \in Nat
         /\ Written(lines) \subseteq 1 .. Len(lines)
         /\ \A k : /\ IsFiniteSet(Before(k, lines))
                   /\ Cardinality(Before(k, lines)) \in Nat
                   /\ Before(k, lines) \subseteq Written(lines)
<1>1. Written(lines) \subseteq 1 .. Len(lines)
  BY DEF Written
<1>2. IsFiniteSet(1 .. Len(lines))
  BY LenProperties, FS_Interval
<1>3. IsFiniteSet(Written(lines))
  BY <1>1, <1>2, FS_Subset
<1>4. \A k : Before(k, lines) \subseteq Written(lines)
  BY DEF Before
<1>5. \A k : IsFiniteSet(Before(k, lines))
  BY <1>3, <1>4, FS_Subset
<1> QED
  BY <1>1, <1>3, <1>4, <1>5, FS_CardinalityType

\* A written line is one more word before the next line.
LEMMA BeforeNext ==
  ASSUME NEW lines \in Seq(Line), NEW k \in 1 .. Len(lines)
  PROVE  4 * Cardinality(Before(k + 1, lines)) =
            4 * Cardinality(Before(k, lines)) + Size(lines[k])
<1>0. Len(lines) \in Nat
  BY LenProperties
<1>1. CASE IsInsnLine(lines[k])
  <2>1. Before(k + 1, lines) = Before(k, lines) \cup {k} /\ k \notin Before(k, lines)
    BY <1>0, <1>1 DEF Before, Written
  <2>2. Cardinality(Before(k + 1, lines)) = Cardinality(Before(k, lines)) + 1
    BY <2>1, WrittenFinite, FS_AddElement
  <2> QED
    BY <1>1, <2>2, WrittenFinite DEF Size
<1>2. CASE ~IsInsnLine(lines[k])
  <2>1. Before(k + 1, lines) = Before(k, lines)
    BY <1>0, <1>2 DEF Before, Written
  <2> QED
    BY <1>2, <2>1, WrittenFinite DEF Size
<1> QED
  BY <1>1, <1>2

\* Lines that follow one another from address 0 are at the addresses of the
\* words they become.
LEMMA AddressIsPlace ==
  ASSUME NEW lines \in Seq(Line), InStep(lines), lines # << >>,
         lines[1].line_addr = 0, NEW k \in 1 .. Len(lines)
  PROVE  lines[k].line_addr = 4 * Cardinality(Before(k, lines))
<1> DEFINE placed(n) == lines[n].line_addr = 4 * Cardinality(Before(n, lines))
           T == {n \in Nat : n + 1 <= Len(lines) => placed(n + 1)}
<1>0. Len(lines) \in Nat \ {0}
  BY EmptySeq
<1>1. 0 \in T
  <2>1. Before(1, lines) = {}
    BY <1>0 DEF Before, Written
  <2>2. Cardinality(Before(1, lines)) = 0
    BY <2>1, FS_EmptySet
  <2> QED
    BY <2>2
<1>2. ASSUME NEW n \in Nat, n \in T PROVE n + 1 \in T
  <2> SUFFICES ASSUME (n + 1) + 1 <= Len(lines) PROVE placed((n + 1) + 1)
    OBVIOUS
  <2>1. n + 1 \in 1 .. Len(lines) - 1 /\ placed(n + 1)
    BY <1>0, <1>2
  <2>2. lines[(n + 1) + 1].line_addr =
            lines[n + 1].line_addr + Size(lines[n + 1])
    BY <2>1 DEF InStep
  <2> QED
    BY <1>0, <2>1, <2>2, BeforeNext
<1> HIDE DEF placed
<1>3. T \subseteq Nat
  OBVIOUS
<1> HIDE DEF T
<1>4. T = Nat
  BY <1>1, <1>2, <1>3, SetInduction
<1>5. k - 1 \in T /\ (k - 1) + 1 = k /\ k <= Len(lines)
  BY <1>0, <1>4
<1>6. placed(k)
  BY <1>5 DEF T
<1> QED
  BY <1>6 DEF placed

LEMMA BeforeGrows ==
  ASSUME NEW lines \in Seq(Line), NEW k \in Written(lines)
  PROVE  /\ Cardinality(Before(k, lines)) < Cardinality(Written(lines))
         /\ \A j \in Written(lines) : k < j =>
                Cardinality(Before(k, lines)) < Cardinality(Before(j, lines))
<1>1. k \notin Before(k, lines) /\ Before(k, lines) \cup {k} \subseteq Written(lines)
  BY WrittenFinite DEF Before
<1>2. Cardinality(Before(k, lines) \cup {k}) = Cardinality(Before(k, lines)) + 1
  BY <1>1, WrittenFinite, FS_AddElement
<1>3. Cardinality(Before(k, lines)) + 1 <= Cardinality(Written(lines))
  BY <1>1, <1>2, WrittenFinite, FS_Subset
<1>4. ASSUME NEW j \in Written(lines), k < j
      PROVE  Cardinality(Before(k, lines)) + 1 <= Cardinality(Before(j, lines))
  <2>1. Before(k, lines) \cup {k} \subseteq Before(j, lines)
    BY <1>4, WrittenFinite DEF Before
  <2> QED
    BY <1>2, <2>1, WrittenFinite, FS_Subset
<1> QED
  BY <1>3, <1>4, WrittenFinite

\* The nth word is the word of the line with n - 1 written lines before it.
LEMMA WordOfPlace ==
  ASSUME NEW lines \in Seq(Line), NEW k \in Written(lines)
  PROVE  LET n == Cardinality(Before(k, lines)) + 1
         IN  /\ n \in DOMAIN WordsOf(lines)
             /\ WordsOf(lines)[n] = WordOfLine(lines[k])
<1> DEFINE n == Cardinality(Before(k, lines)) + 1
           isNth(j) == Cardinality(Before(j, lines)) = n - 1
<1>1. n \in 1 .. Cardinality(Written(lines))
  BY WrittenFinite, BeforeGrows
<1>2. \A j \in Written(lines) : isNth(j) <=> j = k
  <2> SUFFICES ASSUME NEW j \in Written(lines), j # k PROVE ~isNth(j)
    BY WrittenFinite
  <2>1. j < k \/ k < j
    BY WrittenFinite
  <2> QED
    BY <2>1, BeforeGrows, WrittenFinite
<1>3. NthWritten(n, lines) = CHOOSE j \in Written(lines) : isNth(j)
  BY DEF NthWritten
<1> HIDE DEF isNth
<1>4. NthWritten(n, lines) = k
  BY <1>2, <1>3
<1> HIDE DEF n
<1>5. n \in DOMAIN WordsOf(lines) /\ WordsOf(lines)[n] = WordOfLine(lines[k])
  BY <1>1, <1>4 DEF WordsOf
<1> QED
  BY <1>5 DEF n

-----------------------------------------------------------------------------
(* The invariant *)

UpperInts(lines) ==
  \A k \in 1 .. Len(lines) : lines[k].insn \in Upper => lines[k].imm \in CInt

\* On top of Sound: the operand of LUI and AUIPC is an int, the last line is
\* the jump back to the start, with -v every jump has its offset, and the file
\* holds the words of the lines.
Complete ==
  /\ UpperInts(instructions)
  /\ phase \in {"parsed", "resolved", "done"} =>
        IsInsnLine(Last(instructions))
  /\ verbose /\ phase \in {"resolved", "done"} =>
        \A k \in 1 .. Len(instructions) :
            IsJump(instructions[k]) =>
                /\ LabelsNamed(instructions[k].label, instructions) # {}
                /\ instructions[k].imm = OffsetTo(instructions[k], instructions)
  /\ phase = "done" => output = WordsOf(instructions)

LEMMA NopIsNotUpper == "NOP" \notin Upper /\ "JAL" \notin Upper
  BY InsnsByType

LEMMA UpperAppend ==
  ASSUME NEW lines \in Seq(Line), UpperInts(lines),
         NEW line \in Line, line.insn \in Upper => line.imm \in CInt
  PROVE  UpperInts(Append(lines, line))
<1> DEFINE longer == Append(lines, line)
<1>1. /\ Len(lines) \in Nat /\ Len(longer) = Len(lines) + 1
      /\ \A k \in 1 .. Len(lines) : longer[k] = lines[k]
      /\ longer[Len(lines) + 1] = line
  BY AppendProperties, LenProperties
<1> HIDE DEF longer
<1>2. UpperInts(longer)
  BY <1>1 DEF UpperInts
<1> QED
  BY <1>2 DEF longer

LEMMA UpperConcat ==
  ASSUME NEW lines \in Seq(Line), UpperInts(lines),
         NEW new, NEW addr \in Nat, Follow(new, addr)
  PROVE  UpperInts(lines \o new)
<1> DEFINE longer == lines \o new
<1>1. new \in Seq(Line) /\ \A k \in 1 .. Len(new) : new[k].imm \in CInt
  BY DEF Follow
<1>2. /\ Len(lines) \in Nat /\ Len(new) \in Nat
      /\ Len(longer) = Len(lines) + Len(new)
      /\ \A k \in 1 .. Len(lines) : longer[k] = lines[k]
      /\ \A k \in Len(lines) + 1 .. Len(lines) + Len(new) :
            longer[k] = new[k - Len(lines)]
  BY <1>1, ConcatProperties, LenProperties
<1> HIDE DEF longer
<1>3. UpperInts(longer)
  BY <1>1, <1>2 DEF UpperInts
<1> QED
  BY <1>3 DEF longer

LEMMA CompleteInit == Init => Complete
  BY EmptySeq DEF Init, Complete, UpperInts

LEMMA CompleteBegin == Sound /\ Complete /\ Begin => Complete'
<1> SUFFICES ASSUME Sound, Complete, Begin PROVE Complete'
  OBVIOUS
<1> DEFINE line == LabelLine(Start, line_addr)
<1>1. line \in Line /\ line.insn = "NOP"
  BY LabelLineIsLine DEF Sound, TypeOK, Names
<1>2. instructions' = Append(instructions, line) /\ phase' = "first"
  BY DEF Begin
<1> HIDE DEF line
<1>3. UpperInts(instructions')
  BY <1>1, <1>2, UpperAppend, NopIsNotUpper DEF Sound, TypeOK, Complete
<1> QED
  BY <1>2, <1>3 DEF Complete

LEMMA CompleteLabel == Sound /\ Complete /\ Label => Complete'
<1> SUFFICES ASSUME Sound, Complete, Label PROVE Complete'
  OBVIOUS
<1> DEFINE line == LabelLine(Head(lexems).value, line_addr)
<1>1. Head(lexems).value \in Names
  BY HeadIsLexem, NameValue DEF Sound, Label
<1>2. line \in Line /\ line.insn = "NOP"
  BY <1>1, LabelLineIsLine DEF Sound, TypeOK
<1>3. instructions' = Append(instructions, line) /\ phase' = "eol"
  BY DEF Label
<1> HIDE DEF line
<1>4. UpperInts(instructions')
  BY <1>2, <1>3, UpperAppend, NopIsNotUpper DEF Sound, TypeOK, Complete
<1> QED
  BY <1>3, <1>4 DEF Complete

LEMMA CompleteInsn == Sound /\ Complete /\ Insn => Complete'
<1> SUFFICES ASSUME Sound, Complete, Insn PROVE Complete'
  OBVIOUS
<1> DEFINE new == LinesOf(lexems, line_addr)
           rest == AfterInsn(lexems)
           next == AddressAfter(new, line_addr)
           label == LabelLine(Head(rest).value, next)
           longer == instructions \o new
<1>1. /\ lexems \in Lexems /\ StartsWithInsn(lexems) /\ line_addr \in Nat
      /\ instructions \in Seq(Line) /\ UpperInts(instructions)
  BY DEF Insn, Sound, TypeOK, Complete
<1>2. Follow(new, line_addr) /\ rest \in Lexems
  BY <1>1, LinesFollow, RestIsLexems
<1>3. new \in Seq(Line) /\ Len(new) \in Nat
  BY <1>2, LenProperties DEF Follow
<1>4. next \in Nat
  <2>1. next = line_addr + 4 * Len(new)
    BY DEF AddressAfter
  <2> HIDE DEF new, next
  <2> QED
    BY <1>1, <1>3, <2>1
<1>5. /\ phase' = "eol"
      /\ instructions' = longer \o IF NextIs(rest, "label")
                                    THEN << label >> ELSE << >>
  <2>1. /\ phase' = "eol"
        /\ instructions' = instructions \o new \o IF NextIs(rest, "label")
                                                   THEN << label >> ELSE << >>
    BY DEF Insn
  <2> QED
    BY <2>1
<1> HIDE DEF new, rest, next
<1>6. longer \in Seq(Line) /\ UpperInts(longer)
  BY <1>1, <1>2, <1>3, UpperConcat, ConcatProperties
<1> HIDE DEF longer
<1>7. UpperInts(instructions')
  <2>1. CASE ~NextIs(rest, "label")
    BY <1>5, <1>6, <2>1, ConcatEmptySeq
  <2>2. CASE NextIs(rest, "label")
    <3>1. Head(rest).value \in Names
      BY <1>2, <2>2, HeadIsLexem, NameValue
    <3>2. label \in Line /\ label.insn = "NOP"
      BY <1>4, <3>1, LabelLineIsLine
    <3> HIDE DEF label
    <3>3. instructions' = Append(longer, label)
      BY <1>5, <1>6, <2>2, <3>2, AppendIsConcat
    <3> QED
      BY <1>6, <3>2, <3>3, UpperAppend, NopIsNotUpper
  <2> QED
    BY <2>1, <2>2
<1> QED
  BY <1>5, <1>7 DEF Complete

LEMMA CompleteEnd == Sound /\ Complete /\ End => Complete'
<1> SUFFICES ASSUME Sound, Complete, End PROVE Complete'
  OBVIOUS
<1> DEFINE line == InsnLine("JAL", LoopRegister, 0, 0, 0, Start, line_addr)
<1>1. line \in Line /\ IsInsnLine(line) /\ line.insn = "JAL"
  <2>1. LoopRegister \in Reg /\ 0 \in Reg /\ Start \in Names
    BY DEF LoopRegister, Reg, Names
  <2>2. line_addr \in Nat
    BY DEF Sound, TypeOK
  <2> QED
    BY <2>1, <2>2, ZeroIsInt, InsnLineIsLine, InsnsNamed
<1>2. instructions' = Append(instructions, line)
      /\ phase' \in {"parsed", "failed"}
  BY DEF End
<1> HIDE DEF line
<1>3. UpperInts(instructions')
  BY <1>1, <1>2, UpperAppend, NopIsNotUpper DEF Sound, TypeOK, Complete
<1>4. Last(instructions') = line
  BY <1>1, <1>2, AppendProperties, LenProperties DEF Last, Sound, TypeOK
<1> QED
  BY <1>1, <1>2, <1>3, <1>4 DEF Complete

LEMMA CompleteUpdate == Sound /\ Complete /\ UpdateAddress => Complete'
<1> SUFFICES ASSUME Sound, Complete, UpdateAddress PROVE Complete'
  OBVIOUS
<1>1. CASE phase' = "resolved"
  <2>0. Len(instructions) \in Nat \ {0}
    BY EmptySeq DEF Sound, TypeOK, UpdateAddress
  <2> DEFINE before == instructions
             after == instructions'
  <2>1. /\ Len(after) = Len(before)
        /\ \A k \in 1 .. Len(before) :
              /\ after[k].kind = before[k].kind
              /\ after[k].insn = before[k].insn
              /\ after[k].label = before[k].label
              /\ after[k].line_addr = before[k].line_addr
              /\ IsJump(before[k]) =>
                    /\ LabelsNamed(before[k].label, before) # {}
                    /\ after[k].imm = OffsetTo(before[k], before)
              /\ ~IsJump(before[k]) => after[k] = before[k]
    <3>1. \A k \in 1 .. Len(instructions) :
            ~IsJump(instructions[k]) => instructions'[k] = instructions[k]
      BY <1>1 DEF UpdateAddress
    <3> QED
      BY <1>1, <3>1, Resolved
  <2>2. \A name : LabelsNamed(name, after) = LabelsNamed(name, before)
    BY <2>1 DEF LabelsNamed
  <2>3. \A name : LastNamed(name, after) = LastNamed(name, before)
    BY <2>2 DEF LastNamed
  <2>4. ASSUME NEW k \in 1 .. Len(after), IsJump(after[k])
        PROVE  /\ LabelsNamed(after[k].label, after) # {}
               /\ after[k].imm = OffsetTo(after[k], after)
    <3>1. IsJump(before[k]) /\ k \in 1 .. Len(before)
      BY <2>1, <2>4 DEF IsJump, IsInsnLine
    <3> DEFINE named == LastNamed(before[k].label, before)
    <3>2. named \in 1 .. Len(before)
      BY <2>1, <3>1, LastNamedIsLast DEF LabelsNamed, Sound, TypeOK
    <3>3. after[named].line_addr = before[named].line_addr
      BY <2>1, <3>2
    <3> QED
      BY <2>1, <2>2, <2>3, <3>1, <3>3 DEF OffsetTo
  <2>5. UpperInts(after)
    <3>1. \A k \in 1 .. Len(before) :
            before[k].insn \in Upper => ~IsJump(before[k])
      BY InsnsByType DEF IsJump, TypeOf
    <3> QED
      BY <2>1, <3>1 DEF UpperInts, Complete
  <2>6. IsInsnLine(Last(after))
    BY <2>0, <2>1 DEF Complete, UpdateAddress, IsInsnLine, Last
  <2> QED
    BY <1>1, <2>4, <2>5, <2>6 DEF Complete, UpdateAddress
<1>2. CASE phase' # "resolved"
  BY <1>2 DEF Complete, UpdateAddress
<1> QED
  BY <1>1, <1>2

LEMMA CompleteWrite ==
  Sound /\ Complete /\ (Write \/ CannotWrite \/ Terminated) => Complete'
<1> SUFFICES ASSUME Sound, Complete, Write \/ CannotWrite \/ Terminated
             PROVE  Complete'
  OBVIOUS
<1>1. CASE Write
  BY <1>1 DEF Complete, Write, Writing
<1>2. CASE CannotWrite
  BY <1>2 DEF Complete, CannotWrite
<1>3. CASE Terminated
  BY <1>3 DEF Complete, Terminated, vars
<1> QED
  BY <1>1, <1>2, <1>3

LEMMA CompleteNext == Sound /\ Complete /\ [Next]_vars => Complete'
<1>1. Complete /\ UNCHANGED vars => Complete'
  BY DEF Complete, vars
<1>2. Complete /\ (Read \/ Nothing \/ Eol \/ EolEnd) => Complete'
  BY DEF Complete, Read, Nothing, Eol, EolEnd
<1> QED
  BY <1>1, <1>2, CompleteBegin, CompleteLabel, CompleteInsn, CompleteEnd,
     CompleteUpdate, CompleteWrite DEF Next

\* What holds of the lines and of the file in every behaviour.
THEOREM FileComplete == Spec => []Complete
  BY CompleteInit, CompleteNext, ParserSound, PTL DEF Spec

-----------------------------------------------------------------------------
(* What the circuit reads in the file *)

\* The word at the address of a written line is the word of that line.
LEMMA WordAtPlace ==
  ASSUME Sound, Complete, phase = "done", NEW k \in Written(instructions)
  PROVE  /\ WordAt(instructions[k]) = WordOfLine(instructions[k])
         /\ instructions[k] \in Line
         /\ instructions[k].insn \in Upper => instructions[k].imm \in CInt
<1>1. /\ instructions \in Seq(Line) /\ InStep(instructions)
      /\ instructions # << >> /\ instructions[1].line_addr = 0
      /\ output = WordsOf(instructions) /\ UpperInts(instructions)
  BY DEF Sound, TypeOK, Complete
<1>2. k \in 1 .. Len(instructions)
  BY <1>1, WrittenFinite
<1>3. instructions[k].line_addr = 4 * Cardinality(Before(k, instructions))
  BY <1>1, <1>2, AddressIsPlace
<1>4. (instructions[k].line_addr \div 4) + 1
        = Cardinality(Before(k, instructions)) + 1
  <2>1. Cardinality(Before(k, instructions)) \in Nat
    BY <1>1, WrittenFinite
  <2> DEFINE n == Cardinality(Before(k, instructions))
  <2> HIDE DEF n
  <2>2. n \in Nat => (4 * n) \div 4 = n
    OBVIOUS
  <2> QED
    BY <1>3, <2>1, <2>2 DEF n
<1> QED
  BY <1>1, <1>2, <1>4, WordOfPlace, ElementOfSeq DEF WordAt, UpperInts

\* Every word of the file decodes to what its mnemonic means, for every source:
\* the tables of asm_line.h against those of control_logic.sv, at the addresses
\* the parser counted.
THEOREM WordsCorrect == Spec => []WordsDecode
<1>1. Sound /\ Complete => WordsDecode
  <2> SUFFICES ASSUME Sound, Complete, phase = "done",
                      NEW k \in 1 .. Len(instructions),
                      IsInsnLine(instructions[k]),
                      instructions[k].insn \notin {"SRLI", "SRAI"}
               PROVE  Does(Decoded(WordAt(instructions[k])),
                           instructions[k].insn)
    BY DEF WordsDecode
  <2>1. k \in Written(instructions)
    BY DEF Written
  <2>2. /\ WordAt(instructions[k]) = WordOfLine(instructions[k])
        /\ instructions[k].insn \in Insns
    BY <2>1, WordAtPlace DEF Line
  <2> QED
    BY <2>2, WordDoes
<1> QED
  BY <1>1, ParserSound, FileComplete, PTL

\* The circuit reads the immediate the source gives, cut to its field, in
\* every word of the file, for every source whose integers an int holds.
THEOREM ImmediatesCorrect == Spec => []ImmediatesDecode
<1>1. Sound /\ Complete => ImmediatesDecode
  <2> SUFFICES ASSUME Sound, Complete, phase = "done",
                      NEW k \in 1 .. Len(instructions),
                      IsInsnLine(instructions[k])
               PROVE  Carries(ImmediateOf(WordAt(instructions[k])),
                              instructions[k].insn, instructions[k].imm)
    BY DEF ImmediatesDecode
  <2>1. k \in Written(instructions)
    BY DEF Written
  <2>2. /\ WordAt(instructions[k]) = WordOfLine(instructions[k])
        /\ instructions[k].insn \in Insns /\ instructions[k].imm \in Int
        /\ instructions[k].insn \in Upper => instructions[k].imm \in CInt
    BY <2>1, WordAtPlace DEF Line
  <2> QED
    BY <2>2, WordCarries
<1> QED
  BY <1>1, ParserSound, FileComplete, PTL

\* A label is followed by a written line: the jump back to the start is the
\* last one.  No word comes between.
LEMMA NextWritten ==
  ASSUME NEW lines \in Seq(Line), lines # << >>, IsInsnLine(Last(lines)),
         NEW k \in 1 .. Len(lines), ~IsInsnLine(lines[k])
  PROVE  /\ InsnAfter(k, lines) \in Written(lines)
         /\ Before(InsnAfter(k, lines), lines) = Before(k, lines)
<1> DEFINE after == {j \in Written(lines) : k < j}
           first(j) == k < j /\ \A i \in Written(lines) : k < i => j <= i
<1>0. Len(lines) \in Nat \ {0}
  BY EmptySeq
<1>1. Len(lines) \in after
  <2>1. Len(lines) \in Written(lines)
    BY <1>0 DEF Written, Last
  <2>2. k # Len(lines)
    BY DEF Last
  <2> QED
    BY <1>0, <2>1, <2>2
<1>2. after \subseteq Nat
  BY <1>0, WrittenFinite
<1>3. PICK m \in after : \A i \in after : m <= i
  BY <1>1, <1>2, LeastNat
<1>4. m \in Written(lines) /\ first(m)
  BY <1>3
<1>5. InsnAfter(k, lines) = CHOOSE j \in Written(lines) : first(j)
  BY DEF InsnAfter
<1>6. ASSUME NEW j \in Written(lines), first(j)
      PROVE  Before(j, lines) = Before(k, lines)
  <2>1. k \notin Written(lines)
    BY DEF Written
  <2>2. \A i \in Written(lines) : i < j <=> i < k
    BY <1>0, <1>6, <2>1, WrittenFinite
  <2> QED
    BY <2>2 DEF Before
<1> HIDE DEF first
<1>7. InsnAfter(k, lines) \in Written(lines) /\ first(InsnAfter(k, lines))
  BY <1>4, <1>5
<1> QED
  BY <1>6, <1>7

\* Arithmetic of the instruction memory: an address that is right up to 2048
\* bytes finds the word, when there are no more than 512.
LEMMA PlaceOfAddress ==
  ASSUME NEW addr \in Int, NEW read \in Int, NEW n \in Int,
         (read - n) % 2048 = 0, NEW place \in 0 .. 511,
         addr + n = 4 * place
  PROVE  ((addr + read) \div 4) % 512 = place
<1> DEFINE turns == (read - n) \div 2048
<1>1. turns \in Int /\ read - n = 2048 * turns
  OBVIOUS
<1> HIDE DEF turns
<1>2. addr + read = 4 * (place + 512 * turns)
  BY <1>1
<1>3. (addr + read) \div 4 = place + 512 * turns
  BY <1>1, <1>2
<1>4. (place + 512 * turns) % 512 = place
  BY <1>1
<1> QED
  BY <1>3, <1>4

\* Every JAL of a program that fits the nine-bit fetch index, the jump back to
\* the start included, arrives at the first instruction after its label.
THEOREM JumpsCorrect == Spec => []JumpsReachTheirLabel
<1>1. Sound /\ Complete => JumpsReachTheirLabel
  <2> SUFFICES ASSUME Sound, Complete, phase = "done", verbose,
                      Len(output) <= FetchCount,
                      NEW k \in Written(instructions),
                      instructions[k].insn = "JAL"
               PROVE
        LET line == instructions[k]
            to == line.line_addr + ImmediateOf(WordAt(line))
            place == ((to \div 4) % FetchCount) + 1
            target == InsnAfter(LastNamed(line.label, instructions),
                                instructions)
        IN  /\ LabelsNamed(line.label, instructions) # {}
            /\ place \in DOMAIN output
            /\ output[place] = WordOfLine(instructions[target])
    BY DEF JumpsReachTheirLabel
  <2> DEFINE line == instructions[k]
             named == LastNamed(line.label, instructions)
             target == InsnAfter(named, instructions)
             read == ImmediateOf(WordAt(line))
             words == Cardinality(Before(named, instructions))
  <2>1. /\ instructions \in Seq(Line) /\ InStep(instructions)
        /\ instructions # << >> /\ instructions[1].line_addr = 0
        /\ IsInsnLine(Last(instructions))
        /\ output = WordsOf(instructions)
    BY DEF Sound, TypeOK, Complete
  <2>2. k \in 1 .. Len(instructions) /\ IsInsnLine(line) /\ line \in Line
    BY <2>1, ElementOfSeq DEF Written
  <2>3. IsJump(line)
    BY <2>2, InsnsByType DEF IsJump, TypeOf
  <2>4. /\ LabelsNamed(line.label, instructions) # {}
        /\ line.imm = OffsetTo(line, instructions)
    BY <2>2, <2>3 DEF Complete
  <2>5. /\ named \in 1 .. Len(instructions)
        /\ ~IsInsnLine(instructions[named])
    BY <2>1, <2>4, LastNamedIsLast DEF LabelsNamed, IsInsnLine
  <2>6. /\ line.line_addr = 4 * Cardinality(Before(k, instructions))
        /\ instructions[named].line_addr = 4 * words
    BY <2>1, <2>2, <2>5, AddressIsPlace
  <2>7. words \in Nat /\ Cardinality(Before(k, instructions)) \in Nat
    BY <2>1, WrittenFinite
  <2>8. line.line_addr \in Int /\ line.imm \in Int
    BY <2>2 DEF Line
  <2>9. line.line_addr + line.imm = 4 * words
    BY <2>4, <2>6, <2>7, <2>8 DEF OffsetTo
  <2>10. line.imm % 4 = 0
    <3> DEFINE here == Cardinality(Before(k, instructions))
    <3>1. here \in Nat /\ line.imm = 4 * words - 4 * here
      BY <2>6, <2>7, <2>8, <2>9
    <3> HIDE DEF here, words
    <3>2. (4 * words - 4 * here) % 4 = 0
      BY <2>7, <3>1
    <3> QED
      BY <3>1, <3>2
  <2>11. read \in Int /\ (read - line.imm) % 2048 = 0
    <3>1. WordAt(line) = WordOfLine(line)
      BY WordAtPlace
    <3> QED
      BY <2>8, <2>10, <3>1, JalCarries
  <2>12. /\ target \in Written(instructions)
         /\ Before(target, instructions) = Before(named, instructions)
    BY <2>1, <2>5, NextWritten
  <2>13. words + 1 \in DOMAIN output
         /\ output[words + 1] = WordOfLine(instructions[target])
    BY <2>1, <2>12, WordOfPlace
  <2>14. DOMAIN output = 1 .. Len(output) /\ Len(output) \in Nat
    <3>1. output = [n \in 1 .. Cardinality(Written(instructions)) |->
                        WordOfLine(instructions[NthWritten(n, instructions)])]
      BY <2>1 DEF WordsOf
    <3>2. Cardinality(Written(instructions)) \in Nat
      BY <2>1, WrittenFinite
    <3> QED
      BY <3>1, <3>2
  <2>15. words \in 0 .. 511
    <3>1. Len(output) <= 512
      BY DEF FetchCount
    <3> HIDE DEF words
    <3> QED
      BY <2>7, <2>13, <2>14, <3>1
  <2> DEFINE addr == line.line_addr
             n == line.imm
  <2>16. addr \in Int /\ n \in Int /\ addr + n = 4 * words
         /\ read \in Int /\ (read - n) % 2048 = 0
    BY <2>8, <2>9, <2>11
  <2> HIDE DEF addr, n, read, words
  <2>17. ((addr + read) \div 4) % 512 = words
    BY <2>15, <2>16, PlaceOfAddress
  <2> QED
    BY <2>4, <2>13, <2>17 DEF addr, read, FetchCount
<1> QED
  BY <1>1, ParserSound, FileComplete, PTL
==============================================================================
