------------------------------- MODULE Encoder -------------------------------
(***************************************************************************)
(* The words asm_line_write prints, and what the circuit reads in them:    *)
(* the immediate (imm_gen.sv) and the operation (control_logic.sv).  A     *)
(* word is its opcode, its funct and register fields, where its format has *)
(* them, and in bits the bits that carry the immediate, by their place.    *)
(* A register field of -1 is the "(null)" that is printed for a register   *)
(* without a code.                                                         *)
(***************************************************************************)
EXTENDS Parser, Decoder

\* The values of a C int, from -2^31 to 2^31 - 1, and (n >> k) & 1 of one:
\* bit 31 is its sign.
CInt == {n \in Int : n \div 2^30 \in -2 .. 1}
BitOf(n, k) ==
    IF k < 31 THEN (n \div 2^k) % 2 ELSE IF n < 0 THEN 1 ELSE 0

Shifts == {"SLLI", "SRLI", "SRAI"}

\* The bits of immediate n in the formats, as the source writes them: a
\* branch prints imm & 0x1E on four bits; JAL masks imm with 0x40000 before
\* it shifts it by twenty and with 0x7F800 before it shifts it by twelve.
IBits(n) == [p \in 20 .. 31 |-> BitOf(n, p - 20)]
ShiftBits(insn, n) ==
    [p \in 20 .. 31 |-> IF p < 25 THEN BitOf(n, p - 20)
                        ELSE IF insn = "SRAI" /\ p = 30 THEN 1 ELSE 0]
\* Faulty variant: the two fields of a store are swapped.
SBitsSwapped(n) ==
    [p \in (7 .. 11) \cup (25 .. 31) |->
        IF p < 12 THEN BitOf(n, p) ELSE BitOf(n, p - 25)]

SBits(n) ==
    [p \in (7 .. 11) \cup (25 .. 31) |->
        IF p < 12 THEN BitOf(n, p - 7) ELSE BitOf(n, p - 20)]
BBits(n) ==
    [p \in (7 .. 11) \cup (25 .. 31) |->
        IF p = 31 THEN BitOf(n, 12)
        ELSE IF p = 7 THEN BitOf(n, 11)
        ELSE IF p = 8 THEN 0
        ELSE IF p < 12 THEN BitOf(n, p - 8)
        ELSE BitOf(n, p - 20)]
\* Faulty variant: the low field of JAL is not shifted by one.
JBitsUnshifted(n) ==
    [p \in 12 .. 31 |->
        IF p \in {19, 31} THEN 0
        ELSE IF p = 20 THEN BitOf(n, 11)
        ELSE IF p < 20 THEN BitOf(n, p)
        ELSE BitOf(n, p - 21)]

JBits(n) ==
    [p \in 12 .. 31 |->
        IF p \in {19, 31} THEN 0
        ELSE IF p = 20 THEN BitOf(n, 11)
        ELSE IF p < 20 THEN BitOf(n, p)
        ELSE BitOf(n, p - 20)]
UBits(n) == [p \in 12 .. 31 |-> BitOf(n, p)]

ImmediateBits(insn, n) ==
    LET type == TypeOf(insn)
    IN  CASE insn \in Shifts -> ShiftBits(insn, n)
          [] type \in {"REGIMM", "LOAD", "JALR"} /\ insn \notin Shifts -> IBits(n)
          [] type = "STORE"  -> SBits(n)
          [] type = "BRANCH" -> BBits(n)
          [] type = "JAL"    -> JBits(n)
          [] type \in {"LUI", "AUIPC"} -> UBits(n)
          [] OTHER -> << >>

\* The tables of asm_line.h.
OpcodeOf ==
    [NOP    |-> "0000000", REGREG |-> "0110011", REGIMM |-> "0010011",
     LOAD   |-> "0000011", STORE  |-> "0100011", BRANCH |-> "1100011",
     JAL    |-> "1101111", JALR   |-> "1100111", LUI    |-> "0110111",
     AUIPC  |-> "0010111"]
Funct3 ==
    [ADDI |-> 0, ADD |-> 0, ANDI |-> 7, AND |-> 7, BEQ |-> 0, SLLI |-> 1,
     SRLI |-> 5, SLL |-> 1, SRL |-> 5, ORI |-> 6, OR |-> 6, BNE |-> 1,
     XORI |-> 4, XOR |-> 4, BGEU |-> 7, BGE |-> 5, SLTIU |-> 3, SLTI |-> 2,
     SLTU |-> 3, SLT |-> 2, SRAI |-> 5, SRA |-> 5, SUB |-> 0, BLTU |-> 6,
     BLT |-> 4, LB |-> 0, LH |-> 1, LW |-> 2, LBU |-> 4, LHU |-> 5, SB |-> 0,
     SH |-> 1, SW |-> 2, JALR |-> 0]
Funct7(insn) == IF insn \in {"SUB", "SRA", "SRAI"} THEN 32 ELSE 0

WordOfLine(line) ==
    [opcode |-> OpcodeOf[TypeOf(line.insn)],
     funct3 |-> IF line.insn \in DOMAIN Funct3 THEN Funct3[line.insn] ELSE 0,
     funct7 |-> Funct7(line.insn),
     rd |-> line.rd, rs1 |-> line.rs1, rs2 |-> line.rs2,
     bits |-> ImmediateBits(line.insn, line.imm)]

-----------------------------------------------------------------------------
(* The immediate the circuit reads (imm_gen.sv) *)

\* The number of width bits b[0], b[1], ...
Unsigned(b, width) ==
    LET upTo[k \in 0 .. width] ==
            IF k = 0 THEN 0 ELSE upTo[k - 1] + b[k - 1] * 2^(k - 1)
    IN  upTo[width]

\* Bit 31 of the word fills the bits its format does not assign.
SignFilled(b, width, sign) == Unsigned(b, width) - sign * 2^width

ImmediateRead(op, bits) ==
    CASE op \in {"REGIMM", "LOAD", "JALR"} ->
            SignFilled([k \in 0 .. 11 |-> bits[k + 20]], 12, bits[31])
      [] op = "STORE" ->
            SignFilled([k \in 0 .. 11 |-> IF k < 5 THEN bits[k + 7]
                                          ELSE bits[k + 20]], 12, bits[31])
      [] op = "BRANCH" ->
            SignFilled([k \in 0 .. 12 |->
                            IF k \in {0, 12} THEN bits[31]
                            ELSE IF k = 11 THEN bits[7]
                            ELSE IF k < 5 THEN bits[k + 7]
                            ELSE bits[k + 20]], 13, bits[31])
      [] op = "JAL" ->
            SignFilled([k \in 0 .. 20 |->
                            IF k \in {0, 20} THEN bits[31]
                            ELSE IF k = 11 THEN bits[20]
                            ELSE IF k > 11 THEN bits[k]
                            ELSE bits[k + 20]], 21, bits[31])
      [] op \in {"LUI", "AUIPC"} ->
            Unsigned([k \in 0 .. 19 |-> bits[k + 12]], 20)
      [] OTHER -> 0

-----------------------------------------------------------------------------
(* The operation the circuit decodes (control_logic.sv) *)

\* The names of the opcodes in the circuit.
InstOf(opcode) ==
    CASE opcode = "0110011" -> "REGREG"  [] opcode = "0010011" -> "REGIMM"
      [] opcode = "0000011" -> "LOAD"    [] opcode = "0100011" -> "STORE"
      [] opcode = "1100011" -> "BRANCH"  [] opcode = "1100111" -> "JALR"
      [] opcode = "1101111" -> "JAL"     [] opcode = "0110111" -> "LUI"
      [] opcode = "0010111" -> "AUIPC"   [] opcode = "0000000" -> "NOP"

Decoded(word) ==
    [op |-> InstOf(word.opcode), f3 |-> word.funct3, f7 |-> word.funct7]
ImmediateOf(word) == ImmediateRead(InstOf(word.opcode), word.bits)

-----------------------------------------------------------------------------
(* What RV32I says the circuit should read *)

\* The immediate imm of an instruction as read: a shift takes five bits of
\* it, arithmetic and accesses twelve, signed, LUI and AUIPC the upper twenty.
Carries(read, insn, imm) ==
    /\ insn \in Shifts => read % 32 = imm % 32
    /\ insn \in (RegImm \ Shifts) \cup Load \cup Store =>
            read \in -2048 .. 2047 /\ (read - imm) % 4096 = 0
    /\ insn \in Upper => read = (imm \div 4096) % 2^20

\* The ALU operation and the width of the access of an instruction, when its
\* operands compare as eq and lt.
Meant(insn, eq, lt) ==
    LET jumpsIf(taken) == IF taken THEN "ADD" ELSE "OUT_ZERO"
    IN  CASE insn \in Load \cup Store \cup {"ADD", "ADDI", "JAL", "JALR"} -> "ADD"
          [] insn \in {"AND", "ANDI"} -> "AND"
          [] insn \in {"OR", "ORI"}   -> "OR"
          [] insn \in {"XOR", "XORI"} -> "XOR"
          [] insn \in {"SLL", "SLLI"} -> "SLL"
          [] insn \in {"SLT", "SLTI", "SLTU", "SLTIU"} ->
                IF lt THEN "OUT_ONE" ELSE "OUT_ZERO"
          [] insn = "BEQ" -> jumpsIf(eq)
          [] insn = "BNE" -> jumpsIf(~eq)
          [] insn \in {"BLT", "BLTU"} -> jumpsIf(lt)
          [] insn \in {"BGE", "BGEU"} -> jumpsIf(~lt)
          [] insn = "NOP" -> "OUT_ZERO"
          [] OTHER -> insn               \* SUB, SRL, SRA, LUI and AUIPC
WidthOf(insn) ==
    CASE insn \in {"LB", "LBU", "SB"} -> "BYTE"
      [] insn \in {"LH", "LHU", "SH"} -> "HALF"
      [] insn \in {"LW", "SW"} -> "WORD"

\* The instruction the circuit decodes does what the mnemonic means.
Does(inst, insn) ==
    /\ \A eq, lt \in BOOLEAN : ~(eq /\ lt) =>
            AluOpOf(inst, eq, lt) = Meant(insn, eq, lt)
    /\ UnsignedCompare(inst) <=> insn \in {"SLTU", "SLTIU", "BLTU", "BGEU"}
    /\ insn \in Load \cup Store => SizeOf(inst) = WidthOf(insn)
    /\ inst.op = "LOAD" <=> insn \in Load
    /\ inst.op = "STORE" <=> insn \in Store
    /\ inst.op \in {"BRANCH", "JAL", "JALR"} <=> insn \in Branch \cup {"JAL", "JALR"}
==============================================================================
