---------------------------- MODULE EncoderProofs -----------------------------
(***************************************************************************)
(* What the circuit reads in the word of a line, for every instruction,    *)
(* register and integer.                                                   *)
(***************************************************************************)
EXTENDS Encoder, ProofLemmas

LEMMA InsnsByType ==
  /\ RegReg = {"ADD", "AND", "SLL", "SRL", "OR", "XOR", "SLTU", "SLT", "SRA",
               "SUB"}
  /\ RegImm = {"ADDI", "ANDI", "SLLI", "SRLI", "ORI", "XORI", "SLTIU", "SLTI",
               "SRAI"}
  /\ Branch = {"BEQ", "BNE", "BGEU", "BGE", "BLTU", "BLT"}
  /\ Upper  = {"LUI", "AUIPC"}
  /\ Load   = {"LBU", "LHU", "LB", "LH", "LW"}
  /\ Store  = {"SB", "SW", "SH"}
<1>1. RegReg = {"ADD", "AND", "SLL", "SRL", "OR", "XOR", "SLTU", "SLT", "SRA",
               "SUB"}
  BY DEF RegReg, Between, InsnSet
<1>2. RegImm = {"ADDI", "ANDI", "SLLI", "SRLI", "ORI", "XORI", "SLTIU", "SLTI",
               "SRAI"}
  BY DEF RegImm, Between, InsnSet
<1>3. Branch = {"BEQ", "BNE", "BGEU", "BGE", "BLTU", "BLT"}
  BY DEF Branch, Between, InsnSet
<1>4. Upper = {"LUI", "AUIPC"}
  BY DEF Upper, Between, InsnSet
<1>5. Load = {"LBU", "LHU", "LB", "LH", "LW"}
  BY DEF Load, Between, InsnSet
<1>6. Store = {"SB", "SW", "SH"}
  BY DEF Store, Between, InsnSet
<1> QED
  BY <1>1, <1>2, <1>3, <1>4, <1>5, <1>6

LEMMA InsnsListed ==
  Insns = RegReg \cup RegImm \cup Branch \cup Upper \cup Load \cup Store
            \cup {"NOP", "JAL", "JALR"}
<1>1. DOMAIN InsnSet = 1 .. 38
  BY DEF InsnSet
<1>2. Insns = Between(0, 37)
  BY <1>1 DEF Insns, Between
<1>3. Between(0, 37) = Between(0, 0) \cup RegReg \cup RegImm \cup Branch
        \cup Upper \cup Load \cup Store \cup Between(36, 37)
  BY DEF Between, RegReg, RegImm, Branch, Upper, Load, Store
<1>4. Between(0, 0) = {"NOP"} /\ Between(36, 37) = {"JAL", "JALR"}
  BY DEF Between, InsnSet
<1> QED
  BY <1>2, <1>3, <1>4

-----------------------------------------------------------------------------
(* The operation *)

\* The opcode of a type is the one the circuit knows it by.
LEMMA OpcodesAgree ==
  ASSUME NEW type \in {"NOP", "REGREG", "REGIMM", "LOAD", "STORE", "BRANCH",
                       "JAL", "JALR", "LUI", "AUIPC"}
  PROVE  InstOf(OpcodeOf[type]) = type
  BY DEF InstOf, OpcodeOf

LEMMA Fields ==
  ASSUME NEW line, line.insn \in Insns
  PROVE  LET inst == Decoded(WordOfLine(line))
         IN  /\ inst.op = TypeOf(line.insn)
             /\ inst.f7 = Funct7(line.insn)
             /\ line.insn \in DOMAIN Funct3 => inst.f3 = Funct3[line.insn]
<1>1. TypeOf(line.insn) \in {"NOP", "REGREG", "REGIMM", "LOAD", "STORE",
                             "BRANCH", "JAL", "JALR", "LUI", "AUIPC"}
  BY InsnsListed, InsnsByType DEF TypeOf
<1> QED
  BY <1>1, OpcodesAgree DEF Decoded, WordOfLine

LEMMA RegRegDoes ==
  ASSUME NEW inst, NEW insn \in RegReg, inst.op = "REGREG",
         inst.f3 = Funct3[insn], inst.f7 = Funct7(insn)
  PROVE  Does(inst, insn)
<1>1. insn \in {"ADD", "AND", "SLL", "SRL", "OR", "XOR", "SLTU", "SLT", "SRA",
                "SUB"}
  BY InsnsByType
<1>2. << insn, inst.f3, inst.f7 >> \in
        { <<"ADD", 0, 0>>, <<"SUB", 0, 32>>, <<"SLL", 1, 0>>, <<"SLT", 2, 0>>,
          <<"SLTU", 3, 0>>, <<"XOR", 4, 0>>, <<"SRL", 5, 0>>, <<"SRA", 5, 32>>,
          <<"OR", 6, 0>>, <<"AND", 7, 0>> }
  BY <1>1 DEF Funct3, Funct7
<1>3. ASSUME NEW eq \in BOOLEAN, NEW lt \in BOOLEAN, ~(eq /\ lt)
      PROVE  AluOpOf(inst, eq, lt) = Meant(insn, eq, lt)
  <2> DEFINE op == IF insn \in {"SLT", "SLTU"}
                   THEN IF lt THEN "OUT_ONE" ELSE "OUT_ZERO" ELSE insn
  <2>1. AluOpOf(inst, eq, lt) = RegRegOp(inst, eq, lt)
    BY DEF AluOpOf
  <2>2. RegRegOp(inst, eq, lt) = op
    BY <1>2, <1>3 DEF RegRegOp, SetOp
  <2>3. Meant(insn, eq, lt) = op
    BY <1>1, InsnsByType DEF Meant
  <2> QED
    BY <2>1, <2>2, <2>3
<1>4. UnsignedCompare(inst) <=> insn = "SLTU"
  BY <1>2 DEF UnsignedCompare
<1> QED
  BY <1>1, <1>3, <1>4, InsnsByType DEF Does

LEMMA RegImmDoes ==
  ASSUME NEW inst, NEW insn \in RegImm \ {"SRLI", "SRAI"}, inst.op = "REGIMM",
         inst.f3 = Funct3[insn]
  PROVE  Does(inst, insn)
<1>1. insn \in {"ADDI", "ANDI", "SLLI", "ORI", "XORI", "SLTIU", "SLTI"}
  BY InsnsByType
<1>2. << insn, inst.f3 >> \in
        { <<"ADDI", 0>>, <<"SLLI", 1>>, <<"SLTI", 2>>, <<"SLTIU", 3>>,
          <<"XORI", 4>>, <<"ORI", 6>>, <<"ANDI", 7>> }
  BY <1>1 DEF Funct3
<1>3. ASSUME NEW eq \in BOOLEAN, NEW lt \in BOOLEAN, ~(eq /\ lt)
      PROVE  AluOpOf(inst, eq, lt) = Meant(insn, eq, lt)
  <2>1. AluOpOf(inst, eq, lt) = RegImmOp(inst, eq, lt)
    BY DEF AluOpOf
  <2>2. RegImmOp(inst, eq, lt) = Meant(insn, eq, lt)
    BY <1>2, <1>3, InsnsByType DEF RegImmOp, SetOp, Meant
  <2> QED
    BY <2>1, <2>2
<1>4. UnsignedCompare(inst) <=> insn = "SLTIU"
  BY <1>2 DEF UnsignedCompare
<1> QED
  BY <1>1, <1>3, <1>4, InsnsByType DEF Does

LEMMA BranchDoes ==
  ASSUME NEW inst, NEW insn \in Branch, inst.op = "BRANCH",
         inst.f3 = Funct3[insn]
  PROVE  Does(inst, insn)
<1>1. insn \in {"BEQ", "BNE", "BGEU", "BGE", "BLTU", "BLT"}
  BY InsnsByType
<1>2. << insn, inst.f3 >> \in
        { <<"BEQ", 0>>, <<"BNE", 1>>, <<"BLT", 4>>, <<"BGE", 5>>,
          <<"BLTU", 6>>, <<"BGEU", 7>> }
  BY <1>1 DEF Funct3
<1>3. ASSUME NEW eq \in BOOLEAN, NEW lt \in BOOLEAN, ~(eq /\ lt)
      PROVE  AluOpOf(inst, eq, lt) = Meant(insn, eq, lt)
  <2>1. AluOpOf(inst, eq, lt) =
          IF Taken(inst.f3, eq, lt) THEN "ADD" ELSE "OUT_ZERO"
    BY DEF AluOpOf
  <2>2. Meant(insn, eq, lt) =
          IF Taken(inst.f3, eq, lt) THEN "ADD" ELSE "OUT_ZERO"
    BY <1>2, <1>3, InsnsByType DEF Taken, Meant
  <2> QED
    BY <2>1, <2>2
<1>4. UnsignedCompare(inst) <=> insn \in {"BLTU", "BGEU"}
  BY <1>2 DEF UnsignedCompare
<1> QED
  BY <1>1, <1>3, <1>4, InsnsByType DEF Does

LEMMA AccessDoes ==
  ASSUME NEW inst, NEW insn \in Load \cup Store,
         inst.op = TypeOf(insn), inst.f3 = Funct3[insn]
  PROVE  Does(inst, insn)
<1>1. insn \in {"LBU", "LHU", "LB", "LH", "LW", "SB", "SW", "SH"}
  BY InsnsByType
<1>2. << insn, inst.op, inst.f3 >> \in
        { <<"LB", "LOAD", 0>>, <<"LH", "LOAD", 1>>, <<"LW", "LOAD", 2>>,
          <<"LBU", "LOAD", 4>>, <<"LHU", "LOAD", 5>>, <<"SB", "STORE", 0>>,
          <<"SH", "STORE", 1>>, <<"SW", "STORE", 2>> }
  BY <1>1, InsnsByType DEF Funct3, TypeOf
<1>3. ASSUME NEW eq \in BOOLEAN, NEW lt \in BOOLEAN
      PROVE  AluOpOf(inst, eq, lt) = Meant(insn, eq, lt)
  BY <1>2, InsnsByType DEF AluOpOf, Meant
<1>4. SizeOf(inst) = WidthOf(insn)
  BY <1>2 DEF SizeOf, WidthOf
<1>5. ~UnsignedCompare(inst)
  BY <1>2 DEF UnsignedCompare
<1> QED
  BY <1>2, <1>3, <1>4, <1>5, InsnsByType DEF Does

LEMMA OtherDoes ==
  ASSUME NEW inst, NEW insn \in Upper \cup {"NOP", "JAL", "JALR"},
         inst.op = insn
  PROVE  Does(inst, insn)
<1>1. insn \in {"NOP", "LUI", "AUIPC", "JAL", "JALR"}
  BY InsnsByType
<1>2. ASSUME NEW eq \in BOOLEAN, NEW lt \in BOOLEAN
      PROVE  AluOpOf(inst, eq, lt) = Meant(insn, eq, lt)
  BY <1>1, InsnsByType DEF AluOpOf, Meant
<1>3. ~UnsignedCompare(inst)
  BY <1>1 DEF UnsignedCompare
<1> QED
  BY <1>1, <1>2, <1>3, InsnsByType DEF Does

\* The tables of asm_line.h and the case statements of control_logic.sv agree:
\* the circuit does with the word of a line what its mnemonic means, for every
\* instruction but SRLI and SRAI.
THEOREM WordDoes ==
  ASSUME NEW line, line.insn \in Insns \ {"SRLI", "SRAI"}
  PROVE  Does(Decoded(WordOfLine(line)), line.insn)
<1> DEFINE inst == Decoded(WordOfLine(line))
           insn == line.insn
<1>1. /\ inst.op = TypeOf(insn) /\ inst.f7 = Funct7(insn)
      /\ insn \in DOMAIN Funct3 => inst.f3 = Funct3[insn]
  BY Fields
<1> HIDE DEF inst, insn
<1>2. RegReg \cup RegImm \cup Branch \cup Load \cup Store
        \subseteq DOMAIN Funct3
  BY InsnsByType DEF Funct3
<1>3. insn \in RegReg => Does(inst, insn)
  BY <1>1, <1>2, RegRegDoes, InsnsByType DEF TypeOf
<1>4. insn \in RegImm \ {"SRLI", "SRAI"} => Does(inst, insn)
  BY <1>1, <1>2, RegImmDoes, InsnsByType DEF TypeOf
<1>5. insn \in Branch => Does(inst, insn)
  BY <1>1, <1>2, BranchDoes, InsnsByType DEF TypeOf
<1>6. insn \in Load \cup Store => Does(inst, insn)
  BY <1>1, <1>2, AccessDoes
<1>7. insn \in Upper \cup {"NOP", "JAL", "JALR"} => Does(inst, insn)
  BY <1>1, OtherDoes, InsnsByType DEF TypeOf
<1>8. insn \in Insns \ {"SRLI", "SRAI"}
  BY DEF insn
<1>9. Does(inst, insn)
  BY <1>3, <1>4, <1>5, <1>6, <1>7, <1>8, InsnsListed
<1> QED
  BY <1>9 DEF inst, insn

-----------------------------------------------------------------------------
(* The immediate *)

Summed(b, width, f) ==
  f = [k \in 0 .. width |->
        IF k = 0 THEN 0 ELSE f[k - 1] + b[k - 1] * 2^(k - 1)]

\* The sum Unsigned defines by recursion exists.
LEMMA UnsignedIsSum ==
  ASSUME NEW b, NEW width \in Nat
  PROVE  \E f : Summed(b, width, f) /\ Unsigned(b, width) = f[width]
<1> DEFINE T == {n \in Nat : \E f : Summed(b, n, f)}
<1>1. 0 \in T
  <2>1. Summed(b, 0, [k \in 0 .. 0 |-> 0])
    BY DEF Summed
  <2> QED
    BY <2>1
<1>2. ASSUME NEW n \in Nat, n \in T PROVE n + 1 \in T
  <2>1. PICK f : Summed(b, n, f)
    BY <1>2
  <2> DEFINE g == [k \in 0 .. n + 1 |-> IF k = n + 1 THEN f[n] + b[n] * 2^n
                                        ELSE f[k]]
  <2>2. \A k \in 0 .. n + 1 :
          g[k] = IF k = 0 THEN 0 ELSE g[k - 1] + b[k - 1] * 2^(k - 1)
    <3> SUFFICES ASSUME NEW k \in 0 .. n + 1
                 PROVE  g[k] = IF k = 0 THEN 0
                               ELSE g[k - 1] + b[k - 1] * 2^(k - 1)
      OBVIOUS
    <3>1. CASE k = n + 1
      BY <3>1
    <3>2. CASE k # n + 1
      BY <3>2, <2>1 DEF Summed
    <3> QED
      BY <3>1, <3>2
  <2>3. Summed(b, n + 1, g)
    BY <2>2 DEF Summed
  <2> QED
    BY <2>3
<1> HIDE DEF T
<1>3. T = Nat
  BY <1>1, <1>2, SetInduction DEF T
<1>4. \E f : Summed(b, width, f)
  BY <1>3 DEF T
<1>5. Unsigned(b, width) = (CHOOSE f : Summed(b, width, f))[width]
  BY DEF Unsigned, Summed
<1> QED
  BY <1>4, <1>5

\* The first digits of b are binary digits; they are those of n.
AreBits(b, width) == \A k \in 0 .. width - 1 : b[k] \in {0, 1}
AreBitsOf(b, n, width) == \A k \in 0 .. width - 1 : b[k] = BitOf(n, k)

LEMMA UnsignedTwelve ==
  ASSUME NEW b, AreBits(b, 12)
  PROVE  Unsigned(b, 12) =
            b[0] + 2 * b[1] + 4 * b[2] + 8 * b[3] + 16 * b[4] + 32 * b[5]
            + 64 * b[6] + 128 * b[7] + 256 * b[8] + 512 * b[9] + 1024 * b[10]
            + 2048 * b[11]
<1>1. PICK f : Summed(b, 12, f) /\ Unsigned(b, 12) = f[12]
  BY UnsignedIsSum
<1>2. /\ f[0] = 0
      /\ \A k \in 1 .. 12 : f[k] = f[k - 1] + b[k - 1] * 2^(k - 1)
  BY <1>1 DEF Summed
<1>3. \A k \in 0 .. 11 : b[k] \in Int
  BY DEF AreBits
<1>4. /\ f[1] = f[0] + b[0] * 1
      /\ f[2] = f[1] + b[1] * 2
      /\ f[3] = f[2] + b[2] * 4
      /\ f[4] = f[3] + b[3] * 8
  BY <1>2
<1>5. /\ f[5] = f[4] + b[4] * 16
      /\ f[6] = f[5] + b[5] * 32
      /\ f[7] = f[6] + b[6] * 64
      /\ f[8] = f[7] + b[7] * 128
  BY <1>2
<1>6. /\ f[9] = f[8] + b[8] * 256
      /\ f[10] = f[9] + b[9] * 512
      /\ f[11] = f[10] + b[10] * 1024
      /\ f[12] = f[11] + b[11] * 2048
  BY <1>2
<1> QED
  BY <1>1, <1>2, <1>3, <1>4, <1>5, <1>6

LEMMA UnsignedTwenty ==
  ASSUME NEW b, AreBits(b, 20)
  PROVE  Unsigned(b, 20) =
            b[0] + 2 * b[1] + 4 * b[2] + 8 * b[3] + 16 * b[4] + 32 * b[5]
            + 64 * b[6] + 128 * b[7] + 256 * b[8] + 512 * b[9] + 1024 * b[10]
            + 2048 * b[11] + 4096 * b[12] + 8192 * b[13] + 16384 * b[14]
            + 32768 * b[15] + 65536 * b[16] + 131072 * b[17] + 262144 * b[18]
            + 524288 * b[19]
<1>1. PICK f : Summed(b, 20, f) /\ Unsigned(b, 20) = f[20]
  BY UnsignedIsSum
<1>2. /\ f[0] = 0
      /\ \A k \in 1 .. 20 : f[k] = f[k - 1] + b[k - 1] * 2^(k - 1)
  BY <1>1 DEF Summed
<1>3. \A k \in 0 .. 19 : b[k] \in Int
  BY DEF AreBits
<1>4. /\ f[1] = f[0] + b[0] * 1
      /\ f[2] = f[1] + b[1] * 2
      /\ f[3] = f[2] + b[2] * 4
      /\ f[4] = f[3] + b[3] * 8
  BY <1>2
<1>5. /\ f[5] = f[4] + b[4] * 16
      /\ f[6] = f[5] + b[5] * 32
      /\ f[7] = f[6] + b[6] * 64
      /\ f[8] = f[7] + b[7] * 128
  BY <1>2
<1>6. /\ f[9] = f[8] + b[8] * 256
      /\ f[10] = f[9] + b[9] * 512
      /\ f[11] = f[10] + b[10] * 1024
      /\ f[12] = f[11] + b[11] * 2048
  BY <1>2
<1>7. /\ f[13] = f[12] + b[12] * 4096
      /\ f[14] = f[13] + b[13] * 8192
      /\ f[15] = f[14] + b[14] * 16384
      /\ f[16] = f[15] + b[15] * 32768
  BY <1>2
<1>8. /\ f[17] = f[16] + b[16] * 65536
      /\ f[18] = f[17] + b[17] * 131072
      /\ f[19] = f[18] + b[18] * 262144
      /\ f[20] = f[19] + b[19] * 524288
  BY <1>2
<1> QED
  BY <1>1, <1>2, <1>3, <1>4, <1>5, <1>6, <1>7, <1>8

LEMMA BitIsBit ==
  ASSUME NEW n \in Int, NEW k \in 0 .. 31
  PROVE  BitOf(n, k) \in {0, 1}
<1>1. CASE k < 31
  <2>1. (n \div 2^k) % 2 \in {0, 1}
    BY <1>1
  <2> QED
    BY <1>1, <2>1 DEF BitOf
<1>2. CASE k = 31
  BY <1>2 DEF BitOf
<1> QED
  BY <1>1, <1>2

\* Bit by bit, the low bits of a number are the number modulo a power of two.
LEMMA FiveBits ==
  ASSUME NEW n \in Int
  PROVE  n % 32 =
            BitOf(n, 0) + 2 * BitOf(n, 1) + 4 * BitOf(n, 2) + 8 * BitOf(n, 3)
            + 16 * BitOf(n, 4)
<1>0. n % 1 = 0
  OBVIOUS
<1>1. n % 2 = (n % 1) + 1 * BitOf(n, 0)
  BY DEF BitOf
<1>2. n % 4 = (n % 2) + 2 * BitOf(n, 1)
  BY DEF BitOf
<1>3. n % 8 = (n % 4) + 4 * BitOf(n, 2)
  BY DEF BitOf
<1>4. n % 16 = (n % 8) + 8 * BitOf(n, 3)
  BY DEF BitOf
<1>5. n % 32 = (n % 16) + 16 * BitOf(n, 4)
  BY DEF BitOf
<1>6. /\ BitOf(n, 0) \in {0, 1} /\ BitOf(n, 1) \in {0, 1}
      /\ BitOf(n, 2) \in {0, 1} /\ BitOf(n, 3) \in {0, 1}
      /\ BitOf(n, 4) \in {0, 1}
  BY BitIsBit
<1> QED
  BY <1>0, <1>1, <1>2, <1>3, <1>4, <1>5, <1>6

LEMMA TwelveBits ==
  ASSUME NEW n \in Int
  PROVE  n % 4096 =
            (n % 32) + 32 * BitOf(n, 5) + 64 * BitOf(n, 6) + 128 * BitOf(n, 7)
            + 256 * BitOf(n, 8) + 512 * BitOf(n, 9) + 1024 * BitOf(n, 10)
            + 2048 * BitOf(n, 11)
<1>1. n % 64 = (n % 32) + 32 * BitOf(n, 5)
  BY DEF BitOf
<1>2. n % 128 = (n % 64) + 64 * BitOf(n, 6)
  BY DEF BitOf
<1>3. n % 256 = (n % 128) + 128 * BitOf(n, 7)
  BY DEF BitOf
<1>4. n % 512 = (n % 256) + 256 * BitOf(n, 8)
  BY DEF BitOf
<1>5. n % 1024 = (n % 512) + 512 * BitOf(n, 9)
  BY DEF BitOf
<1>6. n % 2048 = (n % 1024) + 1024 * BitOf(n, 10)
  BY DEF BitOf
<1>7. n % 4096 = (n % 2048) + 2048 * BitOf(n, 11)
  BY DEF BitOf
<1>8. /\ BitOf(n, 5) \in {0, 1} /\ BitOf(n, 6) \in {0, 1}
      /\ BitOf(n, 7) \in {0, 1} /\ BitOf(n, 8) \in {0, 1}
      /\ BitOf(n, 9) \in {0, 1} /\ BitOf(n, 10) \in {0, 1}
      /\ BitOf(n, 11) \in {0, 1}
  BY BitIsBit
<1> QED
  BY <1>1, <1>2, <1>3, <1>4, <1>5, <1>6, <1>7, <1>8

LEMMA TwentyBits ==
  ASSUME NEW n \in Int
  PROVE  n % 2^20 =
            (n % 4096) + 4096 * BitOf(n, 12) + 8192 * BitOf(n, 13)
            + 16384 * BitOf(n, 14) + 32768 * BitOf(n, 15)
            + 65536 * BitOf(n, 16) + 131072 * BitOf(n, 17)
            + 262144 * BitOf(n, 18) + 524288 * BitOf(n, 19)
<1>1. n % 8192 = (n % 4096) + 4096 * BitOf(n, 12)
  BY DEF BitOf
<1>2. n % 16384 = (n % 8192) + 8192 * BitOf(n, 13)
  BY DEF BitOf
<1>3. n % 32768 = (n % 16384) + 16384 * BitOf(n, 14)
  BY DEF BitOf
<1>4. n % 65536 = (n % 32768) + 32768 * BitOf(n, 15)
  BY DEF BitOf
<1>5. n % 131072 = (n % 65536) + 65536 * BitOf(n, 16)
  BY DEF BitOf
<1>6. n % 262144 = (n % 131072) + 131072 * BitOf(n, 17)
  BY DEF BitOf
<1>7. n % 524288 = (n % 262144) + 262144 * BitOf(n, 18)
  BY DEF BitOf
<1>8. n % 2^20 = (n % 524288) + 524288 * BitOf(n, 19)
  BY DEF BitOf
<1>9. /\ BitOf(n, 12) \in {0, 1} /\ BitOf(n, 13) \in {0, 1}
      /\ BitOf(n, 14) \in {0, 1} /\ BitOf(n, 15) \in {0, 1}
      /\ BitOf(n, 16) \in {0, 1} /\ BitOf(n, 17) \in {0, 1}
      /\ BitOf(n, 18) \in {0, 1} /\ BitOf(n, 19) \in {0, 1}
  BY BitIsBit
<1> QED
  BY <1>1, <1>2, <1>3, <1>4, <1>5, <1>6, <1>7, <1>8, <1>9

\* Twelve bits, signed.
Signed(read, n) == read \in -2048 .. 2047 /\ (read - n) % 4096 = 0

LEMMA SignedIsLow ==
  ASSUME NEW n \in Int, NEW sign \in {0, 1}, sign = 1 <=> n % 4096 >= 2048
  PROVE  Signed((n % 4096) - sign * 4096, n)
<1>1. (n % 4096) - sign * 4096 \in -2048 .. 2047
  OBVIOUS
<1>2. ((n % 4096) - sign * 4096 - n) % 4096 = 0
  OBVIOUS
<1> QED
  BY <1>1, <1>2 DEF Signed

LEMMA SignedTwelve ==
  ASSUME NEW n \in Int, NEW b, AreBitsOf(b, n, 12)
  PROVE  Signed(SignFilled(b, 12, b[11]), n)
<1>1. AreBits(b, 12)
  BY BitIsBit DEF AreBits, AreBitsOf
<1>2. Unsigned(b, 12) =
            b[0] + 2 * b[1] + 4 * b[2] + 8 * b[3] + 16 * b[4] + 32 * b[5]
            + 64 * b[6] + 128 * b[7] + 256 * b[8] + 512 * b[9] + 1024 * b[10]
            + 2048 * b[11]
  BY <1>1, UnsignedTwelve
<1>3. n % 4096 =
            (n % 32) + 32 * BitOf(n, 5) + 64 * BitOf(n, 6) + 128 * BitOf(n, 7)
            + 256 * BitOf(n, 8) + 512 * BitOf(n, 9) + 1024 * BitOf(n, 10)
            + 2048 * BitOf(n, 11)
  BY TwelveBits
<1>4. n % 32 =
            BitOf(n, 0) + 2 * BitOf(n, 1) + 4 * BitOf(n, 2) + 8 * BitOf(n, 3)
            + 16 * BitOf(n, 4)
  BY FiveBits
<1>5. /\ b[0] = BitOf(n, 0) /\ b[1] = BitOf(n, 1) /\ b[2] = BitOf(n, 2)
      /\ b[3] = BitOf(n, 3) /\ b[4] = BitOf(n, 4) /\ b[5] = BitOf(n, 5)
      /\ b[6] = BitOf(n, 6) /\ b[7] = BitOf(n, 7) /\ b[8] = BitOf(n, 8)
      /\ b[9] = BitOf(n, 9) /\ b[10] = BitOf(n, 10) /\ b[11] = BitOf(n, 11)
  BY DEF AreBitsOf
<1>6. /\ b[0] \in {0, 1} /\ b[1] \in {0, 1} /\ b[2] \in {0, 1}
      /\ b[3] \in {0, 1} /\ b[4] \in {0, 1} /\ b[5] \in {0, 1}
      /\ b[6] \in {0, 1} /\ b[7] \in {0, 1} /\ b[8] \in {0, 1}
      /\ b[9] \in {0, 1} /\ b[10] \in {0, 1} /\ b[11] \in {0, 1}
  BY <1>1 DEF AreBits
<1>7. Unsigned(b, 12) = n % 4096
  BY <1>2, <1>3, <1>4, <1>5, <1>6
<1>8. SignFilled(b, 12, b[11]) = (n % 4096) - b[11] * 4096
  BY <1>7 DEF SignFilled
<1>9. BitOf(n, 11) = 1 <=> n % 4096 >= 2048
  BY DEF BitOf
<1>10. Signed((n % 4096) - b[11] * 4096, n)
  BY <1>5, <1>6, <1>9, SignedIsLow
<1> QED
  BY <1>8, <1>10

\* Five bits, under whatever fills the other seven.
LEMMA LowFive ==
  ASSUME NEW n \in Int, NEW b, AreBits(b, 12), AreBitsOf(b, n, 5)
  PROVE  SignFilled(b, 12, b[11]) % 32 = n % 32
<1> DEFINE low == n % 32
           high == b[5] + 2 * b[6] + 4 * b[7] + 8 * b[8] + 16 * b[9]
                    + 32 * b[10] - 64 * b[11]
<1>1. Unsigned(b, 12) =
            b[0] + 2 * b[1] + 4 * b[2] + 8 * b[3] + 16 * b[4] + 32 * b[5]
            + 64 * b[6] + 128 * b[7] + 256 * b[8] + 512 * b[9] + 1024 * b[10]
            + 2048 * b[11]
  BY UnsignedTwelve
<1>2. low =
            BitOf(n, 0) + 2 * BitOf(n, 1) + 4 * BitOf(n, 2) + 8 * BitOf(n, 3)
            + 16 * BitOf(n, 4)
  BY FiveBits
<1>3. /\ b[0] = BitOf(n, 0) /\ b[1] = BitOf(n, 1) /\ b[2] = BitOf(n, 2)
      /\ b[3] = BitOf(n, 3) /\ b[4] = BitOf(n, 4)
  BY DEF AreBitsOf
<1>4. /\ b[0] \in {0, 1} /\ b[1] \in {0, 1} /\ b[2] \in {0, 1}
      /\ b[3] \in {0, 1} /\ b[4] \in {0, 1} /\ b[5] \in {0, 1}
      /\ b[6] \in {0, 1} /\ b[7] \in {0, 1} /\ b[8] \in {0, 1}
      /\ b[9] \in {0, 1} /\ b[10] \in {0, 1} /\ b[11] \in {0, 1}
  BY DEF AreBits
<1>5. SignFilled(b, 12, b[11]) = Unsigned(b, 12) - b[11] * 4096
  BY DEF SignFilled
<1>6. high \in Int
  BY <1>4
<1>7. low \in 0 .. 31
  OBVIOUS
<1> HIDE DEF low
<1>8. SignFilled(b, 12, b[11]) = low + 32 * high
  BY <1>1, <1>2, <1>3, <1>4, <1>5
<1> HIDE DEF high
<1>9. (low + 32 * high) % 32 = low
  BY <1>6, <1>7
<1> QED
  BY <1>8, <1>9 DEF low

\* The offset of a JAL: the bits up to the tenth arrive, the ones above only
\* add multiples of 2048 bytes, the 512 words of the memory.
LEMMA LowEleven ==
  ASSUME NEW n \in Int, NEW b, AreBits(b, 21), AreBitsOf(b, n, 11), b[20] = 0
  PROVE  /\ SignFilled(b, 21, b[20]) \in Int
         /\ (SignFilled(b, 21, b[20]) - n) % 2048 = 0
<1> DEFINE low == n % 2048
           high == b[11] + 2 * b[12] + 4 * b[13] + 8 * b[14] + 16 * b[15]
                    + 32 * b[16] + 64 * b[17] + 128 * b[18] + 256 * b[19]
<1>1. PICK f : Summed(b, 21, f) /\ Unsigned(b, 21) = f[21]
  BY UnsignedIsSum
<1>2. /\ f[0] = 0
      /\ \A k \in 1 .. 21 : f[k] = f[k - 1] + b[k - 1] * 2^(k - 1)
  BY <1>1 DEF Summed
<1>3. /\ b[0] \in {0, 1} /\ b[1] \in {0, 1} /\ b[2] \in {0, 1}
      /\ b[3] \in {0, 1} /\ b[4] \in {0, 1} /\ b[5] \in {0, 1}
      /\ b[6] \in {0, 1} /\ b[7] \in {0, 1} /\ b[8] \in {0, 1}
      /\ b[9] \in {0, 1} /\ b[10] \in {0, 1} /\ b[11] \in {0, 1}
      /\ b[12] \in {0, 1} /\ b[13] \in {0, 1} /\ b[14] \in {0, 1}
      /\ b[15] \in {0, 1} /\ b[16] \in {0, 1} /\ b[17] \in {0, 1}
      /\ b[18] \in {0, 1} /\ b[19] \in {0, 1}
  BY DEF AreBits
<1>4. f[11] = b[0] + 2 * b[1] + 4 * b[2] + 8 * b[3] + 16 * b[4] + 32 * b[5]
            + 64 * b[6] + 128 * b[7] + 256 * b[8] + 512 * b[9] + 1024 * b[10]
  <2>1. /\ f[1] = f[0] + b[0] * 2^0 /\ f[2] = f[1] + b[1] * 2^1
        /\ f[3] = f[2] + b[2] * 2^2 /\ f[4] = f[3] + b[3] * 2^3
        /\ f[5] = f[4] + b[4] * 2^4 /\ f[6] = f[5] + b[5] * 2^5
        /\ f[7] = f[6] + b[6] * 2^6 /\ f[8] = f[7] + b[7] * 2^7
        /\ f[9] = f[8] + b[8] * 2^8 /\ f[10] = f[9] + b[9] * 2^9
        /\ f[11] = f[10] + b[10] * 2^10
    BY <1>2
  <2> QED
    BY <1>2, <1>3, <2>1
<1>5. f[21] = f[11] + 2048 * high
  <2>1. /\ f[12] = f[11] + b[11] * 2048
        /\ f[13] = f[12] + b[12] * 4096
        /\ f[14] = f[13] + b[13] * 8192
        /\ f[15] = f[14] + b[14] * 16384
    BY <1>2
  <2>2. /\ f[16] = f[15] + b[15] * 32768
        /\ f[17] = f[16] + b[16] * 65536
        /\ f[18] = f[17] + b[17] * 131072
    BY <1>2
  <2>3. /\ f[19] = f[18] + b[18] * 262144
        /\ f[20] = f[19] + b[19] * 524288
    BY <1>2
  <2>4. f[11] \in Int
    BY <1>3, <1>4
  <2>5. f[15] = f[11] + 2048 * (b[11] + 2 * b[12] + 4 * b[13] + 8 * b[14])
    BY <1>3, <2>1, <2>4
  <2>6. f[15] \in Int
    BY <1>3, <2>4, <2>5
  <2>7. f[20] = f[15] + 32768 * (b[15] + 2 * b[16] + 4 * b[17] + 8 * b[18]
                                   + 16 * b[19])
    BY <1>3, <2>2, <2>3, <2>6
  <2>8. f[20] = f[11] + 2048 * high
    <3>1. /\ b[11] \in Int /\ b[12] \in Int /\ b[13] \in Int /\ b[14] \in Int
          /\ b[15] \in Int /\ b[16] \in Int /\ b[17] \in Int /\ b[18] \in Int
          /\ b[19] \in Int
      BY <1>3
    <3> QED
      BY <2>4, <2>5, <2>7, <3>1
  <2>9. high \in Int
    BY <1>3
  <2> HIDE DEF high
  <2>10. f[21] = f[20] + 0 * 2^20
    BY <1>2
  <2> QED
    BY <2>4, <2>9, <2>10, <2>8
<1>6. /\ b[0] = BitOf(n, 0) /\ b[1] = BitOf(n, 1) /\ b[2] = BitOf(n, 2)
      /\ b[3] = BitOf(n, 3) /\ b[4] = BitOf(n, 4) /\ b[5] = BitOf(n, 5)
      /\ b[6] = BitOf(n, 6) /\ b[7] = BitOf(n, 7) /\ b[8] = BitOf(n, 8)
      /\ b[9] = BitOf(n, 9) /\ b[10] = BitOf(n, 10)
  BY DEF AreBitsOf
<1>7. n % 4096 = low + 2048 * BitOf(n, 11) /\ BitOf(n, 11) \in {0, 1}
  BY BitIsBit DEF BitOf
<1>8. low \in Int
  OBVIOUS
<1>9. low = f[11]
  <2>1. n % 32 = b[0] + 2 * b[1] + 4 * b[2] + 8 * b[3] + 16 * b[4]
    BY <1>6, FiveBits
  <2>2. n % 4096 = (n % 32) + 32 * b[5] + 64 * b[6] + 128 * b[7] + 256 * b[8]
                    + 512 * b[9] + 1024 * b[10] + 2048 * BitOf(n, 11)
    BY <1>6, TwelveBits
  <2>3. f[11] \in Int
    BY <1>3, <1>4
  <2> DEFINE five == n % 32
             twelve == n % 4096
  <2>4. five \in Int /\ twelve \in Int
    OBVIOUS
  <2> HIDE DEF low, five, twelve
  <2>5. twelve = f[11] + 2048 * BitOf(n, 11)
    BY <1>3, <1>4, <1>7, <2>1, <2>2, <2>4 DEF five, twelve
  <2> QED
    BY <1>7, <1>8, <2>3, <2>4, <2>5 DEF twelve
<1>10. high \in Int
  BY <1>3
<1> HIDE DEF high
<1>11. SignFilled(b, 21, b[20]) = low + 2048 * high
  <2>1. SignFilled(b, 21, b[20]) = f[21] - 0 * 2^21
    BY <1>1 DEF SignFilled
  <2> QED
    BY <1>5, <1>8, <1>9, <1>10, <2>1
<1>12. (low + 2048 * high - n) % 2048 = 0
  BY <1>10
<1> HIDE DEF low
<1> QED
  BY <1>8, <1>10, <1>11, <1>12

LEMMA TwentyIsLow ==
  ASSUME NEW m \in Int, NEW b, AreBits(b, 20), AreBitsOf(b, m, 20)
  PROVE  Unsigned(b, 20) = m % 2^20
<1>1. Unsigned(b, 20) =
            b[0] + 2 * b[1] + 4 * b[2] + 8 * b[3] + 16 * b[4] + 32 * b[5]
            + 64 * b[6] + 128 * b[7] + 256 * b[8] + 512 * b[9] + 1024 * b[10]
            + 2048 * b[11] + 4096 * b[12] + 8192 * b[13] + 16384 * b[14]
            + 32768 * b[15] + 65536 * b[16] + 131072 * b[17] + 262144 * b[18]
            + 524288 * b[19]
  BY UnsignedTwenty
<1>2. m % 32 =
            BitOf(m, 0) + 2 * BitOf(m, 1) + 4 * BitOf(m, 2) + 8 * BitOf(m, 3)
            + 16 * BitOf(m, 4)
  BY FiveBits
<1>3. m % 4096 =
            (m % 32) + 32 * BitOf(m, 5) + 64 * BitOf(m, 6) + 128 * BitOf(m, 7)
            + 256 * BitOf(m, 8) + 512 * BitOf(m, 9) + 1024 * BitOf(m, 10)
            + 2048 * BitOf(m, 11)
  BY TwelveBits
<1>4. m % 2^20 =
            (m % 4096) + 4096 * BitOf(m, 12) + 8192 * BitOf(m, 13)
            + 16384 * BitOf(m, 14) + 32768 * BitOf(m, 15)
            + 65536 * BitOf(m, 16) + 131072 * BitOf(m, 17)
            + 262144 * BitOf(m, 18) + 524288 * BitOf(m, 19)
  BY TwentyBits
<1>5. /\ b[0] = BitOf(m, 0) /\ b[1] = BitOf(m, 1) /\ b[2] = BitOf(m, 2)
      /\ b[3] = BitOf(m, 3) /\ b[4] = BitOf(m, 4) /\ b[5] = BitOf(m, 5)
      /\ b[6] = BitOf(m, 6) /\ b[7] = BitOf(m, 7) /\ b[8] = BitOf(m, 8)
      /\ b[9] = BitOf(m, 9) /\ b[10] = BitOf(m, 10) /\ b[11] = BitOf(m, 11)
      /\ b[12] = BitOf(m, 12) /\ b[13] = BitOf(m, 13) /\ b[14] = BitOf(m, 14)
      /\ b[15] = BitOf(m, 15) /\ b[16] = BitOf(m, 16) /\ b[17] = BitOf(m, 17)
      /\ b[18] = BitOf(m, 18) /\ b[19] = BitOf(m, 19)
  BY DEF AreBitsOf
<1>6. /\ b[0] \in {0, 1} /\ b[1] \in {0, 1} /\ b[2] \in {0, 1}
      /\ b[3] \in {0, 1} /\ b[4] \in {0, 1} /\ b[5] \in {0, 1}
      /\ b[6] \in {0, 1} /\ b[7] \in {0, 1} /\ b[8] \in {0, 1}
      /\ b[9] \in {0, 1} /\ b[10] \in {0, 1} /\ b[11] \in {0, 1}
      /\ b[12] \in {0, 1} /\ b[13] \in {0, 1} /\ b[14] \in {0, 1}
      /\ b[15] \in {0, 1} /\ b[16] \in {0, 1} /\ b[17] \in {0, 1}
      /\ b[18] \in {0, 1} /\ b[19] \in {0, 1}
  BY DEF AreBits
<1> QED
  BY <1>1, <1>2, <1>3, <1>4, <1>5, <1>6

LEMMA UpperBits ==
  ASSUME NEW n \in CInt
  PROVE  \A k \in 0 .. 19 : BitOf(n \div 4096, k) = BitOf(n, k + 12)
<1>0. n \in Int
  BY DEF CInt
<1>1. BitOf(n \div 4096, 0) = BitOf(n, 12)
  BY <1>0 DEF BitOf
<1>2. BitOf(n \div 4096, 1) = BitOf(n, 13)
  BY <1>0 DEF BitOf
<1>3. BitOf(n \div 4096, 2) = BitOf(n, 14)
  BY <1>0 DEF BitOf
<1>4. BitOf(n \div 4096, 3) = BitOf(n, 15)
  BY <1>0 DEF BitOf
<1>5. BitOf(n \div 4096, 4) = BitOf(n, 16)
  BY <1>0 DEF BitOf
<1>6. BitOf(n \div 4096, 5) = BitOf(n, 17)
  BY <1>0 DEF BitOf
<1>7. BitOf(n \div 4096, 6) = BitOf(n, 18)
  BY <1>0 DEF BitOf
<1>8. BitOf(n \div 4096, 7) = BitOf(n, 19)
  BY <1>0 DEF BitOf
<1>9. BitOf(n \div 4096, 8) = BitOf(n, 20)
  BY <1>0 DEF BitOf
<1>10. BitOf(n \div 4096, 9) = BitOf(n, 21)
  BY <1>0 DEF BitOf
<1>11. BitOf(n \div 4096, 10) = BitOf(n, 22)
  BY <1>0 DEF BitOf
<1>12. BitOf(n \div 4096, 11) = BitOf(n, 23)
  BY <1>0 DEF BitOf
<1>13. BitOf(n \div 4096, 12) = BitOf(n, 24)
  BY <1>0 DEF BitOf
<1>14. BitOf(n \div 4096, 13) = BitOf(n, 25)
  BY <1>0 DEF BitOf
<1>15. BitOf(n \div 4096, 14) = BitOf(n, 26)
  BY <1>0 DEF BitOf
<1>16. BitOf(n \div 4096, 15) = BitOf(n, 27)
  BY <1>0 DEF BitOf
<1>17. BitOf(n \div 4096, 16) = BitOf(n, 28)
  BY <1>0 DEF BitOf
<1>18. BitOf(n \div 4096, 17) = BitOf(n, 29)
  BY <1>0 DEF BitOf
<1>19. BitOf(n \div 4096, 18) = BitOf(n, 30)
  BY <1>0 DEF BitOf
<1>20. BitOf(n \div 4096, 19) = BitOf(n, 31)
  BY DEF BitOf, CInt
<1> QED
  BY <1>1, <1>2, <1>3, <1>4, <1>5, <1>6, <1>7, <1>8, <1>9, <1>10, <1>11,
     <1>12, <1>13, <1>14, <1>15, <1>16, <1>17, <1>18, <1>19, <1>20

\* The upper twenty bits of an int.
LEMMA UpperTwenty ==
  ASSUME NEW n \in CInt, NEW b, \A k \in 0 .. 19 : b[k] = BitOf(n, k + 12)
  PROVE  Unsigned(b, 20) = (n \div 4096) % 2^20
<1> DEFINE m == n \div 4096
<1>1. n \in Int /\ m \in Int
  BY DEF CInt
<1>2. AreBitsOf(b, m, 20)
  BY UpperBits DEF AreBitsOf
<1> HIDE DEF m
<1>3. AreBits(b, 20)
  BY <1>1, <1>2, BitIsBit DEF AreBits, AreBitsOf
<1>4. Unsigned(b, 20) = m % 2^20
  BY <1>1, <1>2, <1>3, TwentyIsLow
<1> QED
  BY <1>4 DEF m

LEMMA WordOp ==
  ASSUME NEW line, line.insn \in Insns
  PROVE  ImmediateOf(WordOfLine(line)) =
            ImmediateRead(TypeOf(line.insn), ImmediateBits(line.insn, line.imm))
<1>1. InstOf(WordOfLine(line).opcode) = TypeOf(line.insn)
  BY Fields DEF Decoded
<1>2. WordOfLine(line).bits = ImmediateBits(line.insn, line.imm)
  BY DEF WordOfLine
<1> QED
  BY <1>1, <1>2 DEF ImmediateOf

\* What the circuit reads in the word of a line is the immediate of the line,
\* cut to the width of its field (asm_line_write, imm_gen.sv).
THEOREM WordCarries ==
  ASSUME NEW line, line.insn \in Insns, line.imm \in Int,
         line.insn \in Upper => line.imm \in CInt
  PROVE  Carries(ImmediateOf(WordOfLine(line)), line.insn, line.imm)
<1> DEFINE insn == line.insn
           n == line.imm
           bits == ImmediateBits(insn, n)
           read == ImmediateRead(TypeOf(insn), bits)
<1>1. read = ImmediateOf(WordOfLine(line))
  BY WordOp
<1>2. n \in Int /\ (insn \in Upper => n \in CInt)
  OBVIOUS
<1> HIDE DEF insn, n
<1>3. ASSUME insn \in Shifts PROVE read % 32 = n % 32
  <2> DEFINE b == [k \in 0 .. 11 |-> bits[k + 20]]
  <2>1. TypeOf(insn) = "REGIMM"
    BY <1>3, InsnsByType DEF Shifts, TypeOf
  <2>2. bits = ShiftBits(insn, n)
    BY <1>3, <2>1 DEF ImmediateBits
  <2>3. AreBitsOf(b, n, 5)
    BY <2>2 DEF ShiftBits, AreBitsOf
  <2>4. AreBits(b, 12)
    BY <1>2, <2>2, BitIsBit DEF ShiftBits, AreBits
  <2>5. read = SignFilled(b, 12, b[11])
    BY <2>1 DEF ImmediateRead
  <2> HIDE DEF b, read
  <2> QED
    BY <1>2, <2>3, <2>4, <2>5, LowFive
<1>4. ASSUME insn \in (RegImm \ Shifts) \cup Load
      PROVE  Signed(read, n)
  <2> DEFINE b == [k \in 0 .. 11 |-> bits[k + 20]]
  <2>1. TypeOf(insn) \in {"REGIMM", "LOAD"} /\ insn \notin Shifts
    BY <1>4, InsnsByType DEF Shifts, TypeOf
  <2>2. bits = IBits(n)
    BY <2>1 DEF ImmediateBits
  <2>3. AreBitsOf(b, n, 12)
    BY <2>2 DEF IBits, AreBitsOf
  <2>4. read = SignFilled(b, 12, b[11])
    BY <2>1 DEF ImmediateRead
  <2> HIDE DEF b, read
  <2> QED
    BY <1>2, <2>3, <2>4, SignedTwelve
<1>5. ASSUME insn \in Store
      PROVE  Signed(read, n)
  <2> DEFINE b == [k \in 0 .. 11 |->
                    IF k < 5 THEN bits[k + 7] ELSE bits[k + 20]]
  <2>1. TypeOf(insn) = "STORE" /\ insn \notin Shifts
    BY <1>5, InsnsByType DEF Shifts, TypeOf
  <2>2. bits = SBits(n)
    BY <2>1 DEF ImmediateBits
  <2>3. AreBitsOf(b, n, 12)
    BY <2>2 DEF SBits, AreBitsOf
  <2>4. read = SignFilled(b, 12, b[11])
    BY <2>1 DEF ImmediateRead
  <2> HIDE DEF b, read
  <2> QED
    BY <1>2, <2>3, <2>4, SignedTwelve
<1>6. ASSUME insn \in Upper PROVE read = (n \div 4096) % 2^20
  <2> DEFINE b == [k \in 0 .. 19 |-> bits[k + 12]]
  <2>1. TypeOf(insn) \in {"LUI", "AUIPC"} /\ insn \notin Shifts
    BY <1>6, InsnsByType DEF Shifts, TypeOf
  <2>2. bits = UBits(n)
    BY <2>1 DEF ImmediateBits
  <2>3. \A k \in 0 .. 19 : b[k] = BitOf(n, k + 12)
    BY <2>2 DEF UBits
  <2>4. read = Unsigned(b, 20)
    BY <2>1 DEF ImmediateRead
  <2> HIDE DEF b, read
  <2> QED
    BY <1>2, <1>6, <2>3, <2>4, UpperTwenty
<1> HIDE DEF read
<1>7. Carries(read, insn, n)
  BY <1>3, <1>4, <1>5, <1>6 DEF Carries, Signed
<1> QED
  BY <1>1, <1>7 DEF insn, n

\* What the circuit reads in the word of a JAL, up to the size of the memory.
THEOREM JalCarries ==
  ASSUME NEW line, line.insn = "JAL", line.imm \in Int, line.imm % 4 = 0
  PROVE  /\ ImmediateOf(WordOfLine(line)) \in Int
         /\ (ImmediateOf(WordOfLine(line)) - line.imm) % 2048 = 0
<1> DEFINE n == line.imm
           bits == JBits(n)
           b == [k \in 0 .. 20 |->
                    IF k \in {0, 20} THEN bits[31]
                    ELSE IF k = 11 THEN bits[20]
                    ELSE IF k > 11 THEN bits[k]
                    ELSE bits[k + 20]]
<1>1. line.insn \in Insns /\ TypeOf(line.insn) = "JAL" /\ line.insn \notin Shifts
  BY InsnsListed, InsnsByType DEF TypeOf, Shifts
<1>2. ImmediateOf(WordOfLine(line)) = SignFilled(b, 21, bits[31])
  BY <1>1, WordOp DEF ImmediateBits, ImmediateRead
<1>3. n \in Int /\ n % 4 = 0
  OBVIOUS
<1> HIDE DEF n
<1>4. b[20] = 0 /\ b[0] = 0 /\ bits[31] = 0
  BY DEF JBits
<1>5. AreBits(b, 21)
  BY <1>3, BitIsBit DEF JBits, AreBits
<1>6. BitOf(n, 0) = 0
  BY <1>3 DEF BitOf
<1>7. AreBitsOf(b, n, 11)
  BY <1>6 DEF JBits, AreBitsOf
<1> HIDE DEF b, bits
<1>8. ImmediateOf(WordOfLine(line)) = SignFilled(b, 21, b[20])
  BY <1>2, <1>4
<1>9. /\ SignFilled(b, 21, b[20]) \in Int
      /\ (SignFilled(b, 21, b[20]) - n) % 2048 = 0
  BY <1>3, <1>4, <1>5, <1>7, LowEleven
<1> QED
  BY <1>8, <1>9 DEF n
==============================================================================
