---------------------------- MODULE RiscvIsaProofs ----------------------------
(***************************************************************************)
(* Riscv implements Isa, for every width, register count, memory size and  *)
(* program, as long as it meets only instructions it conforms with.        *)
(***************************************************************************)
EXTENDS RiscvIsa, RiscvProofs, ProofLemmas

-----------------------------------------------------------------------------
(* The vocabulary of Isa is that of Riscv *)

LEMMA SameWords ==
  /\ Exposed!WordCount = WordCount /\ Exposed!Word = Word /\ Exposed!Byte = Byte
  /\ Exposed!Reg = Reg
  /\ \A a, b : Exposed!Plus(a, b) = Plus(a, b) /\ Exposed!Minus(a, b) = Minus(a, b)
<1>1. Exposed!WordCount = WordCount
  BY DEF Exposed!WordCount, WordCount
<1>2. Exposed!Word = Word /\ Exposed!Byte = Byte /\ Exposed!Reg = Reg
  BY <1>1 DEF Exposed!Word, Word, Exposed!Byte, Byte, Exposed!Reg, Reg
<1>3. \A a, b : Exposed!Plus(a, b) = Plus(a, b)
  BY <1>1 DEF Exposed!Plus, Plus
<1>4. \A a, b : Exposed!Minus(a, b) = Minus(a, b)
  BY <1>1 DEF Exposed!Minus, Minus
<1> QED
  BY <1>1, <1>2, <1>3, <1>4

LEMMA SameBytes ==
  /\ \A w, k : Exposed!ByteOf(w, k) = ByteOf(w, k)
  /\ \A b0, b1, b2, b3 : Exposed!WordOf(b0, b1, b2, b3) = WordOf(b0, b1, b2, b3)
<1>1. \A k : Exposed!Weight(k) = Weight(k)
  BY DEF Exposed!Weight, Weight
<1>2. \A w, k : Exposed!ByteOf(w, k) = ByteOf(w, k)
  BY <1>1 DEF Exposed!ByteOf, ByteOf
<1>3. \A b0, b1, b2, b3 :
        Exposed!WordOf(b0, b1, b2, b3) = WordOf(b0, b1, b2, b3)
  BY SameWords DEF Exposed!WordOf, WordOf
<1> QED
  BY <1>2, <1>3

-----------------------------------------------------------------------------
(* One instruction *)

\* The ALU computes what RV32I says of a conforming register instruction.
LEMMA RegRegConforms ==
  ASSUME NEW i, i.op = "REGREG", Conforming(i), NEW x, NEW y
  PROVE  Sequential(i, x, y) = Exposed!Arithmetic(i.f3, i.f7 = 32, x, y)
<1> DEFINE op == AluOpOf(i, BrEq(x, y), BrLT(i.f3 = 3, x, y))
<1>1. Sequential(i, x, y) = AluResult(op, x, y)
  BY DEF Sequential
<1>2. op = RegRegOp(i, BrEq(x, y), BrLT(i.f3 = 3, x, y))
  BY DEF AluOpOf
<1>3. \/ i.f3 = 0 /\ i.f7 = 0 /\ op = "ADD"
      \/ i.f3 = 0 /\ i.f7 = 32 /\ op = "SUB"
      \/ i.f3 = 5 /\ i.f7 = 0 /\ op = "SRL"
      \/ << i.f3, op >> \in
         { << 1, "SLL" >>, << 4, "XOR" >>, << 6, "OR" >>, << 7, "AND" >> }
  <2> DEFINE got == RegRegOp(i, BrEq(x, y), BrLT(i.f3 = 3, x, y))
  <2>1. \/ << i.f3, i.f7 >> \in {<<0, 0>>, <<0, 32>>, <<5, 0>>}
        \/ i.f3 \in {1, 4, 6, 7}
    BY DEF Conforming
  <2>2. i.f3 = 0 /\ i.f7 = 0 => got = "ADD"
    BY DEF RegRegOp
  <2>3. i.f3 = 0 /\ i.f7 = 32 => got = "SUB"
    BY DEF RegRegOp
  <2>4. i.f3 = 5 /\ i.f7 = 0 => got = "SRL"
    BY DEF RegRegOp
  <2>5. /\ i.f3 = 1 => got = "SLL"
        /\ i.f3 = 4 => got = "XOR"
        /\ i.f3 = 6 => got = "OR"
        /\ i.f3 = 7 => got = "AND"
    BY DEF RegRegOp
  <2>6. op = got
    BY <1>2
  <2> HIDE DEF got, op
  <2> QED
    BY <2>1, <2>2, <2>3, <2>4, <2>5, <2>6
<1> HIDE DEF op
<1>4. AluResult(op, x, y) = Exposed!Arithmetic(i.f3, i.f7 = 32, x, y)
  <2>1. i.f3 = 0 /\ i.f7 = 0 /\ op = "ADD" =>
            AluResult(op, x, y) = Exposed!Arithmetic(i.f3, i.f7 = 32, x, y)
    BY SameWords DEF AluResult, Exposed!Arithmetic
  <2>2. i.f3 = 0 /\ i.f7 = 32 /\ op = "SUB" =>
            AluResult(op, x, y) = Exposed!Arithmetic(i.f3, i.f7 = 32, x, y)
    BY SameWords DEF AluResult, Exposed!Arithmetic
  <2>3. i.f3 = 5 /\ i.f7 = 0 /\ op = "SRL" =>
            AluResult(op, x, y) = Exposed!Arithmetic(i.f3, i.f7 = 32, x, y)
    BY DEF AluResult, Exposed!Arithmetic, Amount
  <2>4. << i.f3, op >> \in
           { << 1, "SLL" >>, << 4, "XOR" >>, << 6, "OR" >>, << 7, "AND" >> } =>
            AluResult(op, x, y) = Exposed!Arithmetic(i.f3, i.f7 = 32, x, y)
    BY DEF AluResult, Exposed!Arithmetic, Amount
  <2> QED
    BY <1>3, <2>1, <2>2, <2>3, <2>4
<1> QED
  BY <1>1, <1>4

LEMMA RegImmConforms ==
  ASSUME NEW i, i.op = "REGIMM", Conforming(i), NEW x, NEW y
  PROVE  Sequential(i, x, y) =
            Exposed!Arithmetic(i.f3, i.f3 = 5 /\ i.f7 = 32, x, i.imm)
<1> DEFINE op == AluOpOf(i, BrEq(x, y), BrLT(i.f3 = 3, x, y))
<1>1. Sequential(i, x, y) = AluResult(op, x, i.imm)
  BY DEF Sequential, ImmediateOf
<1>2. op = RegImmOp(i, BrEq(x, y), BrLT(i.f3 = 3, x, y))
  BY DEF AluOpOf
<1>3. << i.f3, op >> \in { << 0, "ADD" >>, << 1, "SLL" >>, << 4, "XOR" >>,
                           << 6, "OR" >>, << 7, "AND" >> }
  BY <1>2 DEF RegImmOp, Conforming
<1> HIDE DEF op
<1>4. AluResult(op, x, i.imm) =
        Exposed!Arithmetic(i.f3, i.f3 = 5 /\ i.f7 = 32, x, i.imm)
  BY <1>3, SameWords DEF AluResult, Exposed!Arithmetic, Amount
<1> QED
  BY <1>1, <1>4

LEMMA AddressConforms ==
  ASSUME NEW i, NEW x, NEW y
  PROVE  /\ i.op \in {"LOAD", "STORE"} => Sequential(i, x, y) = Plus(x, i.imm)
         /\ i.op = "LUI" => Sequential(i, x, y) = ShiftLeft(i.imm, UpperShift)
  BY DEF Sequential, ImmediateOf, AluOpOf, AluResult

\* Inside the memory an address does not wrap.
LEMMA InsideIsSum ==
  ASSUME NEW a \in Word, NEW k \in Nat, a + k <= MemLast
  PROVE  Plus(a, k) = a + k /\ Within(Plus(a, k))
<1>1. a \in Nat /\ a + k \in Nat /\ a + k < WordCount /\ WordCount \in Nat
  BY WordRange, MemAssumption
<1>2. (a + k) % WordCount = a + k
  BY <1>1
<1> QED
  BY <1>2 DEF Plus, Within

LEMMA Sizes ==
  ASSUME NEW i, i.op \in {"LOAD", "STORE"}
  PROVE  /\ i.f3 \in {0, 4} => SizeOf(i) = "BYTE" /\ Exposed!Width(i.f3) = 1
         /\ i.f3 \in {1, 5} => SizeOf(i) = "HALF" /\ Exposed!Width(i.f3) = 2
         /\ i.f3 = 2 => SizeOf(i) = "WORD" /\ Exposed!Width(i.f3) = 4
  BY DEF SizeOf, Exposed!Width

\* What mem.sv may read is what the load is to read, byte by byte.
LEMMA LanesConform ==
  ASSUME NEW i, i.op = "LOAD", i.f3 \in {2, 4, 5}, NEW a \in Word,
         Exposed!InMemory(a, i.f3), NEW k \in Lanes
  PROVE  LaneValues(a, SizeOf(i), k) =
            {IF k < Exposed!Width(i.f3) THEN mem[a + k] ELSE 0}
<1> DEFINE size == SizeOf(i)
           width == Exposed!Width(i.f3)
<1>1. a \in Nat /\ MemLast \in Nat /\ k \in {0, 1, 2, 3}
  BY WordRange, MemAssumption DEF Lanes
<1>2. a + width - 1 <= MemLast
  BY DEF Exposed!InMemory
<1>3. \/ size = "BYTE" /\ width = 1
      \/ size = "HALF" /\ width = 2
      \/ size = "WORD" /\ width = 4
  BY Sizes
<1> HIDE DEF size, width
<1>4. MaskOf(size) = {j \in Lanes : j < width}
  BY <1>3 DEF MaskOf, Lanes
<1>5. ASSUME NEW j \in Lanes, j < width
      PROVE  Plus(a, j) = a + j /\ Within(Plus(a, j))
  <2>1. j \in Nat /\ a + j <= MemLast
    BY <1>1, <1>2, <1>3, <1>5 DEF Lanes
  <2> QED
    BY <2>1, InsideIsSum
<1>6. ASSUME NEW j \in Lanes, j < width PROVE j \in LoadedLanes(a)
  <2>1. 0 < width /\ (1 < width => Within(Plus(a, 1)))
        /\ (2 < width => Within(Plus(a, 2)))
    BY <1>3, <1>5 DEF Lanes
  <2>2. width = 1 => j = 0
    BY <1>6 DEF Lanes
  <2>3. width = 2 => j \in {0, 1}
    BY <1>6 DEF Lanes
  <2> QED
    BY <1>3, <1>6, <2>1, <2>2, <2>3 DEF LoadedLanes, Lanes
<1>7. LaneValues(a, size, k) = {IF k < width THEN mem[a + k] ELSE 0}
  <2>1. CASE k < width
    <3>1. k \in LoadedLanes(a) \cap MaskOf(size) /\ Within(Plus(a, k))
          /\ Plus(a, k) = a + k
      BY <1>4, <1>5, <1>6, <2>1
    <3> QED
      BY <2>1, <3>1 DEF LaneValues
  <2>2. CASE ~(k < width)
    <3>1. k \notin LoadedLanes(a) \cap MaskOf(size)
      BY <1>4, <2>2
    <3> QED
      BY <2>2, <3>1 DEF LaneValues
  <2> QED
    BY <2>1, <2>2
<1> QED
  BY <1>7 DEF size, width

LEMMA LoadConforms ==
  ASSUME TypeOK, NEW i, i.op = "LOAD", i.f3 \in {2, 4, 5}, NEW a \in Word
  PROVE  ReadWords(a, SizeOf(i)) \subseteq Exposed!Loaded(a, i.f3)
<1>1. CASE Exposed!InMemory(a, i.f3)
  <2> DEFINE lane(k) == IF k < Exposed!Width(i.f3) THEN mem[a + k] ELSE 0
  <2>0. 0 \in Lanes /\ 1 \in Lanes /\ 2 \in Lanes /\ 3 \in Lanes
    BY DEF Lanes
  <2>1. /\ LaneValues(a, SizeOf(i), 0) = {lane(0)}
        /\ LaneValues(a, SizeOf(i), 1) = {lane(1)}
        /\ LaneValues(a, SizeOf(i), 2) = {lane(2)}
        /\ LaneValues(a, SizeOf(i), 3) = {lane(3)}
    BY <1>1, <2>0, LanesConform
  <2>2. Exposed!Loaded(a, i.f3) =
            {Exposed!SignExtend(
                Exposed!WordOf(lane(0), lane(1), lane(2), lane(3)), i.f3)}
    BY <1>1 DEF Exposed!Loaded
  <2> HIDE DEF lane
  <2>3. ReadWords(a, SizeOf(i)) = {WordOf(lane(0), lane(1), lane(2), lane(3))}
    BY <2>1 DEF ReadWords
  <2>4. \A w : Exposed!SignExtend(w, i.f3) = w
    BY DEF Exposed!SignExtend
  <2> QED
    BY <2>2, <2>3, <2>4, SameBytes
<1>2. CASE ~Exposed!InMemory(a, i.f3)
  <2>1. Exposed!Loaded(a, i.f3) = Word
    BY <1>2, SameWords DEF Exposed!Loaded
  <2>2. SizeOf(i) \in MemSize
    BY DEF SizeOf, MemSize
  <2> QED
    BY <2>1, <2>2, ReadIsWord DEF TypeOK
<1> QED
  BY <1>1, <1>2

\* The lanes mem.sv stores are bytes of the access; inside the memory, all.
LEMMA StoredLanesConform ==
  ASSUME NEW i, i.op = "STORE", i.f3 \in {0, 1, 2}, NEW a \in Word
  PROVE  /\ StoredLanes(a, SizeOf(i)) \subseteq 0 .. Exposed!Width(i.f3) - 1
         /\ Exposed!InMemory(a, i.f3) =>
               StoredLanes(a, SizeOf(i)) = 0 .. Exposed!Width(i.f3) - 1
<1> DEFINE size == SizeOf(i)
           width == Exposed!Width(i.f3)
<1>1. a \in Nat /\ MemLast \in Nat
  BY WordRange, MemAssumption
<1>2. Exposed!InMemory(a, i.f3) <=> a + width - 1 <= MemLast
  BY DEF Exposed!InMemory
<1>3. \/ size = "BYTE" /\ width = 1
      \/ size = "HALF" /\ width = 2
      \/ size = "WORD" /\ width = 4
  BY Sizes
<1> HIDE DEF size, width
<1>4. CASE size = "BYTE" /\ width = 1
  BY <1>4 DEF StoredLanes, size, width
<1>5. CASE size = "HALF" /\ width = 2
  <2>1. Exposed!InMemory(a, i.f3) => Within(Plus(a, 1))
    BY <1>1, <1>2, <1>5, InsideIsSum
  <2>2. StoredLanes(a, size) = {1} \cup {k \in {0} : Within(Plus(a, 1))}
    BY <1>5 DEF StoredLanes
  <2> QED
    BY <1>5, <2>1, <2>2 DEF size, width
<1>6. CASE size = "WORD" /\ width = 4
  <2>1. Exposed!InMemory(a, i.f3) =>
            /\ Within(Plus(a, 1)) /\ Within(Plus(a, 2)) /\ Within(Plus(a, 3))
    BY <1>1, <1>2, <1>6, InsideIsSum
  <2>2. StoredLanes(a, size) =
            {3} \cup {k \in {0, 1, 2} : Within(Plus(a, 3 - k))}
    BY <1>6 DEF StoredLanes
  <2>3. 3 - 0 = 3 /\ 3 - 1 = 2 /\ 3 - 2 = 1
    OBVIOUS
  <2> QED
    BY <1>6, <2>1, <2>2, <2>3 DEF size, width
<1> QED
  BY <1>3, <1>4, <1>5, <1>6

\* A store of mem.sv is a store of RV32I.
LEMMA StoreConforms ==
  ASSUME TypeOK, NEW i, i.op = "STORE", i.f3 \in {0, 1, 2}, NEW a \in Word,
         NEW w \in Word, a = Exposed!Plus(Exposed!Operand(i.rs1), i.imm),
         w = Exposed!Operand(i.rs2), mem' = Stored(a, SizeOf(i), w)
  PROVE  Exposed!StoreTo(i)
<1> DEFINE lanes == 0 .. Exposed!Width(i.f3) - 1
           touched == {x \in 0 .. MemLast : Minus(x, a) \in lanes}
<1>1. mem' \in [0 .. MemLast -> Byte]
  <2>1. SizeOf(i) \in MemSize
    BY DEF SizeOf, MemSize
  <2> QED
    BY <2>1, StoredIsMemory DEF TypeOK, Address
<1>2. \A x \in 0 .. MemLast :
        mem'[x] = IF Minus(x, a) \in StoredLanes(a, SizeOf(i))
                  THEN ByteOf(w, Minus(x, a)) ELSE mem[x]
  BY DEF Stored, Address
<1>3. CASE Exposed!InMemory(a, i.f3)
  <2>1. mem' = [x \in 0 .. MemLast |-> IF x \in touched
                    THEN ByteOf(w, Minus(x, a)) ELSE mem[x]]
    BY <1>3, StoredLanesConform DEF Stored, Address
  <2> QED
    BY <1>3, <2>1, SameWords, SameBytes DEF Exposed!StoreTo
<1>4. CASE ~Exposed!InMemory(a, i.f3)
  <2>1. \A x \in (0 .. MemLast) \ touched : mem'[x] = mem[x]
    BY <1>2, StoredLanesConform
  <2> QED
    BY <1>1, <1>4, <2>1, SameWords DEF Exposed!StoreTo
<1> QED
  BY <1>3, <1>4

-----------------------------------------------------------------------------
(* Addresses *)

LEMMA WordsAreSixteen == WordCount \in Nat /\ WordCount >= 16
<1> DEFINE sq == ByteValues * ByteValues
           cu == sq * ByteValues
<1>1. ByteValues \in Nat /\ ByteValues >= 2
  BY ByteAssumption
<1>2. sq \in Nat /\ sq >= 4
  BY <1>1
<1> HIDE DEF sq
<1>3. cu \in Nat /\ cu >= 8
  BY <1>1, <1>2
<1> HIDE DEF cu
<1>4. cu * ByteValues \in Nat /\ cu * ByteValues >= 16
  BY <1>1, <1>3
<1> QED
  BY <1>4 DEF WordCount, cu, sq

LEMMA SmallModulo ==
  ASSUME NEW n \in Nat, n > 0, NEW x \in Nat, x < 2 * n
  PROVE  (x % n) = IF x < n THEN x ELSE x - n
<1> DEFINE q == x \div n
           r == (x % n)
<1>1. q \in Int /\ r \in 0 .. n - 1 /\ x = n * q + r
  OBVIOUS
<1> HIDE DEF q, r
<1>2. q >= 0
  <2>1. q <= -1 => n * q <= -n
    BY <1>1
  <2> QED
    BY <1>1, <2>1
<1>3. q < 2
  <2>1. q >= 2 => n * q >= 2 * n
    BY <1>1
  <2> QED
    BY <1>1, <2>1
<1>4. q = 0 \/ q = 1
  BY <1>1, <1>2, <1>3
<1>5. r = IF x < n THEN x ELSE x - n
  BY <1>1, <1>4
<1> QED
  BY <1>5 DEF r

\* Small steps from an address add up, also round the end of the words.
LEMMA PlusPlus ==
  ASSUME NEW a \in Word, NEW j \in 0 .. 16, NEW k \in 0 .. 16, j + k <= 16
  PROVE  Plus(Plus(a, j), k) = Plus(a, j + k)
<1> DEFINE n == WordCount
           p == Plus(a, j)
<1>1. a \in Nat /\ a < n /\ n \in Nat /\ n >= 16
  BY WordsAreSixteen DEF Word
<1> HIDE DEF n
<1>2. p = IF a + j < n THEN a + j ELSE (a + j) - n
  BY <1>1, SmallModulo DEF Plus, n
<1>3. Plus(a, j + k) = IF a + (j + k) < n THEN a + (j + k) ELSE (a + (j + k)) - n
  BY <1>1, SmallModulo DEF Plus, n
<1> HIDE DEF p
<1>4. p \in Nat /\ p + k < 2 * n
  BY <1>1, <1>2
<1>5. Plus(p, k) = IF p + k < n THEN p + k ELSE (p + k) - n
  BY <1>1, <1>4, SmallModulo DEF Plus, n
<1>6. Plus(p, k) = Plus(a, j + k)
  BY <1>1, <1>2, <1>3, <1>5
<1> QED
  BY <1>6 DEF p

-----------------------------------------------------------------------------
(* One edge of the circuit *)

\* The three instructions control_logic holds conform, and register 0 is 0.
Conforms ==
    /\ Conforming(inst_reg0) /\ Conforming(inst_reg1) /\ Conforming(inst_reg2)
    /\ Registers[0] = 0

LEMMA ZeroConforms ==
  /\ Conforming(ZeroInst) /\ ~WritesRd(ZeroInst)
  /\ ZeroInst.op = "NOP" /\ ZeroInst.rd = 0
  BY DEF Conforming, WritesRd, ZeroInst

LEMMA ArchRegsTyped ==
  ASSUME TypeOK, Conforms
  PROVE  ArchRegs \in [Reg -> Word] /\ ArchRegs[0] = 0 /\ 0 \in Reg
<1>1. Registers \in [Reg -> Word] /\ inst_reg2.rd \in Reg /\ datad_l \in Word
  BY FieldTypes, WiresAreWords DEF TypeOK, RegFileTypeOK, ControlTypeOK
<1>2. 0 \in Reg
  BY RegAssumption DEF Reg
<1>3. WritesRd(inst_reg2) => inst_reg2.rd # 0
  BY DEF Conforms, Conforming
<1> QED
  BY <1>1, <1>2, <1>3 DEF ArchRegs, reg_w_en, Conforms

LEMMA OperandIsArch ==
  ASSUME TypeOK, Conforms, NEW r \in Reg
  PROVE  Exposed!Operand(r) = ArchRegs[r]
  BY ArchRegsTyped DEF Exposed!Operand

\* What reaches write-back at an edge.
LEMMA TickWritesBack ==
  ASSUME TypeOK, Aligned, Tick
  PROVE  /\ ArchRegs' = IF WritesRd(inst_reg1)
                        THEN [ArchRegs EXCEPT ![inst_reg1.rd] = datad_l']
                        ELSE ArchRegs
         /\ datad_l' = IF inst_reg1.op \in {"JALR", "JAL"} THEN Plus(pc_r, 4)
                       ELSE IF inst_reg1.op \in {"NOP", "LOAD"} THEN mem_l'
                       ELSE alu_l
<1>1. /\ inst_reg2' = inst_reg1 /\ alu_mem_l' = alu_l /\ pc_l' = pc_r
      /\ Registers' = ArchRegs
  BY DEF Tick, ControlClock, MemClock, WbClock, RegFileClock, Aligned, ArchRegs,
         pc_r
<1>2. reg_w_en' = WritesRd(inst_reg1)
  BY <1>1 DEF reg_w_en, WritesRd
<1>3. wb_l' = IF inst_reg1.op \notin {"NOP", "LOAD"} THEN alu_l ELSE mem_l'
  BY <1>1 DEF wb_l, WbOf, wb_sel1
<1>4. datad_l' = IF inst_reg1.op \in {"JALR", "JAL"} THEN Plus(pc_r, 4)
                 ELSE wb_l'
  BY <1>1 DEF datad_l, DataDOf, wb_sel2, pc_4
<1>5. datad_l' = IF inst_reg1.op \in {"JALR", "JAL"} THEN Plus(pc_r, 4)
                 ELSE IF inst_reg1.op \in {"NOP", "LOAD"} THEN mem_l'
                 ELSE alu_l
  BY <1>3, <1>4
<1>6. ArchRegs' = IF reg_w_en'
                  THEN [Registers' EXCEPT ![inst_reg2'.rd] = datad_l']
                  ELSE Registers'
  BY DEF ArchRegs
<1> QED
  BY <1>1, <1>2, <1>5, <1>6

\* Which address is fetched after the next.
LEMMA TickCounts ==
  ASSUME Tick, Conforming(inst_l), Conforming(inst_reg1)
  PROVE  /\ pc_l' = pc_r
         /\ pc_r' = IF inst_reg1.op = "JAL" THEN alu_l ELSE Plus(pc_r, 4)
<1>1. /\ inst_reg0' = inst_l /\ inst_reg2' = inst_reg1
      /\ alu_mem_l' = alu_l /\ pc_l' = pc_r
  BY DEF Tick, ControlClock, MemClock, WbClock, pc_r
<1>2. inst_l.op # "BRANCH" /\ inst_reg1.op \notin {"BRANCH", "JALR"}
  BY DEF Conforming
<1>3. pc_sel(BrEq_l, BrLt_l)' <=> inst_reg1.op = "JAL"
  BY <1>1, <1>2 DEF pc_sel, Jumps
<1>4. inst_reg1.op = "JAL" => wb_l' = alu_l
  BY <1>1 DEF wb_l, WbOf, wb_sel1
<1>5. pc_r' = IF pc_sel(BrEq_l, BrLt_l)' THEN wb_l' ELSE Plus(pc_r, 4)
  BY <1>1 DEF pc_r, NextPc, pc_4
<1> QED
  BY <1>1, <1>3, <1>4, <1>5

\* The word a jump leaves in alu_l is its target.
LEMMA TickJumps ==
  ASSUME TypeOK, Aligned, Tick, inst_reg0.op = "JAL"
  PROVE  alu_l' = Plus(pc_l, ImmediateOf(inst_reg0))
  BY DEF Tick, AluClock, Aligned, aluA_l, A2_sel, aluB_l, B2_sel, Executing,
         ALUSel_l, AluOpOf, AluResult

LEMMA ConformingOffset ==
  ASSUME NEW i \in Instruction, Conforming(i), i.op = "JAL"
  PROVE  ImmediateOf(i) = i.imm
<1>1. i.imm \in Word /\ i.imm % 2 = 0 /\ ~Negative(i.imm)
  BY FieldTypes DEF Conforming
<1>2. i.imm \in Nat /\ i.imm < WordCount /\ WordCount \in Nat /\ WordCount > 0
  BY <1>1, WordRange DEF Word
<1>3. OffsetOf(i) = i.imm % WordCount
  BY <1>1, <1>2 DEF OffsetOf, Plus
<1>4. i.imm % WordCount = i.imm
  BY <1>2, SmallModulo
<1> QED
  BY <1>3, <1>4 DEF ImmediateOf

LEMMA TickConforms ==
  ASSUME TypeOK, Aligned, Tick, Conforms, Conforming(inst_l)
  PROVE  Conforms'
<1>1. /\ inst_reg0' = inst_l /\ inst_reg1' = inst_reg0
      /\ inst_reg2' = inst_reg1 /\ Registers' = ArchRegs
  BY DEF Tick, ControlClock, RegFileClock, Aligned, ArchRegs
<1>2. Registers'[0] = 0
  BY <1>1, ArchRegsTyped
<1> QED
  BY <1>1, <1>2 DEF Conforms, Conforming, WritesRd, Negative

-----------------------------------------------------------------------------
(* The edge that takes inst_reg1 to write-back executes it *)

LEMMA TickResult ==
  ASSUME TypeOK, Aligned, PipelineTransparent, Conforms, Tick,
         ~LateOperand(inst_reg1), WritesRd(inst_reg1), Upcoming[5] = pc_r
  PROVE  datad_l' \in Exposed!Results(inst_reg1)
<1> DEFINE i == inst_reg1
           a == ArchRegs[i.rs1]
           b == ArchRegs[i.rs2]
<1>1. i \in Instruction /\ Conforming(i) /\ i.rs1 \in Reg /\ i.rs2 \in Reg
      /\ i.imm \in Word
  BY FieldTypes DEF TypeOK, ControlTypeOK, Conforms
<1>2. Exposed!Operand(i.rs1) = a /\ Exposed!Operand(i.rs2) = b
  BY <1>1, OperandIsArch
<1>3. Regular(i) => alu_l = Sequential(i, a, b)
  BY DEF PipelineTransparent
<1>4. datad_l' = IF i.op \in {"JALR", "JAL"} THEN Plus(pc_r, 4)
                 ELSE IF i.op \in {"NOP", "LOAD"} THEN mem_l' ELSE alu_l
  BY TickWritesBack
<1>5. ~LateOperand(i) /\ WritesRd(i)
  OBVIOUS
<1>6. alu_l \in Word /\ (i.op # "STORE" => mem_l' \in ReadWords(alu_l, SizeOf(i)))
  BY DEF TypeOK, AluTypeOK, Tick, MemClock, mem_rw, mem_size
<1> HIDE DEF i, a, b
<1>7. CASE i.op = "JAL"
  <2>1. Exposed!Results(i) = {Exposed!Plus(Upcoming[5], 4)}
    BY <1>7 DEF Exposed!Results
  <2> QED
    BY <1>4, <1>7, <2>1, SameWords DEF i
<1>8. CASE i.op = "LOAD"
  <2>1. i.f3 \in {2, 4, 5}
    BY <1>1, <1>8 DEF Conforming
  <2>2. alu_l = Plus(a, i.imm)
    BY <1>3, <1>8, AddressConforms DEF Regular
  <2>3. Exposed!Results(i) = Exposed!Loaded(alu_l, i.f3)
    BY <1>2, <1>8, <2>2, SameWords DEF Exposed!Results
  <2>4. mem_l' \in Exposed!Loaded(alu_l, i.f3)
    BY <1>6, <1>8, <2>1, LoadConforms
  <2> QED
    BY <1>4, <1>8, <2>3, <2>4 DEF i
<1>9. CASE i.op = "REGREG"
  <2>1. alu_l = Exposed!Arithmetic(i.f3, i.f7 = 32, a, b)
    BY <1>1, <1>3, <1>9, RegRegConforms DEF Regular
  <2>2. Exposed!Results(i) = {Exposed!Arithmetic(i.f3, i.f7 = 32, a, b)}
    BY <1>2, <1>9 DEF Exposed!Results
  <2> QED
    BY <1>4, <1>9, <2>1, <2>2 DEF i
<1>10. CASE i.op = "REGIMM"
  <2>1. i.f3 \notin {2, 3}
    BY <1>1, <1>10 DEF Conforming
  <2>2. alu_l = Exposed!Arithmetic(i.f3, i.f3 = 5 /\ i.f7 = 32, a, i.imm)
    BY <1>1, <1>3, <1>10, <2>1, RegImmConforms DEF Regular
  <2>3. Exposed!Results(i) =
            {Exposed!Arithmetic(i.f3, i.f3 = 5 /\ i.f7 = 32, a, i.imm)}
    BY <1>2, <1>10 DEF Exposed!Results
  <2> QED
    BY <1>4, <1>10, <2>2, <2>3 DEF i
<1>11. CASE i.op = "LUI"
  <2>1. alu_l = ShiftLeft(i.imm, UpperShift)
    BY <1>3, <1>11, AddressConforms DEF Regular
  <2>2. Exposed!Results(i) = {ShiftLeft(i.imm, UpperShift)}
    BY <1>11 DEF Exposed!Results
  <2> QED
    BY <1>4, <1>11, <2>1, <2>2 DEF i
<1> QED
  BY <1>1, <1>5, <1>7, <1>8, <1>9, <1>10, <1>11 DEF Conforming, WritesRd

LEMMA TickIsWriteBack ==
  ASSUME TypeOK, Aligned, PipelineTransparent, Conforms, Tick,
         ~LateOperand(inst_reg1), Upcoming[5] = pc_r
  PROVE  Exposed!WriteBack(inst_reg1)
<1>1. CASE WritesRd(inst_reg1)
  <2>1. /\ inst_reg1.rd # 0
        /\ inst_reg1.op \notin {"BRANCH", "STORE", "NOP", "OTHER"}
    BY <1>1 DEF Conforms, Conforming, WritesRd
  <2>2. ArchRegs' = [ArchRegs EXCEPT ![inst_reg1.rd] = datad_l']
    BY <1>1, TickWritesBack
  <2>3. datad_l' \in Exposed!Results(inst_reg1)
    BY <1>1, TickResult
  <2> QED
    BY <2>1, <2>2, <2>3 DEF Exposed!WriteBack
<1>2. CASE ~WritesRd(inst_reg1)
  <2>1. inst_reg1.op \in {"BRANCH", "STORE", "NOP"}
    BY <1>2 DEF WritesRd
  <2>2. ArchRegs' = ArchRegs
    BY <1>2, TickWritesBack
  <2> QED
    BY <2>1, <2>2 DEF Exposed!WriteBack
<1> QED
  BY <1>1, <1>2

LEMMA TickIsMemory ==
  ASSUME TypeOK, Aligned, PipelineTransparent, Conforms, Tick,
         ~LateOperand(inst_reg1)
  PROVE  Exposed!Memory(inst_reg1)
<1> DEFINE i == inst_reg1
<1>1. CASE i.op = "STORE"
  <2>1. i.rs1 \in Reg /\ i.rs2 \in Reg /\ i.imm \in Word /\ Conforming(i)
    BY FieldTypes DEF TypeOK, ControlTypeOK, Conforms
  <2>2. i.f3 \in {0, 1, 2}
    BY <1>1, <2>1 DEF Conforming
  <2>3. /\ alu_l = Sequential(i, ArchRegs[i.rs1], ArchRegs[i.rs2])
        /\ dataW_l = ArchRegs[i.rs2]
    BY <1>1 DEF PipelineTransparent, Regular
  <2>4. alu_l \in Word /\ dataW_l \in Word
    BY DEF TypeOK, AluTypeOK
  <2>5. mem' = Stored(alu_l, SizeOf(i), dataW_l)
    BY <1>1 DEF Tick, MemClock, mem_rw, mem_size
  <2>6. Exposed!Operand(i.rs1) = ArchRegs[i.rs1]
        /\ Exposed!Operand(i.rs2) = ArchRegs[i.rs2]
    BY <2>1, OperandIsArch
  <2> HIDE DEF i
  <2>7. alu_l = Exposed!Plus(Exposed!Operand(i.rs1), i.imm)
    BY <1>1, <2>3, <2>6, SameWords, AddressConforms
  <2>8. Exposed!StoreTo(i)
    BY <1>1, <2>2, <2>3, <2>4, <2>5, <2>6, <2>7, StoreConforms
  <2> QED
    BY <1>1, <2>8 DEF Exposed!Memory, i
<1>2. CASE i.op # "STORE"
  BY <1>2 DEF Exposed!Memory, Tick, MemClock, mem_rw
<1> QED
  BY <1>1, <1>2

LEMMA TickIsFollower ==
  ASSUME TypeOK, Conforms, Tick, Conforming(inst_l), Upcoming[5] = pc_r,
         inst_reg1.op = "JAL" =>
            alu_l = Plus(Upcoming[3], ImmediateOf(inst_reg1))
  PROVE  pc_r' = Exposed!Follower(inst_reg1)
<1>1. inst_reg1 \in Instruction /\ Conforming(inst_reg1)
  BY DEF TypeOK, ControlTypeOK, Conforms
<1>2. pc_r' = IF inst_reg1.op = "JAL" THEN alu_l ELSE Plus(pc_r, 4)
  BY <1>1, TickCounts
<1>3. CASE inst_reg1.op = "JAL"
  <2>1. alu_l = Plus(Upcoming[3], inst_reg1.imm)
    BY <1>1, <1>3, ConformingOffset
  <2> QED
    BY <1>2, <1>3, <2>1, SameWords DEF Exposed!Follower
<1>4. CASE inst_reg1.op # "JAL"
  <2>1. inst_reg1.op \notin {"BRANCH", "JALR"}
    BY <1>1 DEF Conforming
  <2> QED
    BY <1>2, <1>4, <2>1, SameWords DEF Exposed!Follower
<1> QED
  BY <1>3, <1>4

-----------------------------------------------------------------------------
(* The addresses in flight *)

At(a) == tab_inst[Count(a)]

\* flight holds the addresses of the instructions in decode, execute and
\* memory; a stage without one holds the zero word.
Empty == /\ flight = << >>
         /\ inst_l = ZeroInst /\ inst_reg0 = ZeroInst /\ inst_reg1 = ZeroInst
One(a) == /\ flight = << a >>
          /\ inst_l = At(a) /\ inst_reg0 = ZeroInst /\ inst_reg1 = ZeroInst
Two(a, b) == /\ flight = << a, b >>
             /\ inst_l = At(b) /\ inst_reg0 = At(a) /\ inst_reg1 = ZeroInst
Full(a, b, c) == /\ flight = << a, b, c >>
                 /\ inst_l = At(c) /\ inst_reg0 = At(b) /\ inst_reg1 = At(a)

Stages ==
    \/ Empty
    \/ \E a \in Word : One(a)
    \/ \E a, b \in Word : Two(a, b)
    \/ \E a, b, c \in Word :
          /\ Full(a, b, c)
          /\ inst_reg1.op = "JAL" => alu_l = Plus(c, ImmediateOf(inst_reg1))

\* The five addresses of the exposed machine, by how full the pipeline is.
Ahead ==
  /\ Empty => Upcoming = << pc_l, pc_r, Plus(pc_r, 4), Plus(pc_r, 8),
                            Plus(pc_r, 12) >>
  /\ \A a : One(a) => Upcoming = << a, pc_l, pc_r, Plus(pc_r, 4), Plus(pc_r, 8) >>
  /\ \A a, b : Two(a, b) => Upcoming = << a, b, pc_l, pc_r, Plus(pc_r, 4) >>
  /\ \A a, b, c : Full(a, b, c) => Upcoming = << a, b, c, pc_l, pc_r >>

LEMMA PipelineAddresses == Ahead
<1>1. Empty => Upcoming = << pc_l, pc_r, Plus(pc_r, 4), Plus(pc_r, 8),
                             Plus(pc_r, 12) >>
  <2> SUFFICES ASSUME Empty
               PROVE  Upcoming = << pc_l, pc_r, Plus(pc_r, 4), Plus(pc_r, 8),
                                    Plus(pc_r, 12) >>
    OBVIOUS
  <2>1. Known = << pc_l, pc_r >>
    BY JoinTuple DEF Empty, Known
  <2> QED
    BY <2>1 DEF Upcoming
<1>2. ASSUME NEW a, One(a)
      PROVE  Upcoming = << a, pc_l, pc_r, Plus(pc_r, 4), Plus(pc_r, 8) >>
  <2>1. Known = << a, pc_l, pc_r >>
    BY <1>2, JoinTuple DEF One, Known
  <2> QED
    BY <2>1 DEF Upcoming
<1>3. ASSUME NEW a, NEW b, Two(a, b)
      PROVE  Upcoming = << a, b, pc_l, pc_r, Plus(pc_r, 4) >>
  <2>1. Known = << a, b, pc_l, pc_r >>
    BY <1>3, JoinTuple DEF Two, Known
  <2> QED
    BY <2>1 DEF Upcoming
<1>4. ASSUME NEW a, NEW b, NEW c, Full(a, b, c)
      PROVE  Upcoming = << a, b, c, pc_l, pc_r >>
  <2>1. Known = << a, b, c, pc_l, pc_r >>
    BY <1>4, JoinTuple DEF Full, Known
  <2> QED
    BY <2>1 DEF Upcoming
<1> QED
  BY <1>1, <1>2, <1>3, <1>4 DEF Ahead

LEMMA TickFetches ==
  ASSUME HistoryTick, Count(pc_l) \in 0 .. ImemLast, NEW v, v = pc_l
  PROVE  /\ Empty => One(v)'
         /\ \A a : One(a) => Two(a, v)'
         /\ \A a, b : Two(a, b) => Full(a, b, v)'
         /\ \A a, b, c : Full(a, b, c) => Full(b, c, v)'
<1>1. /\ tab_inst' = tab_inst /\ inst_l' = tab_inst[Count(v)]
      /\ inst_reg0' = inst_l /\ inst_reg1' = inst_reg0
  BY DEF HistoryTick, Tick, ImemClock, Fetched, ControlClock
<1>2. flight' = Append(IF Len(flight) = 3 THEN Tail(flight) ELSE flight, v)
  BY DEF HistoryTick, InFlight
<1>3. ASSUME Empty PROVE One(v)'
  <2>1. flight' = << v >>
    BY <1>2, <1>3 DEF Empty
  <2> QED
    BY <1>1, <1>3, <2>1 DEF Empty, One, At
<1>4. ASSUME NEW a, One(a) PROVE Two(a, v)'
  <2>1. Len(flight) = 1
    BY <1>4 DEF One
  <2>2. flight' = << a, v >>
    BY <1>2, <1>4, <2>1, Append1 DEF One
  <2> QED
    BY <1>1, <1>4, <2>2 DEF One, Two, At
<1>5. ASSUME NEW a, NEW b, Two(a, b) PROVE Full(a, b, v)'
  <2>1. Len(flight) = 2
    BY <1>5 DEF Two
  <2>2. flight' = << a, b, v >>
    BY <1>2, <1>5, <2>1, Append2 DEF Two
  <2> QED
    BY <1>1, <1>5, <2>2 DEF Two, Full, At
<1>6. ASSUME NEW a, NEW b, NEW c, Full(a, b, c) PROVE Full(b, c, v)'
  <2>1. Len(flight) = 3 /\ Tail(flight) = << b, c >>
    BY <1>6 DEF Full
  <2>2. flight' = << b, c, v >>
    BY <1>2, <2>1, Append2
  <2> QED
    BY <1>1, <1>6, <2>2 DEF Full, At
<1> QED
  BY <1>3, <1>4, <1>5, <1>6

LEMMA TickStages ==
  ASSUME TypeOK, Aligned, Stages, HistoryTick, Count(pc_l) \in 0 .. ImemLast
  PROVE  Stages'
<1>1. PICK v \in Word : v = pc_l
  BY DEF TypeOK, WbTypeOK
<1>2. /\ Empty => One(v)'
      /\ \A a : One(a) => Two(a, v)'
      /\ \A a, b : Two(a, b) => Full(a, b, v)'
      /\ \A a, b, c : Full(a, b, c) => Full(b, c, v)'
  BY <1>1, TickFetches
<1>3. inst_reg1'.op = "JAL" => alu_l' = Plus(v, ImmediateOf(inst_reg1)')
  <2>1. inst_reg1' = inst_reg0
    BY DEF HistoryTick, Tick, ControlClock
  <2>2. ImmediateOf(inst_reg1)' = ImmediateOf(inst_reg0)
    BY <2>1 DEF ImmediateOf, OffsetOf, Negative
  <2> QED
    BY <1>1, <2>1, <2>2, TickJumps DEF HistoryTick
<1>4. CASE Empty
  BY <1>2, <1>4 DEF Stages
<1>5. CASE \E a \in Word : One(a)
  BY <1>2, <1>5 DEF Stages
<1>6. CASE \E a, b \in Word : Two(a, b)
  BY <1>2, <1>3, <1>6 DEF Stages
<1>7. CASE \E a, b, c \in Word : Full(a, b, c)
  BY <1>2, <1>3, <1>7 DEF Stages
<1> QED
  BY <1>4, <1>5, <1>6, <1>7 DEF Stages

-----------------------------------------------------------------------------
(* The refinement *)

LEMMA TickRefines ==
  ASSUME TypeOK, Aligned, PipelineTransparent, Conforms, Stages, Supported,
         HistoryTick
  PROVE  Exposed!Execute \/ UNCHANGED Exposed!avars
<1>1. PICK v \in Word : v = pc_l
  BY DEF TypeOK, WbTypeOK
<1>2. /\ Empty => One(v)'
      /\ \A a : One(a) => Two(a, v)'
      /\ \A a, b : Two(a, b) => Full(a, b, v)'
      /\ \A a, b, c : Full(a, b, c) => Full(b, c, v)'
  BY <1>1, TickFetches DEF Supported
<1>3. /\ pc_l' = pc_r
      /\ pc_r' = IF inst_reg1.op = "JAL" THEN alu_l ELSE Plus(pc_r, 4)
      /\ pc_r \in Word /\ tab_inst' = tab_inst
  <2>1. pc_r \in Word
    BY WiresAreWords DEF pc_r, NextPc
  <2> QED
    BY <2>1, TickCounts DEF Supported, Conforms, HistoryTick, Tick, ImemClock
<1>4. Ahead /\ Ahead'
  BY PipelineAddresses, PTL
<1>5. ASSUME inst_reg1 = ZeroInst
      PROVE  /\ ArchRegs' = ArchRegs /\ mem' = mem /\ tab_inst' = tab_inst
             /\ pc_r' = Plus(pc_r, 4)
  <2>1. ArchRegs' = ArchRegs
    BY <1>5, TickWritesBack, ZeroConforms DEF HistoryTick
  <2>2. mem' = mem
    BY <1>5, ZeroConforms DEF HistoryTick, Tick, MemClock, mem_rw
  <2> QED
    BY <1>3, <1>5, <2>1, <2>2, ZeroConforms
<1>6. /\ Plus(Plus(pc_r, 4), 4) = Plus(pc_r, 8)
      /\ Plus(Plus(pc_r, 4), 8) = Plus(pc_r, 12)
  BY <1>3, PlusPlus
<1>7. CASE Empty
  <2>1. Upcoming = << pc_l, pc_r, Plus(pc_r, 4), Plus(pc_r, 8), Plus(pc_r, 12) >>
    BY <1>4, <1>7 DEF Ahead
  <2>2. Upcoming' = << v, pc_l', pc_r', Plus(pc_r', 4), Plus(pc_r', 8) >>
    BY <1>2, <1>4, <1>7 DEF Ahead
  <2>3. inst_reg1 = ZeroInst
    BY <1>7 DEF Empty
  <2>4. Upcoming' = Upcoming
    BY <1>1, <1>3, <1>5, <1>6, <2>1, <2>2, <2>3
  <2> QED
    BY <1>5, <2>3, <2>4 DEF Exposed!avars
<1>8. CASE \E a \in Word : One(a)
  <2>0. PICK a \in Word : One(a)
    BY <1>8
  <2>1. Upcoming = << a, pc_l, pc_r, Plus(pc_r, 4), Plus(pc_r, 8) >>
    BY <1>4, <2>0 DEF Ahead
  <2>2. Upcoming' = << a, v, pc_l', pc_r', Plus(pc_r', 4) >>
    BY <1>2, <1>4, <2>0 DEF Ahead
  <2>3. inst_reg1 = ZeroInst
    BY <2>0 DEF One
  <2>4. Upcoming' = Upcoming
    BY <1>1, <1>3, <1>5, <1>6, <2>1, <2>2, <2>3
  <2> QED
    BY <1>5, <2>3, <2>4 DEF Exposed!avars
<1>9. CASE \E a, b \in Word : Two(a, b)
  <2>0. PICK a \in Word, b \in Word : Two(a, b)
    BY <1>9
  <2>1. Upcoming = << a, b, pc_l, pc_r, Plus(pc_r, 4) >>
    BY <1>4, <2>0 DEF Ahead
  <2>2. Upcoming' = << a, b, v, pc_l', pc_r' >>
    BY <1>2, <1>4, <2>0 DEF Ahead
  <2>3. inst_reg1 = ZeroInst
    BY <2>0 DEF Two
  <2>4. Upcoming' = Upcoming
    BY <1>1, <1>3, <1>5, <2>1, <2>2, <2>3
  <2> QED
    BY <1>5, <2>3, <2>4 DEF Exposed!avars
<1>10. CASE \E a, b, c \in Word :
              /\ Full(a, b, c)
              /\ inst_reg1.op = "JAL" => alu_l = Plus(c, ImmediateOf(inst_reg1))
  <2>0. PICK a \in Word, b \in Word, c \in Word :
              /\ Full(a, b, c)
              /\ inst_reg1.op = "JAL" => alu_l = Plus(c, ImmediateOf(inst_reg1))
    BY <1>10
  <2>1. Upcoming = << a, b, c, pc_l, pc_r >>
    BY <1>4, <2>0 DEF Ahead
  <2>2. Upcoming' = << b, c, v, pc_l', pc_r' >>
    BY <1>2, <1>4, <2>0 DEF Ahead
  <2>3. /\ Upcoming[1] = a /\ Upcoming[3] = c /\ Upcoming[5] = pc_r
        /\ Tail(Upcoming) = << b, c, pc_l, pc_r >>
    BY <2>1
  <2>4. Exposed!Current = inst_reg1
    BY <2>0, <2>3 DEF Exposed!Current, Full, At, Count
  <2>5. pc_r' = Exposed!Follower(inst_reg1)
    BY <2>0, <2>3, TickIsFollower DEF Supported, HistoryTick
  <2>6. Upcoming' = Append(Tail(Upcoming), Exposed!Follower(inst_reg1))
    <3>1. Append(<< b, c, pc_l, pc_r >>, pc_r') = << b, c, pc_l, pc_r, pc_r' >>
      BY Append4
    <3> QED
      BY <1>1, <1>3, <2>2, <2>3, <2>5, <3>1
  <2>7. Exposed!WriteBack(inst_reg1) /\ Exposed!Memory(inst_reg1)
    BY <2>3, TickIsWriteBack, TickIsMemory DEF Supported, HistoryTick
  <2> QED
    BY <1>3, <2>4, <2>6, <2>7 DEF Exposed!Execute
<1> QED
  BY <1>7, <1>8, <1>9, <1>10 DEF Stages

\* The state after a reset.
Fresh == /\ Registers = [r \in Reg |-> 0] /\ mem = ErasedMem /\ pc_l = 0
         /\ inst_reg2 = ZeroInst /\ Empty

FreshImplies == Fresh => Exposed!StartState /\ Conforms /\ Stages

LEMMA FreshStarts == FreshImplies
<1> SUFFICES ASSUME Fresh PROVE Exposed!StartState /\ Conforms /\ Stages
  BY DEF FreshImplies
<1>1. ArchRegs = [r \in Reg |-> 0]
  BY ZeroConforms DEF Fresh, ArchRegs, reg_w_en
<1>2. mem = [x \in 0 .. MemLast |-> ByteValues - 1]
  BY DEF Fresh, ErasedMem, Address
<1>3. pc_r = Plus(0, 4)
  BY DEF Fresh, Empty, pc_r, NextPc, pc_sel, Jumps, ZeroInst, pc_4
<1>4. /\ 0 = Plus(0, 0) /\ Plus(0, 4) = Plus(4, 0)
      /\ Plus(Plus(0, 4), 4) = Plus(8, 0)
      /\ Plus(Plus(0, 4), 8) = Plus(12, 0)
      /\ Plus(Plus(0, 4), 12) = Plus(16, 0)
  <2>1. 0 = Plus(0, 0)
    BY WordsAreSixteen, SmallModulo DEF Plus
  <2>2. /\ Plus(Plus(0, 4), 4) = Plus(0, 8)
        /\ Plus(Plus(0, 4), 8) = Plus(0, 12)
        /\ Plus(Plus(0, 4), 12) = Plus(0, 16)
    BY WordRange, PlusPlus
  <2>3. \A n \in {4, 8, 12, 16} : Plus(0, n) = Plus(n, 0)
    BY DEF Plus
  <2> QED
    BY <2>1, <2>2, <2>3
<1>5. Upcoming = << 0, pc_r, Plus(pc_r, 4), Plus(pc_r, 8), Plus(pc_r, 12) >>
  BY PipelineAddresses DEF Ahead, Fresh
<1>6. Upcoming = [k \in 1 .. 5 |-> Plus(4 * (k - 1), 0)]
  <2>1. /\ 4 * (1 - 1) = 0 /\ 4 * (2 - 1) = 4 /\ 4 * (3 - 1) = 8
        /\ 4 * (4 - 1) = 12 /\ 4 * (5 - 1) = 16
    OBVIOUS
  <2> DEFINE f == [k \in 1 .. 5 |-> Plus(4 * (k - 1), 0)]
  <2>2. /\ f[1] = Plus(0, 0) /\ f[2] = Plus(4, 0) /\ f[3] = Plus(8, 0)
        /\ f[4] = Plus(12, 0) /\ f[5] = Plus(16, 0)
    BY <2>1
  <2>3. /\ Upcoming[1] = f[1] /\ Upcoming[2] = f[2] /\ Upcoming[3] = f[3]
        /\ Upcoming[4] = f[4] /\ Upcoming[5] = f[5]
    BY <1>3, <1>4, <1>5, <2>2
  <2>4. \A k \in 1 .. 5 : Upcoming[k] = f[k]
    BY <2>3
  <2> QED
    BY <2>4 DEF Upcoming
<1>7. Exposed!StartState
  BY <1>1, <1>2, <1>6, SameWords DEF Exposed!StartState
<1>8. Conforms
  BY ZeroConforms, RegAssumption DEF Fresh, Empty, Conforms, Reg
<1> QED
  BY <1>7, <1>8 DEF Fresh, Stages

LEMMA InitFresh == HistoryInit => Fresh
  BY DEF HistoryInit, Init, ImemInit, RegFileInit, MemInit, WbInit, ControlInit,
         Fresh, Empty

LEMMA ResetFresh == HistoryReset => Fresh'
  BY DEF HistoryReset, Reset, ImemReset, RegFileReset, MemReset, WbReset,
         ControlReset, Fresh, Empty, ErasedMem

LEMMA HistoryIsSpec == HistorySpec => Spec
<1>1. HistoryInit => Init
  BY DEF HistoryInit
<1>2. [HistoryNext]_hvars => [Next]_vars
  BY DEF HistoryNext, HistoryTick, HistoryReset, hvars, Next
<1> QED
  BY <1>1, <1>2, PTL DEF HistorySpec, Spec

LEMMA StutterRefines ==
  ASSUME UNCHANGED hvars
  PROVE  /\ UNCHANGED Exposed!avars
         /\ Conforms => Conforms'
         /\ Stages => Stages'
<1> USE DEF hvars, vars
<1>1. pc_r' = pc_r /\ ArchRegs' = ArchRegs
  BY DEF pc_r, NextPc, pc_sel, BrEq_l, BrLt_l, Br1, Br2, Mux1, A1_sel, B1_sel,
         Executing, Forward, DataA_o, DataB_o, br_un, pc_4, wb_l, WbOf, wb_sel1,
         datad_l, DataDOf, wb_sel2, ArchRegs, reg_w_en
<1>2. Upcoming' = Upcoming
  BY <1>1 DEF Upcoming, Known
<1>3. UNCHANGED Exposed!avars
  BY <1>1, <1>2 DEF Exposed!avars
<1>4. Conforms => Conforms'
  BY DEF Conforms
<1>5. Stages => Stages'
  BY DEF Stages, Empty, One, Two, Full, At, ImmediateOf, OffsetOf
<1> QED
  BY <1>3, <1>4, <1>5

\* As long as it meets only what Supported says, the circuit is the exposed
\* machine: every edge executes the next instruction of the program order, or
\* fills the pipeline, or is a reset.
THEOREM ExposedRefined == HistorySpec /\ []Supported => ImplementsExposed
<1>1. HistoryInit => Conforms /\ Stages
  BY InitFresh, FreshStarts DEF FreshImplies
<1>2. TypeOK /\ Aligned /\ Supported /\ Conforms /\ Stages
        /\ [HistoryNext]_hvars => (Conforms /\ Stages)'
  <2> SUFFICES ASSUME TypeOK, Aligned, Supported, Conforms, Stages,
                      [HistoryNext]_hvars
               PROVE  (Conforms /\ Stages)'
    OBVIOUS
  <2>1. CASE HistoryTick
    BY <2>1, TickConforms, TickStages DEF HistoryTick, Supported
  <2>2. CASE HistoryReset
    <3>1. FreshImplies'
      BY FreshStarts, PTL
    <3> QED
      BY <2>2, <3>1, ResetFresh DEF FreshImplies
  <2>3. CASE UNCHANGED hvars
    BY <2>3, StutterRefines
  <2> QED
    BY <2>1, <2>2, <2>3 DEF HistoryNext
<1>3. TypeOK /\ HistoryInit => Exposed!IsaInit
  <2> SUFFICES ASSUME TypeOK, HistoryInit PROVE Exposed!IsaInit
    OBVIOUS
  <2>1. Exposed!StartState
    BY InitFresh, FreshStarts DEF FreshImplies
  <2>2. tab_inst \in [0 .. ImemLast -> Exposed!Instruction]
    BY SameWords
    DEF TypeOK, ImemTypeOK, Exposed!Instruction, Instruction, Exposed!Opcode,
        Opcode
  <2> QED
    BY <2>1, <2>2 DEF Exposed!IsaInit
<1>4. TypeOK /\ Aligned /\ PipelineTransparent /\ Supported /\ Conforms /\ Stages
        /\ [HistoryNext]_hvars => [Exposed!IsaNext]_(Exposed!avars)
  <2> SUFFICES ASSUME TypeOK, Aligned, PipelineTransparent, Supported,
                      Conforms, Stages, [HistoryNext]_hvars
               PROVE  [Exposed!IsaNext]_(Exposed!avars)
    OBVIOUS
  <2>1. CASE HistoryTick
    BY <2>1, TickRefines DEF Exposed!IsaNext
  <2>2. CASE HistoryReset
    <3>1. FreshImplies'
      BY FreshStarts, PTL
    <3>2. Exposed!StartState'
      BY <2>2, <3>1, ResetFresh DEF FreshImplies
    <3>3. UNCHANGED tab_inst
      BY <2>2 DEF HistoryReset, Reset, ImemReset
    <3> QED
      BY <3>2, <3>3 DEF Exposed!IsaNext, Exposed!Restart
  <2>3. CASE UNCHANGED hvars
    BY <2>3, StutterRefines
  <2> QED
    BY <2>1, <2>2, <2>3 DEF HistoryNext
<1> QED
  BY <1>1, <1>2, <1>3, <1>4, HistoryIsSpec, TypeCorrect, PipelineAligned,
     TransparentPipeline, PTL
  DEF HistorySpec, ImplementsExposed, Exposed!IsaSpec

-----------------------------------------------------------------------------
(* RV32I itself, for a program without jumps *)

LEMMA SameData ==
  /\ Promised!Word = Exposed!Word /\ Promised!Byte = Exposed!Byte
  /\ Promised!WordCount = Exposed!WordCount
  /\ \A a, b : /\ Promised!Plus(a, b) = Exposed!Plus(a, b)
               /\ Promised!Minus(a, b) = Exposed!Minus(a, b)
               /\ Promised!SignedLess(a, b) = Exposed!SignedLess(a, b)
  /\ \A w, k : Promised!ByteOf(w, k) = Exposed!ByteOf(w, k)
  /\ \A b0, b1, b2, b3 :
        Promised!WordOf(b0, b1, b2, b3) = Exposed!WordOf(b0, b1, b2, b3)
<1>1. Promised!WordCount = Exposed!WordCount
  BY DEF Promised!WordCount, Exposed!WordCount
<1>2. /\ \A a, b : Promised!Plus(a, b) = Exposed!Plus(a, b)
      /\ \A a, b : Promised!Minus(a, b) = Exposed!Minus(a, b)
  BY <1>1 DEF Promised!Plus, Exposed!Plus, Promised!Minus, Exposed!Minus
<1>3. Promised!Word = Exposed!Word /\ Promised!Byte = Exposed!Byte
  BY <1>1 DEF Promised!Word, Exposed!Word, Promised!Byte, Exposed!Byte
<1>4. \A a, b : Promised!SignedLess(a, b) = Exposed!SignedLess(a, b)
  BY <1>1, <1>2 DEF Promised!SignedLess, Exposed!SignedLess, Promised!Half,
                    Exposed!Half
<1>5. \A k : Promised!Weight(k) = Exposed!Weight(k)
  BY DEF Promised!Weight, Exposed!Weight
<1>6. \A w, k : Promised!ByteOf(w, k) = Exposed!ByteOf(w, k)
  BY <1>5 DEF Promised!ByteOf, Exposed!ByteOf
<1>7. \A b0, b1, b2, b3 :
        Promised!WordOf(b0, b1, b2, b3) = Exposed!WordOf(b0, b1, b2, b3)
  BY <1>1 DEF Promised!WordOf, Exposed!WordOf
<1> QED
  BY <1>1, <1>2, <1>3, <1>4, <1>6, <1>7

LEMMA SameArithmetic ==
  ASSUME NEW f3, NEW alternate, NEW a, NEW b
  PROVE  Promised!Arithmetic(f3, alternate, a, b) =
            Exposed!Arithmetic(f3, alternate, a, b)
  BY SameData DEF Promised!Arithmetic, Exposed!Arithmetic, Promised!Flag,
     Exposed!Flag, Promised!ShiftRightArithmetic, Exposed!ShiftRightArithmetic,
     Promised!Not, Exposed!Not, Promised!Negative, Exposed!Negative,
     Promised!AllOnes, Exposed!AllOnes, Promised!Half, Exposed!Half

LEMMA SameLoads ==
  ASSUME NEW a, NEW f3
  PROVE  Promised!Loaded(a, f3) = Exposed!Loaded(a, f3)
<1>1. Promised!Width(f3) = Exposed!Width(f3)
  BY DEF Promised!Width, Exposed!Width
<1>2. Promised!InMemory(a, f3) = Exposed!InMemory(a, f3)
  BY <1>1 DEF Promised!InMemory, Exposed!InMemory
<1>3. \A w : Promised!SignExtend(w, f3) = Exposed!SignExtend(w, f3)
  BY SameData DEF Promised!SignExtend, Exposed!SignExtend
<1> QED
  BY <1>1, <1>2, <1>3, SameData DEF Promised!Loaded, Exposed!Loaded

\* Except for the addresses of jumps, the two machines execute the same.
LEMMA SameEffects ==
  ASSUME NEW i, i.op \in {"REGREG", "REGIMM", "LOAD", "STORE", "LUI", "NOP"}
  PROVE  /\ Exposed!WriteBack(i) => Promised!WriteBack(i)
         /\ Exposed!Memory(i) => Promised!Memory(i)
<1>1. \A r : Promised!Operand(r) = Exposed!Operand(r)
  BY DEF Promised!Operand, Exposed!Operand
<1>2. i.op \in {"REGREG", "REGIMM", "LOAD", "LUI"} =>
        Promised!Results(i) = Exposed!Results(i)
  BY <1>1, SameData, SameArithmetic, SameLoads
  DEF Promised!Results, Exposed!Results
<1>3. Exposed!WriteBack(i) => Promised!WriteBack(i)
  BY <1>2 DEF Exposed!WriteBack, Promised!WriteBack
<1>4. Promised!Width(i.f3) = Exposed!Width(i.f3)
  BY DEF Promised!Width, Exposed!Width
<1>5. \A a : Promised!InMemory(a, i.f3) = Exposed!InMemory(a, i.f3)
  BY <1>4 DEF Promised!InMemory, Exposed!InMemory
<1>6. Exposed!StoreTo(i) => Promised!StoreTo(i)
  BY <1>1, <1>4, <1>5, SameData DEF Exposed!StoreTo, Promised!StoreTo
<1> QED
  BY <1>3, <1>6 DEF Exposed!Memory, Promised!Memory

\* The pipeline holds a stretch of a straight program, address by address.
InLine ==
    /\ Straight(tab_inst)
    /\ \/ Empty /\ inst_reg2 = ZeroInst
       \/ \E a \in Word : /\ One(a) /\ inst_reg2 = ZeroInst
                          /\ pc_l = Plus(a, 4)
       \/ \E a \in Word : /\ Two(a, Plus(a, 4)) /\ inst_reg2 = ZeroInst
                          /\ pc_l = Plus(a, 8)
       \/ \E a \in Word : /\ Full(a, Plus(a, 4), Plus(a, 8))
                          /\ pc_l = Plus(a, 12)
                          /\ \/ inst_reg2 = ZeroInst
                             \/ \E z \in Word : inst_reg2 = At(z) /\ a = Plus(z, 4)

LEMMA StraightAt ==
  ASSUME Straight(tab_inst), NEW a \in Word
  PROVE  /\ Conforming(At(a)) /\ At(a).op # "JAL"
         /\ Late(At(a)) => /\ At(a).rd # At(Plus(a, 4)).rs1
                           /\ NeedsRs2(At(Plus(a, 4))) =>
                                At(a).rd # At(Plus(a, 4)).rs2
  BY DEF Straight, At

LEMMA WithinCounter ==
  ASSUME CountValues <= ImemLast + 1, NEW a \in Word
  PROVE  Count(a) \in 0 .. ImemLast
<1>1. a \div 4 \in Int
  BY WordRange
<1>2. ImemLast \in Nat /\ CountValues \in Nat /\ CountValues > 0
  BY ImemAssumption
<1>3. Count(a) \in 0 .. CountValues - 1
  BY <1>1, <1>2 DEF Count
<1> QED
  BY <1>2, <1>3

LEMMA InLineSupported ==
  ASSUME CountValues <= ImemLast + 1, TypeOK, InLine
  PROVE  /\ Supported
         /\ inst_reg1.op # "JAL"
         /\ Conforming(inst_reg1)
<1>1. /\ Conforming(ZeroInst) /\ ZeroInst.op = "NOP" /\ ~Late(ZeroInst)
  BY ZeroConforms DEF Late
<1>2. Count(pc_l) \in 0 .. ImemLast
  BY WithinCounter DEF TypeOK, WbTypeOK
<1>3. \A a \in Word, k \in {4, 8} : Plus(a, k) \in Word
  BY SumIsWord, WordRange
<1>4. CASE Empty /\ inst_reg2 = ZeroInst
  BY <1>1, <1>2, <1>4 DEF Empty, Supported, LateOperand
<1>5. CASE \E a \in Word : /\ One(a) /\ inst_reg2 = ZeroInst
                           /\ pc_l = Plus(a, 4)
  <2>1. PICK a \in Word : One(a) /\ inst_reg2 = ZeroInst
    BY <1>5
  <2>2. Conforming(At(a))
    BY StraightAt DEF InLine
  <2> QED
    BY <1>1, <1>2, <2>1, <2>2 DEF One, Supported, LateOperand
<1>6. CASE \E a \in Word : /\ Two(a, Plus(a, 4)) /\ inst_reg2 = ZeroInst
                           /\ pc_l = Plus(a, 8)
  <2>1. PICK a \in Word : Two(a, Plus(a, 4)) /\ inst_reg2 = ZeroInst
    BY <1>6
  <2>2. Conforming(At(Plus(a, 4)))
    BY <1>3, StraightAt DEF InLine
  <2> QED
    BY <1>1, <1>2, <2>1, <2>2 DEF Two, Supported, LateOperand
<1>7. CASE \E a \in Word :
             /\ Full(a, Plus(a, 4), Plus(a, 8))
             /\ pc_l = Plus(a, 12)
             /\ \/ inst_reg2 = ZeroInst
                \/ \E z \in Word : inst_reg2 = At(z) /\ a = Plus(z, 4)
  <2>1. PICK a \in Word :
             /\ Full(a, Plus(a, 4), Plus(a, 8))
             /\ \/ inst_reg2 = ZeroInst
                \/ \E z \in Word : inst_reg2 = At(z) /\ a = Plus(z, 4)
    BY <1>7
  <2>2. Conforming(At(Plus(a, 8))) /\ Conforming(At(a)) /\ At(a).op # "JAL"
    BY <1>3, StraightAt DEF InLine
  <2>3. inst_l = At(Plus(a, 8)) /\ inst_reg1 = At(a)
    BY <2>1 DEF Full
  <2>4. ~LateOperand(inst_reg1)
    <3>1. CASE inst_reg2 = ZeroInst
      BY <1>1, <3>1 DEF LateOperand
    <3>2. CASE \E z \in Word : inst_reg2 = At(z) /\ a = Plus(z, 4)
      BY <2>3, <3>2, StraightAt DEF InLine, LateOperand
    <3> QED
      BY <2>1, <3>1, <3>2
  <2> QED
    BY <1>2, <2>2, <2>3, <2>4 DEF Supported
<1> QED
  BY <1>4, <1>5, <1>6, <1>7 DEF InLine

LEMMA NextInLine ==
  ASSUME Conforms, InLine
  PROVE  pc_r = Plus(pc_l, 4)
<1>1. inst_reg2.op # "JAL"
  BY StraightAt, ZeroConforms DEF InLine
<1>2. inst_reg0.op # "BRANCH" /\ inst_reg2.op \notin {"BRANCH", "JALR"}
  BY DEF Conforms, Conforming
<1> QED
  BY <1>1, <1>2 DEF pc_r, NextPc, pc_4, pc_sel, Jumps

LEMMA TickInLine ==
  ASSUME TypeOK, Conforms, InLine, HistoryTick, Supported
  PROVE  InLine'
<1>1. PICK v \in Word : v = pc_l
  BY DEF TypeOK, WbTypeOK
<1>2. /\ Empty => One(v)'
      /\ \A a : One(a) => Two(a, v)'
      /\ \A a, b : Two(a, b) => Full(a, b, v)'
      /\ \A a, b, c : Full(a, b, c) => Full(b, c, v)'
  BY <1>1, TickFetches DEF Supported
<1>3. /\ pc_l' = Plus(v, 4) /\ inst_reg2' = inst_reg1
      /\ tab_inst' = tab_inst /\ Straight(tab_inst)'
  BY <1>1, NextInLine
  DEF HistoryTick, Tick, ControlClock, ImemClock, WbClock, pc_r, InLine, Straight
<1>4. CASE Empty /\ inst_reg2 = ZeroInst
  BY <1>1, <1>2, <1>3, <1>4 DEF Empty, InLine
<1>5. CASE \E a \in Word : /\ One(a) /\ inst_reg2 = ZeroInst
                           /\ pc_l = Plus(a, 4)
  <2>1. PICK a \in Word : One(a) /\ pc_l = Plus(a, 4)
    BY <1>5
  <2>2. Plus(Plus(a, 4), 4) = Plus(a, 8)
    BY PlusPlus
  <2> QED
    BY <1>1, <1>2, <1>3, <2>1, <2>2 DEF One, InLine
<1>6. CASE \E a \in Word : /\ Two(a, Plus(a, 4)) /\ inst_reg2 = ZeroInst
                           /\ pc_l = Plus(a, 8)
  <2>1. PICK a \in Word : Two(a, Plus(a, 4)) /\ pc_l = Plus(a, 8)
    BY <1>6
  <2>2. Plus(Plus(a, 8), 4) = Plus(a, 12)
    BY PlusPlus
  <2> QED
    BY <1>1, <1>2, <1>3, <2>1, <2>2 DEF Two, InLine
<1>7. CASE \E a \in Word : /\ Full(a, Plus(a, 4), Plus(a, 8))
                           /\ pc_l = Plus(a, 12)
  <2>1. PICK a \in Word : Full(a, Plus(a, 4), Plus(a, 8)) /\ pc_l = Plus(a, 12)
    BY <1>7
  <2>2. PICK b \in Word : b = Plus(a, 4)
    <3>1. a \in Int
      BY WordRange
    <3>2. Plus(a, 4) \in Word
      BY <3>1, SumIsWord
    <3> QED
      BY <3>2
  <2>3. /\ Plus(a, 8) = Plus(b, 4) /\ Plus(a, 12) = Plus(b, 8)
        /\ Plus(Plus(a, 12), 4) = Plus(b, 12)
    BY <2>2, PlusPlus
  <2>4. Full(b, Plus(b, 4), Plus(b, 8))'
    BY <1>1, <1>2, <2>1, <2>2, <2>3
  <2>5. pc_l' = Plus(b, 12)
    BY <1>1, <1>3, <2>1, <2>3
  <2>6. inst_reg2' = At(a)'
    BY <1>3, <2>1 DEF Full, At
  <2> QED
    BY <1>3, <2>2, <2>4, <2>5, <2>6 DEF InLine
<1> QED
  BY <1>4, <1>5, <1>6, <1>7 DEF InLine

\* The oldest address the pipeline knows.
Oldest ==
  /\ Empty => Known[1] = pc_l
  /\ \A a : One(a) => Known[1] = a
  /\ \A a, b : Two(a, b) => Known[1] = a
  /\ \A a, b, c : Full(a, b, c) => Known[1] = a

LEMMA OldestAddress == Oldest
<1>1. Empty => Known[1] = pc_l
  BY JoinTuple DEF Empty, Known
<1>2. ASSUME NEW a, One(a) PROVE Known[1] = a
  <2>1. Known = << a, pc_l, pc_r >>
    BY <1>2, JoinTuple DEF One, Known
  <2> QED
    BY <2>1
<1>3. ASSUME NEW a, NEW b, Two(a, b) PROVE Known[1] = a
  <2>1. Known = << a, b, pc_l, pc_r >>
    BY <1>3, JoinTuple DEF Two, Known
  <2> QED
    BY <2>1
<1>4. ASSUME NEW a, NEW b, NEW c, Full(a, b, c) PROVE Known[1] = a
  <2>1. Known = << a, b, c, pc_l, pc_r >>
    BY <1>4, JoinTuple DEF Full, Known
  <2> QED
    BY <2>1
<1> QED
  BY <1>1, <1>2, <1>3, <1>4 DEF Oldest

LEMMA TickExecutes ==
  ASSUME TypeOK, Aligned, PipelineTransparent, Conforms, InLine, Supported,
         inst_reg1.op # "JAL", HistoryTick
  PROVE  Promised!Execute \/ UNCHANGED Promised!avars
<1>1. PICK v \in Word : v = pc_l
  BY DEF TypeOK, WbTypeOK
<1>2. /\ Empty => One(v)'
      /\ \A a : One(a) => Two(a, v)'
      /\ \A a, b : Two(a, b) => Full(a, b, v)'
      /\ \A a, b, c : Full(a, b, c) => Full(b, c, v)'
  BY <1>1, TickFetches DEF Supported
<1>3. Oldest /\ Oldest'
  BY OldestAddress, PTL
<1>4. ASSUME inst_reg1 = ZeroInst, Known[1]' = Known[1]
      PROVE  UNCHANGED Promised!avars
  <2>1. ArchRegs' = ArchRegs
    BY <1>4, TickWritesBack, ZeroConforms DEF HistoryTick
  <2>2. mem' = mem /\ tab_inst' = tab_inst
    BY <1>4, ZeroConforms DEF HistoryTick, Tick, MemClock, mem_rw, ImemClock
  <2> QED
    BY <1>4, <2>1, <2>2 DEF Promised!avars
<1>5. CASE Empty
  BY <1>1, <1>2, <1>3, <1>4, <1>5 DEF Oldest, Empty
<1>6. CASE \E a \in Word : One(a)
  <2>1. PICK a \in Word : One(a)
    BY <1>6
  <2> QED
    BY <1>2, <1>3, <1>4, <2>1 DEF Oldest, One
<1>7. CASE \E a \in Word : Two(a, Plus(a, 4))
  <2>1. PICK a \in Word : Two(a, Plus(a, 4))
    BY <1>7
  <2> QED
    BY <1>2, <1>3, <1>4, <2>1 DEF Oldest, Two
<1>8. CASE \E a \in Word : Full(a, Plus(a, 4), Plus(a, 8))
  <2>1. PICK a \in Word : Full(a, Plus(a, 4), Plus(a, 8))
    BY <1>8
  <2>2. Known[1] = a /\ Known[1]' = Plus(a, 4)
    BY <1>2, <1>3, <2>1 DEF Oldest
  <2>3. Promised!Current = inst_reg1
    BY <2>1, <2>2 DEF Promised!Current, Full, At, Count
  <2>4. Upcoming[5] = pc_r
    <3>1. Upcoming = << a, Plus(a, 4), Plus(a, 8), pc_l, pc_r >>
      BY <2>1, PipelineAddresses DEF Ahead
    <3> QED
      BY <3>1
  <2>5. Conforming(inst_reg1)
    BY DEF Conforms
  <2>6. inst_reg1.op \in {"REGREG", "REGIMM", "LOAD", "STORE", "LUI", "NOP"}
    BY <2>5 DEF Conforming
  <2>7. Exposed!WriteBack(inst_reg1) /\ Exposed!Memory(inst_reg1)
    BY <2>4, TickIsWriteBack, TickIsMemory DEF Supported, HistoryTick
  <2>8. Promised!WriteBack(inst_reg1) /\ Promised!Memory(inst_reg1)
    BY <2>6, <2>7, SameEffects
  <2>9. Promised!Follower(inst_reg1) = Plus(a, 4)
    BY <2>2, <2>6, SameData, SameWords DEF Promised!Follower
  <2>10. << Known[1] >>' = Append(Tail(<< Known[1] >>),
                                  Promised!Follower(inst_reg1))
    <3>1. Tail(<< a >>) = << >>
      OBVIOUS
    <3> QED
      BY <2>2, <2>9, <3>1
  <2>11. tab_inst' = tab_inst
    BY DEF HistoryTick, Tick, ImemClock
  <2> QED
    BY <2>3, <2>8, <2>10, <2>11 DEF Promised!Execute
<1> QED
  BY <1>5, <1>6, <1>7, <1>8 DEF InLine

FreshPromises == Fresh => Promised!StartState

LEMMA FreshIsStart == FreshPromises
<1> SUFFICES ASSUME Fresh PROVE Promised!StartState
  BY DEF FreshPromises
<1>1. /\ ArchRegs = [r \in Reg |-> 0]
      /\ mem = [x \in 0 .. MemLast |-> ByteValues - 1]
  BY FreshStarts, SameWords DEF FreshImplies, Exposed!StartState
<1>2. Known[1] = Promised!Plus(4 * (1 - 1), 0)
  <2>1. Known[1] = 0
    BY OldestAddress DEF Oldest, Fresh
  <2>2. Plus(0, 0) = 0
    BY WordsAreSixteen, SmallModulo DEF Plus
  <2> QED
    BY <2>1, <2>2, SameData, SameWords
<1>3. << Known[1] >> = [k \in 1 .. 1 |-> Promised!Plus(4 * (k - 1), 0)]
  BY <1>2
<1>4. Promised!Reg = Reg
  BY DEF Promised!Reg, Reg
<1> QED
  BY <1>1, <1>3, <1>4 DEF Promised!StartState

LEMMA StutterInLine ==
  ASSUME UNCHANGED hvars
  PROVE  /\ UNCHANGED Promised!avars
         /\ InLine => InLine'
<1> USE DEF hvars, vars
<1>1. pc_r' = pc_r /\ ArchRegs' = ArchRegs
  BY DEF pc_r, NextPc, pc_sel, BrEq_l, BrLt_l, Br1, Br2, Mux1, A1_sel, B1_sel,
         Executing, Forward, DataA_o, DataB_o, br_un, pc_4, wb_l, WbOf, wb_sel1,
         datad_l, DataDOf, wb_sel2, ArchRegs, reg_w_en
<1>2. UNCHANGED Promised!avars
  BY <1>1 DEF Promised!avars, Known
<1>3. InLine => InLine'
  BY DEF InLine, Straight, Empty, One, Two, Full, At
<1> QED
  BY <1>2, <1>3

\* The circuit executes RV32I, resets at any edge included, as long as the
\* memory holds what the fetch counter can reach and the program is straight:
\* without jumps, of instructions that conform, none of which uses a late
\* result of the one before it.
THEOREM RV32IImplemented ==
  ASSUME CountValues <= ImemLast + 1, \A p \in Programs : Straight(p)
  PROVE  HistorySpec => ImplementsRV32I
<1>1. HistoryInit => Conforms /\ InLine
  <2> SUFFICES ASSUME HistoryInit PROVE Conforms /\ InLine
    OBVIOUS
  <2>1. Fresh
    BY InitFresh
  <2>2. Straight(tab_inst)
    BY DEF HistoryInit, Init, ImemInit
  <2> QED
    BY <2>1, <2>2, FreshStarts DEF FreshImplies, Fresh, InLine
<1>2. TypeOK /\ InLine => Supported /\ inst_reg1.op # "JAL"
  BY InLineSupported
<1>3. TypeOK /\ Aligned /\ Conforms /\ InLine /\ [HistoryNext]_hvars
        => (Conforms /\ InLine)'
  <2> SUFFICES ASSUME TypeOK, Aligned, Conforms, InLine, [HistoryNext]_hvars
               PROVE  (Conforms /\ InLine)'
    OBVIOUS
  <2>1. CASE HistoryTick
    BY <1>2, <2>1, TickConforms, TickInLine DEF HistoryTick, Supported
  <2>2. CASE HistoryReset
    <3>1. FreshImplies'
      BY FreshStarts, PTL
    <3>2. Straight(tab_inst)'
      BY <2>2 DEF HistoryReset, Reset, ImemReset, InLine, Straight
    <3> QED
      BY <2>2, <3>1, <3>2, ResetFresh DEF FreshImplies, Fresh, InLine
  <2>3. CASE UNCHANGED hvars
    BY <2>3, StutterRefines, StutterInLine
  <2> QED
    BY <2>1, <2>2, <2>3 DEF HistoryNext
<1>4. TypeOK /\ HistoryInit => Promised!IsaInit
  <2> SUFFICES ASSUME TypeOK, HistoryInit PROVE Promised!IsaInit
    OBVIOUS
  <2>1. Promised!StartState
    BY InitFresh, FreshIsStart DEF FreshPromises
  <2>2. Promised!Word = Word /\ Promised!Reg = Reg
    BY SameData, SameWords DEF Promised!Reg, Reg
  <2>3. tab_inst \in [0 .. ImemLast -> Promised!Instruction]
    BY <2>2
    DEF TypeOK, ImemTypeOK, Promised!Instruction, Instruction, Promised!Opcode,
        Opcode
  <2> QED
    BY <2>1, <2>3 DEF Promised!IsaInit
<1>5. TypeOK /\ Aligned /\ PipelineTransparent /\ Conforms /\ InLine
        /\ [HistoryNext]_hvars => [Promised!IsaNext]_(Promised!avars)
  <2> SUFFICES ASSUME TypeOK, Aligned, PipelineTransparent, Conforms, InLine,
                      [HistoryNext]_hvars
               PROVE  [Promised!IsaNext]_(Promised!avars)
    OBVIOUS
  <2>1. CASE HistoryTick
    BY <1>2, <2>1, TickExecutes DEF Promised!IsaNext
  <2>2. CASE HistoryReset
    <3>1. FreshPromises'
      BY FreshIsStart, PTL
    <3>2. Promised!StartState'
      BY <2>2, <3>1, ResetFresh DEF FreshPromises
    <3>3. UNCHANGED tab_inst
      BY <2>2 DEF HistoryReset, Reset, ImemReset
    <3> QED
      BY <3>2, <3>3 DEF Promised!IsaNext, Promised!Restart
  <2>3. CASE UNCHANGED hvars
    BY <2>3, StutterInLine
  <2> QED
    BY <2>1, <2>2, <2>3 DEF HistoryNext
<1> QED
  BY <1>1, <1>3, <1>4, <1>5, HistoryIsSpec, TypeCorrect, PipelineAligned,
     TransparentPipeline, PTL
  DEF HistorySpec, ImplementsRV32I, Promised!IsaSpec
==============================================================================
