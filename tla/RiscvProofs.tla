----------------------------- MODULE RiscvProofs -----------------------------
(***************************************************************************)
(* Theorems about Riscv, for every width, register count, memory size and  *)
(* program.                                                                *)
(***************************************************************************)
EXTENDS Riscv, TLAPS

-----------------------------------------------------------------------------
(* Arithmetic *)

LEMMA ByteRange == ByteValues \in Nat /\ ByteValues > 1 /\ 0 \in Byte
                   /\ ByteValues - 1 \in Byte /\ Byte \subseteq Nat
  BY ByteAssumption DEF Byte

LEMMA WordRange == WordCount \in Nat /\ WordCount > 1 /\ Word \subseteq Nat
                   /\ 0 \in Word /\ 1 \in Word /\ AllOnes \in Word
<1> DEFINE sq == ByteValues * ByteValues
           cu == sq * ByteValues
<1>1. ByteValues \in Nat /\ ByteValues > 1
  BY ByteAssumption
<1>2. sq \in Nat /\ sq > 1
  BY <1>1
<1> HIDE DEF sq
<1>3. cu \in Nat /\ cu > 1
  BY <1>1, <1>2
<1> HIDE DEF cu
<1>4. cu * ByteValues \in Nat /\ cu * ByteValues > 1
  BY <1>1, <1>3
<1>5. WordCount = cu * ByteValues
  BY DEF WordCount, cu, sq
<1>6. WordCount \in Nat /\ WordCount > 1
  BY <1>4, <1>5
<1> QED
  BY <1>6 DEF Word, AllOnes

\* Reduction modulo the word size gives a word.
LEMMA ModuloIsWord == ASSUME NEW x \in Int PROVE x % WordCount \in Word
  BY WordRange DEF Word

LEMMA SumIsWord ==
  ASSUME NEW a \in Int, NEW b \in Int
  PROVE  Plus(a, b) \in Word /\ Minus(a, b) \in Word
  BY ModuloIsWord DEF Plus, Minus

-----------------------------------------------------------------------------
(* What the components compute *)

LEMMA ByteOfIsByte ==
  ASSUME NEW w \in Word, NEW k \in Lanes
  PROVE  ByteOf(w, k) \in Byte
<1>1. Weight(k) \in Nat /\ Weight(k) > 0
  <2>1. ByteValues * ByteValues \in Nat /\ ByteValues * ByteValues > 0
    BY ByteRange
  <2>2. /\ ByteValues * ByteValues * ByteValues \in Nat
        /\ ByteValues * ByteValues * ByteValues > 0
    BY ByteRange, <2>1
  <2> QED
    BY <2>1, <2>2, ByteRange DEF Lanes, Weight
<1>2. w \div Weight(k) \in Int
  BY <1>1, WordRange
<1> QED
  BY <1>2, ByteRange DEF ByteOf, Byte

LEMMA WordOfIsWord ==
  ASSUME NEW b0 \in Byte, NEW b1 \in Byte, NEW b2 \in Byte, NEW b3 \in Byte
  PROVE  WordOf(b0, b1, b2, b3) \in Word
<1> DEFINE upper == b2 + ByteValues * b3
           middle == b1 + ByteValues * upper
<1>1. upper \in Int
  BY ByteRange
<1> HIDE DEF upper
<1>2. middle \in Int
  BY <1>1, ByteRange
<1> HIDE DEF middle
<1>3. b0 + ByteValues * middle \in Int
  BY <1>2, ByteRange
<1> QED
  BY <1>3, ModuloIsWord DEF WordOf, upper, middle

LEMMA AluResultIsWord ==
  ASSUME NEW op, NEW a \in Word, NEW b \in Word
  PROVE  AluResult(op, a, b) \in Word
<1>1. Amount(b) \in (0 .. ShiftCount - 1) \cup {UpperShift}
  BY WordRange, ByteAssumption DEF Amount
<1>2. /\ ShiftLeft(a, Amount(b)) \in Word
      /\ ShiftRight(a, Amount(b)) \in Word
  BY <1>1, ShiftAssumption
<1>3. Plus(a, b) \in Word /\ Minus(a, b) \in Word
  BY SumIsWord, WordRange
<1>4. /\ ShiftLeft(Plus(a, b), UpperShift) \in Word
      /\ ShiftLeft(b, UpperShift) \in Word
  BY <1>3, ShiftAssumption
<1> QED
  BY <1>2, <1>3, <1>4, BitwiseAssumption, WordRange DEF AluResult

LEMMA ImmediateIsWord ==
  ASSUME NEW i \in Instruction
  PROVE  ImmediateOf(i) \in Word
<1>1. i.imm \in Word
  BY DEF Instruction
<1>2. OffsetOf(i) \in Word
  <2>1. i.imm - (i.imm % 2) \in Int
    <3>1. i.imm \in Nat
      BY <1>1, WordRange
    <3>2. \A x \in Nat : x - (x % 2) \in Int
      OBVIOUS
    <3> QED
      BY <3>1, <3>2
  <2> QED
    BY <2>1, SumIsWord DEF OffsetOf
<1> QED
  BY <1>1, <1>2, WordRange DEF ImmediateOf

LEMMA StoredIsMemory ==
  ASSUME MemTypeOK, NEW a \in Word, NEW size \in MemSize, NEW w \in Word
  PROVE  Stored(a, size, w) \in [Address -> Byte]
<1>1. StoredLanes(a, size) \subseteq Lanes
  BY DEF MemSize, StoredLanes, Lanes
<1>2. \A k \in StoredLanes(a, size) : ByteOf(w, k) \in Byte
  BY <1>1, ByteOfIsByte
<1> QED
  BY <1>2 DEF Stored, MemTypeOK

LEMMA ReadIsWord ==
  ASSUME MemTypeOK, NEW a \in Word, NEW size \in MemSize
  PROVE  ReadWords(a, size) \subseteq Word
<1>1. \A k \in Lanes : LaneValues(a, size, k) \subseteq Byte
  <2> SUFFICES ASSUME NEW k \in Lanes
               PROVE  LaneValues(a, size, k) \subseteq Byte
    OBVIOUS
  <2>1. CASE k \notin LoadedLanes(a) \cap MaskOf(size)
    BY <2>1, ByteRange DEF LaneValues
  <2>2. CASE k \in LoadedLanes(a) \cap MaskOf(size) /\ Within(Plus(a, k))
    <3>1. Plus(a, k) \in Word
      BY SumIsWord, WordRange DEF Lanes
    <3>2. Plus(a, k) \in Nat /\ Within(Plus(a, k))
      BY <2>2, <3>1, WordRange
    <3>3. Plus(a, k) \in Address
      BY <3>2, MemAssumption DEF Within, Address
    <3> QED
      BY <2>2, <3>3 DEF LaneValues, MemTypeOK
  <2>3. CASE k \in LoadedLanes(a) \cap MaskOf(size) /\ ~Within(Plus(a, k))
    BY <2>3 DEF LaneValues
  <2> QED
    BY <2>1, <2>2, <2>3
<1>2. 0 \in Lanes /\ 1 \in Lanes /\ 2 \in Lanes /\ 3 \in Lanes
  BY DEF Lanes
<1>3. /\ LaneValues(a, size, 0) \subseteq Byte
      /\ LaneValues(a, size, 1) \subseteq Byte
      /\ LaneValues(a, size, 2) \subseteq Byte
      /\ LaneValues(a, size, 3) \subseteq Byte
  BY <1>1, <1>2
<1> HIDE DEF LaneValues
<1> QED
  BY <1>3, WordOfIsWord DEF ReadWords
-----------------------------------------------------------------------------
(* Type correctness *)

\* While rst is low, the wires between the stages carry words.
LEMMA WiresAreWords ==
  ASSUME TypeOK
  PROVE  /\ pc_4 \in Word /\ wb_l \in Word /\ datad_l \in Word
         /\ Br1 \in Word /\ Br2 \in Word
         /\ aluA_l \in Word /\ aluB_l \in Word
         /\ mem_size \in MemSize
<1> USE DEF TypeOK, RegFileTypeOK, ImmGenTypeOK, AluTypeOK, MemTypeOK, WbTypeOK
<1>1. pc_4 \in Word
  BY SumIsWord, WordRange DEF pc_4
<1>2. wb_l \in Word
  BY DEF wb_l, WbOf
<1>3. datad_l \in Word
  BY <1>1, <1>2 DEF datad_l, DataDOf
<1>4. DataA_o \in Word /\ DataB_o \in Word
  BY DEF DataA_o, DataB_o
<1>5. Br1 \in Word /\ Br2 \in Word
  BY <1>3, <1>4 DEF Br1, Br2, Mux1
<1>6. aluA_l \in Word /\ aluB_l \in Word
  BY <1>5 DEF aluA_l, aluB_l
<1>7. mem_size \in MemSize
  BY DEF mem_size, SizeOf, MemSize
<1> QED
  BY <1>1, <1>2, <1>3, <1>5, <1>6, <1>7

LEMMA ZeroInstIsInstruction == ZeroInst \in Instruction
  BY WordRange, RegAssumption
  DEF ZeroInst, Instruction, Opcode, Reg

LEMMA FieldTypes ==
  ASSUME NEW i \in Instruction
  PROVE  i.rd \in Reg /\ i.rs1 \in Reg /\ i.rs2 \in Reg /\ i.imm \in Word
  BY DEF Instruction

LEMMA InitTypeOK == Init => TypeOK
<1> SUFFICES ASSUME Init PROVE TypeOK
  OBVIOUS
<1> USE DEF Init
<1>1. ImemTypeOK
  BY ImemAssumption, ZeroInstIsInstruction DEF ImemInit, ImemTypeOK
<1>2. RegFileTypeOK
  BY WordRange, RegAssumption, PowerUpRegsAssumption
  DEF RegFileInit, RegFileTypeOK, Reg
<1>3. ImmGenTypeOK /\ AluTypeOK /\ WbTypeOK
  BY WordRange
  DEF ImmGenInit, ImmGenTypeOK, AluInit, AluTypeOK, WbInit, WbTypeOK
<1>4. MemTypeOK
  BY WordRange, ByteRange DEF MemInit, MemTypeOK, ErasedMem
<1>5. ControlTypeOK
  BY ZeroInstIsInstruction DEF ControlInit, ControlTypeOK
<1>6. dataW_l \in Word
  BY PowerUpWordsAssumption
<1> QED
  BY <1>1, <1>2, <1>3, <1>4, <1>5, <1>6 DEF TypeOK

LEMMA TickTypeOK == TypeOK /\ Tick => TypeOK'
<1> SUFFICES ASSUME TypeOK, Tick PROVE TypeOK'
  OBVIOUS
<1>1. ImemTypeOK'
  BY DEF TypeOK, Tick, ImemTypeOK, ImemClock, Fetched
<1>2. RegFileTypeOK'
  <2>1. inst_l.rd \in Reg /\ inst_l.rs1 \in Reg /\ inst_l.rs2 \in Reg
    BY FieldTypes DEF TypeOK, ImemTypeOK
  <2>2. datad_l \in Word
    BY WiresAreWords
  <2> QED
    BY <2>1, <2>2
    DEF TypeOK, RegFileTypeOK, Tick, RegFileClock, ThreeDffClock
<1>3. ImmGenTypeOK'
  BY ImmediateIsWord DEF TypeOK, ImemTypeOK, ImmGenTypeOK, Tick, ImmGenClock
<1>4. AluTypeOK'
  BY WiresAreWords, AluResultIsWord DEF AluTypeOK, Tick, AluClock
<1>5. MemTypeOK'
  <2>1. /\ MemTypeOK /\ alu_l \in Word /\ dataW_l \in Word
        /\ mem_size \in MemSize
    BY WiresAreWords DEF TypeOK, AluTypeOK
  <2>2. MemClock(mem_rw, mem_size, dataW_l, alu_l)
    BY DEF Tick
  <2>3. CASE mem_rw
    <3>1. mem' = Stored(alu_l, mem_size, dataW_l) /\ mem_l' = AllOnes
      BY <2>2, <2>3 DEF MemClock
    <3>2. mem' \in [Address -> Byte]
      BY <2>1, <3>1, StoredIsMemory
    <3> QED
      BY <2>1, <2>2, <3>1, <3>2, WordRange DEF MemClock, MemTypeOK
  <2>4. CASE ~mem_rw
    <3>1. mem' = mem /\ mem_l' \in ReadWords(alu_l, mem_size)
      BY <2>2, <2>4 DEF MemClock
    <3>2. mem_l' \in Word
      BY <2>1, <3>1, ReadIsWord
    <3> QED
      BY <2>1, <2>2, <3>1, <3>2 DEF MemClock, MemTypeOK
  <2> QED
    BY <2>3, <2>4
<1>6. WbTypeOK'
  BY WiresAreWords DEF WbTypeOK, Tick, WbClock, NextPc
<1>7. ControlTypeOK'
  BY DEF TypeOK, ImemTypeOK, ControlTypeOK, Tick, ControlClock
<1>8. dataW_l' \in Word
  BY WiresAreWords DEF Tick
<1> QED
  BY <1>1, <1>2, <1>3, <1>4, <1>5, <1>6, <1>7, <1>8 DEF TypeOK

LEMMA ResetTypeOK == TypeOK /\ Reset => TypeOK'
<1> SUFFICES ASSUME TypeOK, Reset PROVE TypeOK'
  OBVIOUS
<1> USE DEF Reset
<1>1. ImemTypeOK'
  BY ZeroInstIsInstruction DEF TypeOK, ImemTypeOK, ImemReset
<1>2. RegFileTypeOK'
  <2>1. inst_l.rs1 \in Reg /\ inst_l.rs2 \in Reg
    BY FieldTypes DEF TypeOK, ImemTypeOK
  <2> QED
    BY <2>1, WordRange, RegAssumption DEF RegFileReset, RegFileTypeOK, Reg
<1>3. ImmGenTypeOK' /\ AluTypeOK' /\ WbTypeOK'
  BY WordRange
  DEF ImmGenReset, ImmGenTypeOK, AluReset, AluTypeOK, WbReset, WbTypeOK
<1>4. MemTypeOK'
  BY WordRange, ByteRange DEF MemReset, MemTypeOK, ErasedMem
<1>5. ControlTypeOK'
  BY ZeroInstIsInstruction DEF ControlReset, ControlTypeOK
<1>6. dataW_l' \in Word
  BY DEF TypeOK, RegFileTypeOK, DataB_o
<1> QED
  BY <1>1, <1>2, <1>3, <1>4, <1>5, <1>6 DEF TypeOK

\* Every register of the circuit keeps its width in every behaviour.
THEOREM TypeCorrect == Spec => []TypeOK
<1>1. Init => TypeOK
  BY InitTypeOK
<1>2. TypeOK /\ [Next]_vars => TypeOK'
  <2> SUFFICES ASSUME TypeOK, [Next]_vars PROVE TypeOK'
    OBVIOUS
  <2>1. CASE Tick
    BY <2>1, TickTypeOK
  <2>2. CASE Reset
    BY <2>2, ResetTypeOK
  <2>3. CASE UNCHANGED vars
    BY <2>3
    DEF vars, TypeOK, ImemTypeOK, RegFileTypeOK, ImmGenTypeOK, AluTypeOK,
        MemTypeOK, WbTypeOK, ControlTypeOK
  <2> QED
    BY <2>1, <2>2, <2>3 DEF Next
<1> QED
  BY <1>1, <1>2, PTL DEF Spec

-----------------------------------------------------------------------------
(* The pipeline's own clocks agree *)

LEMMA TickAligned == TypeOK /\ Aligned /\ Tick => Aligned'
  BY DEF Aligned, Tick, RegFileClock, ThreeDffClock, ControlClock, ImmGenClock,
         ImmediateOf, OffsetOf, Executing

LEMMA ZeroInstAligned ==
  /\ ZeroInst.rd = 0 /\ ZeroInst.op = "NOP"
  /\ ImmediateOf(ZeroInst) = 0
  BY DEF ZeroInst, ImmediateOf

LEMMA ResetAligned == Reset => Aligned'
<1> SUFFICES ASSUME Reset PROVE Aligned'
  OBVIOUS
<1>1. /\ inst_reg0' = ZeroInst /\ inst_reg1' = ZeroInst
      /\ inst_reg2' = ZeroInst /\ Imm_l' = 0
      /\ intermediate1' = 0 /\ intermediate2' = 0 /\ Old_AddrD' = 0
  BY DEF Reset, ControlReset, RegFileReset, ImmGenReset
<1>2. ImmediateOf(inst_reg0)' = ImmediateOf(ZeroInst)
  BY <1>1 DEF ImmediateOf, OffsetOf
<1> QED
  BY <1>1, <1>2, ZeroInstAligned DEF Aligned, Executing

\* The register file, the immediate generator and control_logic agree in
\* every behaviour on the instruction in each stage, resets included.
THEOREM PipelineAligned == Spec => []Aligned
<1>1. Init => Aligned
  BY ZeroInstAligned
  DEF Init, RegFileInit, ImmGenInit, ControlInit, Aligned, Executing
<1>2. TypeOK /\ Aligned /\ [Next]_vars => Aligned'
  <2> SUFFICES ASSUME TypeOK, Aligned, [Next]_vars PROVE Aligned'
    OBVIOUS
  <2>1. CASE Tick
    BY <2>1, TickAligned
  <2>2. CASE Reset
    BY <2>2, ResetAligned
  <2>3. CASE UNCHANGED vars
    BY <2>3 DEF vars, Aligned, Executing, ImmediateOf, OffsetOf
  <2> QED
    BY <2>1, <2>2, <2>3 DEF Next
<1> QED
  BY <1>1, <1>2, TypeCorrect, PTL DEF Spec

-----------------------------------------------------------------------------
(* Forwarding *)

\* Forward picks, for any register, what older instructions left in it.
LEMMA ForwardIsVisible ==
  ASSUME TypeOK, NEW r \in Reg, NEW read, read = Registers[r]
  PROVE  Mux1(Forward(r), read) = Visible(r)
<1>1. Registers \in [Reg -> Word] /\ inst_reg2.rd \in Reg
  BY FieldTypes DEF TypeOK, RegFileTypeOK, ControlTypeOK
<1>2. CASE WritesRd(inst_reg1) /\ inst_reg1.rd = r
  BY <1>2 DEF Forward, Mux1, Visible
<1>3. CASE /\ ~(WritesRd(inst_reg1) /\ inst_reg1.rd = r)
           /\ WritesRd(inst_reg2) /\ inst_reg2.rd = r
  BY <1>1, <1>3 DEF Forward, Mux1, Visible, ArchRegs, reg_w_en
<1>4. CASE /\ ~(WritesRd(inst_reg1) /\ inst_reg1.rd = r)
           /\ ~(WritesRd(inst_reg2) /\ inst_reg2.rd = r)
  BY <1>1, <1>4 DEF Forward, Mux1, Visible, ArchRegs, reg_w_en
<1> QED
  BY <1>2, <1>3, <1>4

LEMMA AlignedForwards == TypeOK /\ Aligned => OperandsForwarded
<1> SUFFICES ASSUME TypeOK, Aligned, Executing
             PROVE  /\ Br1 = Visible(inst_reg0.rs1)
                    /\ NeedsRs2(inst_reg0) => Br2 = Visible(inst_reg0.rs2)
  BY DEF OperandsForwarded
<1>1. inst_reg0.rs1 \in Reg /\ inst_reg0.rs2 \in Reg
  BY FieldTypes DEF TypeOK, ControlTypeOK
<1>2. /\ DataA_o = Registers[inst_reg0.rs1]
      /\ DataB_o = Registers[inst_reg0.rs2]
  BY DEF Aligned, DataA_o, DataB_o
<1>3. Br1 = Visible(inst_reg0.rs1)
  BY <1>1, <1>2, ForwardIsVisible DEF Br1, A1_sel
<1>4. ASSUME NeedsRs2(inst_reg0) PROVE Br2 = Visible(inst_reg0.rs2)
  BY <1>1, <1>2, <1>4, ForwardIsVisible DEF Br2, B1_sel
<1> QED
  BY <1>3, <1>4

\* The instruction in execute always gets its operands as the program order
\* of the older instructions leaves them, from either forwarding path or
\* from the register file.
THEOREM ForwardingCorrect == Spec => []OperandsForwarded
  BY TypeCorrect, PipelineAligned, AlignedForwards, PTL

-----------------------------------------------------------------------------
(* Transparency *)

\* After a clock edge the registers a program sees are those execute saw,
\* except where the instruction that was in memory has a late result.
LEMMA VisibleBecomesArch ==
  ASSUME TypeOK, Aligned, Tick, NEW r \in Reg,
         ~(Late(inst_reg1) /\ inst_reg1.rd = r)
  PROVE  ArchRegs'[r] = Visible(r)
<1>1. Registers \in [Reg -> Word] /\ inst_reg2.rd \in Reg /\ inst_reg1.rd \in Reg
  BY FieldTypes DEF TypeOK, RegFileTypeOK, ControlTypeOK
<1>2. Registers' = ArchRegs
  BY DEF Tick, RegFileClock, Aligned, ArchRegs
<1>3. inst_reg2' = inst_reg1 /\ alu_mem_l' = alu_l
  BY DEF Tick, ControlClock, MemClock
<1>4. ArchRegs \in [Reg -> Word]
  BY <1>1, WiresAreWords DEF ArchRegs
<1>5. reg_w_en' = WritesRd(inst_reg1)
  BY <1>3 DEF reg_w_en, WritesRd
<1>6. CASE ~WritesRd(inst_reg1)
  BY <1>2, <1>5, <1>6 DEF ArchRegs, Visible
<1>7. CASE WritesRd(inst_reg1) /\ inst_reg1.rd # r
  BY <1>1, <1>2, <1>3, <1>4, <1>5, <1>7 DEF ArchRegs, Visible
<1>8. CASE WritesRd(inst_reg1) /\ inst_reg1.rd = r
  <2>1. inst_reg1.op \notin {"LOAD", "JAL", "JALR", "NOP"}
    BY <1>8 DEF Late, WritesRd
  <2>2. datad_l' = alu_l
    BY <1>3, <2>1 DEF datad_l, DataDOf, wb_sel2, wb_l, WbOf, wb_sel1
  <2> QED
    BY <1>1, <1>2, <1>3, <1>4, <1>5, <1>8, <2>2 DEF ArchRegs, Visible
<1> QED
  BY <1>6, <1>7, <1>8

\* What execute computes is Sequential applied to the operands it was given.
LEMMA ExecuteIsSequential ==
  ASSUME TypeOK, Aligned, Tick, Regular(inst_reg0), NEW y,
         NeedsRs2(inst_reg0) => y = Br2
  PROVE  alu_l' = Sequential(inst_reg0, Br1, y)
<1>1. alu_l' = AluResult(ALUSel_l, aluA_l, aluB_l)
  BY DEF Tick, AluClock
<1>2. aluA_l = Br1
  BY DEF aluA_l, A2_sel, Regular
<1>3. Imm_l = ImmediateOf(inst_reg0)
  BY DEF Aligned
<1>4. CASE inst_reg0.op = "REGREG"
  <2>1. y = Br2 /\ aluB_l = Br2
    BY <1>4 DEF NeedsRs2, aluB_l, B2_sel
  <2>2. br_un = (inst_reg0.f3 = 3)
    BY <1>4 DEF br_un, UnsignedCompare
  <2> QED
    BY <1>1, <1>2, <1>4, <2>1, <2>2 DEF ALUSel_l, BrEq_l, BrLt_l, Sequential
<1>5. CASE inst_reg0.op # "REGREG"
  <2>1. aluB_l = ImmediateOf(inst_reg0)
    BY <1>3, <1>5 DEF Regular, aluB_l, B2_sel, Executing
  <2>2. ASSUME NEW e1, NEW l1, NEW e2, NEW l2
        PROVE  AluOpOf(inst_reg0, e1, l1) = AluOpOf(inst_reg0, e2, l2)
    BY <1>5 DEF Regular, AluOpOf, RegImmOp
  <2>3. AluOpOf(inst_reg0, BrEq(Br1, y), BrLT(inst_reg0.f3 = 3, Br1, y)) = ALUSel_l
    BY <2>2 DEF ALUSel_l
  <2> QED
    BY <1>1, <1>2, <1>5, <2>1, <2>3 DEF Sequential
<1> QED
  BY <1>4, <1>5

LEMMA TickTransparent == TypeOK /\ Aligned /\ Tick => PipelineTransparent'
<1> SUFFICES ASSUME TypeOK, Aligned, Tick PROVE PipelineTransparent'
  OBVIOUS
<1>0. inst_reg1' = inst_reg0 /\ inst_reg2' = inst_reg1
  BY DEF Tick, ControlClock
<1> SUFFICES ASSUME Regular(inst_reg0),
                    ~(Late(inst_reg1) /\ inst_reg1.rd = inst_reg0.rs1),
                    ~(Late(inst_reg1) /\ NeedsRs2(inst_reg0)
                                      /\ inst_reg1.rd = inst_reg0.rs2)
             PROVE  /\ alu_l' = Sequential(inst_reg0, ArchRegs'[inst_reg0.rs1],
                                                      ArchRegs'[inst_reg0.rs2])
                    /\ inst_reg0.op = "STORE" =>
                            dataW_l' = ArchRegs'[inst_reg0.rs2]
  BY <1>0 DEF PipelineTransparent, LateOperand, Regular, Late, NeedsRs2,
              Sequential, ImmediateOf, OffsetOf
<1>1. inst_reg0.rs1 \in Reg /\ inst_reg0.rs2 \in Reg
  BY FieldTypes DEF TypeOK, ControlTypeOK
<1>2. Executing
  BY DEF Executing, Regular
<1>3. ArchRegs'[inst_reg0.rs1] = Br1
  BY <1>1, <1>2, VisibleBecomesArch, AlignedForwards DEF OperandsForwarded
<1>4. NeedsRs2(inst_reg0) => ArchRegs'[inst_reg0.rs2] = Br2
  BY <1>1, <1>2, VisibleBecomesArch, AlignedForwards DEF OperandsForwarded
<1>5. alu_l' = Sequential(inst_reg0, ArchRegs'[inst_reg0.rs1],
                                     ArchRegs'[inst_reg0.rs2])
  BY <1>3, <1>4, ExecuteIsSequential
<1>6. inst_reg0.op = "STORE" => dataW_l' = ArchRegs'[inst_reg0.rs2]
  BY <1>4 DEF Tick, NeedsRs2
<1> QED
  BY <1>5, <1>6

\* In every behaviour the result entering the memory stage is the one the
\* instruction has on its own after all older instructions.
THEOREM TransparentPipeline == Spec => []PipelineTransparent
<1>1. Init => PipelineTransparent
  BY DEF Init, ControlInit, ZeroInst, PipelineTransparent, Regular
<1>2. TypeOK /\ Aligned /\ PipelineTransparent /\ [Next]_vars
        => PipelineTransparent'
  <2> SUFFICES ASSUME TypeOK, Aligned, PipelineTransparent, [Next]_vars
               PROVE  PipelineTransparent'
    OBVIOUS
  <2>1. CASE Tick
    BY <2>1, TickTransparent
  <2>2. CASE Reset
    BY <2>2 DEF Reset, ControlReset, ZeroInst, PipelineTransparent, Regular
  <2>3. CASE UNCHANGED vars
    BY <2>3
    DEF vars, PipelineTransparent, Regular, LateOperand, Late, NeedsRs2,
        Sequential, ImmediateOf, OffsetOf, ArchRegs, reg_w_en, WritesRd,
        datad_l, DataDOf, wb_sel2, pc_4, wb_l, WbOf, wb_sel1
  <2> QED
    BY <2>1, <2>2, <2>3 DEF Next
<1> QED
  BY <1>1, <1>2, TypeCorrect, PipelineAligned, PTL DEF Spec
==============================================================================
