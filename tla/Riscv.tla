-------------------------------- MODULE Riscv --------------------------------
(***************************************************************************)
(* The processor of riscv.sv: the components wired together.  It is a      *)
(* synchronous circuit, so an action is one rising edge of clk: every      *)
(* component's edge at once, each reading the state before the edge.  The  *)
(* operand multiplexers (opti.sv) have only one register, dataW_l, and     *)
(* are written here with the wires that reach them.                        *)
(***************************************************************************)
EXTENDS Imem, RegFile, ImmGen, Alu, Mem, Wb, ControlLogic

CONSTANT PowerUpWords    \* what a word may power up as (any)

ASSUME PowerUpWordsAssumption == PowerUpWords \subseteq Word

VARIABLE dataW_l         \* dataW_o of opti, not reset by the source

vars == << tab_inst, inst_l, Registers, Old_AddrA_r, Old_AddrB_r,
           intermediate1, intermediate2, Old_AddrD, Imm_l, alu_l,
           mem, mem_l, alu_mem_l, pc_l, inst_reg0, inst_reg1, inst_reg2,
           dataW_l >>

-----------------------------------------------------------------------------
(* Wires *)

wb_l == WbOf(wb_sel1, alu_mem_l, mem_l)
datad_l == DataDOf(wb_sel2, wb_l)

Mux1(sel, reg) ==
    CASE sel = "alu" -> alu_l [] sel = "wb" -> datad_l [] OTHER -> reg

Br1 == Mux1(A1_sel, DataA_o)
Br2 == Mux1(B1_sel, DataB_o)
aluA_l == IF A2_sel THEN pc_l ELSE Br1
aluB_l == IF B2_sel THEN Imm_l ELSE Br2

BrEq_l == BrEq(Br1, Br2)
BrLt_l == BrLT(br_un, Br1, Br2)

ALUSel_l == AluOpOf(inst_reg0, BrEq_l, BrLt_l)
pc_r == NextPc(pc_sel(BrEq_l, BrLt_l), wb_l)

-----------------------------------------------------------------------------
\* The state after the first rising edge of clk with rst high.
Init ==
    /\ ImemInit /\ RegFileInit /\ ImmGenInit /\ AluInit /\ MemInit /\ WbInit
    /\ ControlInit
    /\ dataW_l \in PowerUpWords

\* A rising edge with rst low.
Tick ==
    /\ ImemClock(pc_l)
    /\ RegFileClock(inst_l, reg_w_en, datad_l)
    /\ ImmGenClock(inst_l)
    /\ AluClock(ALUSel_l, aluA_l, aluB_l)
    /\ MemClock(mem_rw, mem_size, dataW_l, alu_l)
    /\ WbClock(pc_sel(BrEq_l, BrLt_l), wb_l)
    /\ ControlClock(inst_l)
    /\ dataW_l' = Br2

\* A rising edge with rst high, at any time: every selector is at its
\* default, so dataW_l takes the register file's second output.
Reset ==
    /\ ImemReset
    /\ RegFileReset(inst_l)
    /\ ImmGenReset /\ AluReset /\ MemReset /\ WbReset /\ ControlReset
    /\ dataW_l' = DataB_o

Next == Tick \/ Reset

Spec == Init /\ [][Next]_vars

-----------------------------------------------------------------------------
(* Properties *)

\* Every register of the circuit stays within its width.
TypeOK ==
    /\ ImemTypeOK /\ RegFileTypeOK /\ ImmGenTypeOK /\ AluTypeOK /\ MemTypeOK
    /\ WbTypeOK /\ ControlTypeOK
    /\ dataW_l \in Word

\* The delays of the register file, of the immediate generator and of
\* control_logic agree on which instruction is in which stage: the register
\* numbers regfile.sv and 3dff.sv delayed on their own are those of the
\* instructions control_logic.sv holds, also across a reset, which clears
\* only some of them.
Aligned ==
    /\ intermediate1 = inst_reg0.rd
    /\ intermediate2 = inst_reg1.rd
    /\ Old_AddrD = inst_reg2.rd
    /\ Imm_l = ImmediateOf(inst_reg0)
    /\ Executing => /\ Old_AddrA_r = inst_reg0.rs1
                    /\ Old_AddrB_r = inst_reg0.rs2

\* The registers a program sees once the instruction in write-back is done.
ArchRegs ==
    IF reg_w_en THEN [Registers EXCEPT ![inst_reg2.rd] = datad_l] ELSE Registers

\* An instruction whose result is not yet alu_l one clock after execute.
Late(i) == i.op \in {"LOAD", "JAL", "JALR"}

\* Register r, as the instruction in execute must see it: with the effect
\* of both older instructions still in the pipeline.
Visible(r) ==
    IF WritesRd(inst_reg1) /\ inst_reg1.rd = r THEN alu_l ELSE ArchRegs[r]

\* The operand multiplexers give the instruction in execute the value its
\* register has after every older instruction, whichever mix of the two
\* forwarding paths and the register file that takes (the "triple
\* dependance" of bench/TODO.md).
OperandsForwarded ==
    Executing =>
        /\ Br1 = Visible(inst_reg0.rs1)
        /\ NeedsRs2(inst_reg0) => Br2 = Visible(inst_reg0.rs2)

\* What the ALU gives instruction i, from operands x and y and no pipeline.
Sequential(i, x, y) ==
    LET unsigned == i.f3 = 3
        second == IF i.op = "REGREG" THEN y ELSE ImmediateOf(i)
    IN  AluResult(AluOpOf(i, BrEq(x, y), BrLT(unsigned, x, y)), x, second)

\* Instructions whose result is a function of their registers and their
\* immediate: not PC-relative, and not SLTI or SLTIU (see SetLessImmediate).
Regular(i) ==
    \/ i.op \in {"REGREG", "LOAD", "STORE", "LUI"}
    \/ i.op = "REGIMM" /\ i.f3 \notin {2, 3}

\* Instruction i, next to write back, reads a late result of the
\* instruction just ahead of it: the case the forwarding cannot serve.
LateOperand(i) ==
    /\ Late(inst_reg2)
    /\ \/ inst_reg2.rd = i.rs1
       \/ NeedsRs2(i) /\ inst_reg2.rd = i.rs2

\* The pipeline is transparent: the result that reaches the memory stage,
\* and the word a store is about to write, are those of executing the
\* instruction alone on the registers all older instructions left.
PipelineTransparent ==
    Regular(inst_reg1) /\ ~LateOperand(inst_reg1) =>
        /\ alu_l = Sequential(inst_reg1, ArchRegs[inst_reg1.rs1],
                                         ArchRegs[inst_reg1.rs2])
        /\ inst_reg1.op = "STORE" => dataW_l = ArchRegs[inst_reg1.rs2]
==============================================================================
