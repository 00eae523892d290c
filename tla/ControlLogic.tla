---------------------------- MODULE ControlLogic -----------------------------
(***************************************************************************)
(* control_logic.sv: three instruction registers, for the instructions in  *)
(* execute, memory and write-back, and the combinational signals decoded   *)
(* from them.  The comparator's answers eq and lt come from the operands   *)
(* the forwarding selectors choose, so they are arguments.  Every signal   *)
(* below is its value while rst is low.                                    *)
(***************************************************************************)
EXTENDS Instructions, Decoder

VARIABLES inst_reg0, inst_reg1, inst_reg2

controlVars == << inst_reg0, inst_reg1, inst_reg2 >>

ControlInit ==
    inst_reg0 = ZeroInst /\ inst_reg1 = ZeroInst /\ inst_reg2 = ZeroInst

ControlReset ==
    inst_reg0' = ZeroInst /\ inst_reg1' = ZeroInst /\ inst_reg2' = ZeroInst

ControlClock(inst) ==
    inst_reg2' = inst_reg1 /\ inst_reg1' = inst_reg0 /\ inst_reg0' = inst

-----------------------------------------------------------------------------
(* Execute stage: operand selection *)

Executing == inst_reg0.op # "NOP"

\* Faulty variant: the older of two results wins.
OldestForward(r) ==
    IF WritesRd(inst_reg2) /\ inst_reg2.rd = r THEN "wb"
    ELSE IF WritesRd(inst_reg1) /\ inst_reg1.rd = r THEN "alu"
    ELSE "reg"

\* The youngest older instruction that writes register r wins.
Forward(r) ==
    IF WritesRd(inst_reg1) /\ inst_reg1.rd = r THEN "alu"
    ELSE IF WritesRd(inst_reg2) /\ inst_reg2.rd = r THEN "wb"
    ELSE "reg"

A1_sel == IF Executing THEN Forward(inst_reg0.rs1) ELSE "reg"
B1_sel ==
    IF Executing /\ NeedsRs2(inst_reg0) THEN Forward(inst_reg0.rs2) ELSE "reg"
A2_sel == inst_reg0.op \in {"BRANCH", "JAL", "JALR", "AUIPC"}
B2_sel == Executing /\ inst_reg0.op # "REGREG"

(* Execute stage: comparison; the operation is AluOpOf of the Decoder. *)

br_un == UnsignedCompare(inst_reg0)

-----------------------------------------------------------------------------
(* Memory stage *)

mem_rw == inst_reg1.op = "STORE"
mem_size == SizeOf(inst_reg1)

(* Write-back stage *)

wb_sel1 == inst_reg2.op \notin {"NOP", "LOAD"}
wb_sel2 == inst_reg2.op \in {"JALR", "JAL"}
reg_w_en == WritesRd(inst_reg2)

\* Driven from two stages: by a taken branch in execute and by every jump
\* or branch in write-back.
pc_sel(eq, lt) ==
    \/ inst_reg0.op = "BRANCH" /\ Taken(inst_reg0.f3, eq, lt)
    \/ Jumps(inst_reg2)

ControlTypeOK ==
    /\ inst_reg0 \in Instruction
    /\ inst_reg1 \in Instruction
    /\ inst_reg2 \in Instruction
==============================================================================
