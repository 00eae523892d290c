------------------------------- MODULE ImmGen --------------------------------
(* The immediate generator and its output register (imm_gen.sv).            *)
EXTENDS Instructions

VARIABLE Imm_l           \* imm_o

\* Bit 0 of a branch or jump offset is never assigned: it keeps the sign
\* the whole word was filled with.
OffsetOf(i) ==
    Plus(i.imm - (i.imm % 2), IF Negative(i.imm) THEN 1 ELSE 0)

\* The format is the one control_logic selects from the opcode (imm_sel_o).
ImmediateOf(i) ==
    IF i.op \in {"REGIMM", "LOAD", "STORE", "JALR", "LUI", "AUIPC"} THEN i.imm
    ELSE IF i.op \in {"BRANCH", "JAL"} THEN OffsetOf(i)
    ELSE 0

ImmGenInit == Imm_l = 0
ImmGenReset == Imm_l' = 0
ImmGenClock(inst) == Imm_l' = ImmediateOf(inst)

ImmGenTypeOK == Imm_l \in Word
==============================================================================
