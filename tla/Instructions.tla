---------------------------- MODULE Instructions -----------------------------
(***************************************************************************)
(* A 32-bit instruction word, as the fields the circuit slices out of it:  *)
(* the opcode inst[6:0] named by the `define of control_logic.sv, rd       *)
(* [11:7], f3 [14:12], rs1 [19:15], rs2 [24:20], f7 [31:25], and imm, the  *)
(* sign-extended immediate its format spells.  Fields that overlap in the  *)
(* encoding are independent here, which only adds instructions.            *)
(***************************************************************************)
EXTENDS Words

CONSTANT RegCount        \* registers of the register file (32)

ASSUME RegAssumption == RegCount \in Nat \ {0}

Reg == 0 .. RegCount - 1

\* "OTHER" stands for every opcode control_logic.sv gives no name.
Opcode == {"REGREG", "REGIMM", "LOAD", "STORE", "BRANCH", "JALR", "JAL",
           "LUI", "AUIPC", "NOP", "OTHER"}

Instruction == [op : Opcode, f3 : 0 .. 7, f7 : 0 .. 127,
                rd : Reg, rs1 : Reg, rs2 : Reg, imm : Word]

\* The all-zero word: what a reset leaves in every instruction register.
ZeroInst == [op |-> "NOP", f3 |-> 0, f7 |-> 0,
             rd |-> 0, rs1 |-> 0, rs2 |-> 0, imm |-> 0]

\* Faulty variants: a store's data register is forgotten; a store is taken
\* for a branch.
NeedsRs2ButStore(i) == i.op \in {"BRANCH", "REGREG"}
JumpsOrStores(i) == i.op \in {"BRANCH", "JAL", "JALR", "STORE"}

\* The two tests of control_logic.sv on a whole instruction.
WritesRd(i) == i.op \notin {"BRANCH", "NOP", "STORE"}
NeedsRs2(i) == i.op \in {"BRANCH", "STORE", "REGREG"}
Jumps(i)    == i.op \in {"BRANCH", "JAL", "JALR"}
==============================================================================
