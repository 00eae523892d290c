-------------------------------- MODULE Imem ---------------------------------
(* Instruction memory and the instruction register behind it (imem.sv).     *)
EXTENDS Instructions

CONSTANTS
    ImemLast,            \* parameter n of imem: tab_inst is [n:0]
    CountValues,         \* values of `count`, logic [8:0]: 512
    Programs             \* the contents $readmemb may load

ASSUME ImemAssumption ==
    /\ ImemLast \in Nat
    /\ CountValues \in Nat \ {0}
    /\ Programs \subseteq [0 .. ImemLast -> Instruction]

VARIABLES
    tab_inst,            \* the program
    inst_l               \* inst_out, the instruction in decode

imemVars == << tab_inst, inst_l >>

Count(pc) == (pc \div 4) % CountValues

\* A read past the end of tab_inst latches an unknown instruction.
Fetched(pc) ==
    IF Count(pc) \in 0 .. ImemLast THEN {tab_inst[Count(pc)]} ELSE Instruction

ImemInit == tab_inst \in Programs /\ inst_l = ZeroInst

ImemReset == inst_l' = ZeroInst /\ UNCHANGED tab_inst

ImemClock(pc) == inst_l' \in Fetched(pc) /\ UNCHANGED tab_inst

ImemTypeOK ==
    /\ tab_inst \in [0 .. ImemLast -> Instruction]
    /\ inst_l \in Instruction
==============================================================================
