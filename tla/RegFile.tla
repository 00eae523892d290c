------------------------------- MODULE RegFile -------------------------------
(***************************************************************************)
(* The register file (regfile.sv) with its three_dff (3dff.sv): it keeps   *)
(* its own delayed copies of the register numbers, one clock for the two   *)
(* it reads and three for the one it writes, and so must stay in step with *)
(* the instruction registers of control_logic without seeing them.         *)
(***************************************************************************)
EXTENDS Instructions

CONSTANT PowerUpRegs     \* what a register number may power up as (any)

ASSUME PowerUpRegsAssumption == PowerUpRegs \subseteq Reg

VARIABLES
    Registers,
    Old_AddrA_r, Old_AddrB_r,       \* not reset by the source
    intermediate1, intermediate2,   \* inside three_dff
    Old_AddrD                       \* the output of three_dff

regfileVars == << Registers, Old_AddrA_r, Old_AddrB_r,
                  intermediate1, intermediate2, Old_AddrD >>

DataA_o == Registers[Old_AddrA_r]
DataB_o == Registers[Old_AddrB_r]

\* After the first edge with rst high the two read addresses hold whatever
\* the instruction bus held before it.
RegFileInit ==
    /\ Registers = [r \in Reg |-> 0]
    /\ Old_AddrA_r \in PowerUpRegs /\ Old_AddrB_r \in PowerUpRegs
    /\ intermediate1 = 0 /\ intermediate2 = 0 /\ Old_AddrD = 0

RegFileReset(inst) ==
    /\ Registers' = [r \in Reg |-> 0]
    /\ Old_AddrA_r' = inst.rs1 /\ Old_AddrB_r' = inst.rs2
    /\ intermediate1' = 0 /\ intermediate2' = 0 /\ Old_AddrD' = 0

\* Faulty variant: a delay of two clocks.
TwoDffClock(addr) ==
    /\ intermediate1' = addr
    /\ intermediate2' = intermediate1
    /\ Old_AddrD' = intermediate1

ThreeDffClock(addr) ==
    /\ intermediate1' = addr
    /\ intermediate2' = intermediate1
    /\ Old_AddrD' = intermediate2

RegFileClock(inst, RegWEn, DataD) ==
    /\ Registers' = IF RegWEn THEN [Registers EXCEPT ![Old_AddrD] = DataD]
                              ELSE Registers
    /\ Old_AddrA_r' = inst.rs1 /\ Old_AddrB_r' = inst.rs2
    /\ ThreeDffClock(inst.rd)

RegFileTypeOK ==
    /\ Registers \in [Reg -> Word]
    /\ Old_AddrA_r \in Reg /\ Old_AddrB_r \in Reg
    /\ intermediate1 \in Reg /\ intermediate2 \in Reg /\ Old_AddrD \in Reg
==============================================================================
