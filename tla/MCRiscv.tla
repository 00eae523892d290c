------------------------------- MODULE MCRiscv -------------------------------
(* Small instances of the processor: words of four 2-bit bytes, four        *)
(* registers, eight instructions, eight bytes of memory.                    *)
EXTENDS RiscvClaims

\* Bitwise operators on eight-bit words.
Bit(a, weight) == (a \div weight) % 2
MCAnd(a, b) ==
    LET at(w) == w * Bit(a, w) * Bit(b, w)
    IN  at(1) + at(2) + at(4) + at(8) + at(16) + at(32) + at(64) + at(128)
MCOr(a, b)  == a + b - MCAnd(a, b)
MCXor(a, b) == a + b - 2 * MCAnd(a, b)
MCShiftLeft(a, s)  == (a * 2^s) % WordCount
MCShiftRight(a, s) == a \div 2^s

RegRegI(f3, f7, rd, rs1, rs2) ==
    [op |-> "REGREG", f3 |-> f3, f7 |-> f7, rd |-> rd, rs1 |-> rs1,
     rs2 |-> rs2, imm |-> 0]
\* An immediate fills the rs2 field with its low bits.
RegImmI(f3, rd, rs1, imm) ==
    [op |-> "REGIMM", f3 |-> f3, f7 |-> 0, rd |-> rd, rs1 |-> rs1,
     rs2 |-> imm % 4, imm |-> imm]
LoadI(f3, rd, rs1, imm) ==
    [op |-> "LOAD", f3 |-> f3, f7 |-> 0, rd |-> rd, rs1 |-> rs1,
     rs2 |-> imm % 4, imm |-> imm]
StoreI(f3, rs2, rs1, imm) ==
    [op |-> "STORE", f3 |-> f3, f7 |-> 0, rd |-> imm % 4, rs1 |-> rs1,
     rs2 |-> rs2, imm |-> imm]
BranchI(f3, rs1, rs2, imm) ==
    [op |-> "BRANCH", f3 |-> f3, f7 |-> 0, rd |-> imm % 4, rs1 |-> rs1,
     rs2 |-> rs2, imm |-> imm]
UpperI(op, rd, imm) ==
    [op |-> op, f3 |-> 0, f7 |-> 0, rd |-> rd, rs1 |-> 0, rs2 |-> imm % 4,
     imm |-> imm]
JalI(rd, imm) == UpperI("JAL", rd, imm)
JalrI(rd, rs1, imm) == [UpperI("JALR", rd, imm) EXCEPT !.rs1 = rs1]

\* The program s, then zero words.
Padded(s) ==
    [c \in 0 .. ImemLast |-> IF c < Len(s) THEN s[c + 1] ELSE ZeroInst]

\* Every program of n instructions out of a pool.
ProgramsOf(pool, n) == {Padded(s) : s \in [1 .. n -> pool]}

\* No instruction right after a load or a jump reads the register it writes.
Scheduled(p) ==
    \A c \in 0 .. ImemLast :
        LET i == p[c]
            j == p[(c + 1) % CountValues]
        IN  Late(i) => i.rd # j.rs1 /\ (NeedsRs2(j) => i.rd # j.rs2)

-----------------------------------------------------------------------------
(* Programs the runs load.  The property each is checked against is in the  *)
(* cfg; the addresses stay below the PcBound of the run.                    *)

Addi(rd, rs1, imm) == RegImmI(0, rd, rs1, imm)
Nop == ZeroInst

AluPrograms ==
    LET pool == { Addi(1, 0, 5), Addi(1, 1, 255), RegImmI(4, 2, 1, 3),
                  RegRegI(0, 0, 3, 1, 2), RegRegI(0, 32, 1, 3, 2),
                  RegRegI(1, 0, 2, 3, 1), StoreI(2, 1, 0, 4),
                  LoadI(2, 3, 0, 4) }
    IN  {p \in ProgramsOf(pool, 4) : Scheduled(p)}

\* Stores and loads of every width, at and across the last byte.
MemPrograms ==
    LET pool == { StoreI(0, 1, 0, 7), StoreI(1, 1, 0, 6), StoreI(2, 1, 0, 4),
                  StoreI(1, 1, 0, 7), StoreI(2, 1, 2, 6),
                  LoadI(2, 2, 0, 4), LoadI(5, 1, 0, 6), LoadI(4, 1, 2, 7),
                  LoadI(5, 3, 0, 7), Addi(1, 0, 109) }
    IN  {p \in {Padded(<< Addi(1, 0, 93) >> \o s) : s \in [1 .. 3 -> pool]} :
            Scheduled(p)}

\* Jumps followed by instructions that read the link, write registers and
\* memory, or jump again.
JumpPrograms ==
    LET pool == { JalI(3, 4), JalI(2, 12), Addi(1, 3, 1),
                  RegRegI(0, 0, 1, 2, 3), StoreI(2, 3, 0, 4) }
    IN  {p \in {Padded(<< JalI(3, 8) >> \o s) : s \in [1 .. 5 -> pool]} :
            Scheduled(p)}

MixedPrograms == AluPrograms \cup JumpPrograms

\* Straight code with no growing value, so that the runs without a bound on
\* the program counter stay small.
LoopPrograms ==
    LET pool == { Addi(1, 0, 5), RegImmI(4, 2, 1, 3), StoreI(2, 2, 0, 4),
                  LoadI(2, 3, 0, 4) }
    IN  {p \in ProgramsOf(pool, 3) : Scheduled(p)}

StraightPrograms == MemPrograms \cup LoopPrograms

\* One program for each disagreement.
LoadUseProgram  == {Padded(<< LoadI(2, 1, 0, 4), Addi(2, 1, 1) >>)}
\* The ADDI is in write-back when the branch to the last word executes.
TwoNopsProgram  == {Padded(<< Nop, Addi(1, 0, 36), Nop, BranchI(0, 0, 0, 8),
                              Nop, Nop, Addi(2, 0, 1), Addi(3, 0, 1) >>)}
LoopProgram     == {Padded(<< Nop, Nop, Nop, Nop, JalI(3, 236) >>)}

\* A bound on the addresses fetched, past the end of the longest program.
PcBound == pc_l <= 4 * 12
LongPcBound == pc_l <= 4 * 20
==============================================================================
