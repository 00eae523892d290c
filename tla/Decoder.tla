------------------------------- MODULE Decoder -------------------------------
(***************************************************************************)
(* What control_logic.sv decodes from one instruction, be it in execute or *)
(* in memory: pure functions of its opcode (op), funct3 (f3) and funct7    *)
(* (f7), and of the comparator's answers eq and lt.                        *)
(***************************************************************************)
EXTENDS Naturals

\* Whether the operands are compared as unsigned numbers.
UnsignedCompare(i) ==
    \/ i.op = "BRANCH" /\ i.f3 \in {6, 7}
    \/ i.op \in {"REGREG", "REGIMM"} /\ i.f3 = 3

Taken(f3, eq, lt) ==
    \/ f3 = 0 /\ eq
    \/ f3 = 1 /\ ~eq
    \/ f3 \in {4, 6} /\ lt
    \/ f3 \in {5, 7} /\ (eq \/ ~lt)

SetOp(eq, lt) == IF lt /\ ~eq THEN "OUT_ONE" ELSE "OUT_ZERO"

\* Faulty variant: funct7 is not looked at.
RegRegOpWithoutFunct7(i, eq, lt) ==
    CASE i.f3 = 0        -> "ADD"
      [] i.f3 = 1        -> "SLL"
      [] i.f3 \in {2, 3} -> SetOp(eq, lt)
      [] i.f3 = 4        -> "XOR"
      [] i.f3 = 5        -> "SRL"
      [] i.f3 = 6        -> "OR"
      [] OTHER           -> "AND"

RegRegOp(i, eq, lt) ==
    CASE i.f3 = 0 /\ i.f7 = 0  -> "ADD"
      [] i.f3 = 0 /\ i.f7 = 32 -> "SUB"
      [] i.f3 = 1              -> "SLL"
      [] i.f3 \in {2, 3}       -> SetOp(eq, lt)
      [] i.f3 = 4              -> "XOR"
      [] i.f3 = 5 /\ i.f7 = 0  -> "SRL"
      [] i.f3 = 5 /\ i.f7 = 32 -> "SRA"
      [] i.f3 = 6              -> "OR"
      [] i.f3 = 7              -> "AND"
      [] OTHER                 -> "OUT_ZERO"

\* funct3 101 (SRLI, SRAI) has no line in the source.
RegImmOp(i, eq, lt) ==
    CASE i.f3 = 0        -> "ADD"
      [] i.f3 = 1        -> "SLL"
      [] i.f3 \in {2, 3} -> SetOp(eq, lt)
      [] i.f3 = 4        -> "XOR"
      [] i.f3 = 6        -> "OR"
      [] i.f3 = 7        -> "AND"
      [] OTHER           -> "OUT_ZERO"

AluOpOf(i, eq, lt) ==
    CASE i.op = "REGREG" -> RegRegOp(i, eq, lt)
      [] i.op = "REGIMM" -> RegImmOp(i, eq, lt)
      [] i.op \in {"LOAD", "STORE", "JALR", "JAL"} -> "ADD"
      [] i.op = "BRANCH" -> IF Taken(i.f3, eq, lt) THEN "ADD" ELSE "OUT_ZERO"
      [] i.op = "LUI"    -> "LUI"
      [] i.op = "AUIPC"  -> "AUIPC"
      [] OTHER           -> "OUT_ZERO"

\* The width of an access to the memory.
SizeOf(i) ==
    IF i.op = "NOP" THEN "BYTE"
    ELSE IF i.f3 \in {1, 5} THEN "HALF"
    ELSE IF i.f3 = 2 THEN "WORD"
    ELSE "BYTE"
==============================================================================
