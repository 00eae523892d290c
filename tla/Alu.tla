--------------------------------- MODULE Alu ---------------------------------
(***************************************************************************)
(* The ALU with its result register (alu.sv), and the branch comparator    *)
(* (branch_comp.sv).                                                       *)
(***************************************************************************)
EXTENDS Words

VARIABLE alu_l           \* alu_result_o

AluOp == {"ADD", "AND", "SLL", "SRL", "OR", "XOR", "OUT_ONE", "OUT_ZERO",
          "SRA", "LUI", "SUB", "AUIPC"}

Amount(b) == b % ShiftCount                     \* alu_b_i[4:0]

\* byte_one is a one-bit wire; >>> on an unsigned operand fills with
\* zeros; << binds looser than + in the AUIPC line.
AluResult(op, a, b) ==
    CASE op = "ADD"     -> Plus(a, b)
      [] op = "SUB"     -> Minus(a, b)
      [] op = "AUIPC"   -> ShiftLeft(Plus(a, b), UpperShift)
      [] op = "AND"     -> BitAnd(a, b)
      [] op = "OR"      -> BitOr(a, b)
      [] op = "XOR"     -> BitXor(a, b)
      [] op = "SLL"     -> ShiftLeft(a, Amount(b))
      [] op \in {"SRL", "SRA"} -> ShiftRight(a, Amount(b))
      [] op = "LUI"     -> ShiftLeft(b, UpperShift)
      [] op = "OUT_ONE" -> 1
      [] OTHER          -> 0

AluInit == alu_l = 0
AluReset == alu_l' = 0
AluClock(op, a, b) == alu_l' = AluResult(op, a, b)

AluTypeOK == alu_l \in Word

\* branch_comp.sv compares signed operands when BrUn_i is 1.
BrEq(a, b) == a = b
BrLT(brUn, a, b) == IF brUn THEN SignedLess(a, b) ELSE a < b
==============================================================================
