--------------------------------- MODULE Isa ---------------------------------
(***************************************************************************)
(* What the processor promises: RV32I, one instruction per step, with no   *)
(* pipeline.  pcq lists the addresses of the next Depth instructions.      *)
(*   Depth = 1, TargetFrom = 1, LinkFrom = 1: RV32I as README.md says.     *)
(*   Depth = 5, TargetFrom = 3, LinkFrom = 5: the machine a programmer of  *)
(* the circuit sees, where the instructions already fetched behind a jump  *)
(* are executed and a jump computes from the later program counters of the *)
(* stages that read pc_l.                                                  *)
(* Accesses outside the memory are left unspecified.                       *)
(***************************************************************************)
EXTENDS Instructions, Sequences

CONSTANTS Depth, TargetFrom, LinkFrom, ImemLast, CountValues, MemLast

VARIABLES prog, regs, dmem, pcq

avars == << prog, regs, dmem, pcq >>

-----------------------------------------------------------------------------
Current == prog[(pcq[1] \div 4) % CountValues]
Operand(r) == IF r = 0 THEN 0 ELSE regs[r]

Not(a) == AllOnes - a
ShiftRightArithmetic(a, s) ==
    IF Negative(a) THEN Not(ShiftRight(Not(a), s)) ELSE ShiftRight(a, s)
Flag(b) == IF b THEN 1 ELSE 0

\* funct3 names the operation; alternate is bit 30 of the encoding.
Arithmetic(f3, alternate, a, b) ==
    CASE f3 = 0 -> IF alternate THEN Minus(a, b) ELSE Plus(a, b)
      [] f3 = 1 -> ShiftLeft(a, b % ShiftCount)
      [] f3 = 2 -> Flag(SignedLess(a, b))
      [] f3 = 3 -> Flag(a < b)
      [] f3 = 4 -> BitXor(a, b)
      [] f3 = 5 -> IF alternate THEN ShiftRightArithmetic(a, b % ShiftCount)
                                ELSE ShiftRight(a, b % ShiftCount)
      [] f3 = 6 -> BitOr(a, b)
      [] f3 = 7 -> BitAnd(a, b)

Width(f3) == IF f3 \in {0, 4} THEN 1 ELSE IF f3 \in {1, 5} THEN 2 ELSE 4
InMemory(a, f3) == a + Width(f3) - 1 <= MemLast

SignExtend(w, f3) ==
    CASE f3 = 0 /\ w >= ByteValues \div 2 -> w + WordCount - ByteValues
      [] f3 = 1 /\ w >= (ByteValues * ByteValues) \div 2 ->
            w + WordCount - ByteValues * ByteValues
      [] OTHER -> w

Loaded(a, f3) ==
    LET lane(k) == IF k < Width(f3) THEN dmem[a + k] ELSE 0
    IN  IF InMemory(a, f3)
        THEN {SignExtend(WordOf(lane(0), lane(1), lane(2), lane(3)), f3)}
        ELSE Word

BranchTaken(f3, a, b) ==
    CASE f3 = 0 -> a = b            [] f3 = 1 -> a # b
      [] f3 = 4 -> SignedLess(a, b) [] f3 = 5 -> ~SignedLess(a, b)
      [] f3 = 6 -> a < b            [] f3 = 7 -> a >= b
      [] OTHER -> FALSE

-----------------------------------------------------------------------------
(* One instruction *)

\* The values instruction i may put in rd.
Results(i) ==
    LET a == Operand(i.rs1)
        b == Operand(i.rs2)
    IN  CASE i.op = "REGREG" -> {Arithmetic(i.f3, i.f7 = 32, a, b)}
          [] i.op = "REGIMM" ->
                {Arithmetic(i.f3, i.f3 = 5 /\ i.f7 = 32, a, i.imm)}
          [] i.op = "LOAD"   -> Loaded(Plus(a, i.imm), i.f3)
          [] i.op = "LUI"    -> {ShiftLeft(i.imm, UpperShift)}
          [] i.op = "AUIPC"  -> {Plus(pcq[TargetFrom], ShiftLeft(i.imm, UpperShift))}
          [] OTHER           -> {Plus(pcq[LinkFrom], 4)}      \* JAL, JALR

WriteBack(i) ==
    IF i.op \in {"BRANCH", "STORE", "NOP", "OTHER"} \/ i.rd = 0
    THEN regs' = regs
    ELSE \E v \in Results(i) : regs' = [regs EXCEPT ![i.rd] = v]

\* A store changes exactly its bytes; which values, if it is in memory.
StoreTo(i) ==
    LET a == Plus(Operand(i.rs1), i.imm)
        lanes == 0 .. Width(i.f3) - 1
        touched == {x \in 0 .. MemLast : Minus(x, a) \in lanes}
    IN  IF InMemory(a, i.f3)
        THEN dmem' = [x \in 0 .. MemLast |->
                        IF x \in touched
                        THEN ByteOf(Operand(i.rs2), Minus(x, a)) ELSE dmem[x]]
        ELSE /\ dmem' \in [0 .. MemLast -> Byte]
             /\ \A x \in (0 .. MemLast) \ touched : dmem'[x] = dmem[x]

Memory(i) == IF i.op = "STORE" THEN StoreTo(i) ELSE dmem' = dmem

Follower(i) ==
    CASE i.op = "JAL" -> Plus(pcq[TargetFrom], i.imm)
      [] i.op = "JALR" ->
            LET t == Plus(Operand(i.rs1), i.imm) IN t - (t % 2)
      [] i.op = "BRANCH" /\ BranchTaken(i.f3, Operand(i.rs1), Operand(i.rs2)) ->
            Plus(pcq[TargetFrom], i.imm)
      [] OTHER -> Plus(pcq[Depth], 4)

StartState ==
    /\ regs = [r \in Reg |-> 0]
    /\ dmem = [x \in 0 .. MemLast |-> ByteValues - 1]
    /\ pcq = [k \in 1 .. Depth |-> Plus(4 * (k - 1), 0)]

Execute ==
    /\ WriteBack(Current)
    /\ Memory(Current)
    /\ pcq' = Append(Tail(pcq), Follower(Current))
    /\ UNCHANGED prog

Restart == StartState' /\ UNCHANGED prog

IsaInit == prog \in [0 .. ImemLast -> Instruction] /\ StartState
IsaNext == Execute \/ Restart
IsaSpec == IsaInit /\ [][IsaNext]_avars
==============================================================================
