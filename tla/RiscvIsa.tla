------------------------------ MODULE RiscvIsa -------------------------------
(***************************************************************************)
(* The circuit implements Isa.  The circuit keeps no address beside an     *)
(* instruction in flight, so the history variable flight records them: the *)
(* addresses, oldest first, of the instructions latched in inst_reg1,      *)
(* inst_reg0 and inst_l.  It only observes: no action reads it.            *)
(* An Isa step is the edge that takes an instruction from the memory stage *)
(* to write-back; the edges that fill the pipeline after a reset stutter.  *)
(***************************************************************************)
EXTENDS Riscv, Sequences

VARIABLE flight

hvars == << vars, flight >>

InFlight == 3            \* inst_reg1, inst_reg0, inst_l

HistoryInit == Init /\ flight = << >>

HistoryTick ==
    /\ Tick
    /\ flight' = Append(IF Len(flight) = InFlight THEN Tail(flight) ELSE flight,
                        pc_l)

HistoryReset == Reset /\ flight' = << >>

HistoryNext == HistoryTick \/ HistoryReset

HistorySpec == HistoryInit /\ [][HistoryNext]_hvars

\* With the bench, which lowers rst once: the clock runs for ever and, from
\* some point on, rst stays low.
HistoryFairSpec ==
    HistorySpec /\ WF_hvars(HistoryTick) /\ <>[][~HistoryReset]_hvars

-----------------------------------------------------------------------------
(* Refinement *)

Known == flight \o << pc_l, pc_r >>

\* The next five addresses: those in flight, the one being fetched, the one
\* to be fetched next, and while the pipeline fills the ones after it.
Upcoming ==
    [k \in 1 .. 5 |->
        IF k <= Len(Known) THEN Known[k]
        ELSE Plus(pc_r, 4 * (k - Len(Known)))]

\* The machine with the exposed pipeline.
Exposed == INSTANCE Isa WITH
    prog <- tab_inst, regs <- ArchRegs, dmem <- mem, pcq <- Upcoming,
    Depth <- 5, TargetFrom <- 3, LinkFrom <- 5

\* RV32I itself.
Promised == INSTANCE Isa WITH
    prog <- tab_inst, regs <- ArchRegs, dmem <- mem, pcq <- << Known[1] >>,
    Depth <- 1, TargetFrom <- 1, LinkFrom <- 1

\* The instructions with which the circuit does what RV32I says: not a
\* comparison, a branch, a JALR, an AUIPC, an arithmetic right shift, a load
\* that extends a sign or a jump back, and none that writes register 0.
Conforming(i) ==
    /\ \/ i.op = "REGREG" /\ i.f3 \in {1, 4, 6, 7}
       \/ i.op = "REGREG" /\ << i.f3, i.f7 >> \in {<<0, 0>>, <<0, 32>>, <<5, 0>>}
       \/ i.op = "REGIMM" /\ i.f3 \in {0, 1, 4, 6, 7}
       \/ i.op = "LOAD" /\ i.f3 \in {2, 4, 5}
       \/ i.op = "STORE" /\ i.f3 \in {0, 1, 2}
       \/ i.op = "JAL" /\ i.imm % 2 = 0 /\ ~Negative(i.imm)
       \/ i.op \in {"LUI", "NOP"}
    /\ WritesRd(i) => i.rd # 0

\* The program counter is in the program, what was fetched conforms, and the
\* instruction next to write back uses no late result.
Supported ==
    /\ Count(pc_l) \in 0 .. ImemLast
    /\ Conforming(inst_l)
    /\ ~LateOperand(inst_reg1)

\* A program without jumps, every instruction of which conforms, and in which
\* none uses a late result of the instruction at the address before its own.
Straight(p) ==
    \A a \in Word :
        LET i == p[Count(a)]
            next == p[Count(Plus(a, 4))]
        IN  /\ Conforming(i) /\ i.op # "JAL"
            /\ Late(i) => i.rd # next.rs1 /\ (NeedsRs2(next) => i.rd # next.rs2)

\* Every edge is the execution of one instruction of the exposed machine in
\* program order, or one of the edges that fill the pipeline, or a reset.
ImplementsExposed == Exposed!IsaSpec

\* The circuit executes RV32I (README.md:7).
ImplementsRV32I == Promised!IsaSpec

\* The instruction at index c of the program is the next to leave memory.
Retires(c) == Len(flight) = InFlight /\ Count(flight[1]) = c

\* With the clock running and rst low from some point on, no instruction of
\* a program without jumps is left behind: the program counter keeps coming
\* round to it (wb.sv:63-67, imem.sv:27-31).
EveryInstructionRuns == \A c \in 0 .. ImemLast : []<>Retires(c)
==============================================================================
