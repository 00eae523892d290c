----------------------------- MODULE RiscvClaims -----------------------------
(***************************************************************************)
(* What comments and benches of the repository say of the processor, where *)
(* the circuit does something else.  Each is checked by a run that finds   *)
(* it violated.                                                            *)
(***************************************************************************)
EXTENDS RiscvIsa

\* README.md:7, the whole of RV32I: a jump moves by its offset, so from one
\* pass of a loop to the next a JAL lands on the same instruction.  When it
\* is in write-back pc_l is four instructions further than it.
JalMovesByOffset ==
    inst_reg2.op = "JAL" =>
        pc_r \div 4 = Plus(4 * (pc_l \div 4) - 8, inst_reg2.imm) \div 4

\* README.md:111 and parser.c:217: two NOPs after a branch are enough for the
\* case where it is taken, so what is fetched behind them is the target,
\* which control_logic.sv:176 selects as soon as the branch executes.  When
\* the branch is in memory and its NOPs in execute and decode, pc_l is that
\* third address; the offset counts from the pc_l of the branch's execution,
\* which is now that of the second NOP.
AlwaysTaken(i) == i.op = "BRANCH" /\ i.f3 \in {0, 5, 7} /\ i.rs1 = i.rs2
TwoNopsSuffice ==
    /\ Len(flight) = InFlight
    /\ AlwaysTaken(inst_reg1) /\ inst_reg0 = ZeroInst /\ inst_l = ZeroInst
    => pc_l = Plus(flight[InFlight], inst_reg1.imm)
==============================================================================
