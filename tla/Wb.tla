--------------------------------- MODULE Wb ----------------------------------
(* Write-back and the program counter (wb.sv).                              *)
EXTENDS Words

VARIABLE pc_l            \* pc_o

pc_4 == Plus(pc_l, 4)

WbOf(sel1, alu, memd) == IF sel1 THEN alu ELSE memd
\* Faulty variant: the link is the program counter itself.
LinkWithoutFour(sel2, wb) == IF sel2 THEN pc_l ELSE wb

DataDOf(sel2, wb) == IF sel2 THEN pc_4 ELSE wb
NextPc(pcSel, wb) == IF pcSel THEN wb ELSE pc_4

WbInit == pc_l = 0
WbReset == pc_l' = 0
WbClock(pcSel, wb) == pc_l' = NextPc(pcSel, wb)

WbTypeOK == pc_l \in Word
==============================================================================
