--------------------------------- MODULE Mem ---------------------------------
(***************************************************************************)
(* The data memory, its output register and the register that carries the  *)
(* ALU result past it (mem.sv).  Byte addresses above MemLast do not       *)
(* exist: a write to one is lost, a read of one yields an unknown byte.    *)
(***************************************************************************)
EXTENDS Words

CONSTANT MemLast         \* parameter n of mem (63 in riscv.sv)

ASSUME MemAssumption == MemLast \in Nat /\ MemLast < WordCount

VARIABLES
    mem,
    mem_l,               \* data_o
    alu_mem_l            \* alu_o

memVars == << mem, mem_l, alu_mem_l >>

MemSize == {"BYTE", "HALF", "WORD"}
Address == 0 .. MemLast
Within(a) == a <= MemLast

\* Faulty variant: the upper byte of a half word is dropped.
StoredLanesOfBytes(a, size) ==
    CASE size \in {"BYTE", "HALF"} -> {0}
      [] size = "WORD" -> {3} \cup {k \in {0, 1, 2} : Within(Plus(a, 3 - k))}

\* The lanes a store assigns, each guarded as the source guards it.
StoredLanes(a, size) ==
    CASE size = "BYTE" -> {0}
      [] size = "HALF" -> {1} \cup {k \in {0} : Within(Plus(a, 1))}
      [] size = "WORD" -> {3} \cup {k \in {0, 1, 2} : Within(Plus(a, 3 - k))}

Stored(a, size, w) ==
    [x \in Address |->
        LET k == Minus(x, a)
        IN  IF k \in StoredLanes(a, size) THEN ByteOf(w, k) ELSE mem[x]]

\* The lanes a load fills before the mask; the branch for three lanes
\* repeats the first test, so it is never taken.
LoadedLanes(a) ==
    IF ~Within(Plus(a, 1)) THEN {0}
    ELSE IF ~Within(Plus(a, 2)) THEN {0, 1}
    ELSE Lanes

MaskOf(size) ==
    CASE size = "BYTE" -> {0} [] size = "HALF" -> {0, 1} [] size = "WORD" -> Lanes

LaneValues(a, size, k) ==
    IF k \notin LoadedLanes(a) \cap MaskOf(size) THEN {0}
    ELSE IF Within(Plus(a, k)) THEN {mem[Plus(a, k)]}
    ELSE Byte

\* The words data_r may settle to when memRW is 0.
ReadWords(a, size) ==
    {WordOf(b0, b1, b2, b3) :
        b0 \in LaneValues(a, size, 0), b1 \in LaneValues(a, size, 1),
        b2 \in LaneValues(a, size, 2), b3 \in LaneValues(a, size, 3)}

ErasedMem == [x \in Address |-> ByteValues - 1]

MemInit == mem = ErasedMem /\ mem_l = AllOnes /\ alu_mem_l = 0

MemReset == mem' = ErasedMem /\ mem_l' = AllOnes /\ alu_mem_l' = 0

MemClock(memRW, size, dataW, addr) ==
    /\ alu_mem_l' = addr
    /\ IF memRW
       THEN mem' = Stored(addr, size, dataW) /\ mem_l' = AllOnes
       ELSE mem' = mem /\ mem_l' \in ReadWords(addr, size)

MemTypeOK ==
    /\ mem \in [Address -> Byte]
    /\ mem_l \in Word
    /\ alu_mem_l \in Word
==============================================================================
