----------------------------- MODULE Core32Isa -----------------------------
(***************************************************************************)
(* The machine a program sees: one instruction of the program at a time,   *)
(* atomically, with the load erratum of the fabricated part: LW writes rd  *)
(* with the word that the previous LW read (docs/ERRATUM-core32-2026-10-05 *)
(* .md), 0 for the first one after reset.                                  *)
(***************************************************************************)
EXTENDS Core32

CONSTANT Programs

VARIABLES
    prog,   \* the program image
    pc,     \* the program counter
    regs,   \* the register file
    mem,    \* the data memory
    loaded  \* the word the last LW read

vars == <<prog, pc, regs, mem, loaded>>

Init ==
    /\ prog \in Programs
    /\ pc = 0
    /\ regs \in {r \in [Reg -> Word] : r[0] = 0}
    /\ mem = [w \in Word |-> 0]
    /\ loaded = 0

Execute ==
    LET i == prog[pc] IN
    /\ pc' = NextPc(pc, regs, i)
    /\ regs' = NextRegs(pc, regs, i, loaded)
    /\ mem' = IF i.op = "sw" THEN [mem EXCEPT ![Ea(regs, i)] = regs[i.rt]] ELSE mem
    /\ loaded' = IF i.op = "lw" THEN mem[Ea(regs, i)] ELSE loaded
    /\ prog' = prog

Next == Execute

Spec == Init /\ [][Next]_vars
=============================================================================
