------------------------------ MODULE Core32 ------------------------------
(***************************************************************************)
(* The combinational part of RTL/core32.v: what an instruction word makes  *)
(* of the registers and the program counter.                               *)
(*                                                                         *)
(* Words are 0..Size-1 with wrap-around and memories are addressed by the  *)
(* word, so the program counter counts words.  The arithmetic and logic    *)
(* operations, LUI and AUIPC are one, addi; the branches are beq; JALR is  *)
(* left out.  "lb" stands for every encoding outside the word-only ISA,    *)
(* the all-zero word after reset included: the core calls them inert.      *)
(***************************************************************************)
EXTENDS Naturals

CONSTANTS
    Size,    \* number of words, a power of two
    NumRegs  \* number of registers, x0 included

ASSUME CoreAssumption == Size \in Nat \ {0} /\ NumRegs \in Nat \ {0}

Word == 0..(Size - 1)
Reg == 0..(NumRegs - 1)
Instr == [op : {"addi", "lw", "sw", "jal", "beq", "lb"},
          rd : Reg, rs : Reg, rt : Reg, imm : Word]

Inert == [op |-> "lb", rd |-> 0, rs |-> 0, rt |-> 0, imm |-> 0]

Plus(m, n) == (m + n) % Size

\* dmem_req and dmem_we: pure decodes, gated on the word width.
Req(i) == i.op \in {"lw", "sw"}

We(i) == i.op = "sw"

\* alu_y for an immediate: the sum, and the address of a load or store.
Ea(regs, i) == Plus(regs[i.rs], i.imm)

NextPc(pc, regs, i) ==
    IF i.op = "jal" \/ (i.op = "beq" /\ regs[i.rs] = regs[i.rt])
    THEN Plus(pc, i.imm) ELSE Plus(pc, 1)

\* wb_val, with the word the memory port presents.
WbVal(pc, regs, i, rdata) ==
    IF i.op = "lw" THEN rdata
    ELSE IF i.op = "jal" THEN Plus(pc, 1)
    ELSE Ea(regs, i)

\* reg_we and the write of rd; x0 stays 0.
NextRegs(pc, regs, i, rdata) ==
    IF i.op \in {"addi", "lw", "jal"} /\ i.rd # 0
    THEN [regs EXCEPT ![i.rd] = WbVal(pc, regs, i, rdata)]
    ELSE regs
=============================================================================
