----------------------------- MODULE MCByteBus -----------------------------
EXTENDS Tile, TLC

I(op, rd, rs, rt, imm) == [op |-> op, rd |-> rd, rs |-> rs, rt |-> rt, imm |-> imm]

\* Bodies that put memory instructions of both kinds after one another, after
\* an inert word and around the program counter's wrap.
Body ==
    {I("addi", 1, 1, 0, 1), I("sw", 0, 1, 2, 0), I("lw", 2, 1, 0, 0),
     I("jal", 1, 0, 0, 2), I("beq", 0, 1, 2, 3), I("lb", 2, 1, 0, 0)}

\* Images of four of these: the first makes or loads a value, the third is a
\* memory instruction or an excluded one, the last jumps or loads.
MCPrograms ==
    {p \in [Word -> Body] : p[0].op \in {"addi", "lw"} /\ p[2].op \in {"sw", "lw", "lb"}
                         /\ p[3].op \in {"jal", "lw"}}

\* The benches' program: addi x1; sw x1, 0(x1); lw x2, 0(x1); nop.
BenchPrograms ==
    {[w \in Word |->
        CASE w = 0 -> I("addi", 1, 0, 0, 2)
          [] w = 1 -> I("sw", 0, 1, 1, 0)
          [] w = 2 -> I("lw", 2, 1, 0, 0)
          [] OTHER -> I("addi", 0, 0, 0, 0)]}
\* A repaired server whose host keeps no rule, and the server as written
\* whose host keeps it.
SafeHosts ==
    {[realign |-> "frame", rule |-> FALSE], [realign |-> "phase", rule |-> TRUE]}

\* The server as written, whose host keeps no rule.
HostAsWritten == {[realign |-> "phase", rule |-> FALSE]}

\* One and two packets, a full fabric and one short of it.
MCLoads == {D \in SUBSET Line : Cardinality(D) \in {1, 2, N - 1, N}}

Latches == [act : BOOLEAN, sel : BOOLEAN]

\* The counters where a reset leaves them, in an extension, in a frame's end.
MCPowerUps ==
    {[cyc |-> 0, frm |-> 0, ext |-> 0], [cyc |-> 9, frm |-> 4, ext |-> 5],
     [cyc |-> 13, frm |-> 13, ext |-> 31]}

EveryPlane == {"core", "ndf", "fabric"}

CoreAlone == {"core"}
=============================================================================
