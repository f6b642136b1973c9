------------------------------- MODULE Fabric -------------------------------
(***************************************************************************)
(* The bit-serial banyan (RTL/banyan_fabric.v and bitserial_switch.v, in   *)
(* the form Sim/frame_sim.py runs it): K stages of two-way elements        *)
(* between 2^K lines, and the frame counter that decodes their strobes.    *)
(*                                                                         *)
(* A frame is 2K header clocks - for each stage the activity bit and one   *)
(* bit of the destination - and then P of payload.  The path through the   *)
(* elements is combinational; their latches take the wires at the edge.    *)
(*                                                                         *)
(* What a wire carries is a set of marks: none is the low level, One is a  *)
(* header's high level, <<m, b>> is bit b of the payload m.  A wire that   *)
(* two inputs drive carries the marks of both.                             *)
(***************************************************************************)
EXTENDS Integers, FiniteSets

CONSTANTS
    K, \* stages
    P  \* payload clocks of a frame

ASSUME FabricAssumption == K \in Nat \ {0} /\ P \in Nat \ {0}

\* The powers of two.
Two[n \in Nat] == IF n = 0 THEN 1 ELSE 2 * Two[n - 1]

N == Two[K]
HDR == 2 * K
FRAME == HDR + P

Line == 0..(N - 1)
Stage == 0..(K - 1)
Low == {}
One == {<<-1, 0>>}

VARIABLES
    cnt,      \* the frame counter
    act, sel  \* the latches of stage s, by the line that enters them

fabric == <<cnt, act, sel>>

\* Bit m of a line's number or of a destination.
BitOf(l, m) == (l \div Two[m]) % 2

\* The element of stage s on line l joins the lines that differ in bit K-1-s.
Pair(s, l) ==
    LET b == Two[K - 1 - s]
    IN  {i \in Line : i \div (2 * b) = l \div (2 * b) /\ i % b = l % b}

\* An input claims an output iff it is active and its address bit selects it.
Elem(s, w) ==
    [l \in Line |->
        UNION {w[i] : i \in {j \in Pair(s, l) :
            act[s][j] /\ sel[s][j] = (BitOf(l, K - 1 - s) = 1)}}]

\* The wires before each stage, and after the last, under the input din.
Wires(din) ==
    LET wire[s \in 0..K] == IF s = 0 THEN din ELSE Elem(s - 1, wire[s - 1])
    IN  wire

Dout(din) == Wires(din)[K]

act_stb(s) == cnt = 2 * s
sel_stb(s) == cnt = 2 * s + 1

\* What stage s latches from wires w: the activity of each line or its bit.
Latch(w) ==
    /\ act' = [s \in Stage |-> IF act_stb(s) THEN [l \in Line |-> w[s][l] # Low] ELSE act[s]]
    /\ sel' = [s \in Stage |-> IF sel_stb(s) THEN [l \in Line |-> w[s][l] # Low] ELSE sel[s]]

FabricEdge(sof, din) ==
    /\ Latch(Wires(din))
    /\ cnt' = IF sof \/ cnt = FRAME - 1 THEN 0 ELSE cnt + 1

\* Clock t of the frame that carries payload m to line d.
FrameBit(d, m, t) ==
    IF t >= HDR THEN {<<m, t - HDR>>}
    ELSE IF t % 2 = 0 \/ BitOf(d, K - 1 - t \div 2) = 1 THEN One
    ELSE Low

---------------------------------------------------------------------------
(* The fabric by itself, driven the way frame_sim.py drives it: frame      *)
(* after frame, sources concentrated on the lowest lines, destinations in  *)
(* order.  A load is the set of the destinations.                          *)

CONSTANTS
    Loads,  \* the loads a frame may have
    Uniform \* what the latches of a stage may hold at power-up

ASSUME LoadsAssumption == Loads \subseteq SUBSET Line

VARIABLES
    dests,  \* the load of this frame
    tick,   \* the senders' clock, -1 until they pulse sof
    again   \* whether a frame of another load is to follow

traffic == <<dests, tick, again>>

\* The i-th smallest destination, for the source on line i.
SortedDest(i) == CHOOSE d \in dests : Cardinality({e \in dests : e < d}) = i

SendersIn ==
    [i \in Line |->
        IF tick = -1 \/ i >= Cardinality(dests) THEN Low
        ELSE FrameBit(SortedDest(i), i, tick)]

\* At power-up the counter and the latches hold anything.
PowerUp ==
    /\ cnt \in 0..(FRAME - 1)
    /\ \E p \in [Stage -> Uniform] :
          /\ act = [s \in Stage |-> [l \in Line |-> p[s].act]]
          /\ sel = [s \in Stage |-> [l \in Line |-> p[s].sel]]

\* The senders before their pulse: one frame, or another after it.
Senders == dests \in Loads /\ tick = -1 /\ again \in BOOLEAN

\* The pulse before the first frame; every clock after it carries one.
StartFrames ==
    /\ tick = -1
    /\ FabricEdge(TRUE, SendersIn)
    /\ tick' = 0 /\ UNCHANGED <<dests, again>>

SendBit ==
    /\ tick # -1
    /\ FabricEdge(FALSE, SendersIn)
    /\ tick' = (tick + 1) % FRAME
    /\ IF tick = FRAME - 1 /\ again THEN dests' \in Loads /\ again' = FALSE
       ELSE UNCHANGED <<dests, again>>

\* What the check of a frame asks of line l in the payload window: the bit of
\* the source that names it, or nothing.
expect(l) ==
    IF l \in dests THEN {<<Cardinality({e \in dests : e < l}), tick - HDR>>} ELSE Low

\* Every payload bit is at its destination in its own clock and every other
\* line is low, whatever the latches and the counter held at power-up or
\* since the last frame.  (frame_sim.py sections 2, 3 and 3b: the element
\* whose idle side claimed an output lost packets here.)
FramesArrive == tick >= HDR => \A l \in Line : Dout(SendersIn)[l] = expect(l)
=============================================================================
