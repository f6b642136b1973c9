-------------------------------- MODULE Ndf --------------------------------
(***************************************************************************)
(* The 2-2-1 network on the fabric: the sequencer, the signed MAC cells in *)
(* their shells and the serialising organs of tt_um_saltworks_ndf, as      *)
(* docs/hdl-tools/gen_ndf_wrapper.py prints them, and the host that sends  *)
(* weights and inputs on the edge line.  Nothing hand-shakes: who sends    *)
(* and who listens is a matter of counting clocks from the last sof.       *)
(*                                                                         *)
(* A payload is named by the frame it is sent in.  A word is its 32 bits,  *)
(* bit 0 first.  The accumulator is the sequence of its addends; the cell  *)
(* that adds them is proved elsewhere, over the trace it is given.         *)
(***************************************************************************)
EXTENDS Fabric, Sequences

Cell == 0..2
EDGE_IN == 4
EDGE_OUT == 5
LastFrame == 22

VARIABLES
    cyc, frm,      \* the sequencer's clock and frame
    ext, sh,       \* clocks of sign extension left, and the sign, by cell
    wsh, accum,    \* the cells' weight registers and accumulators
    ser,           \* the serialising registers
    sent           \* the host's clock since its sof, -1 before the first

ndf == <<cyc, frm, ext, sh, wsh, accum, ser, sent>>

Junk == -2
Word32 == 1..32

---------------------------------------------------------------------------
(* The timetable, as the host plays it and as the sequencer decodes it.    *)

\* Destination of the host's payload in frame f, -1 for none.
HostDest(f) ==
    CASE f \in {0, 3, 6, 8, 11} -> 0
      [] f \in {1, 4, 7, 9, 12} -> 1
      [] f \in {2, 5, 14} -> 2
      [] OTHER -> -1

HostBit ==
    LET f == sent \div FRAME
    IN  IF sent = -1 \/ HostDest(f) = -1 THEN Low ELSE FrameBit(HostDest(f), f, sent % FRAME)

frame_end == cyc = 13
payload == cyc >= 6

ld_f(k) == frm \in (CASE k = 0 -> {0, 3, 8} [] k = 1 -> {1, 4, 9} [] k = 2 -> {2, 5, 14})
st_f(k) == frm \in (CASE k = 0 -> {6, 11} [] k = 1 -> {7, 12} [] k = 2 -> {13, 17})
bias(k) == frm = 2 + k /\ cyc = 11
clr == frm = 0 /\ cyc = 0
ser_load(k) == frame_end /\ frm = (CASE k = 0 -> 12 [] k = 1 -> 16 [] k = 2 -> 17)
em_f(k) == frm = (CASE k = 0 -> 13 [] k = 1 -> 17 [] k = 2 -> 18)
EmitDest(k) == IF k = 2 THEN EDGE_OUT ELSE 2

hdr_bit(k) ==
    IF cyc \in {0, 2, 4} \/ BitOf(EmitDest(k), IF cyc = 1 THEN 2 ELSE IF cyc = 3 THEN 1 ELSE 0) = 1
    THEN One ELSE Low

fab_in ==
    [l \in Line |->
        IF l \in Cell /\ em_f(l) THEN IF payload THEN ser[l][1] ELSE hdr_bit(l)
        ELSE IF l = EDGE_IN THEN HostBit
        ELSE Low]

fab_out == Dout(fab_in)

---------------------------------------------------------------------------
(* What the sequencer drives into the cells.                               *)

x(k) ==
    IF bias(k) THEN One
    ELSE IF ld_f(k) /\ payload THEN fab_out[k]
    ELSE IF ext[k] # 0 THEN sh[k]
    ELSE IF st_f(k) /\ payload THEN fab_out[k]
    ELSE Low

loads(k) == (ld_f(k) /\ payload) \/ ext[k] # 0
sgn(k) == st_f(k) /\ frame_end

\* Faulty form: the accumulator runs while a weight is shifted in.
en_a_live(k) == loads(k) \/ (st_f(k) /\ payload) \/ bias(k)

en_a(k) == (st_f(k) /\ payload) \/ bias(k)
en_w(k) == loads(k) \/ en_a(k)

---------------------------------------------------------------------------
(* The words that the properties tell apart.                               *)

\* The register after payload m and the extension by its last bit: a left
\* shift with the newest bit at the bottom, so the first bit is at the top.
Loaded(m) == [i \in Word32 |-> IF i <= 25 THEN {<<m, 7>>} ELSE {<<m, 32 - i>>}]

Shifted(w, j) == [i \in Word32 |-> IF i <= j THEN Low ELSE w[i - j]]

\* Which payload a register holds and how far it has been shifted since.
Weights == {f \in 0..LastFrame : \E k \in Cell : f \in {k, 3 + k} \union {8, 9, 14}}

Content(w) ==
    LET is == {mj \in Weights \X (0..7) : w = Shifted(Loaded(mj[1]), mj[2])}
    IN  IF is = {} THEN <<Junk, 0>> ELSE CHOOSE mj \in is : TRUE

\* One multiplication: the bits of payload m from bit o on meet the weight w,
\* shifted once more for each, and the last subtracts.
Product(w, m, o) ==
    [b \in 1..8 |-> [w |-> <<w, b - 1>>, x |-> {<<m, o + b - 1>>}, minus |-> b = 8]]

Result(k) == 20 + k

\* A result is serialised from the clock before its own frame's header, so
\* its payload is what is left of it after HDR shifts.
Neuron(k) ==
    <<[w |-> <<k, 0>>, x |-> One, minus |-> FALSE]>>
        \o (IF k = 2 THEN Product(5, Result(0), HDR) \o Product(14, Result(1), HDR)
            ELSE Product(3 + k, 6 + k, 0) \o Product(8 + k, 11 + k, 0))

\* The cell's output is the live sum.
Sum(k) ==
    IF x(k) = Low THEN accum[k]
    ELSE Append(accum[k], [w |-> Content(wsh[k]), x |-> x(k), minus |-> sgn(k)])

Activated(k) ==
    LET r == IF Sum(k) = Neuron(k) THEN Result(k) ELSE Junk
    IN  [i \in Word32 |-> {<<r, i - 1>>}]

---------------------------------------------------------------------------
(* The clock edge.                                                         *)

Sequencer(sof) ==
    /\ cyc' = IF sof \/ frame_end THEN 0 ELSE cyc + 1
    /\ frm' = IF sof THEN 0 ELSE IF frame_end /\ frm # LastFrame THEN frm + 1 ELSE frm

Extension(sof) ==
    /\ ext' = [k \in Cell |->
                  IF sof THEN 0 ELSE IF ld_f(k) /\ frame_end THEN 24
                  ELSE IF ext[k] # 0 THEN ext[k] - 1 ELSE 0]
    /\ sh' = [k \in Cell |-> IF ld_f(k) /\ frame_end THEN fab_out[k] ELSE sh[k]]

Cells ==
    /\ wsh' = [k \in Cell |->
                  IF ~en_w(k) THEN wsh[k]
                  ELSE <<IF loads(k) THEN x(k) ELSE Low>> \o SubSeq(wsh[k], 1, 31)]
    /\ accum' = [k \in Cell |-> IF clr THEN <<>> ELSE IF en_a(k) THEN Sum(k) ELSE accum[k]]

\* No shift enable: the organ shifts on every clock that does not load it.
Organs ==
    ser' = [k \in Cell |-> IF ser_load(k) THEN Activated(k) ELSE Tail(ser[k]) \o <<Low>>]

NdfEdge(sof) ==
    /\ FabricEdge(sof, fab_in)
    /\ Sequencer(sof) /\ Extension(sof) /\ Cells /\ Organs

CONSTANTS PowerUps \* the counters' values at power-up

\* No register has a known value before the first sof.
Stale ==
    /\ sh = [k \in Cell |-> Low]
    /\ wsh = [k \in Cell |-> Loaded(Junk)]
    /\ accum = [k \in Cell |-> <<[w |-> <<Junk, 0>>, x |-> One, minus |-> FALSE]>>]
    /\ ser = [k \in Cell |-> [i \in Word32 |-> {<<Junk, i>>}]]
    /\ sent = -1

NdfInit ==
    /\ \E p \in PowerUps : cyc = p.cyc /\ frm = p.frm /\ ext = [k \in Cell |-> p.ext]
    /\ Stale

\* The host starts a run; a run it has started may be cut short at any clock.
Launch == NdfEdge(TRUE) /\ sent' = 0

Clock ==
    /\ sent # -1
    /\ NdfEdge(FALSE)
    /\ sent' = IF sent < FRAME * (LastFrame + 1) - 1 THEN sent + 1 ELSE FRAME * LastFrame

---------------------------------------------------------------------------

\* Once a run is started, fabric, sequencer and host count the same clock,
\* and in frame 18 the edge line carries the result of the whole network:
\* each cell cleared, its bias taken once, each weight reloaded in full and
\* shifted only by its own products, each product of eight bits in order with
\* the last subtracted, each result serialised when complete.  It is so after
\* any power-up and after a run that was cut short at any clock: what
\* docs/ndf-account.md leaves to "when driven".
InferenceIsWhole ==
    sent # -1 =>
        /\ cnt = cyc /\ sent = FRAME * frm + cyc
        /\ frm = 18 /\ payload => fab_out[EDGE_OUT] = {<<Result(2), cyc>>}
=============================================================================
