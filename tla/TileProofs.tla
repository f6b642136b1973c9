----------------------------- MODULE TileProofs -----------------------------
(***************************************************************************)
(* The core on its byte bus does what a program sees, for every word size, *)
(* register file, program image and placing of the sof pulses, as long as  *)
(* every host resets the whole frame at a pulse or keeps the rule.  The    *)
(* fabric delivers every load its senders may offer, for every number of   *)
(* stages and every payload.  The network on the tile's own fabric brings  *)
(* its result to the edge line, after any power-up and any cut-off run.    *)
(***************************************************************************)
EXTENDS Tile, FiniteSetTheorems, FunctionTheorems, WellFoundedInduction, SequenceTheorems,
    TLAPS

\* A host that cannot lose the frame.
Safe(h) == h.realign = "frame" \/ h.rule

\* A lane of the word at the address a of the image, and one of a datum.
ProgLane(a, n) == [from |-> "prog", val |-> a, lane |-> n]
DataLane(v, n) == [from |-> "data", val |-> v, lane |-> n]

BusType ==
    /\ phase \in Phase /\ kind \in {FETCH, LOAD, STORE}
    /\ store_beat \in BOOLEAN /\ load_beat \in BOOLEAN /\ fetch_owed \in BOOLEAN
    /\ in_acc \in [Phase -> Byte] /\ instr_r \in Instr /\ rdata_r \in Word
    /\ pc \in Word /\ regs \in [Reg -> Word]
    /\ sa \in [Phase -> Byte] /\ staddr \in Byte /\ sword \in Byte
    /\ mem \in [Word -> Word] /\ prog \in [Word -> Instr] /\ host \in Hosts

\* What is resident outside a fetch is the memory instruction at pc; in one, a
\* memory instruction is resident only if it has retired.
Resident ==
    /\ kind = FETCH /\ ~fetch_owed => ~Req(instr_r)
    /\ kind # FETCH =>
           /\ ~fetch_owed /\ instr_r = prog[pc] /\ Req(instr_r)
           /\ kind = IF We(instr_r) THEN STORE ELSE LOAD

\* What is under way on the pins: the instruction at pc; the address of a load,
\* then its datum; the address of a store, then its datum.
UnderWay ==
    /\ kind = FETCH /\ phase # 0 =>
           /\ sword = ProgLane(pc, 0)
           /\ \A n \in Phase : n < phase => in_acc[n] = ProgLane(pc, n)
    /\ kind = LOAD /\ ~load_beat /\ phase # 0 => sa[0] = DataLane(Ea(regs, instr_r), 0)
    /\ kind = LOAD /\ load_beat =>
           /\ sword = DataLane(mem[Ea(regs, instr_r)], 0)
           /\ \A n \in Phase : n < phase => in_acc[n] = DataLane(mem[Ea(regs, instr_r)], n)
    /\ kind = STORE /\ (store_beat \/ phase # 0) => staddr = DataLane(Ea(regs, instr_r), 0)
    /\ kind = STORE /\ store_beat =>
           \A n \in Phase : n < phase => sa[n] = DataLane(regs[instr_r.rt], n)

BusInv == BusType /\ InFrame /\ Resident /\ UnderWay

------------------------------------------------------------------------------
(* The combinational part.                                                 *)

\* Sums wrap around.
LEMMA PlusWraps ==
    ASSUME NEW m \in Nat, NEW n \in Nat
    PROVE  Plus(m, n) \in Word
BY CoreAssumption DEF Plus, Word

\* The next state of the core is of its type.
LEMMA CoreTypes ==
    ASSUME NEW p \in Word, NEW r \in [Reg -> Word], NEW i \in Instr, NEW d \in Word
    PROVE  Ea(r, i) \in Word /\ NextPc(p, r, i) \in Word /\ NextRegs(p, r, i, d) \in [Reg -> Word]
<1>1. /\ i.rs \in Reg /\ i.rt \in Reg /\ i.rd \in Reg /\ i.imm \in Word
      /\ r[i.rs] \in Word /\ r[i.rt] \in Word /\ Word \subseteq Nat /\ 1 \in Nat
    BY DEF Instr, Word
<1>2. Ea(r, i) \in Word /\ Plus(p, 1) \in Word /\ Plus(p, i.imm) \in Word
    BY <1>1, PlusWraps DEF Ea
<1>3. NextPc(p, r, i) \in Word /\ WbVal(p, r, i, d) \in Word
    BY <1>2 DEF NextPc, WbVal
<1>4. NextRegs(p, r, i, d) \in [Reg -> Word]
    BY <1>1, <1>3 DEF NextRegs
<1>5. QED
    BY <1>2, <1>3, <1>4

------------------------------------------------------------------------------
(* What stands on the pins in a frame that both sides agree on.            *)

\* The server knows what the chip is at.
LEMMA Agreed ==
    ASSUME BusInv
    PROVE  /\ Type = kind /\ sphase = phase
           /\ phase # 0 => phase_pins = sphase
           /\ sbeat \in BOOLEAN
           /\ kind = FETCH => sbeat = FALSE
           /\ kind = LOAD => sbeat = load_beat
           /\ kind = STORE => sbeat = store_beat
<1>1. /\ sphase = phase /\ (phase # 0 => stype = kind)
      /\ sbeat = ((kind = LOAD /\ load_beat) \/ (kind = STORE /\ store_beat))
      /\ load_beat \in BOOLEAN /\ store_beat \in BOOLEAN
    BY DEF BusInv, BusType, InFrame
<1>2. FETCH # LOAD /\ FETCH # STORE /\ LOAD # STORE
    BY DEF FETCH, LOAD, STORE
<1>3. Type = kind /\ (phase # 0 => phase_pins = sphase)
    BY <1>1 DEF Type, phase_pins
<1>4. /\ sbeat \in BOOLEAN
      /\ kind = FETCH => sbeat = FALSE
      /\ kind = LOAD => sbeat = load_beat
      /\ kind = STORE => sbeat = store_beat
    BY <1>1, <1>2, Zenon
<1>5. QED
    BY <1>1, <1>3, <1>4

\* What is looked up, and what comes back.
LEMMA Answered ==
    ASSUME BusInv
    PROVE  /\ kind = FETCH => Lookup = ProgLane(pc, 0) /\ pin_in = ProgLane(pc, phase)
           /\ kind = LOAD /\ load_beat =>
                  Lookup = sword /\ pin_in = DataLane(mem[Ea(regs, instr_r)], phase)
           /\ kind = LOAD /\ ~load_beat /\ phase = 3 =>
                  Lookup = DataLane(mem[Ea(regs, instr_r)], 0)
           /\ Lookup \in Byte /\ pin_in \in Byte /\ pin_out \in Byte
<1>0. /\ phase \in 0..3 /\ kind \in {1, 2, 3} /\ BusType /\ UnderWay /\ Word \subseteq Nat
      /\ pc \in Word /\ Ea(regs, instr_r) \in Word /\ regs[instr_r.rt] \in Word
    <2>1. BusType /\ UnderWay
        BY DEF BusInv
    <2>2. phase \in 0..3 /\ kind \in {1, 2, 3}
        BY <2>1 DEF BusType, Phase, FETCH, LOAD, STORE
    <2>3. pc \in Word /\ regs \in [Reg -> Word] /\ instr_r \in Instr /\ rdata_r \in Word
        BY <2>1 DEF BusType
    <2>4. instr_r.rt \in Reg
        BY <2>3 DEF Instr
    <2>5. Ea(regs, instr_r) \in Word
        BY <2>3, CoreTypes
    <2>6. Word \subseteq Nat
        BY DEF Word
    <2>7. QED
        BY <2>1, <2>2, <2>3, <2>4, <2>5, <2>6
<1>a. Type = kind /\ sphase = phase /\ FETCH # LOAD
    BY Agreed DEF FETCH, LOAD
<1>1. pin_out = [from |-> "data", val |-> out_word, lane |-> phase] /\ out_word \in Word
    BY <1>0 DEF pin_out, out_word
<1>2. pin_out \in Byte /\ LowByte(pin_out) \in Word
    BY <1>0, <1>1, CoreAssumption DEF Byte, Phase, LowByte, Word
<1>3. kind = FETCH => Lookup = ProgLane(pc, 0) /\ pin_in = ProgLane(pc, phase)
    <2> SUFFICES ASSUME kind = FETCH
                 PROVE  Lookup = ProgLane(pc, 0) /\ pin_in = ProgLane(pc, phase)
        OBVIOUS
    <2>1. Lookup = ProgLane(pc, 0)
        <3>1. CASE phase = 0
            BY <1>a, <1>1, <3>1 DEF Lookup, LowByte, ProgLane, out_word, pin_out
        <3>2. CASE phase # 0
            BY <1>0, <1>a, <3>2 DEF Lookup, UnderWay
        <3>3. QED
            BY <3>1, <3>2
    <2>2. pin_in = ProgLane(pc, phase)
        BY <2>1, <1>a DEF pin_in, Lane, ProgLane
    <2>3. QED
        BY <2>1, <2>2
<1>4. kind = LOAD /\ load_beat =>
          Lookup = sword /\ pin_in = DataLane(mem[Ea(regs, instr_r)], phase)
    <2> SUFFICES ASSUME kind = LOAD, load_beat
                 PROVE  Lookup = sword /\ pin_in = DataLane(mem[Ea(regs, instr_r)], phase)
        OBVIOUS
    <2>1. Lookup = sword /\ sbeat
        <3>1. sbeat = TRUE
            BY Agreed, Zenon
        <3>2. QED
            BY <1>a, <3>1 DEF Lookup
    <2>2. sword = DataLane(mem[Ea(regs, instr_r)], 0)
        BY <1>0 DEF UnderWay
    <2>3. pin_in = Lane(sword, phase)
        BY <1>a, <2>1 DEF pin_in
    <2>4. QED
        BY <2>1, <2>2, <2>3 DEF Lane, DataLane
<1>5. kind = LOAD /\ ~load_beat /\ phase = 3 => Lookup = DataLane(mem[Ea(regs, instr_r)], 0)
    <2> SUFFICES ASSUME kind = LOAD, ~load_beat, phase = 3
                 PROVE  Lookup = DataLane(mem[Ea(regs, instr_r)], 0)
        OBVIOUS
    <2>1. Lookup = [from |-> "data", val |-> mem[LowByte(Addr[0])], lane |-> 0]
        <3>1. sbeat = FALSE
            BY Agreed, Zenon
        <3>2. QED
            BY <1>a, <3>1 DEF Lookup
    <2>2. Addr[0] = sa[0] /\ sa[0] = DataLane(Ea(regs, instr_r), 0)
        BY <1>0, <1>a DEF Addr, BusType, Phase, UnderWay
    <2>3. LowByte(Addr[0]) = Ea(regs, instr_r)
        BY <2>2 DEF LowByte, DataLane
    <2>4. QED
        BY <2>1, <2>3 DEF DataLane
<1>6. Lookup \in Byte
    <2>1. mem[LowByte(Addr[0])] \in Word /\ sword \in Byte
        <3>1. Addr[0] \in Byte
            BY <1>0, <1>a, <1>2 DEF Addr, BusType, Phase
        <3>2. LowByte(Addr[0]) \in Word
            BY <3>1, CoreAssumption DEF LowByte, Byte, Word
        <3>3. QED
            BY <1>0, <3>2 DEF BusType
    <2>2. 0 \in Phase
        BY DEF Phase
    <2>3. QED
        BY <1>2, <2>1, <2>2 DEF Lookup, Byte
<1>7. pin_in \in Byte
    <2>1. Lane(Lookup, sphase) \in Byte /\ Quiet \in Byte
        BY <1>0, <1>a, <1>6, CoreAssumption DEF Lane, Byte, Quiet, Phase, Word
    <2>2. QED
        BY <2>1 DEF pin_in
<1>8. QED
    BY <1>2, <1>3, <1>4, <1>5, <1>6, <1>7

\* Four lanes of a word make the word.
LEMMA WordOfLanes ==
    ASSUME NEW l \in [Phase -> Byte], NEW v \in Word
    PROVE  /\ (\A n \in Phase : l[n] = ProgLane(v, n)) => AsInstr(l) = prog[v]
           /\ (\A n \in Phase : l[n] = DataLane(v, n)) => AsData(l) = v
<1>1. 0 \in Phase
    BY DEF Phase
<1>2. ASSUME \A n \in Phase : l[n] = ProgLane(v, n)
      PROVE  AsInstr(l) = prog[v]
    BY <1>1, <1>2 DEF AsInstr, Whole, ProgLane
<1>3. ASSUME \A n \in Phase : l[n] = DataLane(v, n)
      PROVE  AsData(l) = v
    BY <1>1, <1>3 DEF AsData, Whole, DataLane
<1>4. QED
    BY <1>2, <1>3

\* Any lanes make some word.
LEMMA WordOfAny ==
    ASSUME BusType, NEW l \in [Phase -> Byte]
    PROVE  AsInstr(l) \in Instr /\ AsData(l) \in Word
<1>1. l[0] \in Byte /\ Inert \in Instr /\ 0 \in Word
    BY CoreAssumption DEF Phase, Inert, Instr, Reg, Word
<1>2. QED
    BY <1>1 DEF AsInstr, AsData, BusType, Byte

\* At the end of a loop the core decodes the instruction at pc, whole; and
\* what a fetch has complete, or what is resident, at every clock.
LEMMA Decoded ==
    ASSUME BusInv
    PROVE  /\ phase = 3 => c_instr = prog[pc]
           /\ c_instr \in Instr /\ assembled \in [Phase -> Byte]
           /\ ~instr_avail => c_instr = instr_r
<1>1. BusType /\ Resident /\ UnderWay /\ pin_in \in Byte /\ phase \in 0..3
    BY Answered DEF BusInv, BusType, Phase
<1>2. assembled \in [Phase -> Byte]
    BY <1>1 DEF assembled, BusType, Phase
<1>3. c_instr \in Instr
    BY <1>1, <1>2, WordOfAny DEF c_instr, BusType
<1>4. ASSUME phase = 3
      PROVE  c_instr = prog[pc]
    <2>1. CASE kind = FETCH
        <3>1. pin_in = ProgLane(pc, 3)
            BY <1>4, <2>1, Answered
        <3>2. \A n \in Phase : assembled[n] = ProgLane(pc, n)
            BY <1>1, <1>4, <2>1, <3>1 DEF assembled, UnderWay, BusType, Phase
        <3>3. AsInstr(assembled) = prog[pc]
            BY <1>1, <1>2, <3>2, WordOfLanes DEF BusType
        <3>4. QED
            BY <1>4, <2>1, <3>3 DEF c_instr, instr_avail, loop_end
    <2>2. CASE kind # FETCH
        BY <1>1, <2>2 DEF c_instr, instr_avail, Resident
    <2>3. QED
        BY <2>1, <2>2
<1>5. QED
    BY <1>2, <1>3, <1>4 DEF c_instr

------------------------------------------------------------------------------
(* One clock.                                                              *)

\* A pulse the host may give, and what the parts then do.
Edge(sof) ==
    /\ sof => (host.rule => Permitted)
    /\ Adapter(sof) /\ Core /\ Server(sof)

\* The three kinds of transaction are distinct codes.
LEMMA Kinds == FETCH # LOAD /\ FETCH # STORE /\ LOAD # STORE
BY DEF FETCH, LOAD, STORE

\* Only at a loop's end anything retires: the instruction at pc.  A load or a
\* store does in its own transaction, at the end of its data loop.
LEMMA Retires ==
    ASSUME BusInv
    PROVE  /\ retire => phase = 3 /\ c_instr = prog[pc]
           /\ retire /\ kind = FETCH => ~Req(c_instr)
           /\ kind = LOAD => (retire <=> phase = 3 /\ load_beat) /\ c_instr.op = "lw"
           /\ kind = STORE => (retire <=> phase = 3 /\ store_beat) /\ c_instr.op = "sw"
           /\ mem_retire_now <=> retire /\ kind # FETCH
           /\ instr_avail <=> kind = FETCH /\ phase = 3
<1>1. kind \in {FETCH, LOAD, STORE} /\ Resident
    BY DEF BusInv, BusType
<1>2. retire => phase = 3 /\ c_instr = prog[pc]
    BY Decoded DEF retire, loop_end
<1>3. instr_avail <=> kind = FETCH /\ phase = 3
    BY DEF instr_avail, loop_end
<1>4. mem_retire_now <=> retire /\ kind # FETCH
    BY <1>1, Kinds DEF mem_retire_now
<1>5. retire /\ kind = FETCH => ~Req(c_instr)
    BY Kinds DEF retire
<1>6. ASSUME kind # FETCH
      PROVE  /\ c_instr = instr_r /\ c_instr.op \in {"lw", "sw"}
             /\ kind = IF c_instr.op = "sw" THEN STORE ELSE LOAD
    BY <1>1, <1>3, <1>6, Decoded DEF Resident, Req, We
<1>7. /\ kind = LOAD => (retire <=> phase = 3 /\ load_beat) /\ c_instr.op = "lw"
      /\ kind = STORE => (retire <=> phase = 3 /\ store_beat) /\ c_instr.op = "sw"
    BY <1>6, Kinds DEF retire, loop_end
<1>8. QED
    BY <1>2, <1>3, <1>4, <1>5, <1>7

\* A clock keeps the types.
LEMMA TypeStep ==
    ASSUME BusInv, NEW sof \in BOOLEAN, Edge(sof)
    PROVE  BusType'
<1>1. BusType /\ phase \in 0..3
    BY DEF BusInv, BusType, Phase
<1>2. /\ phase' = IF sof THEN 0 ELSE (phase + 1) % 4
      /\ kind' = NextKind(sof)
      /\ store_beat' = NextBeat(STORE, store_beat, sof)
      /\ load_beat' = NextBeat(LOAD, load_beat, sof)
      /\ fetch_owed' = (~instr_avail /\ (mem_retire_now \/ fetch_owed))
    BY DEF Edge, Adapter, Count, Arbitrate, Owe
<1>3. phase' \in Phase
    BY <1>1, <1>2 DEF Phase
<1>4. kind' \in {FETCH, LOAD, STORE}
    BY <1>1, <1>2 DEF NextKind, Transaction, BusType
<1>5. store_beat' \in BOOLEAN /\ load_beat' \in BOOLEAN /\ fetch_owed' \in BOOLEAN
    BY <1>1, <1>2 DEF NextBeat, BusType
<1>6. in_acc' \in [Phase -> Byte] /\ instr_r' \in Instr /\ rdata_r' \in Word
    <2>1. in_acc' \in [Phase -> Byte]
        BY <1>1, Answered DEF Edge, Adapter, Assemble, BusType
    <2>2. instr_r' \in Instr /\ rdata_r' \in Word
        BY <1>1, Decoded, WordOfAny DEF Edge, Adapter, Assemble, BusType
    <2>3. QED
        BY <2>1, <2>2
<1>7. pc' \in Word /\ regs' \in [Reg -> Word]
    BY <1>1, Decoded, CoreTypes DEF Edge, Core, BusType
<1>8. sa' \in [Phase -> Byte] /\ staddr' \in Byte /\ sword' \in Byte
    BY <1>1, Answered DEF Edge, Server, Addr, BusType
<1>9. mem' \in [Word -> Word] /\ prog' \in [Word -> Instr] /\ host' \in Hosts
    <2>1. Addr \in [Phase -> Byte]
        BY <1>1, Answered DEF Addr, BusType
    <2>2. AsData(Addr) \in Word
        BY <1>1, <2>1, WordOfAny
    <2>3. Write \in [Word -> Word]
        BY <1>1, <2>2 DEF Write, BusType
    <2>4. QED
        BY <1>1, <2>3 DEF Edge, Server, BusType
<1>10. QED
    BY <1>3, <1>4, <1>5, <1>6, <1>7, <1>8, <1>9 DEF BusType

\* A clock, a pulse included, keeps the two sides in one frame.
LEMMA FrameStep ==
    ASSUME BusInv, Safe(host), NEW sof \in BOOLEAN, Edge(sof)
    PROVE  InFrame'
<1>1. /\ BusType /\ phase \in 0..3 /\ ~desync /\ kind \in {FETCH, LOAD, STORE}
      /\ store_beat \in BOOLEAN /\ load_beat \in BOOLEAN
    BY DEF BusInv, BusType, Phase, InFrame
<1>2. /\ phase' = IF sof THEN 0 ELSE (phase + 1) % 4
      /\ kind' = NextKind(sof)
      /\ store_beat' = NextBeat(STORE, store_beat, sof)
      /\ load_beat' = NextBeat(LOAD, load_beat, sof)
    BY DEF Edge, Adapter, Count, Arbitrate
<1>3. /\ stype' = Type
      /\ desync' = (desync \/ (sphase # 0 /\ phase_pins # sphase))
      /\ sphase' = IF sof THEN 0 ELSE (sphase + 1) % 4
      /\ sbeat' = IF sof /\ host.realign = "frame" THEN FALSE
                  ELSE IF sphase = 3 THEN Type \in {LOAD, STORE} /\ ~sbeat
                  ELSE sbeat
    BY DEF Edge, Server
<1>4. sphase' = phase' /\ ~desync'
    BY <1>1, <1>2, <1>3, Agreed
<1>5. ASSUME phase' # 0
      PROVE  ~sof /\ phase # 3 /\ stype' = kind /\ kind' = kind
    BY <1>1, <1>2, <1>3, <1>5, Agreed DEF NextKind, loop_end
<1>6. sbeat' = ((kind' = LOAD /\ load_beat') \/ (kind' = STORE /\ store_beat'))
    <2>1. CASE sof
        <3>1. store_beat' = FALSE /\ load_beat' = FALSE
            BY <1>2, <2>1 DEF NextBeat
        <3>2. CASE host.realign = "frame"
            BY <1>3, <2>1, <3>1, <3>2
        <3>3. CASE host.rule
            <4>1. kind = FETCH
                BY <2>1, <3>3 DEF Edge, Permitted
            <4>2. Type = FETCH /\ sbeat = FALSE /\ FETCH \notin {LOAD, STORE}
                BY <4>1, Agreed, Kinds
            <4>3. sbeat' = FALSE
                BY <1>3, <4>2
            <4>4. QED
                BY <3>1, <4>3
        <3>4. QED
            BY <3>2, <3>3 DEF Safe
    <2>2. CASE ~sof /\ phase # 3
        <3>1. kind' = kind /\ store_beat' = store_beat /\ load_beat' = load_beat /\ sbeat' = sbeat
            BY <1>1, <1>2, <1>3, <2>2, Agreed DEF NextKind, NextBeat, loop_end
        <3>2. sbeat = ((kind = LOAD /\ load_beat) \/ (kind = STORE /\ store_beat))
            BY DEF BusInv, InFrame
        <3>3. QED
            BY <3>1, <3>2
    <2>3. CASE ~sof /\ phase = 3
        <3>1. sbeat' = (kind \in {LOAD, STORE} /\ ~sbeat)
            BY <1>3, <2>3, Agreed
        <3>2. CASE kind = FETCH
            BY <1>2, <2>3, <3>1, <3>2, Kinds DEF NextBeat, loop_end
        <3>3. CASE kind = LOAD
            <4>1. CASE load_beat
                <5>1. retire /\ kind' = FETCH /\ sbeat = TRUE
                    BY <1>2, <2>3, <3>3, <4>1, Agreed, Retires DEF NextKind, loop_end
                <5>2. QED
                    BY <3>1, <5>1, Kinds
            <4>2. CASE ~load_beat
                <5>1. ~retire /\ kind' = LOAD /\ load_beat' = TRUE /\ sbeat = FALSE
                    BY <1>1, <1>2, <2>3, <3>3, <4>2, Agreed, Retires, Kinds
                    DEF NextKind, NextBeat, loop_end
                <5>2. QED
                    BY <3>1, <3>3, <5>1, Kinds
            <4>3. QED
                BY <4>1, <4>2
        <3>4. CASE kind = STORE
            <4>1. CASE store_beat
                <5>1. retire /\ kind' = FETCH /\ sbeat = TRUE
                    BY <1>2, <2>3, <3>4, <4>1, Agreed, Retires DEF NextKind, loop_end
                <5>2. QED
                    BY <3>1, <5>1, Kinds
            <4>2. CASE ~store_beat
                <5>1. ~retire /\ kind' = STORE /\ store_beat' = TRUE /\ sbeat = FALSE
                    BY <1>1, <1>2, <2>3, <3>4, <4>2, Agreed, Retires, Kinds
                    DEF NextKind, NextBeat, loop_end
                <5>2. QED
                    BY <3>1, <3>4, <5>1, Kinds
            <4>3. QED
                BY <4>1, <4>2
        <3>5. QED
            BY <1>1, <3>2, <3>3, <3>4
    <2>4. QED
        BY <2>1, <2>2, <2>3
<1>7. QED
    BY <1>4, <1>5, <1>6 DEF InFrame

\* A clock, a pulse included, leaves no stale instruction resident.
LEMMA ResidentStep ==
    ASSUME BusInv, NEW sof \in BOOLEAN, Edge(sof)
    PROVE  Resident'
<1>1. BusType /\ Resident /\ kind \in {FETCH, LOAD, STORE}
    BY DEF BusInv, BusType
<1>2. /\ kind' = NextKind(sof)
      /\ fetch_owed' = (~instr_avail /\ (mem_retire_now \/ fetch_owed))
      /\ instr_r' = c_instr /\ prog' = prog
      /\ ~retire => pc' = pc
    BY DEF Edge, Adapter, Arbitrate, Owe, Assemble, Core, Server, c_instr
<1>3. Transaction \in {LOAD, STORE}
    BY DEF Transaction
<1>4. ASSUME kind' = FETCH, ~fetch_owed'
      PROVE  ~Req(instr_r')
    <2>1. CASE instr_avail
        <3>1. kind = FETCH /\ ~stale_decode /\ loop_end
            BY <2>1 DEF stale_decode, instr_avail
        <3>2. ~Req(c_instr)
            BY <1>2, <1>3, <1>4, <3>1, Kinds, Retires DEF NextKind
        <3>3. QED
            BY <1>2, <3>2
    <2>2. CASE ~instr_avail
        <3>1. ~mem_retire_now /\ ~fetch_owed /\ c_instr = instr_r
            BY <1>2, <1>4, <2>2, Decoded
        <3>2. CASE kind = FETCH
            BY <1>1, <1>2, <3>1, <3>2 DEF Resident
        <3>3. CASE kind # FETCH
            <4>1. ~retire /\ ~stale_decode
                BY <3>1, <3>3, Retires DEF stale_decode
            <4>2. QED
                BY <1>2, <1>3, <1>4, <3>3, <4>1, Kinds DEF NextKind
        <3>4. QED
            BY <3>2, <3>3
    <2>3. QED
        BY <2>1, <2>2
<1>5. ASSUME kind' # FETCH
      PROVE  /\ ~fetch_owed' /\ instr_r' = prog'[pc'] /\ Req(instr_r')
             /\ kind' = IF We(instr_r') THEN STORE ELSE LOAD
    <2>1. CASE instr_avail
        <3>1. kind = FETCH /\ loop_end /\ phase = 3
            BY <2>1 DEF instr_avail, loop_end
        <3>2. ~fetch_owed' /\ c_instr = prog[pc] /\ ~stale_decode
            BY <1>2, <2>1, <3>1, Decoded DEF stale_decode
        <3>3. Req(c_instr) /\ kind' = Transaction
            <4>1. CASE sof
                BY <1>2, <1>5, <4>1 DEF NextKind
            <4>2. CASE ~sof
                <5>1. ~retire /\ kind' = Transaction
                    BY <1>2, <1>5, <3>1, <4>2 DEF NextKind
                <5>2. QED
                    BY <3>1, <5>1 DEF retire
            <4>3. QED
                BY <4>1, <4>2
        <3>4. ~retire
            BY <3>1, <3>3, Retires
        <3>5. QED
            BY <1>2, <3>2, <3>3, <3>4 DEF Transaction
    <2>2. CASE ~instr_avail
        <3>1. c_instr = instr_r
            BY <2>2, Decoded
        <3>2. kind # FETCH /\ ~mem_retire_now
            <4>1. CASE sof
                <5>1. Req(c_instr) /\ ~fetch_owed /\ ~mem_retire_now
                    BY <1>2, <1>5, <2>2, <4>1 DEF NextKind, stale_decode
                <5>2. QED
                    BY <1>1, <3>1, <5>1 DEF Resident
            <4>2. CASE ~sof
                <5>1. CASE loop_end
                    BY <1>2, <1>5, <2>2, <4>2, <5>1, Retires DEF NextKind, instr_avail
                <5>2. CASE ~loop_end
                    BY <1>2, <1>5, <4>2, <5>2 DEF NextKind, mem_retire_now, retire
                <5>3. QED
                    BY <5>1, <5>2
            <4>3. QED
                BY <4>1, <4>2
        <3>3. /\ ~fetch_owed /\ instr_r = prog[pc] /\ Req(instr_r) /\ ~retire
              /\ kind = IF We(instr_r) THEN STORE ELSE LOAD
            BY <1>1, <3>2, Retires DEF Resident
        <3>4. kind' = IF We(instr_r) THEN STORE ELSE LOAD
            BY <1>2, <1>5, <3>1, <3>2, <3>3 DEF NextKind, Transaction
        <3>5. QED
            BY <1>2, <3>1, <3>2, <3>3, <3>4
    <2>3. QED
        BY <2>1, <2>2
<1>6. QED
    BY <1>4, <1>5 DEF Resident

\* A clock passes the next lane.
LEMMA UnderWayStep ==
    ASSUME BusInv, NEW sof \in BOOLEAN, Edge(sof)
    PROVE  UnderWay'
<1>1. /\ BusType /\ UnderWay /\ kind \in {FETCH, LOAD, STORE} /\ phase \in 0..3
      /\ in_acc \in [Phase -> Byte] /\ sa \in [Phase -> Byte]
    BY DEF BusInv, BusType, Phase
<1>2. /\ phase' = IF sof THEN 0 ELSE (phase + 1) % 4
      /\ kind' = NextKind(sof)
      /\ store_beat' = NextBeat(STORE, store_beat, sof)
      /\ load_beat' = NextBeat(LOAD, load_beat, sof)
      /\ in_acc' = IF loop_end THEN in_acc ELSE [in_acc EXCEPT ![phase] = pin_in]
      /\ instr_r' = c_instr
      /\ ~retire => pc' = pc /\ regs' = regs
      /\ sword' = Lookup /\ sa' = [sa EXCEPT ![phase] = pin_out] /\ mem' = Write
      /\ staddr' = IF kind = STORE /\ ~sbeat /\ phase = 0 THEN pin_out ELSE staddr
    BY Agreed DEF Edge, Adapter, Count, Arbitrate, Assemble, Core, Server, Addr, c_instr
<1>3. CASE sof
    <2>1. phase' = 0 /\ store_beat' = FALSE /\ load_beat' = FALSE
        BY <1>2, <1>3 DEF NextBeat
    <2>2. QED
        BY <2>1 DEF UnderWay
<1>4. CASE ~sof /\ phase = 3
    <2>1. phase' = 0 /\ \A n \in Phase : ~(n < phase')
        BY <1>2, <1>4 DEF Phase
    <2>2. ASSUME kind' = LOAD, load_beat'
          PROVE  sword' = DataLane(mem'[Ea(regs', instr_r')], 0)
        <3>1. ~retire /\ kind = LOAD
            BY <1>1, <1>2, <1>4, <2>2, Kinds DEF NextKind, NextBeat, loop_end
        <3>2. ~load_beat
            BY <1>4, <3>1, Retires
        <3>3. Lookup = DataLane(mem[Ea(regs, instr_r)], 0)
            BY <1>4, <3>1, <3>2, Answered
        <3>4. mem' = mem /\ instr_r' = instr_r
            BY <1>2, <3>1, Agreed, Decoded, Kinds DEF Write, instr_avail
        <3>5. QED
            BY <1>2, <3>1, <3>3, <3>4
    <2>3. ASSUME kind' = STORE, store_beat'
          PROVE  staddr' = DataLane(Ea(regs', instr_r'), 0)
        <3>1. ~retire /\ kind = STORE
            BY <1>1, <1>2, <1>4, <2>3, Kinds DEF NextKind, NextBeat, loop_end
        <3>2. instr_r' = instr_r /\ staddr' = staddr
            BY <1>2, <1>4, <3>1, Decoded, Kinds DEF instr_avail
        <3>3. QED
            BY <1>1, <1>2, <1>4, <3>1, <3>2 DEF UnderWay
    <2>4. QED
        BY <2>1, <2>2, <2>3 DEF UnderWay
<1>5. CASE ~sof /\ phase # 3
    <2>1. /\ phase' = phase + 1 /\ kind' = kind
          /\ store_beat' = store_beat /\ load_beat' = load_beat
          /\ pc' = pc /\ regs' = regs /\ instr_r' = instr_r /\ mem' = mem
          /\ in_acc' = [in_acc EXCEPT ![phase] = pin_in]
        <3>1. ~loop_end /\ ~retire /\ ~instr_avail /\ sphase # 3
            BY <1>5, Agreed DEF loop_end, retire, instr_avail
        <3>2. phase' = phase + 1
            BY <1>1, <1>2, <1>5
        <3>3. store_beat' = store_beat /\ load_beat' = load_beat
            BY <1>1, <1>2, <1>5, <3>1 DEF NextBeat, BusType
        <3>4. QED
            BY <1>2, <1>5, <3>1, <3>2, <3>3, Decoded DEF NextKind, Write
    <2>2. \A n \in Phase : n < phase' <=> n < phase \/ n = phase
        BY <1>1, <2>1 DEF Phase
    <2>3. ASSUME kind' = FETCH
          PROVE  /\ sword' = ProgLane(pc', 0)
                 /\ \A n \in Phase : n < phase' => in_acc'[n] = ProgLane(pc', n)
        <3>1. Lookup = ProgLane(pc, 0) /\ pin_in = ProgLane(pc, phase)
            BY <2>1, <2>3, Answered
        <3>2. ASSUME NEW n \in Phase, n < phase'
              PROVE  in_acc'[n] = ProgLane(pc, n)
            BY <1>1, <2>1, <2>2, <2>3, <3>1, <3>2 DEF UnderWay, Phase
        <3>3. QED
            BY <1>2, <2>1, <3>1, <3>2
    <2>4. ASSUME kind' = LOAD, ~load_beat'
          PROVE  sa'[0] = DataLane(Ea(regs', instr_r'), 0)
        <3>1. phase = 0 => pin_out = DataLane(Ea(regs, instr_r), 0)
            BY <2>1, <2>4, Kinds DEF pin_out, out_word, DataLane
        <3>2. phase # 0 => sa[0] = DataLane(Ea(regs, instr_r), 0)
            BY <1>1, <2>1, <2>4 DEF UnderWay
        <3>3. QED
            BY <1>1, <1>2, <2>1, <3>1, <3>2 DEF Phase
    <2>5. ASSUME kind' = LOAD, load_beat'
          PROVE  /\ sword' = DataLane(mem'[Ea(regs', instr_r')], 0)
                 /\ \A n \in Phase :
                        n < phase' => in_acc'[n] = DataLane(mem'[Ea(regs', instr_r')], n)
        <3>1. Lookup = sword /\ pin_in = DataLane(mem[Ea(regs, instr_r)], phase)
            BY <2>1, <2>5, Answered
        <3>2. ASSUME NEW n \in Phase, n < phase'
              PROVE  in_acc'[n] = DataLane(mem[Ea(regs, instr_r)], n)
            BY <1>1, <2>1, <2>2, <2>5, <3>1, <3>2 DEF UnderWay, Phase
        <3>3. sword = DataLane(mem[Ea(regs, instr_r)], 0)
            BY <1>1, <2>1, <2>5 DEF UnderWay
        <3>4. QED
            BY <1>2, <2>1, <3>1, <3>2, <3>3
    <2>6. ASSUME kind' = STORE
          PROVE  staddr' = DataLane(Ea(regs', instr_r'), 0)
        <3>1. CASE phase = 0 /\ ~store_beat
            <4>1. pin_out = DataLane(Ea(regs, instr_r), 0)
                BY <2>1, <2>6, <3>1, Kinds DEF pin_out, out_word, DataLane
            <4>2. staddr' = pin_out
                BY <1>2, <2>1, <2>6, <3>1, Agreed
            <4>3. QED
                BY <2>1, <4>1, <4>2
        <3>2. CASE phase # 0 \/ store_beat
            <4>1. staddr = DataLane(Ea(regs, instr_r), 0)
                BY <1>1, <2>1, <2>6, <3>2 DEF UnderWay
            <4>2. staddr' = staddr
                BY <1>2, <2>1, <2>6, <3>2, Agreed
            <4>3. QED
                BY <2>1, <4>1, <4>2
        <3>3. QED
            BY <3>1, <3>2
    <2>7. ASSUME kind' = STORE, store_beat', NEW n \in Phase, n < phase'
          PROVE  sa'[n] = DataLane(regs'[instr_r'.rt], n)
        <3>1. pin_out = DataLane(regs[instr_r.rt], phase)
            BY <2>1, <2>7, Kinds DEF pin_out, out_word, DataLane
        <3>2. n < phase => sa[n] = DataLane(regs[instr_r.rt], n)
            BY <1>1, <2>1, <2>7 DEF UnderWay
        <3>3. QED
            BY <1>1, <1>2, <2>1, <2>2, <2>7, <3>1, <3>2
    <2>8. QED
        BY <2>3, <2>4, <2>5, <2>6, <2>7 DEF UnderWay
<1>6. QED
    BY <1>3, <1>4, <1>5

------------------------------------------------------------------------------
(* The machine a program sees.                                             *)

\* The two sides mean the same by an instruction.
LEMMA SameWords ==
    ASSUME NEW p, NEW r, NEW i, NEW d
    PROVE  /\ Machine!Ea(r, i) = Ea(r, i)
           /\ Machine!NextPc(p, r, i) = NextPc(p, r, i)
           /\ Machine!NextRegs(p, r, i, d) = NextRegs(p, r, i, d)
<1>1. \A m, n : Machine!Plus(m, n) = Plus(m, n)
    BY DEF Machine!Plus, Plus
<1>2. Machine!Ea(r, i) = Ea(r, i)
    BY <1>1 DEF Machine!Ea, Ea
<1>3. Machine!NextPc(p, r, i) = NextPc(p, r, i)
    BY <1>1 DEF Machine!NextPc, NextPc
<1>4. Machine!WbVal(p, r, i, d) = WbVal(p, r, i, d)
    BY <1>1, <1>2 DEF Machine!WbVal, WbVal
<1>5. Machine!NextRegs(p, r, i, d) = NextRegs(p, r, i, d)
    BY <1>4 DEF Machine!NextRegs, NextRegs
<1>6. QED
    BY <1>2, <1>3, <1>5

\* The word a store writes, and the word a load reads.
LEMMA Arrives ==
    ASSUME BusInv, retire
    PROVE  /\ kind = STORE =>
                 Write = [mem EXCEPT ![Ea(regs, c_instr)] = regs[c_instr.rt]]
           /\ kind = LOAD => AsData(assembled) = mem[Ea(regs, c_instr)]
<1>1. /\ BusType /\ UnderWay /\ phase = 3 /\ sphase = 3 /\ Type = kind
      /\ in_acc \in [Phase -> Byte] /\ sa \in [Phase -> Byte] /\ mem \in [Word -> Word]
      /\ pin_out \in Byte /\ pin_in \in Byte
    BY Agreed, Answered, Retires DEF BusInv, BusType
<1>2. kind # FETCH => c_instr = instr_r
    BY Decoded DEF instr_avail
<1>3. \A n \in Phase : n < phase \/ n = phase
    BY <1>1 DEF Phase
<1>4. Ea(regs, instr_r) \in Word /\ regs[instr_r.rt] \in Word
    BY <1>1, CoreTypes DEF BusType, Instr
<1>5. ASSUME kind = STORE
      PROVE  Write = [mem EXCEPT ![Ea(regs, c_instr)] = regs[c_instr.rt]]
    <2>1. store_beat /\ sbeat = TRUE
        BY <1>5, Retires, Agreed
    <2>2. LowByte(staddr) = Ea(regs, instr_r)
        BY <1>1, <1>5, <2>1 DEF UnderWay, LowByte, DataLane
    <2>3. pin_out = DataLane(regs[instr_r.rt], phase)
        BY <1>5, <2>1, Kinds DEF pin_out, out_word, DataLane
    <2>4. Addr \in [Phase -> Byte]
        BY <1>1 DEF Addr
    <2>5. \A n \in Phase : Addr[n] = DataLane(regs[instr_r.rt], n)
        BY <1>1, <1>3, <1>5, <2>1, <2>3 DEF Addr, UnderWay
    <2>6. AsData(Addr) = regs[instr_r.rt]
        BY <1>4, <2>4, <2>5, WordOfLanes
    <2>7. Write = [mem EXCEPT ![LowByte(staddr)] = AsData(Addr)]
        BY <1>1, <1>5, <2>1 DEF Write
    <2>8. QED
        BY <1>2, <1>5, <2>2, <2>6, <2>7, Kinds
<1>6. ASSUME kind = LOAD
      PROVE  AsData(assembled) = mem[Ea(regs, c_instr)]
    <2>1. load_beat
        BY <1>6, Retires
    <2>2. pin_in = DataLane(mem[Ea(regs, instr_r)], phase)
        BY <1>6, <2>1, Answered
    <2>3. assembled \in [Phase -> Byte]
        BY Decoded
    <2>4. \A n \in Phase : assembled[n] = DataLane(mem[Ea(regs, instr_r)], n)
        BY <1>1, <1>3, <1>6, <2>1, <2>2 DEF assembled, UnderWay
    <2>5. AsData(assembled) = mem[Ea(regs, instr_r)]
        BY <1>1, <1>4, <2>3, <2>4, WordOfLanes
    <2>6. QED
        BY <1>2, <1>6, <2>5, Kinds
<1>7. QED
    BY <1>5, <1>6

\* A clock is an instruction of the machine, or nothing a program sees.
LEMMA Executes ==
    ASSUME BusInv, NEW sof \in BOOLEAN, Edge(sof)
    PROVE  [Machine!Next]_(Machine!vars)
<1>1. /\ pc' = IF retire THEN NextPc(pc, regs, c_instr) ELSE pc
      /\ regs' = IF retire THEN NextRegs(pc, regs, c_instr, rdata_r) ELSE regs
      /\ rdata_r' = IF loop_end /\ kind = LOAD /\ load_beat
                    THEN AsData(assembled) ELSE rdata_r
      /\ mem' = Write /\ prog' = prog
    BY DEF Edge, Adapter, Assemble, Core, Server
<1>2. /\ sphase = phase /\ Type = kind /\ (kind = STORE => sbeat = store_beat)
      /\ kind \in {FETCH, LOAD, STORE}
    BY Agreed DEF BusInv, BusType
<1>3. (loop_end /\ kind = LOAD /\ load_beat) <=> (retire /\ kind = LOAD)
    BY Retires DEF loop_end
<1>4. ~(retire /\ kind = STORE) => Write = mem
    BY <1>2, Retires DEF Write
<1>5. CASE ~retire
    BY <1>1, <1>3, <1>4, <1>5 DEF Machine!vars
<1>6. CASE retire
    <2>1. c_instr = prog[pc]
        BY <1>6, Retires
    <2>2. (c_instr.op = "sw" <=> kind = STORE) /\ (c_instr.op = "lw" <=> kind = LOAD)
        BY <1>2, <1>6, Retires, Kinds DEF Req
    <2>3. mem' = IF c_instr.op = "sw"
                 THEN [mem EXCEPT ![Ea(regs, c_instr)] = regs[c_instr.rt]] ELSE mem
        BY <1>1, <1>4, <1>6, <2>2, Arrives
    <2>4. rdata_r' = IF c_instr.op = "lw" THEN mem[Ea(regs, c_instr)] ELSE rdata_r
        BY <1>1, <1>3, <1>6, <2>2, Arrives
    <2>5. QED
        BY <1>1, <1>6, <2>1, <2>3, <2>4, SameWords DEF Machine!Next, Machine!Execute
<1>7. QED
    BY <1>5, <1>6

------------------------------------------------------------------------------
(* The tile.                                                               *)

\* The core starts as the machine does.
LEMMA Starts ==
    ASSUME TileInit
    PROVE  BusInv /\ Machine!Init /\ host \in Hosts
<1>1. Init
    BY DEF TileInit, CoreIdle
<1>2. /\ 0 \in Word /\ 0 \in Phase /\ Quiet \in Byte /\ Inert \in Instr
      /\ prog \in [Word -> Instr] /\ host \in Hosts
    <2>1. 0 \in Word /\ 0 \in Reg /\ 0 \in Phase
        BY CoreAssumption DEF Word, Reg, Phase
    <2>2. Quiet \in Byte /\ Inert \in Instr
        BY <2>1 DEF Quiet, Byte, Inert, Instr
    <2>3. prog \in Programs /\ host \in Hosts
        BY <1>1 DEF Init
    <2>4. QED
        BY <2>1, <2>2, <2>3, BusAssumption
<1>3. BusType
    BY <1>1, <1>2 DEF Init, BusType
<1>4. InFrame
    BY <1>1 DEF Init, InFrame
<1>5. Resident
    BY <1>1 DEF Init, Resident, Inert, Req
<1>6. UnderWay
    BY <1>1, Kinds DEF Init, UnderWay
<1>7. Machine!Init
    BY <1>1 DEF Init, Machine!Init, Machine!Word, Machine!Reg, Word, Reg
<1>8. QED
    BY <1>2, <1>3, <1>4, <1>5, <1>6, <1>7 DEF BusInv

\* A step of the tile is a clock of the core, or leaves the core where it is.
LEMMA Steps ==
    ASSUME BusInv, \A h \in Hosts : Safe(h), [TileNext]_tile
    PROVE  BusInv' /\ [Machine!Next]_(Machine!vars)
<1>1. ASSUME NEW sof \in BOOLEAN, Tick(sof)
      PROVE  BusInv' /\ [Machine!Next]_(Machine!vars)
    <2>1. Edge(sof)
        BY <1>1 DEF Tick, Edge
    <2>2. Safe(host)
        BY DEF BusInv, BusType
    <2>3. QED
        BY <2>1, <2>2, TypeStep, FrameStep, ResidentStep, UnderWayStep, Executes DEF BusInv
<1>2. ASSUME UNCHANGED <<chip, core, server>>
      PROVE  BusInv' /\ [Machine!Next]_(Machine!vars)
    <2>1. UNCHANGED <<phase, kind, store_beat, load_beat, fetch_owed, in_acc, instr_r, rdata_r,
                      pc, regs, sphase, stype, sbeat, sa, staddr, sword, desync, mem, prog, host>>
        BY <1>2 DEF chip, core, server
    <2>2. BusType' /\ InFrame' /\ Resident' /\ UnderWay'
        BY <2>1 DEF BusInv, BusType, InFrame, Resident, UnderWay
    <2>3. UNCHANGED Machine!vars
        BY <2>1 DEF Machine!vars
    <2>4. QED
        BY <2>2, <2>3 DEF BusInv
<1>3. CASE CoreClock
    BY <1>1, <1>3 DEF CoreClock, Next
<1>4. CASE Run
    BY <1>2, <1>4 DEF Run
<1>5. CASE Traffic
    BY <1>2, <1>5 DEF Traffic, vars
<1>6. CASE UNCHANGED tile
    BY <1>2, <1>6 DEF tile, vars
<1>7. QED
    BY <1>3, <1>4, <1>5, <1>6 DEF TileNext

\* THEOREM. Wherever a sof falls the memory server stays in the chip's frame
\* (ndf_memserver.h:16-17), if each host resets the whole frame or keeps the rule.
THEOREM FrameKept ==
    ASSUME \A h \in Hosts : Safe(h)
    PROVE  TileSpec => []InFrame
<1>1. TileInit => BusInv
    BY Starts
<1>2. BusInv /\ [TileNext]_tile => BusInv'
    BY Steps
<1>3. BusInv => InFrame
    BY DEF BusInv
<1>4. QED
    BY <1>1, <1>2, <1>3, PTL DEF TileSpec

\* THEOREM. Under those hosts each instruction of the image takes effect once, in
\* order, whole, wherever a sof falls (the sweep of busadapt8.v:132-135).
THEOREM InstructionsWhole ==
    ASSUME \A h \in Hosts : Safe(h)
    PROVE  TileSpec => AbsSpec
<1>1. TileInit => BusInv /\ Machine!Init
    BY Starts
<1>2. BusInv /\ [TileNext]_tile => BusInv' /\ [Machine!Next]_(Machine!vars)
    BY Steps
<1>3. QED
    BY <1>1, <1>2, PTL DEF TileSpec, AbsSpec, Machine!Spec

------------------------------------------------------------------------------
(* Powers of two, quotients and remainders.                                *)

\* A set of naturals has a least member.
LEMMA LeastOf ==
    ASSUME NEW T \in SUBSET Nat, T # {}
    PROVE  \E v \in T : \A y \in T : v <= y
<1> DEFINE R == {ss \in Nat \X Nat : ss[1] < ss[2]}
<1>1. IsWellFoundedOn(R, Nat)
    BY NatLessThanWellFounded DEF OpToRel
<1>2. \E v \in T : \A y \in T : ~ (<<y, v>> \in R)
    <2> HIDE DEF R
    <2> QED BY <1>1, WFMin
<1>3. PICK v \in T : \A y \in T : ~ (<<y, v>> \in R)
    BY <1>2
<1>4. ASSUME NEW y \in T
      PROVE  v <= y
    <2>1. v \in Nat /\ y \in Nat /\ <<y, v>> \in Nat \X Nat /\ <<y, v>>[1] = y /\ <<y, v>>[2] = v
        OBVIOUS
    <2>2. ~ (y < v)
        BY <1>3, <2>1
    <2> QED BY <2>1, <2>2
<1> QED BY <1>4

\* Two is a function of the naturals that is what its definition says.
LEMMA TwoIs ==
    /\ Two[0] = 1
    /\ \A n \in Nat : Two[n] \in Nat \ {0} /\ Two[n + 1] = 2 * Two[n]
<1> DEFINE Up(f, n) == IF n = 0 THEN 1 ELSE 2 * f[n - 1]
           Partial(f, n) == f = [k \in 0..n |-> Up(f, k)]
<1>1. ASSUME NEW n \in Nat PROVE \E f : Partial(f, n)
    <2> DEFINE T == {k \in Nat : ~ \E f : Partial(f, k)}
    <2> SUFFICES ASSUME T # {} PROVE FALSE
        BY <1>1
    <2>1. PICK m \in T : \A y \in T : m <= y
        BY LeastOf
    <2>2. CASE m = 0
        <3> DEFINE f == [k \in 0..0 |-> 1]
        <3>1. f = [k \in 0..0 |-> Up(f, k)]
            OBVIOUS
        <3> QED BY <2>1, <2>2, <3>1
    <2>3. CASE m # 0
        <3>a. m \in Nat /\ m - 1 \in Nat /\ m - 1 < m
            BY <2>3
        <3>b. ~(m <= m - 1)
            BY <3>a
        <3>1. m - 1 \in Nat /\ m - 1 \notin T
            <4> HIDE DEF T
            <4> QED BY <2>1, <3>a, <3>b
        <3>2. PICK f : Partial(f, m - 1)
            BY <3>1
        <3> DEFINE g == [k \in 0..m |-> IF k = m THEN 2 * f[m - 1] ELSE f[k]]
        <3>3. \A k \in 0..(m - 1) : g[k] = f[k] /\ f[k] = Up(f, k)
            BY <2>1, <3>1, <3>2
        <3>4. ASSUME NEW k \in 0..m PROVE g[k] = Up(g, k)
            BY <2>1, <2>3, <3>3, <3>4
        <3>5. g = [k \in 0..m |-> Up(g, k)]
            BY <3>4
        <3> QED BY <2>1, <3>5
    <2> QED BY <2>2, <2>3
<1> DEFINE Value(n) == (CHOOSE f : Partial(f, n))[n]
<1>2. ASSUME NEW n \in Nat, NEW f, NEW g, Partial(f, n), Partial(g, n + 1)
      PROVE  \A k \in 0..n : f[k] = g[k]
    <2> DEFINE T == {k \in 0..n : f[k] # g[k]}
    <2> SUFFICES ASSUME T # {} PROVE FALSE
        OBVIOUS
    <2>1. PICK m \in T : \A y \in T : m <= y
        BY LeastOf, T \in SUBSET Nat
    <2>2. f[m] = Up(f, m) /\ g[m] = Up(g, m)
        BY <1>2, <2>1
    <2>3. m # 0 => m - 1 \in 0..n /\ m - 1 \notin T
        BY <2>1
    <2> QED BY <2>1, <2>2, <2>3
<1> DEFINE G == [n \in Nat |-> Value(n)]
<1> HIDE DEF Partial
<1>3. \A n \in Nat : Partial(CHOOSE f : Partial(f, n), n)
    BY <1>1
<1>4. ASSUME NEW n \in Nat PROVE Value(n) = IF n = 0 THEN 1 ELSE 2 * Value(n - 1)
    <2> DEFINE f == CHOOSE v : Partial(v, n)  e == CHOOSE v : Partial(v, n - 1)
    <2>1. Partial(f, n)
        BY <1>3
    <2>2. CASE n = 0
        BY <2>1, <2>2 DEF Partial
    <2>3. CASE n # 0
        <3>1. n - 1 \in Nat /\ (n - 1) + 1 = n
            BY <2>3
        <3>2. Partial(e, n - 1)
            BY <1>3, <3>1
        <3> HIDE DEF f, e
        <3>3. e[n - 1] = f[n - 1]
            BY <1>2, <2>1, <3>1, <3>2
        <3>4. f[n] = 2 * f[n - 1]
            BY <2>1, <2>3 DEF Partial
        <3> QED BY <2>3, <3>3, <3>4 DEF f, e
    <2> QED BY <2>2, <2>3
<1> HIDE DEF Value
<1>5. G = [n \in Nat |-> IF n = 0 THEN 1 ELSE 2 * G[n - 1]]
    <2>1. ASSUME NEW n \in Nat PROVE G[n] = IF n = 0 THEN 1 ELSE 2 * G[n - 1]
        BY <1>4
    <2> QED BY <2>1
<1>6. Two = [n \in Nat |-> IF n = 0 THEN 1 ELSE 2 * Two[n - 1]]
    <2> HIDE DEF G
    <2> QED BY <1>5 DEF Two
<1>7. \A n \in Nat : Two[n] = IF n = 0 THEN 1 ELSE 2 * Two[n - 1]
    BY <1>6
<1>8. Two[0] = 1 /\ \A n \in Nat : Two[n + 1] = 2 * Two[n]
    BY <1>7
<1>9. \A n \in Nat : Two[n] \in Nat \ {0}
    <2> DEFINE T == {n \in Nat : Two[n] \notin Nat \ {0}}
    <2> SUFFICES ASSUME T # {} PROVE FALSE
        OBVIOUS
    <2>1. PICK m \in T : \A y \in T : m <= y
        BY LeastOf
    <2>2. m \in Nat /\ Two[m] \notin Nat \ {0}
        OBVIOUS
    <2>3. m # 0
        BY <1>8, <2>2
    <2>4. m - 1 \in Nat /\ ~(m <= m - 1) /\ (m - 1) + 1 = m
        BY <2>2, <2>3
    <2>5. Two[m - 1] \in Nat \ {0}
        BY <2>1, <2>4
    <2>6. Two[m] = 2 * Two[m - 1]
        BY <1>8, <2>4
    <2> QED BY <2>2, <2>5, <2>6
<1> QED BY <1>8, <1>9

\* Quotient and remainder, in one fact.
LEMMA Division ==
    ASSUME NEW n \in Nat, NEW b \in Nat \ {0}
    PROVE  /\ n \div b \in Nat /\ (n % b) \in 0..(b - 1)
           /\ n = (n \div b) * b + (n % b)
OBVIOUS

\* And the other way round.
LEMMA Quotient ==
    ASSUME NEW q \in Nat, NEW b \in Nat \ {0}, NEW r \in 0..(b - 1)
    PROVE  /\ (q * b + r) \div b = q /\ ((q * b + r) % b) = r
           /\ q * b + r \in Nat
OBVIOUS

\* A remainder is its own.
LEMMA Small ==
    ASSUME NEW b \in Nat \ {0}, NEW r \in 0..(b - 1)
    PROVE  r \div b = 0 /\ (r % b) = r
OBVIOUS

\* A block of 2c is two of c.
LEMMA Halves ==
    ASSUME NEW n \in Nat, NEW c \in Nat \ {0}
    PROVE  /\ n \div (2 * c) = (n \div c) \div 2
           /\ ((n % (2 * c)) % c) = (n % c)
           /\ n \div c = 2 * (n \div (2 * c)) + ((n \div c) % 2)
           /\ ((n \div c) % 2) \in {0, 1}
<1> DEFINE q == n \div c  r == n % c  h == q \div 2  t == q % 2
<1>1. q \in Nat /\ r \in 0..(c - 1) /\ n = q * c + r
    BY Division
<1>2. h \in Nat /\ t \in 0..1 /\ q = 2 * h + t
    BY <1>1
<1>3. 2 * c \in Nat \ {0} /\ t * c \in {0, c} /\ t * c + r \in 0..(2 * c - 1)
    BY <1>1, <1>2
<1>4. n = h * (2 * c) + (t * c + r)
    <2> HIDE DEF q, r, h, t
    <2>1. q * c = (2 * h + t) * c
        BY <1>2
    <2>2. (2 * h + t) * c = h * (2 * c) + t * c
        BY <1>2
    <2> QED BY <1>1, <1>2, <2>1, <2>2
<1>5. n \div (2 * c) = h /\ (n % (2 * c)) = t * c + r
    <2> HIDE DEF q, r, h, t
    <2> QED BY <1>2, <1>3, <1>4, Quotient
<1>6. ((t * c + r) % c) = r
    <2> HIDE DEF q, r, h, t
    <2> QED BY <1>1, <1>2, Quotient
<1> QED BY <1>1, <1>2, <1>5, <1>6

------------------------------------------------------------------------------
(* The fabric.  Before stage s the packet for line d waits in d's block of *)
(* 2^(K-s) lines, at the place its source has in one.  As long as no two   *)
(* packets are on one line, a stage whose latches hold the packets' own    *)
(* headers takes every one of them to its line before the next.            *)

\* Place r among b, in the block of d.
Slot(b, d, r) == (d \div b) * b + (r % b)
\* Two lines meet in an element whose sides are c apart, and which side a line is on.
Meet(c, i, l) == i \div (2 * c) = l \div (2 * c) /\ (i % c) = (l % c)
Side(c, l) == (l \div c) % 2

\* The lines of one element: with i where the packet for d stands among the blocks of 2c,
\* l is the line of i's element on d's side iff l is where it stands among those of c.
LEMMA Switches ==
    ASSUME NEW c \in Nat \ {0}, NEW d \in Nat, NEW r \in Nat, NEW i \in Nat, NEW l \in Nat,
           i = Slot(2 * c, d, r)
    PROVE  Meet(c, i, l) /\ Side(c, l) = Side(c, d) <=> l = Slot(c, d, r)
<1>0. 2 * c \in Nat \ {0}
    OBVIOUS
<1>1. i \div (2 * c) = d \div (2 * c) /\ (i % (2 * c)) = (r % (2 * c))
    <2> DEFINE b == 2 * c  q == d \div b  t == r % b
    <2>1. q \in Nat /\ t \in 0..(b - 1)
        BY <1>0, Division
    <2>2. b \in Nat \ {0} /\ i = q * b + t
        BY <1>0 DEF Slot
    <2> HIDE DEF b, q, t
    <2>3. (q * b + t) \div b = q /\ ((q * b + t) % b) = t
        BY <2>1, <2>2, Quotient, Zenon
    <2>4. i \div b = q /\ (i % b) = t
        BY <2>2, <2>3, Zenon
    <2> QED BY <2>4, Zenon DEF b, q, t
<1>2. (i % c) = (r % c)
    <2>1. ((i % (2 * c)) % c) = (i % c)
        BY Halves
    <2>2. ((r % (2 * c)) % c) = (r % c)
        BY Halves
    <2> QED BY <1>1, <2>1, <2>2
<1>3. (r % c) \in 0..(c - 1) /\ d \div c \in Nat
    BY Division
<1>4. ASSUME i \div (2 * c) = l \div (2 * c), (i % c) = (l % c),
             ((l \div c) % 2) = ((d \div c) % 2)
      PROVE  l = (d \div c) * c + (r % c)
    <2>1. /\ l \div c = 2 * (l \div (2 * c)) + ((l \div c) % 2)
          /\ d \div c = 2 * (d \div (2 * c)) + ((d \div c) % 2)
        BY Halves
    <2>2. l \div c = d \div c
        BY <1>1, <1>4, <2>1
    <2>3. l = (l \div c) * c + (l % c)
        BY Division
    <2> QED BY <1>2, <1>4, <2>2, <2>3
<1>5. ASSUME l = (d \div c) * c + (r % c)
      PROVE  /\ i \div (2 * c) = l \div (2 * c) /\ (i % c) = (l % c)
             /\ ((l \div c) % 2) = ((d \div c) % 2)
    <2>1. l \div c = d \div c /\ (l % c) = (r % c)
        <3> DEFINE q == d \div c  t == r % c
        <3>1. q \in Nat /\ t \in 0..(c - 1) /\ l = q * c + t
            BY <1>3, <1>5
        <3> HIDE DEF q, t
        <3>2. l \div c = q /\ (l % c) = t
            BY <3>1, Quotient
        <3> QED BY <3>2 DEF q, t
    <2>2. /\ l \div (2 * c) = (l \div c) \div 2
          /\ d \div (2 * c) = (d \div c) \div 2
        BY Halves
    <2> QED BY <1>1, <1>2, <2>1, <2>2
<1> QED BY <1>4, <1>5 DEF Slot, Meet, Side

\* Two in a block of b that are closer than b apart do not meet in it.
LEMMA Apart ==
    ASSUME NEW b \in Nat \ {0}, NEW d \in Nat, NEW e \in Nat, NEW r \in Nat, NEW q \in Nat,
           d < e, r < q, q - r <= e - d
    PROVE  Slot(b, d, r) # Slot(b, e, q)
<1> SUFFICES ASSUME Slot(b, d, r) = Slot(b, e, q)
             PROVE  FALSE
    OBVIOUS
<1> DEFINE qd == d \div b  qe == e \div b  rd == d % b  re == e % b
           u == r \div b  v == q \div b  ur == r % b  vr == q % b
<1>1. /\ qd \in Nat /\ rd \in 0..(b - 1) /\ d = qd * b + rd
      /\ qe \in Nat /\ re \in 0..(b - 1) /\ e = qe * b + re
    BY Division
<1>2. /\ u \in Nat /\ ur \in 0..(b - 1) /\ r = u * b + ur
      /\ v \in Nat /\ vr \in 0..(b - 1) /\ q = v * b + vr
    BY Division
<1>3. qd * b + ur = qe * b + vr
    BY DEF Slot
<1> HIDE DEF qd, qe, rd, re, u, v, ur, vr
<1>4. /\ (qd * b + ur) \div b = qd /\ ((qd * b + ur) % b) = ur
      /\ (qe * b + vr) \div b = qe /\ ((qe * b + vr) % b) = vr
    BY <1>1, <1>2, Quotient
<1>5. qd = qe /\ ur = vr
    BY <1>3, <1>4
<1>6. e - d < b
    <2>1. e - d = re - rd
        BY <1>1, <1>5
    <2> QED BY <1>1, <2>1
<1>7. u < v
    <2>1. v <= u => v * b <= u * b
        BY <1>2
    <2>2. u * b \in Nat /\ v * b \in Nat
        BY <1>2
    <2> QED BY <1>2, <1>5, <2>1, <2>2
<1>8. u * b + b <= v * b
    BY <1>2, <1>7
<1>9. b <= q - r
    <2>1. u * b \in Nat /\ v * b \in Nat
        BY <1>2
    <2> QED BY <1>2, <1>5, <1>8, <2>1
<1> QED BY <1>6, <1>9

\* The lines of a block before stage s; with S the source of each packet, by its
\* destination, the line there of the packet for d.
Block(s) == Two[K - s]
Pos(S, s, d) == Slot(Block(s), d, S[d])

\* Packets no two of which are ever on one line.
Clear(S) ==
    /\ DOMAIN S \in SUBSET Line /\ S \in [DOMAIN S -> Line]
    /\ \A s \in 0..K : \A d \in DOMAIN S, e \in DOMAIN S :
          Pos(S, s, d) = Pos(S, s, e) => d = e

\* The destinations of the packets on a line; wires that carry F[d] for each d.
At(S, s, l) == {d \in DOMAIN S : Pos(S, s, d) = l}
Carries(S, F, s, w) == \A l \in Line : w[l] = UNION {F[d] : d \in At(S, s, l)}

\* The latches of a stage hold the activity and the address bits of these packets;
\* those whose strobe has passed at clock t of a frame do.
Active(S, s) == \A l \in Line : act[s][l] = (At(S, s, l) # {})
Aimed(S, s) ==
    \A l \in Line : sel[s][l] = (\E d \in At(S, s, l) : BitOf(d, K - 1 - s) = 1)
Held(S, t) ==
    \A s \in Stage : (2 * s < t => Active(S, s)) /\ (2 * s + 1 < t => Aimed(S, s))

\* A block is halved by each stage, from all lines to one.
LEMMA Blocks ==
    /\ N \in Nat \ {0} /\ Block(0) = N /\ Block(K) = 1
    /\ \A s \in 0..K : Block(s) \in Nat \ {0} /\ \E q \in Nat : N = q * Block(s)
    /\ \A s \in Stage : /\ Two[K - 1 - s] \in Nat \ {0}
                        /\ Block(s) = 2 * Two[K - 1 - s] /\ Block(s + 1) = Two[K - 1 - s]
<1>0. K \in Nat \ {0}
    BY FabricAssumption
<1>1. N \in Nat \ {0} /\ Block(0) = N /\ Block(K) = 1
    <2>1. K - 0 = K /\ K - K = 0
        BY <1>0
    <2> QED BY <1>0, <2>1, TwoIs DEF N, Block
<1>2. ASSUME NEW s \in Stage
      PROVE  /\ Two[K - 1 - s] \in Nat \ {0}
             /\ Block(s) = 2 * Two[K - 1 - s] /\ Block(s + 1) = Two[K - 1 - s]
    <2>1. K - 1 - s \in Nat /\ K - s = (K - 1 - s) + 1 /\ K - (s + 1) = K - 1 - s
        BY <1>0 DEF Stage
    <2> QED BY <2>1, TwoIs DEF Block
<1>3. \A s \in 0..K : Block(s) \in Nat \ {0}
    <2>1. \A s \in 0..K : K - s \in Nat
        BY <1>0
    <2> QED BY <2>1, TwoIs DEF Block
<1>4. \A s \in 0..K : \E q \in Nat : N = q * Block(s)
    <2> DEFINE T == {s \in 0..K : ~ \E q \in Nat : N = q * Block(s)}
    <2> SUFFICES ASSUME T # {} PROVE FALSE
        OBVIOUS
    <2>1. PICK m \in T : \A y \in T : m <= y
        BY LeastOf, T \in SUBSET Nat
    <2>2. m \in 0..K /\ ~ \E q \in Nat : N = q * Block(m)
        OBVIOUS
    <2>3. m # 0
        <3>1. N = 1 * N
            BY <1>1
        <3> QED BY <1>1, <2>2, <3>1
    <2>4. m - 1 \in 0..K /\ ~(m <= m - 1) /\ (m - 1) + 1 = m /\ m - 1 \in Stage
        BY <1>0, <2>2, <2>3 DEF Stage
    <2>5. m - 1 \notin T
        BY <2>1, <2>4
    <2>6. PICK q \in Nat : N = q * Block(m - 1)
        BY <2>4, <2>5
    <2>7. Block(m - 1) = 2 * Block(m) /\ Block(m) \in Nat
        BY <1>2, <1>3, <2>2, <2>4
    <2>8. N = (2 * q) * Block(m)
        <3> DEFINE c == Block(m)
        <3>1. q * (2 * c) = (2 * q) * c
            BY <2>7
        <3> QED BY <2>6, <2>7, <3>1
    <2>9. 2 * q \in Nat
        OBVIOUS
    <2> QED BY <2>2, <2>8, <2>9
<1> QED BY <1>1, <1>2, <1>3, <1>4

\* A packet is always on a line, first on its source's and last on its own.
LEMMA PosIs ==
    ASSUME NEW S, Clear(S), NEW d \in DOMAIN S
    PROVE  /\ \A s \in 0..K : Pos(S, s, d) \in Line
           /\ Pos(S, 0, d) = S[d] /\ Pos(S, K, d) = d
<1>1. N \in Nat \ {0} /\ Block(0) = N /\ Block(K) = 1
    BY Blocks
<1>2. d \in 0..(N - 1) /\ S[d] \in 0..(N - 1)
    BY DEF Line, Clear
<1>3. d \in Nat /\ S[d] \in Nat
    <2> HIDE DEF N
    <2> QED BY <1>1, <1>2
<1>4. ASSUME NEW s \in 0..K
      PROVE  Pos(S, s, d) \in Line
    <2> DEFINE b == Block(s)  h == d \div b  t == S[d] % b  f == d % b
    <2>1. b \in Nat \ {0} /\ \E q \in Nat : N = q * b
        BY Blocks
    <2>2. PICK q \in Nat : N = q * b
        BY <2>1
    <2>3. h \in Nat /\ f \in 0..(b - 1) /\ d = h * b + f /\ t \in 0..(b - 1)
        BY <1>3, <2>1, Division
    <2> HIDE DEF b, h, t, f, N
    <2>4. h * b \in Nat /\ q * b \in Nat
        BY <2>1, <2>3
    <2>5. h < q
        <3>1. q <= h => q * b <= h * b
            BY <2>1, <2>3
        <3>2. h * b < q * b
            BY <1>1, <1>2, <2>1, <2>2, <2>3, <2>4
        <3> QED BY <2>3, <2>4, <3>1, <3>2
    <2>6. h * b + b <= q * b
        BY <2>1, <2>3, <2>5
    <2>7. h * b + t \in 0..(N - 1)
        BY <1>1, <2>1, <2>2, <2>3, <2>4, <2>6
    <2> QED BY <2>7 DEF Pos, Slot, Line, b, h, t
<1>5. d \div N = 0 /\ (S[d] % N) = S[d]
    <2> HIDE DEF N
    <2> QED BY <1>1, <1>2, Small
<1>6. d \div 1 = d /\ (S[d] % 1) = 0
    BY <1>3
<1> HIDE DEF N
<1>7. Pos(S, 0, d) = 0 * N + S[d]
    BY <1>1, <1>5 DEF Pos, Slot
<1>8. Pos(S, K, d) = d * 1 + 0
    BY <1>1, <1>6 DEF Pos, Slot
<1> QED BY <1>1, <1>3, <1>4, <1>7, <1>8

\* The wires are what their definition says: the input, then each stage on the last.
LEMMA WiresAre ==
        ASSUME NEW din
        PROVE  /\ Wires(din)[0] = din
                      /\ \A s \in Stage : Wires(din)[s + 1] = Elem(s, Wires(din)[s])
<1>0. K \in Nat \ {0}
    BY FabricAssumption
<1> DEFINE Up(f, n) == IF n = 0 THEN din ELSE Elem(n - 1, f[n - 1])
           Partial(f, n) == f = [k \in 0..n |-> Up(f, k)]
<1>1. ASSUME NEW n \in Nat PROVE \E f : Partial(f, n)
    <2> DEFINE T == {k \in Nat : ~ \E f : Partial(f, k)}
    <2> SUFFICES ASSUME T # {} PROVE FALSE
        BY <1>1
    <2>1. PICK m \in T : \A y \in T : m <= y
        BY LeastOf
    <2>2. CASE m = 0
        <3> DEFINE f == [k \in 0..0 |-> din]
        <3>1. f = [k \in 0..0 |-> Up(f, k)]
            OBVIOUS
        <3> QED BY <2>1, <2>2, <3>1
    <2>3. CASE m # 0
        <3>a. m \in Nat /\ m - 1 \in Nat /\ m - 1 < m
            BY <2>3
        <3>b. ~(m <= m - 1)
            BY <3>a
        <3>1. m - 1 \in Nat /\ m - 1 \notin T
            <4> HIDE DEF T
            <4> QED BY <2>1, <3>a, <3>b
        <3>2. PICK f : Partial(f, m - 1)
            BY <3>1
        <3> DEFINE g == [k \in 0..m |-> IF k = m THEN Elem(m - 1, f[m - 1]) ELSE f[k]]
        <3>3. \A k \in 0..(m - 1) : g[k] = f[k] /\ f[k] = Up(f, k)
            BY <2>1, <3>1, <3>2
        <3>4. ASSUME NEW k \in 0..m PROVE g[k] = Up(g, k)
            BY <2>1, <2>3, <3>3, <3>4
        <3>5. g = [k \in 0..m |-> Up(g, k)]
            BY <3>4
        <3> QED BY <2>1, <3>5
    <2> QED BY <2>2, <2>3
<1>2. PICK g : Partial(g, K)
    BY <1>0, <1>1
<1>3. Partial(Wires(din), K)
    <2>1. Wires(din) = CHOOSE f : Partial(f, K)
        BY DEF Wires
    <2> HIDE DEF Partial
    <2> QED BY <1>2, <2>1
<1>4. \A k \in 0..K : Wires(din)[k] = Up(Wires(din), k)
    <2> DEFINE w == Wires(din)
    <2>1. w = [k \in 0..K |-> Up(w, k)]
        BY <1>3
    <2> HIDE DEF w
    <2>2. \A k \in 0..K : w[k] = Up(w, k)
        BY <2>1
    <2> QED BY <2>2 DEF w
<1>5. ASSUME NEW s \in Stage PROVE Wires(din)[s + 1] = Elem(s, Wires(din)[s])
    <2>1. s + 1 \in 0..K /\ s + 1 # 0 /\ (s + 1) - 1 = s
        BY <1>0 DEF Stage
    <2> QED BY <1>4, <2>1
<1>6. Wires(din)[0] = din
    BY <1>0, <1>4
<1> QED BY <1>5, <1>6

\* The address bit of d at stage s is that of the line where the packet for d leaves it.
LEMMA Crosses ==
    ASSUME NEW S, Clear(S), NEW s \in Stage, NEW d \in DOMAIN S, NEW l \in Line
    PROVE  /\ BitOf(d, K - 1 - s) \in {0, 1} /\ BitOf(l, K - 1 - s) \in {0, 1}
           /\ Pos(S, s + 1, d) = l <=> /\ Pos(S, s, d) \in Pair(s, l)
                                       /\ BitOf(l, K - 1 - s) = BitOf(d, K - 1 - s)
<1> DEFINE c == Two[K - 1 - s]  i == Pos(S, s, d)  r == S[d]
<1>1. /\ c \in Nat \ {0} /\ Block(s) = 2 * c /\ Block(s + 1) = c
      /\ s \in 0..K /\ s + 1 \in 0..K /\ N \in Nat \ {0}
    BY Blocks, FabricAssumption DEF Stage
<1>2. d \in 0..(N - 1) /\ r \in 0..(N - 1) /\ l \in 0..(N - 1) /\ Line \subseteq Nat
    BY <1>1 DEF Line, Clear
<1>3. d \in Nat /\ l \in Nat /\ r \in Nat
    <2> HIDE DEF N, r
    <2> QED BY <1>1, <1>2
<1>4. i \in Line
    BY <1>1, PosIs
<1>5. i \in Nat
    BY <1>2, <1>4
<1>6. i = Slot(2 * c, d, r) /\ Pos(S, s + 1, d) = Slot(c, d, r)
    BY <1>1 DEF Pos
<1>7. BitOf(d, K - 1 - s) = Side(c, d) /\ BitOf(l, K - 1 - s) = Side(c, l)
    BY DEF BitOf, Side
<1>8. i \in Pair(s, l) <=> Meet(c, i, l)
    BY <1>4 DEF Pair, Meet
<1> HIDE DEF c, i, r
<1>9. Meet(c, i, l) /\ Side(c, l) = Side(c, d) <=> l = Slot(c, d, r)
    BY <1>1, <1>3, <1>5, <1>6, Switches
<1>10. Side(c, d) \in {0, 1} /\ Side(c, l) \in {0, 1}
    BY <1>1, <1>3, Halves DEF Side
<1> QED BY <1>6, <1>7, <1>8, <1>9, <1>10, Zenon DEF i

\* A settled stage takes every packet one step.
LEMMA Switched ==
    ASSUME NEW S, Clear(S), NEW F, NEW s \in Stage, NEW w,
           Carries(S, F, s, w), Active(S, s), Aimed(S, s)
    PROVE  Carries(S, F, s + 1, Elem(s, w))
<1>1. s \in 0..K /\ s + 1 \in 0..K
    BY FabricAssumption DEF Stage
<1> SUFFICES ASSUME NEW l \in Line
             PROVE  Elem(s, w)[l] = UNION {F[d] : d \in At(S, s + 1, l)}
    BY DEF Carries
<1> DEFINE A == {j \in Pair(s, l) : act[s][j] /\ sel[s][j] = (BitOf(l, K - 1 - s) = 1)}
<1>2. Elem(s, w)[l] = UNION {w[i] : i \in A}
    BY DEF Elem
<1>3. A \subseteq Line
    BY DEF Pair
<1>4. ASSUME NEW i \in A, NEW d \in At(S, s, i)
      PROVE  d \in At(S, s + 1, l)
    <2>1. d \in DOMAIN S /\ Pos(S, s, d) = i /\ i \in Pair(s, l) /\ i \in Line
        BY <1>3 DEF At
    <2>2. \A e \in At(S, s, i) : e = d
        BY <1>1, <2>1 DEF At, Clear
    <2>3. sel[s][i] = (BitOf(l, K - 1 - s) = 1)
        OBVIOUS
    <2>4. sel[s][i] = (\E e \in At(S, s, i) : BitOf(e, K - 1 - s) = 1)
        BY <2>1 DEF Active, Aimed
    <2>5. (BitOf(l, K - 1 - s) = 1) <=> (BitOf(d, K - 1 - s) = 1)
        BY <2>2, <2>3, <2>4
    <2>6. BitOf(l, K - 1 - s) = BitOf(d, K - 1 - s)
        BY <2>1, <2>5, Crosses
    <2> QED BY <2>1, <2>6, Crosses DEF At
<1>5. ASSUME NEW d \in At(S, s + 1, l)
      PROVE  \E i \in A : d \in At(S, s, i)
    <2> DEFINE i == Pos(S, s, d)
    <2>1. d \in DOMAIN S /\ Pos(S, s + 1, d) = l
        BY DEF At
    <2>2. i \in Line /\ i \in Pair(s, l) /\ BitOf(l, K - 1 - s) = BitOf(d, K - 1 - s)
        BY <1>1, <2>1, PosIs, Crosses
    <2>3. d \in At(S, s, i)
        BY <2>1 DEF At
    <2>4. \A e \in At(S, s, i) : e = d
        BY <1>1, <2>1 DEF At, Clear
    <2>5. act[s][i]
        BY <2>2, <2>3 DEF Active, Aimed
    <2>6. sel[s][i] = (\E e \in At(S, s, i) : BitOf(e, K - 1 - s) = 1)
        BY <2>2 DEF Active, Aimed
    <2>7. (\E e \in At(S, s, i) : BitOf(e, K - 1 - s) = 1) <=> BitOf(l, K - 1 - s) = 1
        BY <2>2, <2>3, <2>4
    <2>8. sel[s][i] = (BitOf(l, K - 1 - s) = 1)
        BY <2>6, <2>7
    <2> QED BY <2>2, <2>3, <2>5, <2>8
<1>6. \A i \in A : w[i] = UNION {F[d] : d \in At(S, s, i)}
    BY <1>3 DEF Carries
<1> HIDE DEF A
<1>7. \A v : v \in UNION {w[i] : i \in A} <=> v \in UNION {F[d] : d \in At(S, s + 1, l)}
    <2> SUFFICES ASSUME NEW v
                 PROVE  v \in UNION {w[i] : i \in A}
                        <=> v \in UNION {F[d] : d \in At(S, s + 1, l)}
        OBVIOUS
    <2>1. ASSUME NEW i \in A, v \in w[i]
          PROVE  \E d \in At(S, s + 1, l) : v \in F[d]
        BY <1>4, <1>6, <2>1
    <2>2. ASSUME NEW d \in At(S, s + 1, l), v \in F[d]
          PROVE  \E i \in A : v \in w[i]
        BY <1>5, <1>6, <2>2
    <2> QED BY <2>1, <2>2
<1> QED BY <1>2, <1>7

\* Wires that carry packets at their first places carry them at their places before every
\* stage up to the first that is not settled.
LEMMA Carried ==
    ASSUME NEW S, Clear(S), NEW F, NEW din, NEW n \in 0..K,
           Carries(S, F, 0, din), \A s \in Stage : s < n => Active(S, s) /\ Aimed(S, s)
    PROVE  \A s \in 0..n : Carries(S, F, s, Wires(din)[s])
<1>0. K \in Nat \ {0}
    BY FabricAssumption
<1> DEFINE T == {s \in 0..n : ~Carries(S, F, s, Wires(din)[s])}
<1> SUFFICES ASSUME T # {} PROVE FALSE
    OBVIOUS
<1>1. PICK m \in T : \A y \in T : m <= y
    BY LeastOf, T \in SUBSET Nat
<1>2. m \in 0..n /\ ~Carries(S, F, m, Wires(din)[m])
    OBVIOUS
<1>3. m # 0
    BY <1>2, WiresAre
<1>4. /\ m - 1 \in 0..n /\ ~(m <= m - 1) /\ (m - 1) + 1 = m
      /\ m - 1 \in Stage /\ m - 1 < n
    BY <1>0, <1>2, <1>3 DEF Stage
<1>5. Carries(S, F, m - 1, Wires(din)[m - 1])
    BY <1>1, <1>4
<1>6. Carries(S, F, m, Elem(m - 1, Wires(din)[m - 1]))
    <2> DEFINE p == m - 1
    <2>1. p \in Stage /\ p + 1 = m /\ Active(S, p) /\ Aimed(S, p) /\ Carries(S, F, p, Wires(din)[p])
        BY <1>4, <1>5
    <2> HIDE DEF p
    <2>2. Carries(S, F, p + 1, Elem(p, Wires(din)[p]))
        BY <2>1, Switched
    <2> QED BY <2>1, <2>2 DEF p
<1>7. Wires(din)[m] = Elem(m - 1, Wires(din)[m - 1])
    BY <1>4, WiresAre
<1> QED BY <1>2, <1>6, <1>7

------------------------------------------------------------------------------
(* The frame: how the latches come to hold the headers.                    *)

\* What a packet for line d has on its wire in the header, clock t.
Heads(S, F, t) ==
    \A d \in DOMAIN S : F[d] = IF t % 2 = 0 \/ BitOf(d, K - 1 - t \div 2) = 1 THEN One ELSE Low

\* The wires before a stage carry the packets once the strobes of the earlier ones passed.
LEMMA Before ==
    ASSUME NEW S, Clear(S), NEW F, NEW din, NEW t \in Nat, NEW n \in 0..K,
           Held(S, t), Carries(S, F, 0, din), 2 * n <= t
    PROVE  Carries(S, F, n, Wires(din)[n])
<1>1. \A s \in Stage : s < n => Active(S, s) /\ Aimed(S, s)
    <2> SUFFICES ASSUME NEW s \in Stage, s < n PROVE Active(S, s) /\ Aimed(S, s)
        OBVIOUS
    <2>1. 2 * s < t /\ 2 * s + 1 < t
        BY FabricAssumption DEF Stage
    <2> QED BY <2>1 DEF Held
<1>2. \A s \in 0..n : Carries(S, F, s, Wires(din)[s])
    BY <1>1, Carried
<1> QED BY <1>2

\* At a stage's strobes the wires are high where a packet is, and where its bit is.
LEMMA Headers ==
    ASSUME NEW S, NEW F, NEW s \in Stage, NEW w, NEW t \in Nat,
           Carries(S, F, s, w), Heads(S, F, t)
    PROVE  /\ t = 2 * s => \A l \in Line : (w[l] # Low) = (At(S, s, l) # {})
           /\ t = 2 * s + 1 => \A l \in Line :
                 (w[l] # Low) = (\E d \in At(S, s, l) : BitOf(d, K - 1 - s) = 1)
<1>1. s \in Nat
    BY DEF Stage
<1>2. \A l \in Line : w[l] = UNION {F[d] : d \in At(S, s, l)}
    BY DEF Carries
<1>3. \A l \in Line : \A d \in At(S, s, l) : d \in DOMAIN S
    BY DEF At
<1>4. One # Low
    BY DEF One, Low
<1>5. ASSUME t = 2 * s, NEW l \in Line PROVE (w[l] # Low) = (At(S, s, l) # {})
    <2>1. (t % 2) = 0
        <3>1. ((s * 2 + 0) % 2) = 0 /\ t = s * 2 + 0
            BY <1>1, <1>5, Quotient
        <3> QED BY <3>1
    <2>2. \A d \in At(S, s, l) : F[d] = One
        BY <1>3, <2>1 DEF Heads
    <2> QED BY <1>2, <1>4, <2>2 DEF One, Low
<1>6. ASSUME t = 2 * s + 1, NEW l \in Line
      PROVE  (w[l] # Low) = (\E d \in At(S, s, l) : BitOf(d, K - 1 - s) = 1)
    <2>1. (t % 2) = 1 /\ t \div 2 = s
        <3>1. ((s * 2 + 1) % 2) = 1 /\ (s * 2 + 1) \div 2 = s /\ t = s * 2 + 1
            BY <1>1, <1>6, Quotient
        <3> QED BY <3>1
    <2>2. \A d \in At(S, s, l) : F[d] = IF BitOf(d, K - 1 - s) = 1 THEN One ELSE Low
        BY <1>3, <2>1 DEF Heads
    <2>3. ASSUME NEW d \in At(S, s, l), BitOf(d, K - 1 - s) = 1
          PROVE  w[l] # Low
        <3>1. One \in SUBSET w[l]
            BY <1>2, <2>2, <2>3
        <3> QED BY <3>1 DEF One, Low
    <2>4. ASSUME w[l] # Low
          PROVE  \E d \in At(S, s, l) : BitOf(d, K - 1 - s) = 1
        BY <1>2, <2>2, <2>4 DEF Low
    <2> QED BY <2>3, <2>4
<1> QED BY <1>5, <1>6

\* A clock of a frame sets the stage whose strobe it is and leaves the others.
LEMMA Latches ==
    ASSUME NEW S, Clear(S), NEW F, NEW din, NEW t \in Nat, cnt = t,
           Held(S, t), Carries(S, F, 0, din), t < HDR => Heads(S, F, t), Latch(Wires(din))
    PROVE  Held(S, t + 1)'
<1>1. ASSUME NEW s \in Stage, 2 * s < t + 1
      PROVE  Active(S, s)'
    <2>1. s \in Nat /\ s \in 0..K /\ 2 * s + 1 < HDR
        BY FabricAssumption DEF Stage, HDR
    <2>2. act'[s] = IF cnt = 2 * s THEN [l \in Line |-> Wires(din)[s][l] # Low] ELSE act[s]
        BY DEF Latch, act_stb
    <2>3. CASE t = 2 * s
        <3>1. Carries(S, F, s, Wires(din)[s])
            BY <2>1, <2>3, Before
        <3>2. Heads(S, F, t)
            BY <2>1, <2>3, FabricAssumption DEF HDR
        <3>3. \A l \in Line : (Wires(din)[s][l] # Low) = (At(S, s, l) # {})
            <4> DEFINE w == Wires(din)[s]
            <4> HIDE DEF w
            <4> QED BY <2>3, <3>1, <3>2, Headers DEF w
        <3>4. \A l \in Line : act'[s][l] = (At(S, s, l) # {})
            BY <2>2, <2>3, <3>3
        <3> QED BY <3>4 DEF Active, At, Pos
    <2>4. CASE t # 2 * s
        <3>1. 2 * s < t /\ act'[s] = act[s]
            BY <1>1, <2>1, <2>2, <2>4
        <3>2. Active(S, s)
            BY <3>1 DEF Held
        <3> QED BY <3>1, <3>2 DEF Active, At, Pos
    <2> QED BY <2>3, <2>4
<1>2. ASSUME NEW s \in Stage, 2 * s + 1 < t + 1
      PROVE  Aimed(S, s)'
    <2>1. s \in Nat /\ s \in 0..K /\ 2 * s + 1 < HDR
        BY FabricAssumption DEF Stage, HDR
    <2>2. sel'[s] = IF cnt = 2 * s + 1 THEN [l \in Line |-> Wires(din)[s][l] # Low] ELSE sel[s]
        BY DEF Latch, sel_stb
    <2>3. CASE t = 2 * s + 1
        <3>1. Carries(S, F, s, Wires(din)[s])
            BY <2>1, <2>3, Before
        <3>2. Heads(S, F, t)
            BY <2>1, <2>3, FabricAssumption DEF HDR
        <3>3. \A l \in Line : (Wires(din)[s][l] # Low)
                              = (\E d \in At(S, s, l) : BitOf(d, K - 1 - s) = 1)
            <4> DEFINE w == Wires(din)[s]
            <4> HIDE DEF w
            <4> QED BY <2>3, <3>1, <3>2, Headers DEF w
        <3>4. \A l \in Line : sel'[s][l] = (\E d \in At(S, s, l) : BitOf(d, K - 1 - s) = 1)
            BY <2>2, <2>3, <3>3
        <3> QED BY <3>4 DEF Aimed, At, Pos
    <2>4. CASE t # 2 * s + 1
        <3>1. 2 * s + 1 < t /\ sel'[s] = sel[s]
            BY <1>2, <2>1, <2>2, <2>4
        <3>2. Aimed(S, s)
            BY <3>1 DEF Held
        <3> QED BY <3>1, <3>2 DEF Aimed, At, Pos
    <2> QED BY <2>3, <2>4
<1> QED BY <1>1, <1>2 DEF Held

\* A frame starts with nothing asked of the latches.
LEMMA HeldAtZero ==
    ASSUME NEW S
    PROVE  Held(S, 0)
<1>1. \A s \in Stage : ~(2 * s < 0) /\ ~(2 * s + 1 < 0)
    BY FabricAssumption DEF Stage
<1> QED BY <1>1 DEF Held

\* Held is about the latches alone.
LEMMA Undisturbed ==
    ASSUME NEW S, NEW t, UNCHANGED <<act, sel>>, Held(S, t)
    PROVE  Held(S, t)'
<1>1. \A s \in Stage : Active(S, s) => Active(S, s)'
    BY DEF Active, At, Pos
<1>2. \A s \in Stage : Aimed(S, s) => Aimed(S, s)'
    BY DEF Aimed, At, Pos
<1> QED BY <1>1, <1>2 DEF Held

\* Once the headers are through, a line has what is sent to it and no other has any.
LEMMA Delivers ==
    ASSUME NEW S, Clear(S), NEW F, NEW din, NEW t \in Nat, t >= HDR,
           Held(S, t), Carries(S, F, 0, din), NEW l \in Line
    PROVE  Dout(din)[l] = IF l \in DOMAIN S THEN F[l] ELSE Low
<1>1. K \in 0..K /\ 2 * K <= t
    BY FabricAssumption DEF HDR
<1>2. Carries(S, F, K, Wires(din)[K])
    BY <1>1, Before
<1>3. Dout(din)[l] = UNION {F[d] : d \in At(S, K, l)}
    BY <1>2 DEF Carries, Dout
<1>4. At(S, K, l) = {d \in DOMAIN S : d = l}
    BY PosIs DEF At
<1>5. CASE l \in DOMAIN S
    BY <1>3, <1>4, <1>5
<1>6. CASE l \notin DOMAIN S
    BY <1>3, <1>4, <1>6 DEF Low
<1> QED BY <1>5, <1>6

------------------------------------------------------------------------------
(* The traffic of frame_sim.py.  The sources are concentrated and the      *)
(* destinations in order, so that packets of one block are of fewer ranks  *)
(* than it has lines.                                                      *)

\* The packets before d: its rank, and the line of its source.
Rank(D, d) == Cardinality({e \in D : e < d})

\* The rank of a destination among those of a frame.
LEMMA RankIs ==
    ASSUME NEW n \in Nat, NEW D \in SUBSET (0..(n - 1))
    PROVE  /\ IsFiniteSet(D) /\ Cardinality(D) \in 0..n
           /\ \A d \in Nat : Rank(D, d) \in Nat
           /\ \A d \in D : Rank(D, d) \in 0..(Cardinality(D) - 1)
           /\ \A d \in D, e \in D :
                 d < e => Rank(D, d) < Rank(D, e) /\ Rank(D, e) - Rank(D, d) <= e - d
<1>1. IsFiniteSet(D) /\ Cardinality(D) \in 0..n
    <2>1. IsFiniteSet(0..(n - 1)) /\ Cardinality(0..(n - 1)) = n
        <3>1. 0 \in Int /\ n - 1 \in Int /\ (n - 1) - 0 + 1 = n /\ (0 > n - 1 => n = 0)
            OBVIOUS
        <3> QED BY <3>1, FS_Interval
    <2>2. IsFiniteSet(D) /\ Cardinality(D) <= n
        BY <2>1, FS_Subset
    <2> QED BY <2>2, FS_CardinalityType
<1>2. ASSUME NEW d \in Nat
      PROVE  IsFiniteSet({i \in D : i < d}) /\ Rank(D, d) \in Nat
    <2>1. {i \in D : i < d} \in SUBSET D
        OBVIOUS
    <2>2. IsFiniteSet({i \in D : i < d})
        BY <1>1, <2>1, FS_Subset
    <2> QED BY <2>2, FS_CardinalityType DEF Rank
<1>3. ASSUME NEW d \in D
      PROVE  Rank(D, d) \in 0..(Cardinality(D) - 1)
    <2> DEFINE A == {i \in D : i < d}
    <2>1. A \in SUBSET (D \ {d}) /\ d \in Nat
        OBVIOUS
    <2>2. IsFiniteSet(D \ {d}) /\ Cardinality(D \ {d}) = Cardinality(D) - 1
        BY <1>1, FS_RemoveElement
    <2>3. Cardinality(A) <= Cardinality(D \ {d})
        BY <2>1, <2>2, FS_Subset
    <2> QED BY <1>1, <1>2, <2>1, <2>2, <2>3 DEF Rank
<1>4. ASSUME NEW d \in D, NEW e \in D, d < e
      PROVE  Rank(D, d) < Rank(D, e) /\ Rank(D, e) - Rank(D, d) <= e - d
    <2> DEFINE A == {i \in D : i < d}
               B == {i \in D : i < e}
               C == {i \in D : d <= i /\ i < e}
    <2>0. d \in Nat /\ e \in Nat /\ \A i \in D : i \in Nat
        OBVIOUS
    <2>i. /\ A \subseteq D /\ \A i \in D : i \in A <=> i < d
          /\ B \subseteq D /\ \A i \in D : i \in B <=> i < e
          /\ C \subseteq D /\ \A i \in D : i \in C <=> d <= i /\ i < e
        OBVIOUS
    <2> HIDE DEF A, B, C
    <2>1. IsFiniteSet(A) /\ IsFiniteSet(B) /\ Cardinality(A) \in Nat /\ Cardinality(B) \in Nat
        BY <1>2, <2>0 DEF Rank, A, B
    <2>2. d \notin A /\ d \in B /\ A \cup {d} \in SUBSET B
        BY <1>4, <2>0, <2>i
    <2>3. Cardinality(A \cup {d}) = Cardinality(A) + 1
        BY <2>1, <2>2, FS_AddElement
    <2>4. Cardinality(A \cup {d}) <= Cardinality(B)
        BY <2>1, <2>2, FS_Subset
    <2>5. IsFiniteSet(d..(e - 1)) /\ Cardinality(d..(e - 1)) = e - d
        <3>1. d \in Int /\ e - 1 \in Int /\ (e - 1) - d + 1 = e - d /\ ~(d > e - 1)
            BY <1>4, <2>0
        <3> QED BY <3>1, FS_Interval
    <2>6. C \in SUBSET (d..(e - 1))
        BY <2>0, <2>i
    <2>7. IsFiniteSet(C) /\ Cardinality(C) <= e - d
        <3>1. IsFiniteSet(C) /\ Cardinality(C) <= Cardinality(d..(e - 1))
            BY <2>5, <2>6, FS_Subset, Zenon
        <3> QED BY <2>5, <3>1
    <2>8. B = A \cup C /\ A \cap C = {}
        <3>1. \A i \in D : i \in B <=> i \in A \/ i \in C
            BY <1>4, <2>0, <2>i
        <3>2. \A i \in D : ~(i \in A /\ i \in C)
            BY <2>0, <2>i
        <3>3. A \subseteq D /\ B \subseteq D /\ C \subseteq D
            BY <2>i
        <3>4. A \cap C = {}
            BY <3>2, <3>3, Zenon
        <3>5. B = A \cup C
            BY <3>1, <3>3, Zenon
        <3> QED BY <3>4, <3>5
    <2>9. Cardinality(A \cup C) = Cardinality(A) + Cardinality(C) - Cardinality(A \cap C)
        BY <2>1, <2>7, FS_Union
    <2>10. Cardinality(A \cap C) = 0 /\ Cardinality(C) \in Nat
        BY <2>7, <2>8, FS_EmptySet, FS_CardinalityType
    <2>11. Cardinality(B) = Cardinality(A) + Cardinality(C)
        BY <2>1, <2>8, <2>9, <2>10
    <2>12. Cardinality(A) < Cardinality(B) /\ Cardinality(B) - Cardinality(A) <= e - d
        BY <2>0, <2>1, <2>3, <2>4, <2>7, <2>10, <2>11
    <2> QED BY <2>12 DEF Rank, A, B
<1> QED BY <1>1, <1>2, <1>3, <1>4

\* Every rank is that of one destination.
LEMMA RankNames ==
    ASSUME NEW n \in Nat, NEW D \in SUBSET (0..(n - 1))
    PROVE  /\ \A d \in D, e \in D : Rank(D, d) = Rank(D, e) => d = e
           /\ \A i \in 0..(Cardinality(D) - 1) : \E d \in D : Rank(D, d) = i
<1> DEFINE T == 0..(Cardinality(D) - 1)
           f == [d \in D |-> Rank(D, d)]
<1>1. /\ IsFiniteSet(D) /\ Cardinality(D) \in Nat
      /\ \A d \in D : Rank(D, d) \in T
      /\ \A d \in D, e \in D : d < e => Rank(D, d) < Rank(D, e)
    BY RankIs
<1>2. \A d \in D, e \in D : Rank(D, d) = Rank(D, e) => d = e
    <2> SUFFICES ASSUME NEW d \in D, NEW e \in D, Rank(D, d) = Rank(D, e)
                 PROVE  d = e
        OBVIOUS
    <2>1. Rank(D, d) \in Nat /\ Rank(D, e) \in Nat /\ d \in Nat /\ e \in Nat
        BY <1>1
    <2>2. ~(d < e) /\ ~(e < d)
        BY <1>1, <2>1
    <2> QED BY <2>1, <2>2
<1>3. IsFiniteSet(T) /\ Cardinality(T) = Cardinality(D)
    <2> DEFINE n1 == Cardinality(D)
    <2>1. 0 \in Int /\ n1 - 1 \in Int /\ (n1 - 1) - 0 + 1 = n1 /\ (0 > n1 - 1 => n1 = 0)
        BY <1>1
    <2> QED BY <2>1, FS_Interval
<1>4. f \in Injection(D, T)
    <2>1. f \in [D -> T]
        BY <1>1
    <2>2. \A d \in D, e \in D : f[d] = f[e] => d = e
        BY <1>2
    <2> QED BY <2>1, <2>2 DEF Injection, IsInjective
<1>5. f \in Surjection(D, T)
    <2> HIDE DEF f, T
    <2> QED BY <1>3, <1>4, FS_Injection
<1>6. \A i \in T : \E d \in D : f[d] = i
    BY <1>5 DEF Surjection
<1>7. \A i \in T : \E d \in D : Rank(D, d) = i
    BY <1>6
<1> QED BY <1>2, <1>7

\* Concentrated sources in the order of their destinations.
Ranked(D) == [d \in D |-> Rank(D, d)]

\* Their packets never meet: what makes the fabric non-blocking.
LEMMA RankedIsClear ==
    ASSUME NEW D \in SUBSET Line
    PROVE  Clear(Ranked(D))
<1> DEFINE S == Ranked(D)
<1>1. N \in Nat \ {0} /\ D \in SUBSET (0..(N - 1)) /\ Line = 0..(N - 1)
    BY Blocks DEF Line
<1>2. /\ \A d \in D : d \in Nat /\ Rank(D, d) \in Nat /\ Rank(D, d) \in Line
      /\ \A d \in D, e \in D :
            d < e => Rank(D, d) < Rank(D, e) /\ Rank(D, e) - Rank(D, d) <= e - d
    <2>1. N \in Nat
        BY <1>1
    <2> HIDE DEF N
    <2>2. /\ Cardinality(D) \in 0..N /\ \A d \in D : Rank(D, d) \in 0..(Cardinality(D) - 1)
          /\ \A d \in D, e \in D :
                d < e => Rank(D, d) < Rank(D, e) /\ Rank(D, e) - Rank(D, d) <= e - d
        BY <1>1, <2>1, RankIs
    <2>3. \A d \in D : d \in Nat
        BY <1>1, <2>1
    <2> QED BY <1>1, <2>1, <2>2, <2>3
<1>3. DOMAIN S = D /\ S \in [D -> Line] /\ \A d \in D : S[d] = Rank(D, d)
    BY <1>2 DEF Ranked
<1>4. ASSUME NEW s \in 0..K, NEW d \in D, NEW e \in D, d < e
      PROVE  Pos(S, s, d) # Pos(S, s, e)
    <2> DEFINE b == Block(s)
    <2>1. b \in Nat \ {0}
        BY Blocks
    <2>2. /\ d \in Nat /\ e \in Nat /\ Rank(D, d) \in Nat /\ Rank(D, e) \in Nat
          /\ Rank(D, d) < Rank(D, e) /\ Rank(D, e) - Rank(D, d) <= e - d
        BY <1>2, <1>4
    <2> HIDE DEF b
    <2>3. Slot(b, d, Rank(D, d)) # Slot(b, e, Rank(D, e))
        BY <1>4, <2>1, <2>2, Apart
    <2> QED BY <1>3, <2>3 DEF Pos, b
<1>5. \A s \in 0..K : \A d \in D, e \in D : Pos(S, s, d) = Pos(S, s, e) => d = e
    <2> SUFFICES ASSUME NEW s \in 0..K, NEW d \in D, NEW e \in D, Pos(S, s, d) = Pos(S, s, e)
                 PROVE  d = e
        OBVIOUS
    <2>1. ~(d < e) /\ ~(e < d)
        BY <1>4
    <2> QED BY <1>2, <2>1
<1> QED BY <1>3, <1>5 DEF Clear

\* The fabric's counter is the senders' clock, and a stage whose strobe has passed
\* holds the header of this frame; before the pulse nothing is known.
FabricInv ==
    /\ plane = "fabric" => dests \in Loads /\ tick \in -1..(FRAME - 1)
    /\ plane # "fabric" => tick = -1
    /\ tick # -1 => cnt = tick /\ Held(Ranked(dests), tick)

\* What every packet has on its wire at tick t.
Bits(D, t) == [d \in D |-> FrameBit(d, Rank(D, d), t)]

\* The senders put every packet on the line of its rank.
LEMMA Sent ==
    ASSUME dests \in SUBSET Line, tick # -1
    PROVE  Carries(Ranked(dests), Bits(dests, tick), 0, SendersIn)
<1> DEFINE D == dests  F == Bits(dests, tick)  n == Cardinality(D)  S == Ranked(D)
<1>1. N \in Nat \ {0} /\ D \in SUBSET (0..(N - 1)) /\ Line = 0..(N - 1)
    BY Blocks DEF Line
<1>2. /\ n \in Nat /\ \A d \in D : Rank(D, d) \in 0..(n - 1)
      /\ \A d \in D, e \in D : Rank(D, d) = Rank(D, e) => d = e
      /\ \A i \in 0..(n - 1) : \E d \in D : Rank(D, d) = i
    <2>1. N \in Nat
        BY <1>1
    <2> HIDE DEF N
    <2>2. Cardinality(D) \in 0..N /\ \A d \in D : Rank(D, d) \in 0..(Cardinality(D) - 1)
        BY <1>1, <2>1, RankIs
    <2>3. n \in Nat /\ \A d \in D : Rank(D, d) \in 0..(n - 1)
        BY <2>2
    <2>4. /\ \A d \in D, e \in D : Rank(D, d) = Rank(D, e) => d = e
          /\ \A i \in 0..(n - 1) : \E d \in D : Rank(D, d) = i
        BY <1>1, <2>1, RankNames
    <2> QED BY <2>3, <2>4
<1>3. DOMAIN S = D /\ \A d \in D : Pos(S, 0, d) = Rank(D, d)
    <2>1. DOMAIN S = D /\ \A d \in D : S[d] = Rank(D, d)
        BY DEF Ranked
    <2>2. Clear(S)
        BY RankedIsClear
    <2> HIDE DEF S
    <2> QED BY <2>1, <2>2, PosIs
<1> HIDE DEF S
<1> SUFFICES ASSUME NEW i \in Line
             PROVE  SendersIn[i] = UNION {F[d] : d \in At(S, 0, i)}
    BY DEF Carries, S
<1>4. i \in Nat
    <2> HIDE DEF N
    <2> QED BY <1>1
<1>5. CASE i >= n
    <2>1. SendersIn[i] = Low
        BY <1>5 DEF SendersIn
    <2>2. At(S, 0, i) = {}
        <3>1. \A d \in D : Rank(D, d) # i
            BY <1>2, <1>4, <1>5
        <3> QED BY <1>3, <3>1 DEF At
    <2> QED BY <2>1, <2>2 DEF Low
<1>6. CASE ~(i >= n)
    <2>1. i \in 0..(n - 1)
        BY <1>2, <1>4, <1>6
    <2>2. PICK d \in D : Rank(D, d) = i
        BY <1>2, <2>1
    <2>3. SortedDest(i) = d
        <3>1. SortedDest(i) \in D /\ Rank(D, SortedDest(i)) = i
            BY <2>2 DEF SortedDest, Rank
        <3> QED BY <1>2, <2>2, <3>1
    <2>4. SendersIn[i] = FrameBit(d, i, tick)
        BY <1>6, <2>3 DEF SendersIn
    <2>5. At(S, 0, i) = {d}
        BY <1>2, <1>3, <2>2 DEF At
    <2>6. F[d] = FrameBit(d, i, tick)
        BY <2>2 DEF Bits
    <2> QED BY <2>4, <2>5, <2>6
<1> QED BY <1>5, <1>6

\* The frame counter and the latches under a clock of the traffic.
LEMMA SendStep ==
    ASSUME FabricInv, LoadsAssumption, plane = "fabric", SendBit, plane' = plane
    PROVE  FabricInv'
<1>1. FRAME \in Nat \ {0} /\ HDR \in Nat
    BY FabricAssumption DEF FRAME, HDR
<1>2. /\ tick \in 0..(FRAME - 1) /\ cnt = tick /\ dests \in Loads /\ dests \in SUBSET Line
      /\ tick' = (tick + 1) % FRAME /\ dests' \in Loads
      /\ tick # FRAME - 1 => dests' = dests
      /\ cnt' = IF cnt = FRAME - 1 THEN 0 ELSE cnt + 1
      /\ Latch(Wires(SendersIn)) /\ Held(Ranked(dests), tick)
    BY <1>1 DEF FabricInv, SendBit, FabricEdge
<1>3. CASE tick = FRAME - 1
    <2>1. tick' = 0 /\ cnt' = 0 /\ 0 \in -1..(FRAME - 1)
        BY <1>1, <1>2, <1>3
    <2>2. Held(Ranked(dests), 0)'
        BY FabricAssumption DEF Held, Stage
    <2> QED BY <1>2, <2>1, <2>2 DEF FabricInv
<1>4. CASE tick # FRAME - 1
    <2>1. /\ tick' = tick + 1 /\ cnt' = tick + 1 /\ dests' = dests
          /\ tick + 1 \in -1..(FRAME - 1) /\ tick + 1 # -1 /\ tick \in Nat
        BY <1>1, <1>2, <1>4, Small
    <2>2. PICK S, F, t, din :
              S = Ranked(dests) /\ F = Bits(dests, tick) /\ t = tick /\ din = SendersIn
        OBVIOUS
    <2>3. Clear(S) /\ DOMAIN S = dests
        BY <1>2, <2>2, RankedIsClear DEF Ranked
    <2>4. t < HDR => Heads(S, F, t)
        <3>1. \A d \in dests : F[d] = FrameBit(d, Rank(dests, d), t)
            BY <2>2 DEF Bits
        <3>2. t < HDR => ~(t >= HDR)
            BY <1>1, <2>1, <2>2
        <3> QED BY <2>3, <3>1, <3>2 DEF Heads, FrameBit
    <2>5. t \in Nat /\ cnt = t /\ Held(S, t) /\ Carries(S, F, 0, din) /\ Latch(Wires(din))
        BY <1>1, <1>2, <2>1, <2>2, Sent
    <2>6. Held(S, t + 1)'
        BY <2>3, <2>4, <2>5, Latches
    <2>7. S = Ranked(dests)' /\ t + 1 = tick'
        BY <2>1, <2>2 DEF Ranked, Rank
    <2> QED BY <1>2, <2>1, <2>6, <2>7 DEF FabricInv
<1> QED BY <1>3, <1>4

\* Nothing is asked of the latches at power-up, and only the traffic moves the fabric
\* that is driven by it.
LEMMA FabricStep ==
    ASSUME LoadsAssumption
    PROVE  /\ TileInit => FabricInv
           /\ FabricInv /\ [TileNext]_tile => FabricInv'
<1>1. ASSUME TileInit PROVE FabricInv
    <2>1. tick = -1 /\ (plane = "fabric" => dests \in Loads)
        BY <1>1 DEF TileInit, SendersIdle, Senders
    <2>2. -1 \in -1..(FRAME - 1)
        BY FabricAssumption DEF FRAME, HDR
    <2> QED BY <2>1, <2>2 DEF FabricInv
<1>2. ASSUME FabricInv, CoreClock \/ Run \/ UNCHANGED tile
      PROVE  FabricInv'
    <2>1. UNCHANGED <<plane, dests, tick>> /\ (plane # "fabric" \/ UNCHANGED <<cnt, act, sel>>)
        BY <1>2 DEF CoreClock, Run, tile, traffic, fabric
    <2>2. CASE plane # "fabric"
        BY <1>2, <2>1, <2>2 DEF FabricInv
    <2>3. CASE UNCHANGED <<cnt, act, sel>>
        <3>1. PICK S, t : S = Ranked(dests) /\ t = tick
            OBVIOUS
        <3>2. S = Ranked(dests)' /\ t = tick'
            BY <2>1, <3>1 DEF Ranked, Rank
        <3>3. Held(S, t) => Held(S, t)'
            BY <2>3, Undisturbed
        <3> QED BY <1>2, <2>1, <2>3, <3>1, <3>2, <3>3 DEF FabricInv
    <2> QED BY <2>1, <2>2, <2>3
<1>3. ASSUME FabricInv, Traffic
      PROVE  FabricInv'
    <2>1. plane = "fabric" /\ plane' = plane
        BY <1>3 DEF Traffic
    <2>2. CASE SendBit
        BY <1>3, <2>1, <2>2, SendStep
    <2>3. CASE StartFrames
        <3>1. tick' = 0 /\ cnt' = 0 /\ dests' = dests /\ dests \in Loads
            BY <1>3, <2>1, <2>3 DEF StartFrames, FabricEdge, FabricInv
        <3>2. Held(Ranked(dests), 0)'
            BY FabricAssumption DEF Held, Stage
        <3>3. 0 \in -1..(FRAME - 1)
            BY FabricAssumption DEF FRAME, HDR
        <3> QED BY <2>1, <3>1, <3>2, <3>3 DEF FabricInv
    <2> QED BY <1>3, <2>2, <2>3 DEF Traffic
<1> QED BY <1>1, <1>2, <1>3 DEF TileNext

\* Every packet is where it is sent to.
LEMMA Arriving ==
    ASSUME FabricInv, LoadsAssumption
    PROVE  FramesArrive
<1> SUFFICES ASSUME tick >= HDR, NEW l \in Line
             PROVE  Dout(SendersIn)[l] = expect(l)
    BY DEF FramesArrive
<1>1. HDR \in Nat \ {0} /\ FRAME \in Nat
    BY FabricAssumption DEF HDR, FRAME
<1>2. tick # -1 /\ plane = "fabric" /\ tick \in Nat /\ Held(Ranked(dests), tick)
    BY <1>1 DEF FabricInv
<1>3. dests \in SUBSET Line
    BY <1>2 DEF FabricInv
<1>4. PICK S, F, t, din :
          S = Ranked(dests) /\ F = Bits(dests, tick) /\ t = tick /\ din = SendersIn
    OBVIOUS
<1>5. Clear(S) /\ DOMAIN S = dests
    BY <1>3, <1>4, RankedIsClear DEF Ranked
<1>6. t \in Nat /\ t >= HDR /\ Held(S, t) /\ Carries(S, F, 0, din)
    BY <1>2, <1>3, <1>4, Sent
<1>7. Dout(din)[l] = IF l \in dests THEN F[l] ELSE Low
    BY <1>5, <1>6, Delivers
<1>8. \A d \in dests : F[d] = {<<Rank(dests, d), tick - HDR>>}
    BY <1>4 DEF Bits, FrameBit
<1> QED BY <1>4, <1>7, <1>8 DEF expect, Rank

\* THEOREM. For any number of stages, any payload and any loads, once a frame's headers
\* are through every packet's bits are on the line it is for, in their clock, and every
\* other line is low, whatever the counter and the latches held (frame_sim.py sections
\* 2, 3 and 3b run samples of this; bitserial_switch.v claims an output on activity).
THEOREM PacketsArrive == TileSpec => []FramesArrive
<1>1. TileInit => FabricInv
    BY FabricStep, LoadsAssumption
<1>2. FabricInv /\ [TileNext]_tile => FabricInv'
    BY FabricStep, LoadsAssumption
<1>3. FabricInv => FramesArrive
    BY Arriving, LoadsAssumption
<1> QED BY <1>1, <1>2, <1>3, PTL DEF TileSpec

\* THEOREM. Both users of the frame stay in it wherever a sof falls, under the hosts of
\* FrameKept: the server in the chip's phase, every packet on its line.
THEOREM FramesKept ==
    ASSUME \A h \in Hosts : Safe(h)
    PROVE  TileSpec => []FramesHold
<1>1. TileSpec => []InFrame
    BY FrameKept
<1>2. InFrame /\ FramesArrive => FramesHold
    BY DEF FramesHold
<1> QED BY <1>1, <1>2, PacketsArrive, PTL

------------------------------------------------------------------------------
(* The network's registers: 32 wires, and what shifts make of them.         *)

\* A register of 32 wires.
IsWord(w) == w = [i \in Word32 |-> w[i]]

\* Such a register is a sequence.
LEMMA WordIsSeq ==
    ASSUME NEW S, NEW n \in Nat, NEW w \in [1..n -> S]
    PROVE  w \in Seq(S) /\ Len(w) = n
<1>1. w \in Seq(S)
    BY SeqDef
<1>2. Len(w) \in Nat /\ 1..Len(w) = 1..n
    BY <1>1, LenProperties
<1>3. Len(w) = n
    <2> DEFINE p == Len(w)
    <2> HIDE DEF p
    <2>1. ASSUME p \in Nat, 1..p = 1..n PROVE p = n
        <3>1. p # 0 => p \in 1..n
            BY <2>1
        <3>2. n # 0 => n \in 1..p
            BY <2>1
        <3> QED BY <2>1, <3>1, <3>2
    <2> QED BY <1>2, <2>1 DEF p
<1> QED BY <1>1, <1>3

\* Two sequences of the same wires are one.
LEMMA SameWires ==
    ASSUME NEW S, NEW s \in Seq(S), Len(s) = 32, NEW w, IsWord(w), \A i \in Word32 : s[i] = w[i]
    PROVE  s = w
<1>1. \A i \in 1..32 : w[i] \in S
    BY LenProperties DEF Word32
<1>2. w \in [1..32 -> S]
    BY <1>1 DEF IsWord, Word32
<1>3. w \in Seq(S) /\ Len(w) = 32
    <2>1. PICK n \in Nat : n = 32
        OBVIOUS
    <2>2. w \in [1..n -> S]
        BY <1>2, <2>1
    <2>3. w \in Seq(S) /\ Len(w) = n
        BY <2>2, WordIsSeq
    <2> QED BY <2>1, <2>3
<1> QED BY <1>3, SeqEqual DEF Word32

\* A right and a left shift of a register.
LEMMA ShiftsIn ==
    ASSUME NEW w, IsWord(w), NEW b
    PROVE  <<b>> \o SubSeq(w, 1, 31) = [i \in Word32 |-> IF i = 1 THEN b ELSE w[i - 1]]
<1> DEFINE Any == {w[i] : i \in Word32} \cup {b}
           u == SubSeq(w, 1, 31)
           r == [i \in Word32 |-> IF i = 1 THEN b ELSE w[i - 1]]
           c == <<b>>
<1>1. \A i \in 1..31 : w[i] \in Any
    BY DEF Word32
<1>2. u \in Seq(Any) /\ Len(u) = 31 /\ \A i \in 1..31 : u[i] = w[i]
    <2>1. /\ u \in Seq(Any) /\ Len(u) = IF 1 <= 31 THEN 31 - 1 + 1 ELSE 0
          /\ \A i \in 1..(31 - 1 + 1) : u[i] = w[1 + i - 1]
        <3> HIDE DEF Any
        <3> QED BY <1>1, SubSeqProperties
    <2>2. \A i \in 1..31 : 1 + i - 1 = i
        OBVIOUS
    <2> QED BY <2>1, <2>2
<1>3. c \in Seq(Any) /\ Len(c) = 1 /\ c[1] = b
    <2>1. b \in Any
        OBVIOUS
    <2> HIDE DEF Any
    <2> QED BY <2>1
<1> HIDE DEF Any, u, c
<1>4. /\ c \o u \in Seq(Any) /\ Len(c \o u) = Len(c) + Len(u)
      /\ \A i \in 1..(Len(c) + Len(u)) : (c \o u)[i] = IF i <= Len(c) THEN c[i] ELSE u[i - Len(c)]
    <2>1. c \in Seq(Any) /\ u \in Seq(Any)
        BY <1>2, <1>3, Zenon
    <2> QED BY <2>1, ConcatProperties, Zenon
<1>5. Len(c \o u) = 32 /\ \A i \in Word32 : (c \o u)[i] = r[i]
    <2>1. Len(c) + Len(u) = 32
        BY <1>2, <1>3
    <2>2. ASSUME NEW i \in Word32
          PROVE  (c \o u)[i] = r[i]
        <3>1. i \in 1..32 /\ (i # 1 => i - 1 \in 1..31) /\ (i <= 1 <=> i = 1)
            BY DEF Word32
        <3>2. (c \o u)[i] = IF i <= 1 THEN c[i] ELSE u[i - 1]
            BY <1>3, <1>4, <2>1, <3>1
        <3> QED BY <1>2, <1>3, <3>1, <3>2
    <2> QED BY <1>4, <2>1, <2>2
<1>6. IsWord(r)
    BY DEF IsWord
<1> HIDE DEF r
<1>7. c \o u = r
    BY <1>4, <1>5, <1>6, SameWires
<1> QED BY <1>7 DEF c, u, r

LEMMA ShiftsOut ==
    ASSUME NEW w, IsWord(w), NEW b
    PROVE  Tail(w) \o <<b>> = [i \in Word32 |-> IF i = 32 THEN b ELSE w[i + 1]]
<1> DEFINE Any == {w[i] : i \in Word32} \cup {b}
           u == Tail(w)
           r == [i \in Word32 |-> IF i = 32 THEN b ELSE w[i + 1]]
           c == <<b>>
<1>1. w \in [1..32 -> Any] /\ b \in Any
    BY DEF IsWord, Word32
<1> HIDE DEF Any
<1>2. w \in Seq(Any) /\ Len(w) = 32 /\ w # <<>>
    <2>1. w \in Seq(Any) /\ Len(w) = 32
        <3>1. PICK n \in Nat : n = 32
            OBVIOUS
        <3>2. w \in [1..n -> Any]
            BY <1>1, <3>1
        <3>3. w \in Seq(Any) /\ Len(w) = n
            BY <3>2, WordIsSeq
        <3> QED BY <3>1, <3>3
    <2>2. Len(<<>>) = 0
        OBVIOUS
    <2>3. 32 # 0
        OBVIOUS
    <2> QED BY <2>1, <2>2, <2>3, Zenon
<1>3. u \in Seq(Any) /\ Len(u) = 31 /\ \A i \in 1..31 : u[i] = w[i + 1]
    <2>1. /\ u \in Seq(Any) /\ Len(u) = Len(w) - 1
          /\ \A i \in 1..Len(u) : u[i] = w[i + 1]
        BY <1>2, HeadTailProperties, Zenon
    <2> HIDE DEF u
    <2>2. Len(u) = 31
        BY <1>2, <2>1
    <2> QED BY <2>1, <2>2
<1>4. c \in Seq(Any) /\ Len(c) = 1 /\ c[1] = b
    BY <1>1
<1> HIDE DEF u, c
<1>5. /\ u \o c \in Seq(Any) /\ Len(u \o c) = Len(u) + Len(c)
      /\ \A i \in 1..(Len(u) + Len(c)) : (u \o c)[i] = IF i <= Len(u) THEN u[i] ELSE c[i - Len(u)]
    <2>1. u \in Seq(Any) /\ c \in Seq(Any)
        BY <1>3, <1>4, Zenon
    <2> QED BY <2>1, ConcatProperties, Zenon
<1>6. Len(u \o c) = 32 /\ \A i \in Word32 : (u \o c)[i] = r[i]
    <2>1. Len(u) + Len(c) = 32
        BY <1>3, <1>4
    <2>2. ASSUME NEW i \in Word32
          PROVE  (u \o c)[i] = r[i]
        <3>1. i \in 1..32 /\ (i # 32 => i \in 1..31) /\ (i <= 31 <=> i # 32)
            BY DEF Word32
        <3>2. (u \o c)[i] = IF i <= 31 THEN u[i] ELSE c[i - 31]
            BY <1>3, <1>5, <2>1, <3>1
        <3>3. i = 32 => i - 31 = 1
            OBVIOUS
        <3> QED BY <1>3, <1>4, <3>1, <3>2, <3>3
    <2> QED BY <1>5, <2>1, <2>2
<1>7. IsWord(r)
    BY DEF IsWord
<1> HIDE DEF r
<1>8. u \o c = r
    BY <1>5, <1>6, <1>7, SameWires
<1> QED BY <1>8 DEF c, u, r

\* What a weight register holds after n clocks of the load of payload m.
Filling(w, m, n) ==
    \A i \in Word32 : i <= n => w[i] = {<<m, IF n - i <= 7 THEN n - i ELSE 7>>}

LEMMA Fills ==
    ASSUME NEW w, IsWord(w), NEW m, NEW n \in 0..31, Filling(w, m, n)
    PROVE  Filling(<<{<<m, IF n <= 7 THEN n ELSE 7>>}>> \o SubSeq(w, 1, 31), m, n + 1)
<1> DEFINE b == {<<m, IF n <= 7 THEN n ELSE 7>>}
           r == [i \in Word32 |-> IF i = 1 THEN b ELSE w[i - 1]]
<1>1. <<b>> \o SubSeq(w, 1, 31) = r
    <2> HIDE DEF b
    <2> QED BY ShiftsIn
<1>2. ASSUME NEW i \in Word32, i <= n + 1
      PROVE  r[i] = {<<m, IF (n + 1) - i <= 7 THEN (n + 1) - i ELSE 7>>}
    <2>1. CASE i = 1
        BY <2>1
    <2>2. CASE i # 1
        <3>1. i - 1 \in Word32 /\ i - 1 <= n /\ n - (i - 1) = (n + 1) - i
            BY <1>2, <2>2 DEF Word32
        <3>2. w[i - 1] = {<<m, IF n - (i - 1) <= 7 THEN n - (i - 1) ELSE 7>>}
            BY <3>1 DEF Filling
        <3>3. r[i] = w[i - 1]
            BY <2>2
        <3> QED BY <3>1, <3>2, <3>3
    <2> QED BY <2>1, <2>2
<1> HIDE DEF r
<1>3. Filling(r, m, n + 1)
    BY <1>2 DEF Filling
<1> QED BY <1>1, <1>3

LEMMA Filled ==
    ASSUME NEW w, IsWord(w), NEW m, Filling(w, m, 32)
    PROVE  w = Loaded(m)
<1>1. ASSUME NEW i \in Word32
      PROVE  w[i] = Loaded(m)[i]
    <2>1. i \in 1..32 /\ w[i] = {<<m, IF 32 - i <= 7 THEN 32 - i ELSE 7>>}
        BY DEF Filling, Word32
    <2>2. Loaded(m)[i] = IF i <= 25 THEN {<<m, 7>>} ELSE {<<m, 32 - i>>}
        BY DEF Loaded
    <2>3. CASE i <= 25
        BY <2>1, <2>2, <2>3
    <2>4. CASE ~(i <= 25)
        <3>1. 32 - i <= 7
            BY <2>1, <2>4
        <3> QED BY <2>1, <2>2, <2>4, <3>1
    <2> QED BY <2>3, <2>4
<1> QED BY <1>1 DEF IsWord, Loaded

\* A loaded register is shifted by one more.
LEMMA ShiftsOn ==
    ASSUME NEW w, NEW j \in 0..7
    PROVE  <<Low>> \o SubSeq(Shifted(w, j), 1, 31) = Shifted(w, j + 1)
<1> DEFINE s == Shifted(w, j)
           r == [i \in Word32 |-> IF i = 1 THEN Low ELSE s[i - 1]]
<1>1. <<Low>> \o SubSeq(s, 1, 31) = r
    <2>1. IsWord(s)
        BY DEF Shifted, IsWord
    <2> HIDE DEF s
    <2> QED BY <2>1, ShiftsIn
<1>2. ASSUME NEW i \in Word32
      PROVE  r[i] = IF i <= j + 1 THEN Low ELSE w[i - (j + 1)]
    <2>1. CASE i = 1
        BY <2>1
    <2>2. CASE i # 1
        <3>1. i - 1 \in Word32 /\ (i - 1) - j = i - (j + 1) /\ (i - 1 <= j <=> i <= j + 1)
            BY <2>2 DEF Word32
        <3>2. s[i - 1] = IF i - 1 <= j THEN Low ELSE w[(i - 1) - j]
            BY <3>1 DEF Shifted
        <3>3. r[i] = s[i - 1]
            BY <2>2
        <3> HIDE DEF r, s
        <3> QED BY <3>1, <3>2, <3>3
    <2> QED BY <2>1, <2>2
<1>3. r = Shifted(w, j + 1)
    BY <1>2 DEF Shifted
<1> QED BY <1>1, <1>3

LEMMA NotShifted ==
    ASSUME NEW m
    PROVE  Loaded(m) = Shifted(Loaded(m), 0)
<1>1. \A i \in Word32 : ~(i <= 0) /\ i - 0 = i
    BY DEF Word32
<1> QED BY <1>1 DEF Loaded, Shifted

\* The register says which payload it holds and how far it is shifted.
LEMMA ContentIs ==
    ASSUME NEW m \in Weights, NEW j \in 0..7
    PROVE  Content(Shifted(Loaded(m), j)) = <<m, j>>
<1>1. ASSUME NEW p, NEW n \in 0..7
      PROVE  Shifted(Loaded(p), n)[32] = {<<p, n>>}
    <2>1. 32 \in Word32 /\ 32 - n \in Word32 /\ ~(32 <= n) /\ 32 - (32 - n) = n
        BY DEF Word32
    <2>2. Shifted(Loaded(p), n)[32] = Loaded(p)[32 - n]
        BY <2>1 DEF Shifted
    <2>3. Loaded(p)[32 - n] = IF 32 - n <= 25 THEN {<<p, 7>>} ELSE {<<p, n>>}
        BY <2>1 DEF Loaded
    <2>4. 32 - n <= 25 => n = 7
        OBVIOUS
    <2> QED BY <2>2, <2>3, <2>4
<1> DEFINE w == Shifted(Loaded(m), j)
           is == {mj \in Weights \X (0..7) : w = Shifted(Loaded(mj[1]), mj[2])}
<1>2. <<m, j>> \in is
    OBVIOUS
<1>3. ASSUME NEW mj \in is
      PROVE  mj = <<m, j>>
    <2>1. mj = <<mj[1], mj[2]>> /\ mj[2] \in 0..7 /\ w = Shifted(Loaded(mj[1]), mj[2])
        OBVIOUS
    <2>2. {<<mj[1], mj[2]>>} = {<<m, j>>}
        BY <1>1, <2>1
    <2> QED BY <2>1, <2>2
<1>4. is = {<<m, j>>}
    <2> HIDE DEF is
    <2> QED BY <1>2, <1>3
<1>5. Content(w) = IF is = {} THEN <<Junk, 0>> ELSE CHOOSE mj \in is : TRUE
    BY DEF Content
<1> QED BY <1>4, <1>5

------------------------------------------------------------------------------
(* The network's frames.  Each has a packet at most: a weight or an input   *)
(* from the host, or the result of a cell.                                 *)

\* Whom frame f has a packet for, -1 for nobody, and the line it comes in on.
To(f) == IF f \in {13, 17} THEN 2 ELSE IF f = 18 THEN EDGE_OUT ELSE HostDest(f)
From(f) == IF f = 13 THEN 0 ELSE IF f = 17 THEN 1 ELSE IF f = 18 THEN 2 ELSE EDGE_IN
Packet(f) == [d \in (IF To(f) = -1 THEN {} ELSE {To(f)}) |-> From(f)]

\* What it has on its wire at clock t of the frame: a result is named by its cell and
\* by the clock it is sent in.
Sends(f, t) ==
    IF t >= 6 THEN {IF f \in {13, 17, 18} THEN <<Result(From(f)), t>> ELSE <<f, t - 6>>}
    ELSE IF t % 2 = 0 \/ BitOf(To(f), 2 - t \div 2) = 1 THEN One
    ELSE Low
Signal(f, t) == [d \in DOMAIN Packet(f) |-> Sends(f, t)]

\* The tile's own fabric has three stages, and eight clocks of payload.
LEMMA Built ==
    ASSUME K = 3, P = 8
    PROVE  HDR = 6 /\ FRAME = 14 /\ Line = 0..7
<1>1. HDR = 6 /\ FRAME = 14
    BY DEF HDR, FRAME
<1>2. Two[0 + 1] = 2 * Two[0] /\ Two[1 + 1] = 2 * Two[1] /\ Two[2 + 1] = 2 * Two[2] /\ Two[0] = 1
    BY TwoIs
<1>3. 0 + 1 = 1 /\ 1 + 1 = 2 /\ 2 + 1 = 3
    OBVIOUS
<1>4. Two[3] = 8
    BY <1>2, <1>3
<1> QED BY <1>1, <1>4 DEF Line, N

LEMMA PacketIs ==
    ASSUME K = 3, P = 8, NEW f \in 0..22
    PROVE  /\ Clear(Packet(f))
           /\ To(f) \in {-1, 0, 1, 2, 5} /\ From(f) \in {0, 1, 2, 4}
           /\ \A l \in Line : At(Packet(f), 0, l)
                  = IF To(f) # -1 /\ l = From(f) THEN {To(f)} ELSE {}
<1>1. Line = 0..7
    BY Built
<1>2. To(f) \in {-1, 0, 1, 2, 5} /\ From(f) \in {0, 1, 2, 4}
    BY DEF To, From, HostDest, EDGE_IN, EDGE_OUT
<1> DEFINE S == Packet(f)  D == IF To(f) = -1 THEN {} ELSE {To(f)}
<1>3. DOMAIN S = D /\ \A d \in D : S[d] = From(f)
    BY DEF Packet
<1>4. D \in SUBSET Line /\ S \in [D -> Line]
    BY <1>1, <1>2 DEF Packet
<1>5. \A d \in D, e \in D : d = e
    OBVIOUS
<1>6. Clear(S)
    BY <1>3, <1>4, <1>5 DEF Clear
<1> HIDE DEF S
<1>7. \A d \in D : Pos(S, 0, d) = From(f)
    BY <1>3, <1>6, PosIs
<1>8. ASSUME NEW l \in Line
      PROVE  At(S, 0, l) = IF To(f) # -1 /\ l = From(f) THEN {To(f)} ELSE {}
    BY <1>3, <1>7 DEF At
<1> QED BY <1>2, <1>6, <1>8 DEF S

\* Sequencer, fabric and host at the same clock of the same frame.
InStep ==
    /\ frm \in 0..22 /\ cyc \in 0..13 /\ cnt = cyc
    /\ sent = 14 * frm + cyc

\* A serialising register in its frame, at the bit this clock is for.
Emitting(k) ==
    em_f(k) => \A i \in Word32 : i + cyc <= 32 => ser[k][i] = {<<Result(k), i - 1 + cyc>>}

\* The fabric is given the frame's packet, and nothing else.
LEMMA Plays ==
    ASSUME K = 3, P = 8, InStep, \A k \in Cell : Emitting(k)
    PROVE  /\ Carries(Packet(frm), Signal(frm, cyc), 0, fab_in)
           /\ cyc < HDR => Heads(Packet(frm), Signal(frm, cyc), cyc)
<1>1. HDR = 6 /\ FRAME = 14 /\ Line = 0..7
    BY Built
<1>2. /\ frm \in 0..22 /\ cyc \in 0..13 /\ sent = 14 * frm + cyc /\ sent # -1
      /\ sent \div 14 = frm /\ (sent % 14) = cyc
    BY DEF InStep
<1> DEFINE S == Packet(frm)  F == Signal(frm, cyc)
<1>3. /\ To(frm) \in {-1, 0, 1, 2, 5} /\ From(frm) \in {0, 1, 2, 4}
      /\ \A l \in Line : At(S, 0, l) = IF To(frm) # -1 /\ l = From(frm) THEN {To(frm)} ELSE {}
    BY <1>2, PacketIs
<1>4. DOMAIN S = (IF To(frm) = -1 THEN {} ELSE {To(frm)})
      /\ \A d \in DOMAIN S : F[d] = Sends(frm, cyc)
    BY DEF Packet, Signal
<1>5. cyc < HDR => Heads(S, F, cyc)
    <2>1. 3 - 1 - cyc \div 2 = 2 - cyc \div 2
        BY <1>2
    <2> HIDE DEF S, F
    <2> QED BY <1>1, <1>2, <1>4, <2>1 DEF Heads, Sends
<1>6. HostBit = IF HostDest(frm) = -1 THEN Low ELSE FrameBit(HostDest(frm), frm, cyc)
    BY <1>1, <1>2 DEF HostBit
<1>7. frm \notin {13, 17, 18} =>
          HostBit = IF To(frm) = -1 THEN Low ELSE Sends(frm, cyc)
    <2>1. 3 - 1 - cyc \div 2 = 2 - cyc \div 2
        BY <1>2
    <2>2. frm \notin {13, 17, 18} => To(frm) = HostDest(frm)
        BY DEF To
    <2>3. frm \notin {13, 17, 18} =>
              FrameBit(To(frm), frm, cyc) = Sends(frm, cyc)
        BY <1>1, <1>2, <2>1 DEF FrameBit, Sends
    <2> QED BY <1>6, <2>2, <2>3
<1>8. frm \in {13, 17, 18} => HostBit = Low
    BY <1>6 DEF HostDest
<1>9. \A k \in Cell : em_f(k) <=> frm \in {13, 17, 18} /\ k = From(frm)
    BY DEF em_f, From, Cell, EDGE_IN
<1>10. ASSUME NEW k \in Cell, em_f(k)
       PROVE  (IF payload THEN ser[k][1] ELSE hdr_bit(k)) = Sends(frm, cyc)
    <2>1. frm \in {13, 17, 18} /\ k = From(frm) /\ To(frm) = EmitDest(k)
        BY <1>9, <1>10 DEF To, From, EmitDest
    <2>2. CASE payload
        <3>1. 1 \in Word32 /\ 1 + cyc <= 32 /\ 1 - 1 + cyc = cyc
            BY <1>2 DEF Word32
        <3>2. ser[k][1] = {<<Result(k), cyc>>}
            BY <1>10, <3>1 DEF Emitting
        <3> QED BY <1>2, <2>1, <2>2, <3>2 DEF payload, Sends
    <2>3. CASE ~payload
        <3>1. cyc \in 0..5
            BY <1>2, <2>3 DEF payload
        <3>2. /\ cyc = 0 => (cyc % 2) = 0
              /\ cyc = 1 => (cyc % 2) # 0 /\ 2 - cyc \div 2 = 2
              /\ cyc = 2 => (cyc % 2) = 0
              /\ cyc = 3 => (cyc % 2) # 0 /\ 2 - cyc \div 2 = 1
              /\ cyc = 4 => (cyc % 2) = 0
              /\ cyc = 5 => (cyc % 2) # 0 /\ 2 - cyc \div 2 = 0
            OBVIOUS
        <3>3. Sends(frm, cyc)
              = IF (cyc % 2) = 0 \/ BitOf(EmitDest(k), 2 - cyc \div 2) = 1 THEN One ELSE Low
            BY <2>1, <3>1 DEF Sends
        <3>4. hdr_bit(k) = Sends(frm, cyc)
            BY <3>1, <3>2, <3>3 DEF hdr_bit
        <3> QED BY <2>3, <3>4
    <2> QED BY <2>2, <2>3
<1>11. ASSUME NEW l \in Line
       PROVE  fab_in[l] = UNION {F[d] : d \in At(S, 0, l)}
    <2>1. UNION {F[d] : d \in At(S, 0, l)}
          = IF To(frm) # -1 /\ l = From(frm) THEN Sends(frm, cyc) ELSE Low
        <3> HIDE DEF S, F
        <3> QED BY <1>3, <1>4 DEF Low
    <2>2. CASE l \in Cell /\ em_f(l)
        <3>1. fab_in[l] = Sends(frm, cyc)
            BY <1>10, <2>2 DEF fab_in
        <3>2. l = From(frm) /\ To(frm) # -1
            BY <1>9, <2>2 DEF To, EDGE_OUT
        <3> QED BY <2>1, <3>1, <3>2
    <2>3. CASE ~(l \in Cell /\ em_f(l)) /\ l = EDGE_IN
        <3>1. fab_in[l] = HostBit
            BY <2>3 DEF fab_in
        <3>2. l = From(frm) <=> frm \notin {13, 17, 18}
            BY <2>3 DEF From, EDGE_IN
        <3> QED BY <1>7, <1>8, <2>1, <3>1, <3>2
    <2>4. CASE ~(l \in Cell /\ em_f(l)) /\ l # EDGE_IN
        <3>1. fab_in[l] = Low
            BY <2>4 DEF fab_in
        <3>2. l # From(frm)
            <4>1. frm \in {13, 17, 18} => From(frm) \in Cell
                BY DEF From, Cell
            <4>2. frm \notin {13, 17, 18} => From(frm) = EDGE_IN
                BY DEF From
            <4> QED BY <1>9, <2>4, <4>1, <4>2
        <3> QED BY <2>1, <3>1, <3>2
    <2> QED BY <2>2, <2>3, <2>4
<1> QED BY <1>5, <1>11 DEF Carries

\* In a payload clock every line has what the frame sends it.
LEMMA Receives ==
    ASSUME K = 3, P = 8, InStep, \A k \in Cell : Emitting(k),
           Held(Packet(frm), cyc), payload, NEW l \in Line
    PROVE  fab_out[l] = IF l = To(frm) THEN Sends(frm, cyc) ELSE Low
<1>1. cyc \in Nat /\ cyc >= HDR /\ frm \in 0..22
    BY Built DEF payload, InStep
<1>2. PICK S, F, din : S = Packet(frm) /\ F = Signal(frm, cyc) /\ din = fab_in
    OBVIOUS
<1>3. Clear(S)
    BY <1>1, <1>2, PacketIs
<1>4. Held(S, cyc) /\ Carries(S, F, 0, din)
    BY <1>2, Plays
<1>5. Dout(din)[l] = IF l \in DOMAIN S THEN F[l] ELSE Low
    BY <1>1, <1>3, <1>4, Delivers
<1>6. l \in DOMAIN S <=> l = To(frm)
    <2>1. l # -1
        BY Built
    <2> QED BY <1>2, <2>1 DEF Packet
<1>7. l \in DOMAIN S => F[l] = Sends(frm, cyc)
    BY <1>2 DEF Signal
<1> QED BY <1>2, <1>5, <1>6, <1>7 DEF fab_out

------------------------------------------------------------------------------
(* The cells.  A weight's load, its wait and its turn are intervals of the  *)
(* one clock, and those of a cell do not meet.                             *)

\* The frames whose payload is a weight of cell k, and the clock from which the weight of
\* frame m multiplies, for so many clocks: the bias and two products.
Third(k) == IF k = 2 THEN 14 ELSE 8 + k
Turns(k) == {k, 3 + k, Third(k)}
Turn(k, m) ==
    IF m = k THEN 39 + 14 * k
    ELSE IF m = 3 + k THEN (IF k = 2 THEN 188 ELSE 90 + 14 * k)
    ELSE (IF k = 2 THEN 244 ELSE 160 + 14 * k)
Span(k, m) == IF m = k THEN 1 ELSE 8

\* Clock t loads weight m, extends its sign, multiplies by it.
Loading(m, t) == 14 * m + 6 <= t /\ t <= 14 * m + 37
Extending(m, t) == 14 * m + 14 <= t /\ t <= 14 * m + 37
Using(k, m, t) == Turn(k, m) <= t /\ t < Turn(k, m) + Span(k, m)

\* What a cell's input carries at clock n of the turn of weight m.
Factor(k, m, n) ==
    IF m = k THEN One
    ELSE IF m = 3 + k THEN {IF k = 2 THEN <<Result(0), 6 + n>> ELSE <<6 + k, n>>}
    ELSE {IF k = 2 THEN <<Result(1), 6 + n>> ELSE <<11 + k, n>>}

\* The sign is held for the clocks its extension takes.
Extends(k) ==
    /\ \A m \in Turns(k) : Extending(m, sent) =>
          ext[k] = 14 * m + 38 - sent /\ sh[k] = {<<m, 7>>}
    /\ (\A m \in Turns(k) : ~Extending(m, sent)) => ext[k] = 0

LEMMA TurnsAre ==
    ASSUME NEW k \in Cell
    PROVE  Turns(k) \in SUBSET (0..14)
BY DEF Cell, Turns, Third

\* The sequencer's decodes, by the clock.
LEMMA Decodes ==
    ASSUME InStep, NEW k \in Cell
    PROVE  /\ ld_f(k) /\ payload <=> \E m \in Turns(k) : Loading(m, sent) /\ ~Extending(m, sent)
           /\ (st_f(k) /\ payload) \/ bias(k) <=> \E m \in Turns(k) : Using(k, m, sent)
           /\ bias(k) <=> Using(k, k, sent)
           /\ clr <=> sent = 0
<1>1. k \in 0..2 /\ frm \in 0..22 /\ cyc \in 0..13 /\ sent = 14 * frm + cyc
    BY DEF Cell, InStep
<1>2. ld_f(k) <=> frm \in Turns(k)
    BY <1>1 DEF ld_f, Turns, Third
<1>3. ASSUME NEW m \in 0..22
      PROVE  Loading(m, sent) /\ ~Extending(m, sent) <=> frm = m /\ cyc >= 6
    BY <1>1 DEF Loading, Extending
<1>4. ld_f(k) /\ payload <=> \E m \in Turns(k) : Loading(m, sent) /\ ~Extending(m, sent)
    <2>1. Turns(k) \in SUBSET (0..22)
        BY <1>1 DEF Turns, Third
    <2> QED BY <1>2, <1>3, <2>1 DEF payload
<1>5. bias(k) <=> Using(k, k, sent)
    BY <1>1 DEF bias, Using, Turn, Span
<1>6. st_f(k) /\ payload <=> Using(k, 3 + k, sent) \/ Using(k, Third(k), sent)
    <2>1. CASE k = 0
        BY <1>1, <2>1 DEF st_f, payload, Using, Turn, Span, Third
    <2>2. CASE k = 1
        BY <1>1, <2>2 DEF st_f, payload, Using, Turn, Span, Third
    <2>3. CASE k = 2
        BY <1>1, <2>3 DEF st_f, payload, Using, Turn, Span, Third
    <2> QED BY <1>1, <2>1, <2>2, <2>3
<1>7. clr <=> sent = 0
    BY <1>1 DEF clr
<1> QED BY <1>4, <1>5, <1>6, <1>7 DEF Turns

\* What is sent to a cell in the payload clocks in which it listens.
LEMMA Heard ==
    ASSUME InStep, NEW k \in Cell, NEW m \in Turns(k)
    PROVE  /\ Loading(m, sent) /\ ~Extending(m, sent) =>
                 To(frm) = k /\ Sends(frm, cyc) = {<<m, sent - 14 * m - 6>>}
           /\ m # k /\ Using(k, m, sent) =>
                 To(frm) = k /\ Sends(frm, cyc) = Factor(k, m, sent - Turn(k, m))
<1>1. k \in 0..2 /\ frm \in 0..22 /\ cyc \in 0..13 /\ sent = 14 * frm + cyc
    BY DEF Cell, InStep
<1>2. ASSUME Loading(m, sent), ~Extending(m, sent)
      PROVE  To(frm) = k /\ Sends(frm, cyc) = {<<m, sent - 14 * m - 6>>}
    <2>1. frm = m /\ cyc >= 6 /\ sent - 14 * m - 6 = cyc - 6
        BY <1>1, <1>2 DEF Loading, Extending, Turns, Third
    <2>2. To(m) = k /\ m \notin {13, 17, 18}
        BY <1>1 DEF Turns, Third, To, HostDest
    <2> QED BY <2>1, <2>2 DEF Sends
<1>3. ASSUME m # k, Using(k, m, sent)
      PROVE  To(frm) = k /\ Sends(frm, cyc) = Factor(k, m, sent - Turn(k, m))
    <2>1. CASE m = 3 + k
        <3>1. frm = (IF k = 2 THEN 13 ELSE 6 + k) /\ cyc >= 6 /\ sent - Turn(k, m) = cyc - 6
              /\ 6 + (cyc - 6) = cyc
            BY <1>1, <1>3, <2>1 DEF Using, Turn, Span
        <3>2. k = 2 => To(13) = k /\ From(13) = 0
            BY DEF To, From
        <3>3. k # 2 => To(6 + k) = k /\ 6 + k \notin {13, 17, 18}
            BY <1>1 DEF To, HostDest
        <3> QED BY <1>1, <2>1, <3>1, <3>2, <3>3 DEF Sends, Factor
    <2>2. CASE m # 3 + k
        <3>1. frm = (IF k = 2 THEN 17 ELSE 11 + k) /\ cyc >= 6 /\ sent - Turn(k, m) = cyc - 6
              /\ 6 + (cyc - 6) = cyc
            BY <1>1, <1>3, <2>2 DEF Using, Turn, Span
        <3>2. k = 2 => To(17) = k /\ From(17) = 1
            BY DEF To, From
        <3>3. k # 2 => To(11 + k) = k /\ 11 + k \notin {13, 17, 18}
            BY <1>1 DEF To, HostDest
        <3> QED BY <1>1, <1>3, <2>2, <3>1, <3>2, <3>3 DEF Sends, Factor
    <2> QED BY <2>1, <2>2
<1> QED BY <1>2, <1>3

\* What the sequencer drives into a cell, by the clock.
LEMMA Drives ==
    ASSUME K = 3, P = 8, InStep, \A j \in Cell : Emitting(j),
           Held(Packet(frm), cyc), NEW k \in Cell, Extends(k)
    PROVE  /\ loads(k) <=> \E m \in Turns(k) : Loading(m, sent)
           /\ en_a(k) <=> \E m \in Turns(k) : Using(k, m, sent)
           /\ \A m \in Turns(k) : Loading(m, sent) =>
                 x(k) = {<<m, IF sent - 14 * m - 6 <= 7 THEN sent - 14 * m - 6 ELSE 7>>}
           /\ \A m \in Turns(k) : Using(k, m, sent) => x(k) = Factor(k, m, sent - Turn(k, m))
           /\ ~loads(k) /\ ~en_a(k) => x(k) = Low
<1>1. k \in 0..2 /\ frm \in 0..22 /\ cyc \in 0..13 /\ sent = 14 * frm + cyc /\ k \in Line /\ sent \in Int
    BY Built DEF Cell, InStep
<1>2. payload => fab_out[k] = IF k = To(frm) THEN Sends(frm, cyc) ELSE Low
    BY <1>1, Receives
<1>3. \A m \in Turns(k) : m \in 0..14 /\ (Extending(m, sent) => Loading(m, sent))
    BY <1>1, TurnsAre DEF Extending, Loading
<1>4. ext[k] # 0 <=> \E m \in Turns(k) : Extending(m, sent)
    <2>1. \A m \in Turns(k) : Extending(m, sent) => 14 * m + 38 - sent # 0
        BY <1>1, <1>3 DEF Extending
    <2> QED BY <2>1 DEF Extends
<1>5. loads(k) <=> \E m \in Turns(k) : Loading(m, sent)
    BY <1>3, <1>4, Decodes DEF loads
<1>6. en_a(k) <=> \E m \in Turns(k) : Using(k, m, sent)
    BY Decodes DEF en_a
<1>7. \A m \in Turns(k), n \in Turns(k) : ~(Loading(m, sent) /\ Using(k, n, sent))
    <2> SUFFICES ASSUME NEW m \in Turns(k), NEW n \in Turns(k), Loading(m, sent), Using(k, n, sent)
                 PROVE  FALSE
        OBVIOUS
    <2> QED BY <1>1 DEF Loading, Using, Turn, Turns, Third, Span
<1>8. \A m \in Turns(k), n \in Turns(k) : Loading(m, sent) /\ Loading(n, sent) => m = n
    BY <1>1 DEF Loading, Turns, Third
<1>9. k \in Turns(k)
    BY DEF Turns
<1>10. ASSUME NEW m \in Turns(k), Loading(m, sent)
       PROVE  x(k) = {<<m, IF sent - 14 * m - 6 <= 7 THEN sent - 14 * m - 6 ELSE 7>>}
    <2>1. ~bias(k)
        BY <1>7, <1>9, <1>10, Decodes
    <2>2. CASE Extending(m, sent)
        <3>1. ~(ld_f(k) /\ payload)
            BY <1>3, <1>8, <1>10, <2>2, Decodes
        <3>2. x(k) = {<<m, 7>>}
            BY <1>4, <2>1, <2>2, <3>1 DEF x, Extends
        <3>3. ~(sent - 14 * m - 6 <= 7)
            BY <1>1, <1>3, <2>2 DEF Extending
        <3> QED BY <3>2, <3>3
    <2>3. CASE ~Extending(m, sent)
        <3>1. ld_f(k) /\ payload
            BY <1>10, <2>3, Decodes
        <3>2. x(k) = {<<m, sent - 14 * m - 6>>}
            BY <1>2, <1>10, <2>1, <2>3, <3>1, Heard DEF x
        <3>3. sent - 14 * m - 6 <= 7
            BY <1>1, <1>3, <1>10, <2>3 DEF Loading, Extending
        <3> QED BY <3>2, <3>3
    <2> QED BY <2>2, <2>3
<1>11. ASSUME NEW m \in Turns(k), Using(k, m, sent)
       PROVE  x(k) = Factor(k, m, sent - Turn(k, m))
    <2>1. CASE m = k
        BY <1>11, <2>1, Decodes DEF x, Factor
    <2>2. CASE m # k
        <3>1. ~Using(k, k, sent)
            BY <1>1, <1>11, <2>2 DEF Using, Turn, Turns, Third, Span
        <3>2. ~bias(k) /\ st_f(k) /\ payload
            BY <1>11, <3>1, Decodes
        <3>3. ext[k] = 0 /\ ~(ld_f(k) /\ payload)
            BY <1>3, <1>4, <1>7, <1>11, Decodes
        <3> QED BY <1>2, <1>11, <2>2, <3>2, <3>3, Heard DEF x
    <2> QED BY <2>1, <2>2
<1>12. ASSUME ~loads(k), ~en_a(k)
       PROVE  x(k) = Low
    BY <1>12 DEF x, loads, en_a
<1> QED BY <1>5, <1>6, <1>10, <1>11, <1>12

\* The weight register from the first bit of a weight to the last product by it.
Weighs(k) ==
    \A m \in Turns(k) :
        /\ 14 * m + 6 <= sent /\ sent <= 14 * m + 38 => Filling(wsh[k], m, sent - 14 * m - 6)
        /\ 14 * m + 38 <= sent /\ sent < Turn(k, m) + Span(k, m) =>
              wsh[k] = Shifted(Loaded(m), IF sent <= Turn(k, m) THEN 0 ELSE sent - Turn(k, m))

\* The host's clock goes on with the sequencer's until both wait in the last frame.
LEMMA InStepStep ==
    ASSUME K = 3, P = 8, InStep, Clock
    PROVE  /\ InStep'
           /\ \/ sent' = sent + 1 /\ sent < 321
                 /\ (cyc = 13 => frm < 22 /\ frm' = frm + 1 /\ cyc' = 0)
                 /\ (cyc # 13 => frm' = frm /\ cyc' = cyc + 1)
              \/ sent = 321 /\ sent' = 308 /\ frm = 22 /\ frm' = 22 /\ cyc = 13 /\ cyc' = 0
<1>1. HDR = 6 /\ FRAME = 14
    BY Built
<1>2. frm \in 0..22 /\ cyc \in 0..13 /\ cnt = cyc /\ sent = 14 * frm + cyc
    BY DEF InStep
<1>3. /\ cyc' = IF cyc = 13 THEN 0 ELSE cyc + 1
      /\ frm' = IF cyc = 13 /\ frm # 22 THEN frm + 1 ELSE frm
      /\ cnt' = IF cnt = 13 THEN 0 ELSE cnt + 1
      /\ sent' = IF sent < 321 THEN sent + 1 ELSE 308
    BY <1>1 DEF Clock, NdfEdge, FabricEdge, Sequencer, frame_end, LastFrame
<1> QED BY <1>2, <1>3 DEF InStep

LEMMA ExtendsStep ==
    ASSUME K = 3, P = 8, InStep, \A j \in Cell : Emitting(j),
           Held(Packet(frm), cyc), NEW k \in Cell, Extends(k), Clock
    PROVE  Extends(k)'
<1>1. k \in 0..2 /\ frm \in 0..22 /\ cyc \in 0..13 /\ sent = 14 * frm + cyc /\ k \in Line /\ sent \in Int
    BY Built DEF Cell, InStep
<1>2. payload => fab_out[k] = IF k = To(frm) THEN Sends(frm, cyc) ELSE Low
    BY <1>1, Receives
<1>3. \A m \in Turns(k) : m \in 0..14
    BY <1>1, TurnsAre
<1> DEFINE Taking == ld_f(k) /\ frame_end
<1>4. Taking <=> \E m \in Turns(k) : sent = 14 * m + 13
    <2>1. Taking <=> frm \in Turns(k) /\ cyc = 13
        BY <1>1 DEF ld_f, frame_end, Turns, Third
    <2> QED BY <1>1, <1>3, <2>1
<1>5. /\ ext'[k] = IF Taking THEN 24 ELSE IF ext[k] # 0 THEN ext[k] - 1 ELSE 0
      /\ sh'[k] = IF Taking THEN fab_out[k] ELSE sh[k]
    BY DEF Clock, NdfEdge, Extension
<1> HIDE DEF Taking
<1>6. \A m \in Turns(k), n \in Turns(k) : 14 * m + 13 <= sent /\ sent <= 14 * m + 37
                                         /\ 14 * n + 13 <= sent /\ sent <= 14 * n + 37 => m = n
    BY <1>1 DEF Turns, Third
<1>7. CASE sent' = sent + 1
    <2>1. ASSUME NEW m \in Turns(k), Extending(m, sent')
          PROVE  ext'[k] = 14 * m + 38 - sent' /\ sh'[k] = {<<m, 7>>}
        <3>1. CASE sent = 14 * m + 13
            <4>1. Loading(m, sent) /\ ~Extending(m, sent) /\ sent - 14 * m - 6 = 7 /\ payload
                BY <1>1, <1>3, <3>1 DEF Loading, Extending, payload
            <4>2. fab_out[k] = {<<m, 7>>}
                BY <1>2, <4>1, Heard
            <4> QED BY <1>1, <1>3, <1>4, <1>5, <1>7, <3>1, <4>2
        <3>2. CASE sent # 14 * m + 13
            <4>1. Extending(m, sent) /\ 14 * m + 38 - sent # 0
                BY <1>1, <1>3, <1>7, <2>1, <3>2 DEF Extending
            <4>2. ~Taking
                BY <1>1, <1>3, <1>4, <1>6, <3>2, <4>1 DEF Extending
            <4>3. ext[k] = 14 * m + 38 - sent /\ sh[k] = {<<m, 7>>}
                BY <4>1 DEF Extends
            <4> QED BY <1>1, <1>3, <1>5, <1>7, <4>1, <4>2, <4>3
        <3> QED BY <3>1, <3>2
    <2>2. ASSUME \A m \in Turns(k) : ~Extending(m, sent')
          PROVE  ext'[k] = 0
        <3>1. ~Taking
            BY <1>1, <1>3, <1>4, <1>7, <2>2 DEF Extending
        <3>2. ASSUME NEW m \in Turns(k), Extending(m, sent)
              PROVE  ext[k] = 1
            BY <1>1, <1>3, <1>7, <2>2, <3>2 DEF Extending, Extends
        <3>3. ext[k] \in {0, 1}
            BY <3>2 DEF Extends
        <3> QED BY <1>5, <3>1, <3>3
    <2> QED BY <2>1, <2>2 DEF Extends, Turns, Third, Extending
<1>8. CASE sent = 321 /\ sent' = 308
    <2>1. \A m \in Turns(k) : ~Extending(m, sent) /\ ~Extending(m, sent') /\ sent # 14 * m + 13
        BY <1>3, <1>8 DEF Extending
    <2>2. ext[k] = 0 /\ ~Taking
        BY <1>4, <2>1 DEF Extends
    <2>3. ext'[k] = 0
        BY <1>5, <2>2
    <2> QED BY <2>1, <2>3 DEF Extends, Turns, Third, Extending
<1> QED BY <1>7, <1>8, InStepStep

\* The registers stay registers, whatever is shifted into them.
LEMMA Words ==
    ASSUME NEW sof \in BOOLEAN, NdfEdge(sof), NEW k \in Cell, IsWord(wsh[k]), IsWord(ser[k])
    PROVE  IsWord(wsh[k])' /\ IsWord(ser[k])'
<1>1. /\ wsh'[k] = IF ~en_w(k) THEN wsh[k]
                   ELSE <<IF loads(k) THEN x(k) ELSE Low>> \o SubSeq(wsh[k], 1, 31)
      /\ ser'[k] = IF ser_load(k) THEN Activated(k) ELSE Tail(ser[k]) \o <<Low>>
    BY DEF NdfEdge, Cells, Organs
<1>2. IsWord(wsh'[k])
    <2>1. PICK w, b : w = wsh[k] /\ b = IF loads(k) THEN x(k) ELSE Low
        OBVIOUS
    <2>2. <<b>> \o SubSeq(w, 1, 31) = [i \in Word32 |-> IF i = 1 THEN b ELSE w[i - 1]]
        BY <2>1, ShiftsIn
    <2>3. IsWord(<<b>> \o SubSeq(w, 1, 31))
        BY <2>2 DEF IsWord
    <2> QED BY <1>1, <2>1, <2>3
<1>3. IsWord(ser'[k])
    <2>1. Tail(ser[k]) \o <<Low>> = [i \in Word32 |-> IF i = 32 THEN Low ELSE ser[k][i + 1]]
        BY ShiftsOut
    <2>2. IsWord(Tail(ser[k]) \o <<Low>>)
        BY <2>1 DEF IsWord
    <2>3. IsWord(Activated(k))
        BY DEF Activated, IsWord
    <2> QED BY <1>1, <2>2, <2>3
<1> QED BY <1>2, <1>3 DEF IsWord

LEMMA WeighsStep ==
    ASSUME K = 3, P = 8, InStep, \A j \in Cell : Emitting(j),
           Held(Packet(frm), cyc), NEW k \in Cell, Extends(k), Weighs(k), IsWord(wsh[k]), Clock
    PROVE  Weighs(k)'
<1>1. k \in 0..2 /\ frm \in 0..22 /\ cyc \in 0..13 /\ sent = 14 * frm + cyc /\ sent \in Int
    BY DEF Cell, InStep
<1>2. \A m \in Turns(k) : /\ m \in 0..14 /\ Turn(k, m) \in Nat /\ 14 * m + 38 <= Turn(k, m)
                          /\ Span(k, m) \in 1..8 /\ Turn(k, m) < 252
    BY <1>1 DEF Turns, Third, Turn, Span
<1>3. wsh'[k] = IF ~en_w(k) THEN wsh[k]
                ELSE <<IF loads(k) THEN x(k) ELSE Low>> \o SubSeq(wsh[k], 1, 31)
    BY DEF Clock, NdfEdge, Cells
<1>4. /\ loads(k) <=> \E m \in Turns(k) : Loading(m, sent)
      /\ en_w(k) <=> loads(k) \/ \E m \in Turns(k) : Using(k, m, sent)
      /\ \A m \in Turns(k) : Loading(m, sent) =>
            x(k) = {<<m, IF sent - 14 * m - 6 <= 7 THEN sent - 14 * m - 6 ELSE 7>>}
    BY Drives DEF en_w
<1>5. ASSUME sent' = sent + 1, NEW m \in Turns(k), 14 * m + 6 <= sent', sent' <= 14 * m + 38
      PROVE  Filling(wsh'[k], m, sent' - 14 * m - 6)
    <2>1. CASE sent' = 14 * m + 6
        <3>1. sent' - 14 * m - 6 = 0 /\ \A i \in Word32 : ~(i <= 0)
            BY <1>1, <1>2, <1>5, <2>1 DEF Word32
        <3> QED BY <3>1 DEF Filling
    <2>2. CASE sent' # 14 * m + 6
        <3>1. /\ Loading(m, sent) /\ sent - 14 * m - 6 \in 0..31
              /\ sent' - 14 * m - 6 = (sent - 14 * m - 6) + 1
            BY <1>1, <1>2, <1>5, <2>2 DEF Loading
        <3>2. PICK n \in 0..31 : n = sent - 14 * m - 6
            BY <3>1
        <3>3. wsh'[k] = <<{<<m, IF n <= 7 THEN n ELSE 7>>}>> \o SubSeq(wsh[k], 1, 31)
            BY <1>3, <1>4, <3>1, <3>2
        <3>4. Filling(wsh[k], m, n)
            BY <1>1, <1>2, <3>1, <3>2 DEF Weighs, Loading
        <3>5. Filling(<<{<<m, IF n <= 7 THEN n ELSE 7>>}>> \o SubSeq(wsh[k], 1, 31), m, n + 1)
            <4> DEFINE w == wsh[k]
            <4> HIDE DEF w
            <4> QED BY <3>4, Fills DEF w
        <3> QED BY <3>1, <3>2, <3>3, <3>5
    <2> QED BY <2>1, <2>2
<1>6. ASSUME sent' = sent + 1, NEW m \in Turns(k),
             14 * m + 38 <= sent', sent' < Turn(k, m) + Span(k, m)
      PROVE  wsh'[k] = Shifted(Loaded(m), IF sent' <= Turn(k, m) THEN 0 ELSE sent' - Turn(k, m))
    <2>1. CASE sent' = 14 * m + 38
        <3>1. sent' - 14 * m - 6 = 32
            BY <1>1, <1>2, <2>1
        <3>2. Filling(wsh'[k], m, 32)
            BY <1>1, <1>2, <1>5, <1>6, <2>1, <3>1
        <3>3. IsWord(wsh'[k])
            <4>1. Loading(m, sent)
                BY <1>1, <1>2, <1>6, <2>1 DEF Loading
            <4>2. PICK w, b : w = wsh[k] /\ b = x(k)
                OBVIOUS
            <4>3. <<b>> \o SubSeq(w, 1, 31) = [i \in Word32 |-> IF i = 1 THEN b ELSE w[i - 1]]
                BY <4>2, ShiftsIn
            <4>4. wsh'[k] = <<b>> \o SubSeq(w, 1, 31)
                BY <1>3, <1>4, <4>1, <4>2
            <4> QED BY <4>3, <4>4 DEF IsWord
        <3>4. wsh'[k] = Loaded(m)
            BY <3>2, <3>3, Filled
        <3> QED BY <1>2, <2>1, <3>4, NotShifted
    <2>2. CASE sent' # 14 * m + 38
        <3> DEFINE j == IF sent <= Turn(k, m) THEN 0 ELSE sent - Turn(k, m)
        <3>1. 14 * m + 38 <= sent /\ sent < Turn(k, m) + Span(k, m)
            BY <1>1, <1>2, <1>6, <2>2
        <3>2. wsh[k] = Shifted(Loaded(m), j)
            BY <3>1 DEF Weighs
        <3>3. \A n \in Turns(k) : ~Loading(n, sent) /\ (Using(k, n, sent) => n = m)
            <4> SUFFICES ASSUME NEW n \in Turns(k)
                         PROVE  ~Loading(n, sent) /\ (Using(k, n, sent) => n = m)
                OBVIOUS
            <4> QED BY <1>1, <3>1 DEF Turns, Third, Turn, Span, Using, Loading
        <3>4. CASE sent < Turn(k, m)
            <4>1. ~Using(k, m, sent)
                BY <1>1, <1>2, <3>4 DEF Using
            <4>2. wsh'[k] = wsh[k]
                BY <1>3, <1>4, <3>3, <4>1
            <4>3. sent' <= Turn(k, m) /\ j = 0
                BY <1>1, <1>2, <1>6, <3>4
            <4> QED BY <3>2, <4>2, <4>3
        <3>5. CASE ~(sent < Turn(k, m))
            <4>1. Using(k, m, sent)
                BY <1>1, <1>2, <3>1, <3>5 DEF Using
            <4>2. wsh'[k] = <<Low>> \o SubSeq(wsh[k], 1, 31)
                BY <1>3, <1>4, <3>3, <4>1
            <4>3. j \in 0..7 /\ j + 1 = IF sent' <= Turn(k, m) THEN 0 ELSE sent' - Turn(k, m)
                BY <1>1, <1>2, <1>6, <3>1, <3>5
            <4> HIDE DEF j
            <4>4. <<Low>> \o SubSeq(Shifted(Loaded(m), j), 1, 31) = Shifted(Loaded(m), j + 1)
                BY <4>3, ShiftsOn
            <4> QED BY <3>2, <4>2, <4>3, <4>4
        <3> QED BY <3>4, <3>5
    <2> QED BY <2>1, <2>2
<1>7. CASE sent' = sent + 1
    BY <1>5, <1>6, <1>7 DEF Weighs, Turns, Third, Turn, Span, Filling
<1>8. CASE sent' = 308
    <2>1. \A m \in Turns(k) : ~(sent' <= 14 * m + 38) /\ ~(sent' < Turn(k, m) + Span(k, m))
        BY <1>2, <1>8
    <2> QED BY <2>1 DEF Weighs, Turns, Third, Turn, Span, Filling
<1> QED BY <1>7, <1>8, InStepStep

\* Clock n of the turn of weight m adds this; so many were added before the turn.
Addend(k, m, n) == [w |-> <<m, n>>, x |-> Factor(k, m, n), minus |-> m # k /\ n = 7]
Base(k, m) == IF m = k THEN 0 ELSE IF m = 3 + k THEN 1 ELSE 9

\* What of its neuron a cell has added up before clock t.
Taken(k, t) ==
    IF t <= Turn(k, k) THEN 0
    ELSE IF t <= Turn(k, 3 + k) THEN 1
    ELSE IF t <= Turn(k, 3 + k) + 8 THEN 1 + (t - Turn(k, 3 + k))
    ELSE IF t <= Turn(k, Third(k)) THEN 9
    ELSE IF t <= Turn(k, Third(k)) + 8 THEN 9 + (t - Turn(k, Third(k)))
    ELSE 17
Adds(k) == sent # 0 => accum[k] = SubSeq(Neuron(k), 1, Taken(k, sent))

\* A product of eight is a sequence.
LEMMA ProductIsSeq ==
    ASSUME NEW S, NEW m, NEW p, NEW o, \A b \in 1..8 : Product(m, p, o)[b] \in S
    PROVE  Product(m, p, o) \in Seq(S) /\ Len(Product(m, p, o)) = 8
<1>1. PICK w, n : w = Product(m, p, o) /\ n = 8 /\ n \in Nat
    OBVIOUS
<1>2. w \in [1..n -> S]
    BY <1>1 DEF Product
<1>3. w \in Seq(S) /\ Len(w) = n
    BY <1>1, <1>2, WordIsSeq
<1> QED BY <1>1, <1>3

\* A neuron is its cell's turns, one after another.
LEMMA NeuronIs ==
    ASSUME K = 3, P = 8, NEW k \in Cell
    PROVE  /\ \E S : Neuron(k) \in Seq(S)
           /\ Len(Neuron(k)) = 17
           /\ \A m \in Turns(k) : \A n \in 0..(Span(k, m) - 1) :
                 Neuron(k)[Base(k, m) + n + 1] = Addend(k, m, n)
<1>1. HDR = 6 /\ k \in 0..2
    BY Built DEF Cell
<1>2. PICK p, q, o : /\ p = IF k = 2 THEN 20 ELSE 6 + k
                     /\ q = IF k = 2 THEN 21 ELSE 11 + k
                     /\ o = IF k = 2 THEN 6 ELSE 0
    OBVIOUS
<1> DEFINE e == [w |-> <<k, 0>>, x |-> One, minus |-> FALSE]
           a == <<e>>
           b == Product(3 + k, p, o)
           c == Product(Third(k), q, o)
           S == {e} \cup {b[i] : i \in 1..8} \cup {c[i] : i \in 1..8}
<1>3. Neuron(k) = a \o (b \o c)
    <2>1. k = 2 => b = Product(5, 20, 6) /\ c = Product(14, 21, 6)
        BY <1>2 DEF Third
    <2>2. k # 2 => b = Product(3 + k, 6 + k, 0) /\ c = Product(8 + k, 11 + k, 0)
        BY <1>2 DEF Third
    <2>3. 20 + 0 = 20 /\ 20 + 1 = 21
        OBVIOUS
    <2> HIDE DEF b, c
    <2> QED BY <1>1, <2>1, <2>2, <2>3 DEF Neuron, Result
<1>4. a \in Seq(S) /\ Len(a) = 1 /\ a[1] = e
    <2>1. e \in S
        OBVIOUS
    <2> HIDE DEF S, e
    <2> QED BY <2>1
<1>5. b \in Seq(S) /\ Len(b) = 8 /\ c \in Seq(S) /\ Len(c) = 8
    <2>1. \A i \in 1..8 : b[i] \in S /\ c[i] \in S
        OBVIOUS
    <2> HIDE DEF S
    <2> QED BY <2>1, ProductIsSeq
<1>6. /\ \A n \in 0..7 : b[n + 1] = [w |-> <<3 + k, n>>, x |-> {<<p, o + n>>}, minus |-> n = 7]
      /\ \A n \in 0..7 : c[n + 1] = [w |-> <<Third(k), n>>, x |-> {<<q, o + n>>}, minus |-> n = 7]
    <2>1. PICK u, v : u = 3 + k /\ v = Third(k)
        OBVIOUS
    <2>2. o \in Int
        BY <1>2
    <2>3. ASSUME NEW n \in 0..7
          PROVE  /\ Product(u, p, o)[n + 1] = [w |-> <<u, n>>, x |-> {<<p, o + n>>}, minus |-> n = 7]
                 /\ Product(v, q, o)[n + 1] = [w |-> <<v, n>>, x |-> {<<q, o + n>>}, minus |-> n = 7]
        <3>1. PICK i \in 1..8 : i = n + 1
            OBVIOUS
        <3>2. i - 1 = n /\ o + i - 1 = o + n /\ (i = 8) = (n = 7)
            BY <2>2, <3>1
        <3>3. /\ Product(u, p, o)[i] = [w |-> <<u, i - 1>>, x |-> {<<p, o + i - 1>>}, minus |-> i = 8]
              /\ Product(v, q, o)[i] = [w |-> <<v, i - 1>>, x |-> {<<q, o + i - 1>>}, minus |-> i = 8]
            BY DEF Product
        <3> QED BY <3>1, <3>2, <3>3
    <2> QED BY <2>1, <2>3
<1> HIDE DEF a, b, c, S
<1>7. /\ b \o c \in Seq(S) /\ Len(b \o c) = 16
      /\ \A i \in 1..8 : (b \o c)[i] = b[i] /\ (b \o c)[8 + i] = c[i]
    <2>1. /\ b \o c \in Seq(S) /\ Len(b \o c) = Len(b) + Len(c)
          /\ \A i \in 1..(Len(b) + Len(c)) :
                (b \o c)[i] = IF i <= Len(b) THEN b[i] ELSE c[i - Len(b)]
        <3>1. b \in Seq(S) /\ c \in Seq(S)
            BY <1>5, Zenon
        <3> QED BY <3>1, ConcatProperties, Zenon
    <2>2. Len(b) + Len(c) = 16
        BY <1>5
    <2>3. ASSUME NEW i \in 1..8
          PROVE  (b \o c)[i] = b[i] /\ (b \o c)[8 + i] = c[i]
        <3>1. i \in 1..16 /\ i <= 8 /\ 8 + i \in 1..16 /\ ~(8 + i <= 8) /\ (8 + i) - 8 = i
            OBVIOUS
        <3> QED BY <1>5, <2>1, <2>2, <3>1
    <2> QED BY <2>1, <2>2, <2>3
<1> DEFINE d == b \o c
<1> HIDE DEF d
<1>8. /\ a \o d \in Seq(S) /\ Len(a \o d) = 17 /\ (a \o d)[1] = e
      /\ \A i \in 1..16 : (a \o d)[1 + i] = d[i]
    <2>1. d \in Seq(S) /\ Len(d) = 16
        BY <1>7 DEF d
    <2>2. /\ a \o d \in Seq(S) /\ Len(a \o d) = Len(a) + Len(d)
          /\ \A i \in 1..(Len(a) + Len(d)) :
                (a \o d)[i] = IF i <= Len(a) THEN a[i] ELSE d[i - Len(a)]
        <3>1. a \in Seq(S) /\ d \in Seq(S)
            BY <1>4, <2>1, Zenon
        <3> QED BY <3>1, ConcatProperties, Zenon
    <2>3. Len(a) + Len(d) = 17
        BY <1>4, <2>1
    <2>4. ASSUME NEW i \in 1..16
          PROVE  (a \o d)[1 + i] = d[i]
        <3>1. 1 + i \in 1..17 /\ ~(1 + i <= 1) /\ (1 + i) - 1 = i
            OBVIOUS
        <3> QED BY <1>4, <2>2, <2>3, <3>1
    <2>5. (a \o d)[1] = e
        <3>1. 1 \in 1..17 /\ 1 <= 1
            OBVIOUS
        <3> HIDE DEF e
        <3> QED BY <1>4, <2>2, <2>3, <3>1
    <2> HIDE DEF e
    <2> QED BY <2>2, <2>3, <2>4, <2>5
<1>9. Neuron(k) = a \o d
    BY <1>3 DEF d
<1>10. ASSUME NEW n \in 0..7
       PROVE  Neuron(k)[1 + n + 1] = b[n + 1] /\ Neuron(k)[9 + n + 1] = c[n + 1]
    <2>1. /\ n + 1 \in 1..8 /\ n + 1 \in 1..16 /\ 1 + (n + 1) = 1 + n + 1
          /\ 8 + (n + 1) \in 1..16 /\ 1 + (8 + (n + 1)) = 9 + n + 1
        OBVIOUS
    <2> DEFINE j == n + 1
    <2>2. /\ j \in 1..8 /\ j \in 1..16 /\ 1 + j = 1 + n + 1
          /\ 8 + j \in 1..16 /\ 1 + (8 + j) = 9 + n + 1
        BY <2>1
    <2> HIDE DEF j
    <2>3. (a \o d)[1 + j] = d[j] /\ (a \o d)[1 + (8 + j)] = d[8 + j]
        BY <1>8, <2>2
    <2>4. d[j] = b[j] /\ d[8 + j] = c[j]
        BY <1>7, <2>2 DEF d
    <2> QED BY <1>9, <2>2, <2>3, <2>4 DEF j
<1>11. ASSUME NEW m \in Turns(k), NEW n \in 0..(Span(k, m) - 1)
       PROVE  Neuron(k)[Base(k, m) + n + 1] = Addend(k, m, n)
    <2>1. CASE m = k
        <3>1. n = 0 /\ Base(k, m) + n + 1 = 1
            BY <2>1 DEF Span, Base
        <3>2. Addend(k, m, n) = e
            BY <2>1, <3>1 DEF Addend, Factor
        <3> QED BY <1>8, <1>9, <3>1, <3>2
    <2>2. CASE m = 3 + k
        <3>1. n \in 0..7 /\ m # k /\ Base(k, m) = 1
            BY <1>1, <2>2 DEF Span, Base
        <3>2. Factor(k, m, n) = {<<p, o + n>>}
            BY <1>1, <1>2, <2>2, <3>1 DEF Factor, Result
        <3>3. Addend(k, m, n) = [w |-> <<3 + k, n>>, x |-> {<<p, o + n>>}, minus |-> n = 7]
            BY <2>2, <3>1, <3>2 DEF Addend
        <3>4. b[n + 1] = [w |-> <<3 + k, n>>, x |-> {<<p, o + n>>}, minus |-> n = 7]
            BY <1>6, <3>1
        <3> QED BY <1>10, <3>1, <3>3, <3>4
    <2>3. CASE m = Third(k)
        <3>1. n \in 0..7 /\ m # k /\ m # 3 + k /\ Base(k, m) = 9
            BY <1>1, <2>3 DEF Span, Base, Third
        <3>2. Factor(k, m, n) = {<<q, o + n>>}
            BY <1>1, <1>2, <2>3, <3>1 DEF Factor, Result
        <3>3. Addend(k, m, n) = [w |-> <<Third(k), n>>, x |-> {<<q, o + n>>}, minus |-> n = 7]
            BY <2>3, <3>1, <3>2 DEF Addend
        <3>4. c[n + 1] = [w |-> <<Third(k), n>>, x |-> {<<q, o + n>>}, minus |-> n = 7]
            BY <1>6, <3>1
        <3> QED BY <1>10, <3>1, <3>3, <3>4
    <2> QED BY <2>1, <2>2, <2>3 DEF Turns
<1> QED BY <1>8, <1>9, <1>11

\* The first c of a sequence and the next.
LEMMA OneMore ==
    ASSUME NEW S, NEW s \in Seq(S), NEW c \in 0..(Len(s) - 1)
    PROVE  Append(SubSeq(s, 1, c), s[c + 1]) = SubSeq(s, 1, c + 1)
<1> DEFINE u == SubSeq(s, 1, c)  v == SubSeq(s, 1, c + 1)  e == s[c + 1]
<1>1. Len(s) \in Nat /\ \A i \in 1..Len(s) : s[i] \in S
    OBVIOUS
<1>2. u \in Seq(S) /\ Len(u) = c /\ \A i \in 1..c : u[i] = s[i]
    <2>1. /\ SubSeq(s, 1, c) \in Seq(S)
          /\ Len(SubSeq(s, 1, c)) = IF 1 <= c THEN c - 1 + 1 ELSE 0
          /\ \A i \in 1..(c - 1 + 1) : SubSeq(s, 1, c)[i] = s[1 + i - 1]
        BY <1>1, SubSeqProperties
    <2>2. c - 1 + 1 = c /\ (~(1 <= c) => c = 0) /\ \A i \in 1..c : 1 + i - 1 = i
        BY <1>1
    <2> QED BY <2>1, <2>2
<1>3. v \in Seq(S) /\ Len(v) = c + 1 /\ \A i \in 1..(c + 1) : v[i] = s[i]
    <2>1. /\ SubSeq(s, 1, c + 1) \in Seq(S)
          /\ Len(SubSeq(s, 1, c + 1)) = IF 1 <= c + 1 THEN (c + 1) - 1 + 1 ELSE 0
          /\ \A i \in 1..((c + 1) - 1 + 1) : SubSeq(s, 1, c + 1)[i] = s[1 + i - 1]
        BY <1>1, SubSeqProperties
    <2>2. (c + 1) - 1 + 1 = c + 1 /\ 1 <= c + 1 /\ \A i \in 1..(c + 1) : 1 + i - 1 = i
        BY <1>1
    <2> QED BY <2>1, <2>2
<1>4. e \in S
    BY <1>1
<1> HIDE DEF u, v, e
<1>5. /\ Append(u, e) \in Seq(S) /\ Len(Append(u, e)) = Len(u) + 1
      /\ \A i \in 1..Len(u) : Append(u, e)[i] = u[i]
      /\ Append(u, e)[Len(u) + 1] = e
    BY <1>2, <1>4, AppendProperties
<1>6. \A i \in 1..(c + 1) : Append(u, e)[i] = v[i]
    <2>1. \A i \in 1..(c + 1) : i \in 1..c \/ i = c + 1
        BY <1>1
    <2> QED BY <1>2, <1>3, <1>5, <2>1 DEF e
<1>7. Append(u, e) = v
    BY <1>2, <1>3, <1>5, <1>6, SeqEqual
<1> QED BY <1>7 DEF u, v, e

\* None of a sequence, and all of it.
LEMMA NoneAndAll ==
    ASSUME NEW S, NEW s \in Seq(S)
    PROVE  SubSeq(s, 1, 0) = <<>> /\ SubSeq(s, 1, Len(s)) = s
OBVIOUS

\* A cell's addends so far go up by one at each clock of a turn, and only then.
LEMMA TakenIs ==
    ASSUME NEW k \in Cell, NEW t \in Int
    PROVE  /\ Taken(k, t) \in 0..17 /\ Taken(k, 0) = 0 /\ Taken(k, 1) = 0
           /\ t >= 252 => Taken(k, t) = 17
           /\ k = 0 /\ t >= 168 => Taken(k, t) = 17
           /\ k = 1 /\ t >= 182 => Taken(k, t) = 17
           /\ \A m \in Turns(k) : Using(k, m, t) =>
                 /\ t - Turn(k, m) \in 0..(Span(k, m) - 1) /\ t - Turn(k, m) \in 0..7
                 /\ Taken(k, t) = Base(k, m) + (t - Turn(k, m))
                 /\ Taken(k, t + 1) = Taken(k, t) + 1
                 /\ Taken(k, t) < 17
           /\ (\A m \in Turns(k) : ~Using(k, m, t)) => Taken(k, t + 1) = Taken(k, t)
<1>1. k \in 0..2
    BY DEF Cell
<1>2. CASE k = 0
    BY <1>2 DEF Taken, Turns, Third, Turn, Span, Using, Base
<1>3. CASE k = 1
    BY <1>3 DEF Taken, Turns, Third, Turn, Span, Using, Base
<1>4. CASE k = 2
    BY <1>4 DEF Taken, Turns, Third, Turn, Span, Using, Base
<1> QED BY <1>1, <1>2, <1>3, <1>4

\* In a turn the live sum is what was added and the turn's addend, and else only the former.
LEMMA SumIs ==
    ASSUME K = 3, P = 8, InStep, \A j \in Cell : Emitting(j),
           Held(Packet(frm), cyc), NEW k \in Cell, Extends(k), Weighs(k)
    PROVE  /\ \A m \in Turns(k) : Using(k, m, sent) =>
                 Sum(k) = Append(accum[k], Addend(k, m, sent - Turn(k, m)))
           /\ ~loads(k) /\ ~en_a(k) => Sum(k) = accum[k]
<1>1. k \in 0..2 /\ frm \in 0..22 /\ cyc \in 0..13 /\ sent = 14 * frm + cyc /\ sent \in Int
    BY DEF Cell, InStep
<1>2. ASSUME NEW m \in Turns(k), Using(k, m, sent)
      PROVE  Sum(k) = Append(accum[k], Addend(k, m, sent - Turn(k, m)))
    <2> DEFINE n == sent - Turn(k, m)
    <2>1. n \in 0..7
        BY <1>1, <1>2, TakenIs
    <2>2. x(k) = Factor(k, m, n)
        BY <1>2, Drives
    <2>3. x(k) # Low
        BY <2>2 DEF Factor, One, Low
    <2>4. Content(wsh[k]) = <<m, n>>
        <3>1. /\ 14 * m + 38 <= sent /\ sent < Turn(k, m) + Span(k, m)
              /\ (IF sent <= Turn(k, m) THEN 0 ELSE sent - Turn(k, m)) = n
            BY <1>1, <1>2 DEF Using, Turns, Third, Turn, Span
        <3>2. wsh[k] = Shifted(Loaded(m), n)
            BY <3>1 DEF Weighs
        <3>3. m \in Weights
            BY <1>1 DEF Turns, Third, Weights, LastFrame, Cell
        <3> HIDE DEF n
        <3> QED BY <2>1, <3>2, <3>3, ContentIs
    <2>5. sgn(k) = (m # k /\ n = 7)
        <3>1. CASE m = k
            <4>1. bias(k)
                BY <1>2, <3>1, Decodes
            <4> QED BY <3>1, <4>1 DEF bias, sgn, frame_end
        <3>2. CASE m # k
            <4>1. ~Using(k, k, sent)
                BY <1>1, <1>2, <3>2 DEF Using, Turn, Turns, Third, Span
            <4>2. st_f(k)
                BY <1>2, <4>1, Decodes
            <4>3. n = 7 <=> cyc = 13
                BY <1>1, <1>2, <3>2 DEF Using, Turn, Turns, Third, Span
            <4> QED BY <3>2, <4>2, <4>3 DEF sgn, frame_end
        <3> QED BY <3>1, <3>2
    <2> HIDE DEF n
    <2>6. Sum(k) = Append(accum[k], [w |-> <<m, n>>, x |-> Factor(k, m, n), minus |-> m # k /\ n = 7])
        BY <2>2, <2>3, <2>4, <2>5 DEF Sum
    <2> QED BY <2>6 DEF Addend, n
<1>3. ~loads(k) /\ ~en_a(k) => Sum(k) = accum[k]
    BY Drives DEF Sum
<1> QED BY <1>2, <1>3

LEMMA AddsStep ==
    ASSUME K = 3, P = 8, InStep, \A j \in Cell : Emitting(j),
           Held(Packet(frm), cyc), NEW k \in Cell, Extends(k), Weighs(k), Adds(k), Clock
    PROVE  sent' # 0 => accum'[k] = SubSeq(Neuron(k), 1, Taken(k, sent'))
<1>1. frm \in 0..22 /\ cyc \in 0..13 /\ sent = 14 * frm + cyc /\ sent \in Int /\ sent >= 0
    BY DEF InStep
<1>2. PICK S : Neuron(k) \in Seq(S)
    BY NeuronIs
<1>3. Len(Neuron(k)) = 17
    BY NeuronIs
<1>4. accum'[k] = IF sent = 0 THEN <<>> ELSE IF en_a(k) THEN Sum(k) ELSE accum[k]
    BY Decodes DEF Clock, NdfEdge, Cells
<1>5. en_a(k) <=> \E m \in Turns(k) : Using(k, m, sent)
    BY Drives
<1>6. CASE sent' = sent + 1
    <2>1. CASE sent = 0
        <3>1. Taken(k, sent') = 0
            BY <1>6, <2>1, TakenIs
        <3> QED BY <1>2, <1>4, <2>1, <3>1, NoneAndAll
    <2>2. CASE sent # 0 /\ ~en_a(k)
        <3>1. Taken(k, sent') = Taken(k, sent)
            BY <1>1, <1>5, <1>6, <2>2, TakenIs
        <3> QED BY <1>4, <2>2, <3>1 DEF Adds
    <2>3. CASE sent # 0 /\ en_a(k)
        <3>1. PICK m \in Turns(k) : Using(k, m, sent)
            BY <1>5, <2>3
        <3>2. PICK n, c : n = sent - Turn(k, m) /\ c = Taken(k, sent)
            OBVIOUS
        <3>3. /\ n \in 0..(Span(k, m) - 1) /\ c = Base(k, m) + n /\ c \in 0..16
              /\ Taken(k, sent') = c + 1
            BY <1>1, <1>6, <3>1, <3>2, TakenIs
        <3>4. Neuron(k)[c + 1] = Addend(k, m, n)
            BY <3>3, NeuronIs
        <3>5. accum'[k] = Append(SubSeq(Neuron(k), 1, c), Neuron(k)[c + 1])
            BY <1>4, <2>3, <3>1, <3>2, <3>4, SumIs DEF Adds
        <3>6. c \in 0..(Len(Neuron(k)) - 1)
            BY <1>3, <3>3
        <3>7. Append(SubSeq(Neuron(k), 1, c), Neuron(k)[c + 1]) = SubSeq(Neuron(k), 1, c + 1)
            BY <1>2, <3>6, OneMore
        <3> QED BY <3>3, <3>5, <3>7
    <2> QED BY <2>1, <2>2, <2>3
<1>7. CASE sent = 321 /\ sent' = 308
    <2>1. Taken(k, sent) = 17 /\ Taken(k, sent') = 17
        BY <1>7, TakenIs
    <2>2. ~en_a(k)
        <3>1. \A m \in Turns(k) : ~Using(k, m, sent)
            BY <1>1, <1>7, <2>1, TakenIs
        <3> QED BY <1>5, <3>1
    <2> QED BY <1>4, <1>7, <2>1, <2>2 DEF Adds
<1> QED BY <1>6, <1>7, InStepStep

\* When a register is loaded the live sum is the whole neuron.
LEMMA Complete ==
    ASSUME K = 3, P = 8, InStep, \A j \in Cell : Emitting(j),
           Held(Packet(frm), cyc), NEW k \in Cell, Extends(k), Weighs(k), Adds(k), ser_load(k)
    PROVE  Sum(k) = Neuron(k)
<1>1. /\ frm \in 0..22 /\ cyc \in 0..13 /\ sent = 14 * frm + cyc /\ sent \in Int /\ k \in 0..2
      /\ cyc = 13
      /\ k = 0 => frm = 12
      /\ k = 1 => frm = 16
      /\ k = 2 => frm = 17
    BY DEF InStep, Cell, ser_load, frame_end
<1>2. PICK S : Neuron(k) \in Seq(S)
    BY NeuronIs
<1>3. Len(Neuron(k)) = 17
    BY NeuronIs
<1>4. SubSeq(Neuron(k), 1, 17) = Neuron(k)
    BY <1>2, <1>3, NoneAndAll
<1>5. accum[k] = SubSeq(Neuron(k), 1, Taken(k, sent))
    BY <1>1 DEF Adds
<1>6. CASE k # 2
    <2>1. Taken(k, sent) = 17
        BY <1>1, <1>6, TakenIs
    <2>2. \A m \in Turns(k) : ~Loading(m, sent) /\ ~Using(k, m, sent)
        BY <1>1, <1>6 DEF Loading, Using, Turns, Third, Turn, Span
    <2>3. ~loads(k) /\ ~en_a(k)
        BY <2>2, Drives
    <2> QED BY <1>4, <1>5, <2>1, <2>3, SumIs
<1>7. CASE k = 2
    <2>1. 14 \in Turns(k) /\ Using(k, 14, sent) /\ sent - Turn(k, 14) = 7 /\ Base(k, 14) = 9
          /\ Span(k, 14) = 8
        BY <1>1, <1>7 DEF Turns, Third, Using, Turn, Span, Base
    <2>2. Taken(k, sent) = 16
        BY <1>1, <1>7 DEF Taken, Turn, Third
    <2>3. Neuron(k)[16 + 1] = Addend(k, 14, 7)
        <3>1. 7 \in 0..(Span(k, 14) - 1) /\ Base(k, 14) + 7 + 1 = 16 + 1
            BY <2>1
        <3> QED BY <2>1, <3>1, NeuronIs
    <2>4. Sum(k) = Append(SubSeq(Neuron(k), 1, 16), Neuron(k)[16 + 1])
        <3>1. Sum(k) = Append(accum[k], Addend(k, 14, sent - Turn(k, 14)))
            BY <2>1, SumIs
        <3> QED BY <1>5, <2>1, <2>2, <2>3, <3>1
    <2>5. 16 \in 0..(Len(Neuron(k)) - 1) /\ 16 + 1 = 17
        BY <1>3
    <2>6. Append(SubSeq(Neuron(k), 1, 16), Neuron(k)[16 + 1]) = SubSeq(Neuron(k), 1, 16 + 1)
        BY <1>2, <2>5, OneMore
    <2> QED BY <1>4, <2>4, <2>5, <2>6
<1> QED BY <1>6, <1>7

LEMMA EmittingStep ==
    ASSUME K = 3, P = 8, InStep, \A j \in Cell : Emitting(j), Held(Packet(frm), cyc),
           NEW k \in Cell, Extends(k), Weighs(k), Adds(k), IsWord(ser[k]), Clock
    PROVE  Emitting(k)'
<1>1. k \in 0..2 /\ frm \in 0..22 /\ cyc \in 0..13
    BY DEF InStep, Cell
<1>2. ser'[k] = IF ser_load(k) THEN Activated(k) ELSE Tail(ser[k]) \o <<Low>>
    BY DEF Clock, NdfEdge, Organs
<1> DEFINE F == IF k = 0 THEN 13 ELSE IF k = 1 THEN 17 ELSE 18
<1>3. /\ em_f(k) <=> frm = F
      /\ em_f(k)' <=> frm' = F
      /\ ser_load(k) <=> cyc = 13 /\ frm = F - 1
    BY <1>1 DEF em_f, ser_load, frame_end
<1> SUFFICES ASSUME frm' = F, NEW i \in Word32, i + cyc' <= 32
             PROVE  ser'[k][i] = {<<Result(k), i - 1 + cyc'>>}
    BY <1>3 DEF Emitting, Result
<1>4. i \in 1..32
    BY DEF Word32
<1>5. CASE cyc = 13
    <2>1. cyc' = 0 /\ frm = F - 1 /\ i - 1 + cyc' = i - 1
        BY <1>1, <1>4, <1>5, InStepStep
    <2>2. ser_load(k)
        BY <1>3, <1>5, <2>1
    <2>3. Activated(k)[i] = {<<Result(k), i - 1>>}
        BY <2>2, Complete DEF Activated
    <2> QED BY <1>2, <2>1, <2>2, <2>3
<1>6. CASE cyc # 13
    <2>1. /\ cyc' = cyc + 1 /\ frm = F /\ ~ser_load(k) /\ em_f(k)
          /\ i # 32 /\ i + 1 \in Word32 /\ (i + 1) + cyc <= 32 /\ (i + 1) - 1 + cyc = i - 1 + cyc'
        <3>1. frm' = frm /\ cyc' = cyc + 1
            BY <1>1, <1>6, InStepStep
        <3> QED BY <1>1, <1>3, <1>4, <1>6, <3>1 DEF Word32
    <2>2. (Tail(ser[k]) \o <<Low>>)[i] = ser[k][i + 1]
        <3>1. Tail(ser[k]) \o <<Low>> = [n \in Word32 |-> IF n = 32 THEN Low ELSE ser[k][n + 1]]
            BY ShiftsOut
        <3> QED BY <2>1, <3>1
    <2>3. ser[k][i + 1] = {<<Result(k), (i + 1) - 1 + cyc>>}
        BY <2>1 DEF Emitting
    <2> QED BY <1>2, <2>1, <2>2, <2>3
<1> QED BY <1>5, <1>6

------------------------------------------------------------------------------
(* The network as a whole.                                                  *)

\* From the host's first pulse on everything is told by the clock since the last.
NdfInv ==
    /\ plane # "ndf" => sent = -1
    /\ plane = "ndf" => \A k \in Cell : IsWord(wsh[k]) /\ IsWord(ser[k])
    /\ sent # -1 =>
          /\ InStep /\ Held(Packet(frm), cyc)
          /\ \A k \in Cell : Extends(k) /\ Weighs(k) /\ Adds(k) /\ Emitting(k)

\* A pulse starts the timetable, whatever was under way.
LEMMA LaunchStep ==
    ASSUME K = 3, P = 8, NdfInv, plane = "ndf", Launch, plane' = plane
    PROVE  NdfInv'
<1>1. /\ sent' = 0 /\ cyc' = 0 /\ frm' = 0 /\ cnt' = 0
      /\ ext' = [k \in Cell |-> 0] /\ NdfEdge(TRUE)
    <2>1. cnt' = 0
        BY DEF Launch, NdfEdge, FabricEdge
    <2>2. cyc' = 0 /\ frm' = 0
        BY DEF Launch, NdfEdge, Sequencer
    <2>3. ext' = [k \in Cell |-> 0]
        BY DEF Launch, NdfEdge, Extension
    <2> QED BY <2>1, <2>2, <2>3 DEF Launch
<1>2. InStep'
    BY <1>1 DEF InStep
<1>3. Held(Packet(frm), cyc)'
    <2>1. Held(Packet(0), 0)'
        BY FabricAssumption DEF Held, Stage
    <2> QED BY <1>1, <2>1 DEF Packet
<1>4. ASSUME NEW k \in Cell
      PROVE  (IsWord(wsh[k]) /\ IsWord(ser[k]))' /\ (Extends(k) /\ Weighs(k) /\ Adds(k) /\ Emitting(k))'
    <2>1. k \in 0..2 /\ \A m \in Turns(k) : m \in 0..14
        BY TurnsAre DEF Cell
    <2>2. (IsWord(wsh[k]) /\ IsWord(ser[k]))'
        BY <1>1, Words DEF NdfInv
    <2>3. Extends(k)'
        <3>1. \A m \in Turns(k) : ~Extending(m, 0)
            BY <2>1 DEF Extending
        <3> QED BY <1>1, <3>1 DEF Extends, Extending, Turns, Third
    <2>4. Weighs(k)'
        <3>1. \A m \in Turns(k) : ~(14 * m + 6 <= 0) /\ ~(14 * m + 38 <= 0)
            BY <2>1
        <3> QED BY <1>1, <3>1 DEF Weighs, Turns, Third
    <2>5. Adds(k)'
        BY <1>1 DEF Adds
    <2>6. Emitting(k)'
        <3>1. ~em_f(k)'
            BY <1>1, <2>1 DEF em_f
        <3> QED BY <3>1 DEF Emitting
    <2> QED BY <2>2, <2>3, <2>4, <2>5, <2>6
<1> QED BY <1>1, <1>2, <1>3, <1>4 DEF NdfInv

LEMMA ClockStep ==
    ASSUME K = 3, P = 8, NdfInv, plane = "ndf", Clock, plane' = plane
    PROVE  NdfInv'
<1>1. /\ InStep /\ Held(Packet(frm), cyc) /\ NdfEdge(FALSE)
      /\ \A k \in Cell : /\ IsWord(wsh[k]) /\ IsWord(ser[k])
                         /\ Extends(k) /\ Weighs(k) /\ Adds(k) /\ Emitting(k)
    BY DEF NdfInv, Clock
<1>2. InStep'
    BY <1>1, InStepStep
<1>3. Held(Packet(frm), cyc)'
    <2>1. frm \in 0..22 /\ cyc \in 0..13 /\ cnt = cyc
        BY <1>1 DEF InStep
    <2>2. CASE cyc = 13
        <3>1. cyc' = 0
            BY <1>1, <2>1, <2>2, InStepStep
        <3>2. \A s \in Stage : ~(2 * s < 0) /\ ~(2 * s + 1 < 0)
            BY FabricAssumption DEF Stage
        <3> QED BY <3>1, <3>2 DEF Held
    <2>3. CASE cyc # 13
        <3>1. frm' = frm /\ cyc' = cyc + 1
            BY <1>1, <2>1, <2>3, InStepStep
        <3>2. PICK S, F, t, din :
                  S = Packet(frm) /\ F = Signal(frm, cyc) /\ t = cyc /\ din = fab_in
            OBVIOUS
        <3>3. Clear(S)
            BY <2>1, <3>2, PacketIs
        <3>4. Latch(Wires(din))
            BY <1>1, <3>2 DEF NdfEdge, FabricEdge
        <3>5. t \in Nat /\ cnt = t /\ Held(S, t) /\ Carries(S, F, 0, din) /\ (t < HDR => Heads(S, F, t))
            BY <1>1, <2>1, <3>2, Plays
        <3>6. Held(S, t + 1)'
            BY <3>3, <3>4, <3>5, Latches
        <3>7. S = Packet(frm)' /\ t + 1 = cyc'
            BY <3>1, <3>2 DEF Packet
        <3> QED BY <3>6, <3>7
    <2> QED BY <2>2, <2>3
<1>4. ASSUME NEW k \in Cell
      PROVE  (IsWord(wsh[k]) /\ IsWord(ser[k]))' /\ (Extends(k) /\ Weighs(k) /\ Adds(k) /\ Emitting(k))'
    <2>1. (IsWord(wsh[k]) /\ IsWord(ser[k]))'
        BY <1>1, Words
    <2>2. Extends(k)'
        BY <1>1, ExtendsStep
    <2>3. Weighs(k)'
        BY <1>1, WeighsStep
    <2>4. Adds(k)'
        <3>1. sent' # 0 => accum'[k] = SubSeq(Neuron(k), 1, Taken(k, sent'))
            BY <1>1, AddsStep
        <3>2. Neuron(k)' = Neuron(k)
            BY DEF Neuron, Product, Result
        <3> QED BY <3>1, <3>2 DEF Adds, Taken, Turn, Third
    <2>5. Emitting(k)'
        BY <1>1, EmittingStep
    <2> QED BY <2>1, <2>2, <2>3, <2>4, <2>5
<1>5. sent' # -1
    <2>1. frm' \in 0..22 /\ cyc' \in 0..13 /\ sent' = 14 * frm' + cyc'
        BY <1>2 DEF InStep
    <2>2. \A f \in 0..22, c \in 0..13 : 14 * f + c # -1
        OBVIOUS
    <2> QED BY <2>1, <2>2
<1> QED BY <1>2, <1>3, <1>4, <1>5 DEF NdfInv

LEMMA NdfStep ==
    ASSUME K = 3, P = 8
    PROVE  /\ TileInit => NdfInv
           /\ NdfInv /\ [TileNext]_tile => NdfInv'
           /\ NdfInv => InferenceIsWhole
<1>1. ASSUME TileInit PROVE NdfInv
    <2>1. sent = -1
        BY <1>1 DEF TileInit, NdfIdle, NdfInit, Stale
    <2>2. plane = "ndf" => \A k \in Cell : IsWord(wsh[k]) /\ IsWord(ser[k])
        BY <1>1 DEF TileInit, NdfInit, Stale, Loaded, IsWord
    <2> QED BY <2>1, <2>2 DEF NdfInv
<1>2. ASSUME NdfInv, Run
      PROVE  NdfInv'
    BY <1>2, LaunchStep, ClockStep DEF Run
<1>3. ASSUME NdfInv, CoreClock \/ Traffic \/ UNCHANGED tile
      PROVE  NdfInv'
    <2>1. /\ UNCHANGED <<plane, cyc, frm, ext, sh, wsh, accum, ser, sent>>
          /\ plane = "ndf" => UNCHANGED <<cnt, act, sel>>
        BY <1>3 DEF CoreClock, Traffic, tile, ndf, fabric
    <2>2. (plane = "ndf" => \A k \in Cell : IsWord(wsh[k]) /\ IsWord(ser[k]))'
        BY <1>3, <2>1 DEF NdfInv, IsWord
    <2>3. CASE sent = -1
        BY <1>3, <2>1, <2>2, <2>3 DEF NdfInv
    <2>4. CASE sent # -1
        <3>1. InStep'
            BY <1>3, <2>1, <2>4 DEF NdfInv, InStep
        <3>2. Held(Packet(frm), cyc)'
            <4>1. PICK S, t : S = Packet(frm) /\ t = cyc
                OBVIOUS
            <4>2. S = Packet(frm)' /\ t = cyc'
                BY <2>1, <4>1 DEF Packet
            <4>3. Held(S, t) => Held(S, t)'
                BY <1>3, <2>1, <2>4, Undisturbed DEF NdfInv
            <4> QED BY <1>3, <2>4, <4>1, <4>2, <4>3 DEF NdfInv
        <3>3. ASSUME NEW k \in Cell
              PROVE  (Extends(k) /\ Weighs(k) /\ Adds(k) /\ Emitting(k))'
            <4>1. Extends(k) /\ Weighs(k) /\ Adds(k) /\ Emitting(k)
                BY <1>3, <2>4 DEF NdfInv
            <4>2. Extends(k)'
                BY <2>1, <4>1 DEF Extends, Extending, Turns, Third
            <4>3. Weighs(k)'
                BY <2>1, <4>1 DEF Weighs, Turns, Third, Turn, Span, Filling
            <4>4. Adds(k)'
                <5>1. Neuron(k)' = Neuron(k)
                    BY DEF Neuron, Product, Result
                <5> QED BY <2>1, <4>1, <5>1 DEF Adds, Taken, Turn, Third
            <4>5. Emitting(k)'
                BY <2>1, <4>1 DEF Emitting, em_f, Result
            <4> QED BY <4>2, <4>3, <4>4, <4>5
        <3>4. plane = "ndf" /\ plane' = plane
            BY <1>3, <2>1, <2>4 DEF NdfInv
        <3> QED BY <2>2, <3>1, <3>2, <3>3, <3>4 DEF NdfInv
    <2> QED BY <2>3, <2>4
<1>4. ASSUME NdfInv
      PROVE  InferenceIsWhole
    <2> SUFFICES ASSUME sent # -1
                 PROVE  /\ cnt = cyc /\ sent = FRAME * frm + cyc
                        /\ frm = 18 /\ payload => fab_out[EDGE_OUT] = {<<Result(2), cyc>>}
        BY DEF InferenceIsWhole
    <2>1. InStep /\ Held(Packet(frm), cyc) /\ \A k \in Cell : Emitting(k)
        BY <1>4 DEF NdfInv
    <2>2. cnt = cyc /\ sent = FRAME * frm + cyc
        BY <2>1, Built DEF InStep
    <2>3. ASSUME frm = 18, payload
          PROVE  fab_out[EDGE_OUT] = {<<Result(2), cyc>>}
        <3>1. EDGE_OUT \in Line /\ EDGE_OUT = To(frm)
            BY <2>3, Built DEF EDGE_OUT, To
        <3>2. fab_out[EDGE_OUT] = Sends(frm, cyc)
            BY <2>1, <2>3, <3>1, Receives
        <3>3. Sends(frm, cyc) = {<<Result(2), cyc>>}
            BY <2>3 DEF Sends, From, payload
        <3> QED BY <3>2, <3>3
    <2> QED BY <2>2, <2>3
<1> QED BY <1>1, <1>2, <1>3, <1>4 DEF TileNext

\* THEOREM. Once a run is started the host, the fabric and the sequencer count the same
\* clock, and frame 18 brings the result of the whole network to the edge line, whatever
\* the registers held at power-up and however many runs were cut short, at any clock.
THEOREM NetworkIsWhole ==
    ASSUME K = 3, P = 8
    PROVE  TileSpec => []InferenceIsWhole
<1> QED BY NdfStep, PTL DEF TileSpec
==============================================================================
