------------------------------ MODULE ByteBus ------------------------------
(***************************************************************************)
(* The byte-phase bus of the tape-out part: core32 behind busadapt8 (wired *)
(* by RTL/plane32bus.v), served byte by byte by the RP2040 memory server   *)
(* of Firmware/rp2040.                                                     *)
(*                                                                         *)
(* A loop is four clocks, one byte each way per clock.  A fetch is one     *)
(* loop, a load or a store two: address, then data.  The chip has no       *)
(* not-ready input; the host stalls the clock instead, so one Tick is one  *)
(* call of ndf_step, which answers the pins, and then one clock edge.      *)
(*                                                                         *)
(* The pin sof restarts the frame.  It is shared with the switching fabric *)
(* and a host pulses it to launch a run there, at any clock.  A host is    *)
(* [realign, rule]: what its memory server resets at a pulse - the phase   *)
(* alone, srv.phase = 0 being all that ndf_pico_main.c:57 does, or the     *)
(* frame, the beat included - and whether it keeps the rule of             *)
(* Sim/reghost/sof_protocol_check.v.                                       *)
(*                                                                         *)
(* A byte on the pins is a lane of a word: [from, val, lane], where from   *)
(* says that the word is one of the program image or a datum.              *)
(***************************************************************************)
EXTENDS Core32

CONSTANTS
    Programs, \* the program images the server may be loaded with
    Hosts,    \* the hosts the chip may be served by
    MaxSof    \* sof pulses in a run

ASSUME BusAssumption ==
    /\ Programs \subseteq [Word -> Instr]
    /\ Hosts \subseteq [realign : {"phase", "frame"}, rule : BOOLEAN]
    /\ MaxSof \in Nat

FETCH == 1
LOAD == 2
STORE == 3

Phase == 0..3
Byte == [from : {"prog", "data", "none"}, val : Word, lane : Phase]
Quiet == [from |-> "none", val |-> 0, lane |-> 0]

VARIABLES
    \* busadapt8
    phase, kind, store_beat, load_beat, fetch_owed, in_acc, instr_r, rdata_r,
    \* core32
    pc, regs,
    \* ndf_server_t: phase, type, beat, a, st_addr, word, desync, mem, prog
    sphase, stype, sbeat, sa, staddr, sword, desync, mem, prog,
    host,      \* the host of this run
    sofs       \* pulses so far

chip == <<phase, kind, store_beat, load_beat, fetch_owed, in_acc, instr_r, rdata_r>>
core == <<pc, regs>>
server == <<sphase, stype, sbeat, sa, staddr, sword, desync, mem, prog, host>>
vars == <<chip, core, server, sofs>>

\* After reset and the boot sof.  The register file has no reset.
Init ==
    /\ phase = 0 /\ kind = FETCH /\ store_beat = FALSE /\ load_beat = FALSE
    /\ fetch_owed = FALSE /\ in_acc = [l \in Phase |-> Quiet]
    /\ instr_r = Inert /\ rdata_r = 0
    /\ pc = 0 /\ regs \in {r \in [Reg -> Word] : r[0] = 0}
    /\ sphase = 0 /\ stype = 0 /\ sbeat = FALSE
    /\ sa = [l \in Phase |-> Quiet] /\ staddr = Quiet /\ sword = Quiet
    /\ desync = FALSE /\ mem = [w \in Word |-> 0] /\ prog \in Programs
    /\ host \in Hosts
    /\ sofs = 0

---------------------------------------------------------------------------
(* Words made of bytes.                                                    *)

\* Four lanes of one word, in order.
Whole(l) ==
    \A n \in Phase : l[n].lane = n /\ l[n].from = l[0].from /\ l[n].val = l[0].val

\* Lanes that do not make a word are some other value; here the inert word
\* and 0, for no property depends on which.
AsInstr(l) == IF Whole(l) /\ l[0].from = "prog" THEN prog[l[0].val] ELSE Inert
AsData(l) == IF Whole(l) /\ l[0].from = "data" THEN l[0].val ELSE 0

\* The low byte of an address holds all of it; its other bytes are 0.
LowByte(b) == IF b.lane = 0 THEN b.val ELSE 0

Lane(w, n) == [w EXCEPT !.lane = n]

---------------------------------------------------------------------------
(* What stands on the pins before the clock edge.                          *)

loop_end == phase = 3
instr_avail == kind = FETCH /\ loop_end

phase_pins == IF phase = 0 THEN kind ELSE phase

\* Outside the fetch the decode is of the resident word.
out_word ==
    IF kind = FETCH THEN pc
    ELSE IF kind = STORE /\ store_beat THEN regs[instr_r.rt]
    ELSE Ea(regs, instr_r)

pin_out == [from |-> "data", val |-> out_word, lane |-> phase]

\* ndf_step: the type is latched at phase 0, the lookup is in the same phase
\* for a fetch and at the end of the address loop for a load.
Type == IF sphase = 0 THEN phase_pins ELSE stype

Addr == [sa EXCEPT ![sphase] = pin_out]

Lookup ==
    IF Type = FETCH /\ sphase = 0
    THEN [from |-> "prog", val |-> LowByte(pin_out), lane |-> 0]
    ELSE IF Type = LOAD /\ ~sbeat /\ sphase = 3
    THEN [from |-> "data", val |-> mem[LowByte(Addr[0])], lane |-> 0]
    ELSE sword

pin_in ==
    IF Type = FETCH \/ (Type = LOAD /\ sbeat) THEN Lane(Lookup, sphase) ELSE Quiet

assembled == [in_acc EXCEPT ![3] = pin_in]

\* The instruction bypass: the word that is just complete, at a fetch's end.
c_instr == IF instr_avail THEN AsInstr(assembled) ELSE instr_r

retire ==
    /\ loop_end
    /\ \/ kind = FETCH /\ ~Req(c_instr)
       \/ kind = LOAD /\ load_beat
       \/ kind = STORE /\ store_beat

mem_retire_now == retire /\ kind \in {LOAD, STORE}

\* Faulty form: the first repair of the sof arm, which missed the retiring edge.
stale_after_edge == fetch_owed /\ ~instr_avail

\* From a memory retire to the next complete word there is nothing to decode.
stale_decode == (fetch_owed \/ mem_retire_now) /\ ~instr_avail

---------------------------------------------------------------------------
(* The clock edge.                                                         *)

Transaction == IF We(c_instr) THEN STORE ELSE LOAD

\* A realign frames the transaction anew; a loop's end moves it on.
NextKind(sof) ==
    IF sof THEN IF Req(c_instr) /\ ~stale_decode THEN Transaction ELSE FETCH
    ELSE IF ~loop_end THEN kind
    ELSE IF retire THEN FETCH
    ELSE IF kind = FETCH THEN Transaction
    ELSE kind

\* Faulty form: the beat is left alone at the address loop's end.
NextBeatStuck(k, beat, sof) ==
    IF sof \/ (loop_end /\ (retire \/ kind = FETCH)) THEN FALSE ELSE beat

\* The beat of the transaction of kind k: set at the end of its address loop.
NextBeat(k, beat, sof) ==
    IF sof \/ (loop_end /\ (retire \/ kind = FETCH)) THEN FALSE
    ELSE beat \/ (loop_end /\ kind = k)

\* The phase runs free; a sof realigns it.
Count(sof) ==
    phase' = IF sof THEN 0 ELSE (phase + 1) % 4

Arbitrate(sof) ==
    /\ kind' = NextKind(sof)
    /\ store_beat' = NextBeat(STORE, store_beat, sof)
    /\ load_beat' = NextBeat(LOAD, load_beat, sof)

\* Set by a memory retire, cleared when the next word is complete.
Owe == fetch_owed' = (~instr_avail /\ (mem_retire_now \/ fetch_owed))

\* Inbound assembly: a byte a clock, and the word at the end of its loop.
Assemble ==
    /\ in_acc' = IF loop_end THEN in_acc ELSE [in_acc EXCEPT ![phase] = pin_in]
    /\ instr_r' = IF instr_avail THEN AsInstr(assembled) ELSE instr_r
    /\ rdata_r' = IF loop_end /\ kind = LOAD /\ load_beat
                  THEN AsData(assembled) ELSE rdata_r

Adapter(sof) == Count(sof) /\ Arbitrate(sof) /\ Owe /\ Assemble

\* en = retire gates the architectural state.  The load path has no bypass:
\* rd takes rdata_r as it was before this edge.
Core ==
    /\ pc' = IF retire THEN NextPc(pc, regs, c_instr) ELSE pc
    /\ regs' = IF retire THEN NextRegs(pc, regs, c_instr, rdata_r) ELSE regs

\* The data loop of a store ends: the server writes the word.
Write ==
    IF Type = STORE /\ sbeat /\ sphase = 3
    THEN [mem EXCEPT ![LowByte(staddr)] = AsData(Addr)] ELSE mem

Server(sof) ==
    /\ stype' = Type
    /\ sa' = Addr
    /\ sword' = Lookup
    /\ mem' = Write
    /\ staddr' = IF Type = STORE /\ ~sbeat /\ sphase = 0 THEN pin_out ELSE staddr
    /\ desync' = (desync \/ (sphase # 0 /\ phase_pins # sphase))
    /\ sphase' = IF sof THEN 0 ELSE (sphase + 1) % 4
    /\ sbeat' = IF sof /\ host.realign = "frame" THEN FALSE
                ELSE IF sphase = 3 THEN Type \in {LOAD, STORE} /\ ~sbeat
                ELSE sbeat
    /\ UNCHANGED <<prog, host>>

\* Faulty form: any loop end will do.
PermittedAtLoopEnd == loop_end

\* The host-side rule: a fetch loop with no memory instruction resident.
Permitted == kind = FETCH /\ ~Req(c_instr)

Tick(sof) ==
    /\ sof => sofs < MaxSof /\ (host.rule => Permitted)
    /\ Adapter(sof)
    /\ Core
    /\ Server(sof)
    /\ sofs' = IF sof THEN sofs + 1 ELSE sofs

Next == Tick(FALSE) \/ Tick(TRUE)

Spec == Init /\ [][Next]_vars

---------------------------------------------------------------------------
(* Properties.                                                             *)

\* The server "may keep its own phase counter and never guess"
\* (ndf_memserver.h:16-17): its phase, type and beat are the chip's.
InFrame ==
    /\ sphase = phase
    /\ phase # 0 => stype = kind
    /\ sbeat = ((kind = LOAD /\ load_beat) \/ (kind = STORE /\ store_beat))
    /\ ~desync

\* Seen by a program: whenever sof falls, each instruction of the image takes
\* effect once, in order, whole (the sweep of busadapt8.v:132-135, whose
\* repaired row is 0 corrupt arrivals of 121).
Machine == INSTANCE Core32Isa WITH loaded <- rdata_r

AbsSpec == Machine!Spec

---------------------------------------------------------------------------
(* What a comment says and the firmware as written does not do.            *)

\* ndf_memserver.h:44: "A server that has silently lost the frame must SAY SO".
\* A datum that no SW asked for is at least not written silently.
LostFrameIsSaid ==
    [][mem' # mem => desync \/ (retire /\ kind = STORE)]_vars
=============================================================================
