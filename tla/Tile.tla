-------------------------------- MODULE Tile --------------------------------
(***************************************************************************)
(* The tape-out part as tt_um_saltworks_ndf_c32.v puts it together: the    *)
(* word-only core on its byte-phase bus, and the fabric with the 2-2-1     *)
(* sequencer and cells.  The two share the clock, the reset and the pin    *)
(* sof - "two consumers, one wire, no handshake" - and no other signal, so *)
(* what one does is the same for any history of the other: a behaviour     *)
(* follows one consumer, under every placing of the pulses, and leaves the *)
(* other where it is.  The fabric is followed twice, in the part and under *)
(* the traffic of its own simulation.                                      *)
(***************************************************************************)
EXTENDS ByteBus, Ndf

CONSTANT Planes \* the consumers followed

ASSUME TileAssumption == Planes \subseteq {"core", "ndf", "fabric"}

VARIABLE plane

tile == <<vars, fabric, traffic, ndf, plane>>

\* The core that is not followed stays in one of its initial states, a fabric
\* or a sequencer that is not is not represented.
CoreIdle ==
    /\ Init
    /\ regs = [r \in Reg |-> 0]
    /\ prog = CHOOSE p \in Programs : TRUE
    /\ host = CHOOSE h \in Hosts : TRUE

FabricIdle == cnt = 0 /\ act = <<>> /\ sel = <<>>

SendersIdle == dests = {} /\ tick = -1 /\ again = FALSE

NdfIdle ==
    /\ cyc = 0 /\ frm = 0 /\ ext = <<>> /\ sh = <<>>
    /\ wsh = <<>> /\ accum = <<>> /\ ser = <<>> /\ sent = -1

TileInit ==
    /\ plane \in Planes
    /\ \/ plane = "core" /\ Init /\ FabricIdle /\ SendersIdle /\ NdfIdle
       \/ plane = "ndf" /\ CoreIdle /\ PowerUp /\ SendersIdle /\ NdfInit
       \/ plane = "fabric" /\ CoreIdle /\ PowerUp /\ Senders /\ NdfIdle

CoreClock ==
    /\ plane = "core"
    /\ Next
    /\ UNCHANGED <<fabric, traffic, ndf, plane>>

\* Pulses are counted whoever takes them.
Run ==
    /\ plane = "ndf"
    /\ \/ Clock /\ UNCHANGED sofs
       \/ sofs < MaxSof /\ Launch /\ sofs' = sofs + 1
    /\ UNCHANGED <<chip, core, server, traffic, plane>>

Traffic ==
    /\ plane = "fabric"
    /\ StartFrames \/ SendBit
    /\ UNCHANGED <<vars, ndf, plane>>

TileNext == CoreClock \/ Run \/ Traffic

TileSpec == TileInit /\ [][TileNext]_tile

\* The host feeds the clock for ever ("nothing in this loop is timed").
FairTile == TileSpec /\ WF_tile(TileNext)

---------------------------------------------------------------------------

\* INVARIANT. Wherever a sof falls, both users of the frame stay in it: the memory
\* server agrees with the chip on phase, beat and type, and once a frame's headers
\* are through every packet is on the line it was sent to, whatever the latches held.
FramesHold == InFrame /\ FramesArrive

\* The core does not stop: after finitely many pulses it retires for ever.
RetiresForever == plane = "core" => []<>retire
=============================================================================
