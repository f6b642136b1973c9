------------------------------ MODULE Importer -----------------------------
(***************************************************************************)
(* import_netlist.py: one run of the importer, from the parsed Verilog and *)
(* the caller's port lists to the datum on disk and the readback check.    *)
(*                                                                         *)
(* src is the input: the instances, the declarations (input, output and    *)
(* wire names, the bounds of the ranged ones), the assigns as written, the *)
(* number of sequential instances a text scan finds, and the command line  *)
(* (ins, outs, pin, cut, check).  A refusal is phase "refused"; when a     *)
(* netlist earns several, which one is reported is left open.              *)
(*                                                                         *)
(* The recursion of build() is a machine: want is the net being asked for, *)
(* stack the calls of expand_driver in progress, ret the gate index a call *)
(* returns.  drv is the driver map.  Gate indices start at 1 here and at 0 *)
(* in the code.                                                            *)
(***************************************************************************)
EXTENDS Netlist, TLC

CONSTANTS NetOrder,         \* every net, in the order of the names
          Sources,          \* the inputs of a run
          Chunk, Threshold  \* the two sizes of the chunked emission

Nets == ToSet(NetOrder)
ASSUME ChunkAssumption == Chunk \in Nat \ {0} /\ Threshold \in Nat
\* What the parser makes of a netlist: a list of instances, with their pins on nets,
\* and lists of ports and assigns.
ASSUME SourcesAssumption == \A s \in Sources :
  /\ s.insts \in Seq(ToSet(s.insts))
  /\ \A i \in ToSet(s.insts) : {"cell", "conns"} \subseteq DOMAIN i
  /\ \A i \in ToSet(s.insts) : \A p \in DOMAIN i.conns : i.conns[p] \in Nets
  /\ s.ins \in Seq(Nets) /\ s.outs \in Seq(Nets)
  /\ s.assigns \in Seq(ToSet(s.assigns))
  /\ \A a \in ToSet(s.assigns) : a.lhs \in Nets /\ a.rhs \in Seq(Nets)
ASSUME NetsAssumption == NetOrder \in Seq(Nets) /\ None \notin Nets

VARIABLES src, drv, phase, why, assigns, flops, auto, clockinfo, pinned, inputs,
          cuts, gates, idx, stack, want, ret, hops, out_idx, datum
front == <<src, drv, assigns, flops, auto, clockinfo, pinned, inputs, cuts>>
walk  == <<gates, idx, stack, want, ret, hops, out_idx>>
vars  == <<front, phase, why, walk, datum>>

Pos(n)   == CHOOSE i \in DOMAIN NetOrder : NetOrder[i] = n
\* A finite set in the order R, a set of pairs.
Ordered(S, R) ==
  [i \in 1..Cardinality(S) |-> CHOOSE c \in S : Cardinality({d \in S : <<d, c>> \in R}) = i - 1]
Sorted(S) == Ordered(S, {p \in S \X S : Pos(p[1]) < Pos(p[2])})

Init ==
  /\ src \in Sources
  /\ phase = "parse" /\ why = "" /\ drv = <<>> /\ assigns = <<>> /\ flops = {} /\ auto = <<>>
  /\ clockinfo = None /\ pinned = <<>> /\ inputs = <<>> /\ cuts = <<>>
  /\ gates = <<>> /\ idx = <<>> /\ stack = <<>> /\ want = None /\ ret = 0
  /\ hops = 0 /\ out_idx = <<>> /\ datum = None

Refuse(reason) ==
  phase' = "refused" /\ why' = reason /\ UNCHANGED <<front, walk, datum>>
GoTo(next) == phase' = next /\ UNCHANGED <<why, walk, datum>>
----------------------------------------------------------------------------
(* Parsing and the port lists. *)

\* A range, or more than one term, on the right of an assign is refused; an
\* assign with an empty side is dropped.
parse ==
  /\ phase = "parse"
  /\ \/ /\ \E s \in ToSet(src.assigns) : s.range \/ Len(s.rhs) > 1
        /\ Refuse("assign form")
     \/ /\ \A s \in ToSet(src.assigns) : ~s.range /\ Len(s.rhs) <= 1
        /\ LET kept == {k \in DOMAIN src.assigns : src.assigns[k].rhs # <<>>}
               at   == Ordered(kept, {p \in kept \X kept : p[1] < p[2]})
           IN  assigns' = [k \in DOMAIN at |-> <<src.assigns[at[k]].lhs, src.assigns[at[k]].rhs[1]>>]
        /\ GoTo("ports")
        /\ UNCHANGED <<src, drv, flops, auto, clockinfo, pinned, inputs, cuts>>

PortNames == ToSet(src.ins) \cup ToSet(src.outs) \cup ({src.pin} \ {None})

CV1 ==
  /\ phase = "ports"
  /\ \/ /\ \E n \in PortNames : Len(n) = 1 /\ n[1] \in DOMAIN src.vports
        /\ Refuse("C-V1")
     \/ /\ ~\E n \in PortNames : Len(n) = 1 /\ n[1] \in DOMAIN src.vports
        /\ GoTo("outs") /\ UNCHANGED front

\* A net is declared in a class by its own name or as a bit of a vector.
Declares(class, n) ==
  \/ Len(n) = 1 /\ n[1] \in src.decls[class]
  \/ Len(n) = 2 /\ n[1] \in src.decls[class]
IsWire(n) == Len(n) = 1 /\ n[1] \in src.decls.wire
\* A symmetric cut by hand: as many undeclared inputs as undeclared outputs,
\* all of them wires.
handcut_active ==
  LET in  == SelectSeq(src.ins, LAMBDA n : ~Declares("input", n))
      out == SelectSeq(src.outs, LAMBDA n : ~Declares("output", n))
  IN  /\ in # <<>> /\ Len(in) = Len(out)
      /\ \A n \in ToSet(in) \cup ToSet(out) : IsWire(n)
out_declared(n) == Declares("output", n) \/ (handcut_active /\ IsWire(n))

\* C-V3: every output asked for is a declared output, or half of a hand cut.
CV3 ==
  /\ phase = "outs"
  /\ \/ /\ \E n \in ToSet(src.outs) : ~out_declared(n)
        /\ Refuse("C-V3")
     \/ /\ \A n \in ToSet(src.outs) : out_declared(n)
        /\ GoTo("width") /\ UNCHANGED front

\* The bits of the declared outputs that the caller did not ask for.
omitted_outs ==
  {n \in Nets : /\ Declares("output", n)
                /\ n[1] \in DOMAIN src.vports =>
                     Len(n) = 2 /\ n[2] \in src.vports[n[1]][2]..src.vports[n[1]][1]}
    \ ToSet(src.outs)

\* C-V2: no name, of the port lists or of the netlist, is a bit outside the
\* bounds of a declared vector.
NamedNets ==
  PortNames \cup UNION {{i.conns[p] : p \in DOMAIN i.conns} : i \in ToSet(src.insts)}
            \cup UNION {{s[1], s[2]} : s \in ToSet(assigns)}
OutOfRange(n) ==
  /\ Len(n) = 2 /\ n[1] \in DOMAIN src.vports
  /\ n[2] \notin src.vports[n[1]][2]..src.vports[n[1]][1]
CV2 ==
  /\ phase = "width"
  /\ \/ (\E n \in NamedNets : OutOfRange(n)) /\ Refuse("C-V2")
     \/ (\A n \in NamedNets : ~OutOfRange(n)) /\ GoTo("flops") /\ UNCHANGED front
----------------------------------------------------------------------------
(* The flop treatment. *)

Inst(k)    == Parsed(src.insts[k])
Flop(k)    == SEQ_MODELS[Inst(k).cell]
Q(k)       == Inst(k).conns["Q"]
HasD(k)    == Flop(k).next = <<>>
D(k)       == Inst(k).conns["D"]
Gated(k)   == Flop(k).reset # None
ResetNet(k) == Inst(k).conns[Flop(k).reset[1]]
SeqInsts   == {k \in DOMAIN src.insts : Inst(k).cell \in Sequential}
Modelled   == {k \in SeqInsts : Inst(k).cell \in DOMAIN SEQ_MODELS}

\* Every sequential instance is modelled, connected on exactly the pins its
\* model has, and free of an asynchronous reset unless one is pinned.
find_flops ==
  /\ phase = "flops"
  /\ \/ /\ \E k \in Modelled : Flop(k).pins # DOMAIN Inst(k).conns
        /\ Refuse("flop pins")
     \/ /\ src.pin = None /\ \E k \in Modelled : Gated(k)
        /\ Refuse("asynchronous reset")
     \/ SeqInsts # Modelled /\ Refuse("unmodelled flop")
     \/ SeqInsts = {} /\ src.pin # None /\ Refuse("nothing to pin")
     \/ /\ SeqInsts = Modelled
        /\ \A k \in Modelled : Flop(k).pins = DOMAIN Inst(k).conns
        /\ src.pin = None => \A k \in Modelled : ~Gated(k)
        /\ SeqInsts = {} => src.pin = None
        /\ flops' = SeqInsts /\ drv' = all_drivers(src.insts)
        /\ GoTo(IF SeqInsts = {} THEN "cut" ELSE "clock")
        /\ UNCHANGED <<src, assigns, auto, clockinfo, pinned, inputs, cuts>>

ClockDepth == Len(NetOrder) + 1     \* longer traces go round a loop

\* Where a clock net comes from, through assigns, buffers and inverters:
\* <<root, inverted>>, or None behind other logic.
ClockTrace[n \in Nets, d \in 0..ClockDepth] ==
  IF d = 0 THEN None
  ELSE IF Aliases(assigns, n) # {} THEN ClockTrace[AliasOf(assigns, n), d - 1]
  ELSE IF n \in ToSet(src.ins) \/ n \notin DOMAIN drv THEN <<n, FALSE>>
  ELSE LET i   == Inst(drv[n])
           ops == expansion_for(i.cell).ops
       IN  IF Len(ops) # 1 \/ ops[1].op \notin {"buf", "not"}
              \/ ops[1].a \notin DOMAIN i.conns
           THEN None
           ELSE LET up == ClockTrace[i.conns[ops[1].a], d - 1]
                IN  IF up = None THEN None
                    ELSE <<up[1], up[2] # (ops[1].op = "not")>>
clock_root(n) == ClockTrace[n, ClockDepth]

\* Every flop latches on the same event: one root, one polarity.
check_clock_domain ==
  LET domains == {clock_root(Inst(k).conns["CLK"]) : k \in flops}
  IN  /\ phase = "clock"
      /\ \/ None \in domains /\ Refuse("gated clock")
         \/ None \notin domains /\ \E r, s \in domains : r # s /\ Refuse("clock domains")
         \/ /\ None \notin domains /\ \A r, s \in domains : r = s
            /\ clockinfo' = CHOOSE r \in domains : TRUE
            /\ GoTo(IF src.pin = None THEN "handcut" ELSE "pin")
            /\ UNCHANGED <<src, drv, assigns, flops, auto, pinned, inputs, cuts>>

\* C1: one reset net, the one named, driven by no cell and not an input.
PinnedOK ==
  LET gated == {k \in flops : Gated(k)}
  IN  /\ gated # {} /\ \A k \in gated : ResetNet(k) = src.pin
      /\ src.pin \notin DOMAIN drv
      /\ src.pin \notin ToSet(src.ins)
check_pinned_reset ==
  /\ phase = "pin"
  /\ \/ ~PinnedOK /\ Refuse("pinned reset")
     \/ /\ PinnedOK
        /\ pinned' = [n \in {src.pin} |->
             CHOOSE b \in {Flop(k).reset[2] : k \in {j \in flops : Gated(j)}} : TRUE]
        /\ GoTo("handcut")
        /\ UNCHANGED <<src, drv, assigns, flops, auto, clockinfo, inputs, cuts>>

\* A flop is cut by hand on both sides or by the treatment, which takes the
\* others in the order of their Q nets.
HandCutOK(k) ==
  IF HasD(k) THEN (Q(k) \in ToSet(src.ins)) = (D(k) \in ToSet(src.outs))
             ELSE Q(k) \notin ToSet(src.ins)
treatment ==
  /\ phase = "handcut"
  /\ \/ (\E k \in flops : ~HandCutOK(k)) /\ Refuse("half a hand cut")
     \/ /\ \A k \in flops : HandCutOK(k)
        /\ LET left == {k \in flops : Q(k) \notin ToSet(src.ins)}
           IN  auto' = Ordered(left, {p \in left \X left :
                         Pos(Q(p[1])) < Pos(Q(p[2])) \/ (Q(p[1]) = Q(p[2]) /\ p[1] < p[2])})
        /\ GoTo("cut")
        /\ UNCHANGED <<src, drv, assigns, flops, clockinfo, pinned, inputs, cuts>>

StateIns == [j \in DOMAIN auto |-> Q(auto[j])]

\* The chosen cuts: the driven nets --cut matches, none of them an input.
cut_points ==
  LET ins  == src.ins \o StateIns
      hits == {n \in DOMAIN drv : n \in src.cut}
  IN  /\ phase = "cut"
      /\ \/ src.cut # {} /\ hits = {} /\ Refuse("nothing to cut")
         \/ hits \cap ToSet(ins) # {} /\ Refuse("cut of an input")
         \/ /\ src.cut # {} => hits # {}
            /\ hits \cap ToSet(ins) = {}
            /\ cuts' = Sorted(hits)
            /\ inputs' = ins \o Sorted(hits)
            /\ GoTo("inputs")
            /\ UNCHANGED <<src, drv, assigns, flops, auto, clockinfo, pinned>>
----------------------------------------------------------------------------
(* build(): the gates, one net at a time. *)

\* The primary inputs are the first gates; a name given twice, or a logic
\* cell without an expansion, is refused.
bind_inputs ==
  /\ phase = "inputs"
  /\ \/ (\E j, k \in DOMAIN inputs : j # k /\ inputs[j] = inputs[k]) /\ Refuse("duplicate input")
     \/ /\ \E k \in DOMAIN src.insts : IsLogic(Inst(k)) /\ ~HasExpansion(Inst(k).cell)
        /\ Refuse("no expansion")
     \/ /\ \A j, k \in DOMAIN inputs : inputs[j] = inputs[k] => j = k
        /\ \A k \in DOMAIN src.insts : IsLogic(Inst(k)) => HasExpansion(Inst(k).cell)
        /\ gates' = [k \in DOMAIN inputs |-> [op |-> "inp", args |-> <<k>>]]
        /\ idx' = [n \in ToSet(inputs) |->
                     CHOOSE k \in DOMAIN inputs : inputs[k] = n]
        /\ phase' = "build"
        /\ UNCHANGED <<front, why, stack, want, ret, hops, out_idx, datum>>

\* A call of expand_driver: the instance whose program runs, the net it is
\* for, the line it is at, the tmps it has, the operands of that line.
Frame(kind, n, k, ops) ==
  [kind |-> kind, net |-> n, inst |-> k, ops |-> ops, pc |-> 1,
   loc |-> <<>>, args |-> <<>>]
Driven(kind, n) == Frame(kind, n, drv[n], expansion_for(Inst(drv[n]).cell).ops)
Top      == stack[Len(stack)]
Below    == SubSeq(stack, 1, Len(stack) - 1)
SetTop(f) == [stack EXCEPT ![Len(stack)] = f]
\* A dictionary with one entry set.
Bound(f, x, e) == [y \in {x} \cup DOMAIN f |-> IF y = x THEN e ELSE f[y]]
Emit(op, args) == gates' = Append(gates, [op |-> op, args |-> args])

\* The tmp that an instance's program leaves on a net.
OutTmp(k, n) ==
  LET outs == expansion_for(Inst(k).cell).outs
  IN  outs[CHOOSE j \in DOMAIN outs :
             outs[j].pin \in DOMAIN Inst(k).conns /\ Inst(k).conns[outs[j].pin] = n].tmp
\* Faulty form: a call returns its last tmp, whichever pin the net is on.
ResultLast(f) == f.ops[Len(f.ops)].t
Result(f) == IF f.kind = "flop" THEN f.ops[Len(f.ops)].t ELSE OutTmp(f.inst, f.net)

Building == phase = "build" /\ UNCHANGED <<front, why, datum>>
Asking   == Building /\ want # None /\ phase' = phase
Running  == Building /\ want = None /\ ret = 0 /\ stack # <<>> /\ phase' = phase

\* The outputs, in order: the design outputs, the next states, the cut roots.
Roots == Len(src.outs) + Len(auto) + Len(cuts)
Root(j) ==
  IF j <= Len(src.outs) THEN <<"net", src.outs[j]>>
  ELSE IF j <= Len(src.outs) + Len(auto)
       THEN LET k == auto[j - Len(src.outs)]
            IN  IF HasD(k) THEN <<"net", D(k)>> ELSE <<"flop", k>>
       ELSE <<"root", cuts[j - Len(src.outs) - Len(auto)]>>

AskRoot ==
  /\ Building /\ want = None /\ ret = 0 /\ stack = <<>> /\ phase' = phase
  /\ Len(out_idx) < Roots
  /\ LET r == Root(Len(out_idx) + 1)
     IN  \/ r[1] = "net"  /\ want' = r[2] /\ UNCHANGED stack
         \/ r[1] = "flop" /\ stack' = <<Frame("flop", None, r[2], Flop(r[2]).next)>>
                          /\ UNCHANGED want
         \/ r[1] = "root" /\ stack' = <<Driven("root", r[2])>> /\ UNCHANGED want
  /\ hops' = 0
  /\ UNCHANGED <<gates, idx, ret, out_idx>>
TakeRoot ==
  /\ Building /\ ret # 0 /\ stack = <<>> /\ phase' = phase
  /\ out_idx' = Append(out_idx, ret) /\ ret' = 0
  /\ UNCHANGED <<gates, idx, stack, want, hops>>

\* net(): a bound net, a pinned one, a literal, an alias, a driven one.
Fixed(n) == n \in DOMAIN pinned \cup Literals
Level(n) == IF n \in DOMAIN pinned THEN pinned[n] ELSE n = <<"1'b1">>
Resolving == {stack[j].net : j \in {i \in DOMAIN stack : stack[i].kind = "net"}}
NetBound ==
  /\ Asking /\ want \in DOMAIN idx
  /\ ret' = idx[want] /\ want' = None
  /\ UNCHANGED <<gates, idx, stack, hops, out_idx>>
NetFixed ==
  /\ Asking /\ want \notin DOMAIN idx /\ Fixed(want)
  /\ Emit("const", <<Level(want)>>)
  /\ idx' = Bound(idx, want, Len(gates) + 1)
  /\ ret' = Len(gates) + 1 /\ want' = None
  /\ UNCHANGED <<stack, hops, out_idx>>
Free(n) == n \notin DOMAIN idx /\ ~Fixed(n)
\* Faulty form: nothing stops a walk through assigns that go round.
NetAliasForever ==
  /\ Asking /\ Free(want) /\ Aliases(assigns, want) # {}
  /\ want' = AliasOf(assigns, want)
  /\ UNCHANGED <<gates, idx, stack, ret, hops, out_idx>>
NetAlias ==
  /\ Asking /\ Free(want) /\ Aliases(assigns, want) # {} /\ hops < Len(assigns)
  /\ want' = AliasOf(assigns, want) /\ hops' = hops + 1
  /\ UNCHANGED <<gates, idx, stack, ret, out_idx>>
NetDriven ==
  /\ Asking /\ Free(want) /\ Aliases(assigns, want) = {}
  /\ want \in DOMAIN drv /\ want \notin Resolving
  /\ stack' = Append(stack, Driven("net", want)) /\ want' = None
  /\ UNCHANGED <<gates, idx, ret, hops, out_idx>>
\* Nothing drives the net, it is being resolved already, or the assigns go
\* round (Python's recursion limit).
NetRefused ==
  /\ phase = "build" /\ want # None /\ Free(want)
  /\ \/ Aliases(assigns, want) # {} /\ hops >= Len(assigns) /\ Refuse("assign loop")
     \/ Aliases(assigns, want) = {} /\ want \notin DOMAIN drv /\ Refuse("no driver")
     \/ /\ Aliases(assigns, want) = {} /\ want \in DOMAIN drv
        /\ want \in Resolving /\ Refuse("combinational cycle")

\* expand_driver(): the next operand of the line, then its gate.
Operands(l) == IF l.op = "const" THEN <<>> ELSE
               IF l.op \in {"not", "buf"} THEN <<l.a>> ELSE <<l.a, l.b>>
AtLine == Running /\ Top.pc <= Len(Top.ops)
NextOperand == Operands(Top.ops[Top.pc])[Len(Top.args) + 1]
Operand ==
  /\ AtLine /\ Len(Top.args) < Len(Operands(Top.ops[Top.pc]))
  /\ \/ /\ NextOperand \in DOMAIN Top.loc
        /\ stack' = SetTop([Top EXCEPT !.args = Append(@, Top.loc[NextOperand])])
        /\ UNCHANGED <<want, hops>>
     \/ /\ NextOperand \notin DOMAIN Top.loc
        /\ NextOperand \in DOMAIN Inst(Top.inst).conns
        /\ want' = Inst(Top.inst).conns[NextOperand] /\ hops' = 0
        /\ UNCHANGED stack
  /\ UNCHANGED <<gates, idx, ret, out_idx>>
OperandMissing ==
  /\ phase = "build" /\ want = None /\ ret = 0 /\ stack # <<>> /\ Top.pc <= Len(Top.ops)
  /\ Len(Top.args) < Len(Operands(Top.ops[Top.pc]))
  /\ NextOperand \notin DOMAIN Top.loc \cup DOMAIN Inst(Top.inst).conns
  /\ Refuse("unconnected pin")
TakeOperand ==
  /\ Building /\ ret # 0 /\ stack # <<>> /\ phase' = phase
  /\ stack' = SetTop([Top EXCEPT !.args = Append(@, ret)]) /\ ret' = 0
  /\ UNCHANGED <<gates, idx, want, hops, out_idx>>
LineDone(index) ==
  stack' = SetTop([Top EXCEPT !.pc = @ + 1, !.args = <<>>,
                              !.loc = Bound(@, Top.ops[Top.pc].t, index)])
EmitLine ==
  /\ AtLine /\ Len(Top.args) = Len(Operands(Top.ops[Top.pc]))
  /\ LET l == Top.ops[Top.pc]
     IN  \/ l.op = "buf" /\ LineDone(Top.args[1]) /\ UNCHANGED gates
         \/ /\ l.op # "buf"
            /\ Emit(l.op, IF l.op = "const" THEN <<l.a>> ELSE Top.args)
            /\ LineDone(Len(gates) + 1)
  /\ UNCHANGED <<idx, want, ret, hops, out_idx>>
\* The call returns; a net is bound on the way, a root and a next state not.
Return ==
  /\ Running /\ Top.pc > Len(Top.ops)
  /\ ret' = Top.loc[Result(Top)] /\ stack' = Below
  /\ idx' = IF Top.kind = "net" THEN Bound(idx, Top.net, Top.loc[Result(Top)]) ELSE idx
  /\ UNCHANGED <<gates, want, hops, out_idx>>
----------------------------------------------------------------------------
(* The datum on disk, the conservation count and the readback. *)

Chunks(s) ==
  IF Len(s) <= Threshold THEN <<s>>
  ELSE [c \in 1..((Len(s) + Chunk - 1) \div Chunk) |->
          SubSeq(s, (c - 1) * Chunk + 1,
                 IF c * Chunk <= Len(s) THEN c * Chunk ELSE Len(s))]
to_lean ==
  [chunks |-> Chunks(gates), outs |-> out_idx, ndesign_in |-> Len(src.ins),
   ndesign_out |-> Len(src.outs), nstate |-> Len(auto), ncut |-> Len(cuts),
   in_names |-> src.ins, out_names |-> src.outs, omitted |-> omitted_outs,
   state |-> StateIns, pinned |-> pinned]
Write ==
  /\ phase = "build" /\ want = None /\ ret = 0 /\ stack = <<>> /\ Len(out_idx) = Roots
  /\ datum' = to_lean /\ phase' = "conserve"
  /\ UNCHANGED <<front, why, walk>>

\* C6: as many flops as the text shows, and no two on one Q.
Conserve ==
  LET ok == /\ src.seq_in_text = Cardinality(flops)
            /\ \A j, k \in flops : Q(j) = Q(k) => j = k
  IN  /\ phase = "conserve"
      /\ \/ ~ok /\ Refuse("conservation")
         \/ ok /\ GoTo("readback") /\ UNCHANGED front

\* The value of every gate of a datum for a vector on its inputs.
ReadGates(d) == FlattenSeq(d.chunks)
Raised(gs, vec, i, h) ==       \* the gates up to i that are TRUE, from those before i
  LET g == gs[i]
      x == g.args[1]
      y == g.args[Len(g.args)]
  IN  IF CASE g.op = "inp"   -> vec[x]
           [] g.op = "const" -> x
           [] g.op = "not"   -> x \notin h
           [] g.op = "and"   -> x \in h /\ y \in h
           [] g.op = "or"    -> x \in h \/ y \in h
           [] g.op = "xor"   -> (x \in h) # (y \in h)
      THEN h \cup {i} ELSE h
GateValues(gs, vec) ==
  LET high[i \in 0..Len(gs)] == IF i = 0 THEN {} ELSE Raised(gs, vec, i, high[i - 1])
      all == high[Len(gs)]
  IN  [i \in DOMAIN gs |-> i \in all]

\* Vendor Liberty: the function of an output pin, and a flop's next state.
LibertyOut(cell, pin, e) ==
  CASE base_of(cell) = "clkbuf" -> e["A"]
    [] base_of(cell) = "inv"    -> ~e["A"]
    [] base_of(cell) = "and2"   -> e["A"] /\ e["B"]
    [] base_of(cell) = "xor2"   -> e["A"] # e["B"]
    [] base_of(cell) = "nand2"  -> ~(e["A"] /\ e["B"])
    [] base_of(cell) = "o21bai" -> ~((e["A1"] \/ e["A2"]) /\ ~e["B1_N"])
    [] base_of(cell) = "mux2"   -> IF e["S"] THEN e["A1"] ELSE e["A0"]
    [] base_of(cell) = "conb"   -> pin = "HI"
\* Faulty form: the readback takes D as the next state of every flop.
LibertyNextD(cell, iq, e) == e["D"]
LibertyNext(cell, iq, e) ==
  IF cell = "edfxtp" THEN IF e["DE"] THEN e["D"] ELSE iq ELSE e["D"]

\* The source's own value of a net, by Liberty, with `leaf' on the inputs and
\* `undriven' on a net nothing drives.
OutPin(k, n) == CHOOSE p \in DOMAIN Inst(k).conns :
  p \in {o.pin : o \in ToSet(expansion_for(Inst(k).cell).outs)} /\ Inst(k).conns[p] = n
LastAlias(n) == assigns[CHOOSE k \in Aliases(assigns, n) :
                          \A j \in Aliases(assigns, n) : j <= k][2]
Depth == Len(src.insts) + Len(assigns) + 1
LibertyPins == {"A", "B", "A0", "A1", "A2", "B1_N", "S", "D", "DE"}
PinNet(k, p) ==
  LET conns == src.insts[k].conns
  IN  IF p \in DOMAIN conns /\ conns[p] \notin Literals THEN conns[p] ELSE None
HighNets(leaf, undriven, h) ==       \* one round: the nets that are TRUE if those of h are
  {n \in Nets :
     IF n \in DOMAIN leaf THEN leaf[n]
     ELSE IF n \in Literals THEN n = <<"1'b1">>
     ELSE IF Aliases(assigns, n) # {} THEN LastAlias(n) \in h
     ELSE IF n \notin DOMAIN drv THEN undriven[n]
     ELSE LET i == src.insts[drv[n]] IN
          LibertyOut(i.cell, OutPin(drv[n], n), [p \in LibertyPins |-> PinNet(drv[n], p) \in h])}
NetValues(leaf, undriven) ==
  LET high[round \in 0..Depth] ==
        HighNets(leaf, undriven, IF round = 0 THEN {} ELSE high[round - 1])
      all == high[Depth]
  IN  [n \in Nets \cup {None} |-> n \in all]
PinValues(k, val) == [p \in LibertyPins |-> val[PinNet(k, p)]]
SourceOuts(leaf, undriven) ==
  LET val == NetValues(leaf, undriven) IN
  [j \in 1..Roots |->
     LET r == Root(j) IN
     IF j <= Len(src.outs) THEN val[r[2]]
     ELSE IF r[1] = "root"
          THEN LibertyOut(Inst(drv[r[2]]).cell, OutPin(drv[r[2]], r[2]),
                          PinValues(drv[r[2]], val))
          ELSE LET k == auto[j - Len(src.outs)] IN
               LibertyNext(Inst(k).cell, leaf[Q(k)], PinValues(k, val))]
DatumOuts(d, vec) ==
  LET val == GateValues(ReadGates(d), vec)
  IN  [j \in DOMAIN d.outs |-> val[d.outs[j]]]
Vectors == [DOMAIN inputs -> BOOLEAN]
LeafOf(vec) == [n \in ToSet(inputs) |->
                  vec[CHOOSE k \in DOMAIN inputs : inputs[k] = n]]
Agrees(vec) ==
  DatumOuts(datum, vec) = SourceOuts(LeafOf(vec), [n \in Nets |-> FALSE])

\* One trial vector stands for the sample: it passes on a vector that agrees
\* and refuses on one that does not; the check can be off, or not possible.
Readback ==
  /\ phase = "readback"
  /\ \/ src.check = "require" /\ ~src.pdk /\ Refuse("no Liberty")
     \/ /\ src.check # "off" /\ src.pdk
        /\ \E vec \in Vectors : ~Agrees(vec)
        /\ Refuse("readback mismatch")
     \/ /\ \/ src.check = "off"
           \/ src.check = "auto" /\ ~src.pdk
           \/ src.check # "off" /\ src.pdk /\ \E vec \in Vectors : Agrees(vec)
        /\ GoTo("done") /\ UNCHANGED front

\* mutation_check: the datum with one gate of a chunk flipped: the middle one
\* of its two-input gates or, in a chunk of inverters, one rewired backward.
Middle(places) == SetToSortSeq(places, <)[(Cardinality(places) \div 2) + 1]
flip == [and |-> "or", or |-> "and", xor |-> "and"]
Flippable(gs) == {i \in DOMAIN gs : gs[i].op \in DOMAIN flip}
Rewirable(gs) == {i \in DOMAIN gs : gs[i].op = "not"}
corrupted(d, c) ==
  LET gs == d.chunks[c]
      h  == Middle(IF Flippable(gs) # {} THEN Flippable(gs) ELSE Rewirable(gs))
      g  == IF Flippable(gs) # {} THEN [gs[h] EXCEPT !.op = flip[@]]
            ELSE [gs[h] EXCEPT !.args = <<IF @[1] = 1 THEN 1 ELSE @[1] - 1>>]
  IN  [d EXCEPT !.chunks[c] = [gs EXCEPT ![h] = g]]
mutation_chunks(d) ==
  {c \in {1, Len(d.chunks)} : Flippable(d.chunks[c]) \cup Rewirable(d.chunks[c]) # {}}

Done == phase \in {"done", "refused"} /\ UNCHANGED vars

Elaborate ==
  \/ parse \/ CV1 \/ CV3 \/ CV2 \/ find_flops \/ check_clock_domain
  \/ check_pinned_reset \/ treatment \/ cut_points
Walk ==
  \/ AskRoot \/ TakeRoot \/ NetBound \/ NetFixed \/ NetAlias \/ NetDriven
  \/ NetRefused \/ Operand \/ OperandMissing \/ TakeOperand \/ EmitLine \/ Return
Import == Elaborate \/ bind_inputs \/ Walk \/ Write \/ Conserve
Next == Import \/ Readback \/ Done
Spec == Init /\ [][Next]_vars /\ WF_vars(Import)
----------------------------------------------------------------------------
(* Correctness. *)

\* The equations of the source, with the inputs left free: what a valuation v
\* of the nets (v.net) and of the tmps of every instance (v.tmp) satisfies.
Arg(v, k, ops, pc, x) ==
  IF \E j \in 1..(pc - 1) : ops[j].t = x THEN v.tmp[k][x] ELSE v.net[PinNet(k, x)]
Holds(v, k, ops, pc) ==
  LET l == ops[pc]
      x == Arg(v, k, ops, pc, l.a)
      y == Arg(v, k, ops, pc, l.b)
  IN  /\ l.op = "const" => v.tmp[k][l.t] = l.a
      /\ l.op = "buf" => v.tmp[k][l.t] = x
      /\ l.op = "not" => v.tmp[k][l.t] = ~x
      /\ l.op = "and" => v.tmp[k][l.t] = (x /\ y)
      /\ l.op = "or"  => v.tmp[k][l.t] = (x \/ y)
      /\ l.op = "xor" => v.tmp[k][l.t] = (x # y)
ProgramHolds(v, k, ops) == \A pc \in DOMAIN ops : Holds(v, k, ops, pc)
Circuit(v) ==
  /\ \A n \in Nets \ ToSet(inputs) :
       IF Fixed(n) THEN v.net[n] = Level(n)
       ELSE IF Aliases(assigns, n) # {} THEN v.net[n] = v.net[AliasOf(assigns, n)]
       ELSE n \in DOMAIN drv => v.net[n] = v.tmp[drv[n]][OutTmp(drv[n], n)]
  /\ \A n \in DOMAIN drv : ProgramHolds(v, drv[n], expansion_for(Inst(drv[n]).cell).ops)
  /\ \A k \in flops : ProgramHolds(v, k, Flop(k).next)

\* What output j stands for in the source: the net, the next state of the
\* flop, the logic that drives the cut.
RootValue(v, j) ==
  LET r == Root(j) IN
  CASE r[1] = "net"  -> v.net[r[2]]
    [] r[1] = "flop" -> v.tmp[r[2]][Flop(r[2]).next[Len(Flop(r[2]).next)].t]
    [] r[1] = "root" -> v.tmp[drv[r[2]]][OutTmp(drv[r[2]], r[2])]

\* The valuation the source settles to, by Liberty for the nets and by the
\* cell programs for the tmps.
Held == [n \in Nets |-> n \in DOMAIN pinned /\ pinned[n]]
TmpValues(k, ops, val) ==
  LET run[pc \in 0..Len(ops)] ==
        IF pc = 0 THEN <<>>
        ELSE LET l == ops[pc]
                 v == run[pc - 1]
                 x == IF l.a \in DOMAIN v THEN v[l.a] ELSE val[PinNet(k, l.a)]
                 y == IF l.b \in DOMAIN v THEN v[l.b] ELSE val[PinNet(k, l.b)]
             IN  (l.t :> CASE l.op = "const" -> l.a
                           [] l.op = "buf" -> x
                           [] l.op = "not" -> ~x
                           [] l.op = "and" -> x /\ y
                           [] l.op = "or"  -> x \/ y
                           [] l.op = "xor" -> x # y) @@ v
  IN  run[Len(ops)]
Settled(leaf) ==
  LET val == NetValues(leaf, Held)
  IN  [net |-> val,
       tmp |-> [k \in flops \cup {drv[n] : n \in DOMAIN drv} |->
                  TmpValues(k, IF k \in flops THEN Flop(k).next
                               ELSE expansion_for(Inst(k).cell).ops, val)]]

\* INVARIANT. The datum computes the source: for every vector on the inputs, its
\* outputs, read back through the chunks, are one by one the nets, the next states
\* and the cut logic they stand for, in the valuation the source settles to
\* (one that satisfies its equations: a loop of cells that nothing reads may not, nor
\* a pinned net that the source drives to the other level).  No state bit of
\* an accepted netlist is lost or mispaired: every flop is listed by the caller on
\* both sides, or has one state input whose partner output is its own next state.
\* And one step of the datum is one clock event: past the clock check the clock
\* pins of all flops carry the same value, whatever the undriven nets carry.
NextState(k, vec) ==
  LET leaf == LeafOf(vec)
  IN  LibertyNext(Inst(k).cell, leaf[Q(k)], PinValues(k, NetValues(leaf, Held)))
StatePaired(k) ==
  \/ Q(k) \in ToSet(src.ins) /\ D(k) \in ToSet(src.outs)
  \/ \E j \in 1..datum.nstate :
       /\ \A i \in 1..datum.nstate : datum.state[i] = Q(k) <=> i = j
       /\ inputs[datum.ndesign_in + j] = Q(k)
       /\ \A vec \in Vectors :
            DatumOuts(datum, vec)[datum.ndesign_out + j] = NextState(k, vec)
DatumComputes(vec) ==
  LET v == Settled(LeafOf(vec))
  IN  Circuit(v) => DatumOuts(datum, vec) = [j \in 1..Roots |-> RootValue(v, j)]
ClockSources == {n \in NamedNets : n \in ToSet(src.ins) \/ n \notin DOMAIN drv}
ClockedTogether(high) ==
  LET val == NetValues([n \in ToSet(src.ins) |-> n \in high], [n \in Nets |-> n \in high])
  IN  \A j, k \in flops : val[Inst(j).conns["CLK"]] = val[Inst(k).conns["CLK"]]
ComputesSource == phase = "conserve" => \A vec \in Vectors : DatumComputes(vec)
Faithful ==
  /\ phase = "handcut" => \A high \in SUBSET ClockSources : ClockedTogether(high)
  /\ ComputesSource
  /\ phase = "done" => \A k \in SeqInsts : StatePaired(k)

\* INVARIANT. The datum on disk, read back through its chunks, computes what
\* the vendor's Liberty says of the source, a pinned reset at its inactive
\* level: the cell programs, the cuts and the chunking change nothing.  So the
\* readback raises no false alarm on a datum without a pinned net, and is blind
\* to no chunk: a gate flipped in the first or in the last one, by mutation_check,
\* is refused as soon as a vector tells the two circuits apart.
Outs(gs, vec) == LET val == GateValues(gs, vec) IN [j \in DOMAIN out_idx |-> val[out_idx[j]]]
Tampered(c) ==         \* the gates, with chunk c as mutation_check leaves it
  LET before == Len(FlattenSeq(SubSeq(datum.chunks, 1, c - 1)))
      chunk  == corrupted(datum, c).chunks[c]
  IN  [i \in DOMAIN gates |-> IF i - before \in DOMAIN chunk THEN chunk[i - before] ELSE gates[i]]
ReadbackIsExact ==
  /\ phase = "conserve" =>
       \A vec \in Vectors :
         LET want_outs == SourceOuts(LeafOf(vec), Held)
         IN  /\ DatumOuts(datum, vec) = want_outs
             /\ \A c \in mutation_chunks(datum) :
                  (Outs(Tampered(c), vec) = Outs(gates, vec)) <=> DatumOuts(corrupted(datum, c), vec) = want_outs
  /\ why = "readback mismatch" => src.pin # None

\* LIVENESS. Every run is refused or comes to its readback (one pass over the
\* vectors), whatever loops the netlist has: cycles through cells, and assigns
\* that go round.
Terminates == <>(phase \in {"readback", "done", "refused"})

============================================================================
