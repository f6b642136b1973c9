------------------------------- MODULE Census ------------------------------
(***************************************************************************)
(* What the other tools say of the netlists the importer reads:            *)
(* cell_coverage.py (the cells that stand between a netlist and an         *)
(* import), import_sweep.py (what the importer answers when the ports come *)
(* from the declarations) and Sim/cones.py (the cone census: how many      *)
(* inputs a per-cone certificate would have).  Each is a function of the   *)
(* netlist; the importer's run over the same netlist is the reference.     *)
(***************************************************************************)
EXTENDS Importer, FiniteSets

CONSTANT Corpus     \* the netlists of Flow/
ASSUME CorpusAssumption == IsFiniteSet(Corpus) /\ \A s \in Corpus : s.insts \in Seq(ToSet(s.insts))
----------------------------------------------------------------------------
(* The cell coverage census. *)

cells_of(s) == {i.cell : i \in ToSet(s.insts)}
Instances(s, c) == Cardinality({k \in DOMAIN s.insts : s.insts[k].cell = c})

\* Faulty form: the name without its drive is looked up in the table's keys.
classify_keys(cell) ==
  CASE base_of(cell) \in Physical   -> "physical"
    [] base_of(cell) \in Sequential -> IF base_of(cell) \in DOMAIN SEQ_MODELS
                                       THEN "seq-ok" ELSE "seq-MISSING"
    [] OTHER -> IF base_of(cell) \in DOMAIN EXPAND THEN "logic-ok" ELSE "logic-MISSING"
classify(cell) ==
  CASE base_of(cell) \in Physical   -> "physical"
    [] base_of(cell) \in Sequential -> IF base_of(cell) \in DOMAIN SEQ_MODELS
                                       THEN "seq-ok" ELSE "seq-MISSING"
    [] OTHER -> IF HasExpansion(cell) THEN "logic-ok" ELSE "logic-MISSING"

missing(s) == {c \in cells_of(s) : classify(c) \in {"seq-MISSING", "logic-MISSING"}}
\* A netlist without cells is in neither count.
bucket(s) == IF cells_of(s) = {} THEN "empty"
             ELSE IF missing(s) # {} THEN "blocked" ELSE "clean"

\* The priced list of a corpus: the netlists a cell appears in, those it frees
\* alone, and its instances.
blocked(corpus)        == {s \in corpus : bucket(s) = "blocked"}
appears_in(corpus, c)  == {s \in corpus : c \in missing(s)}
frees_alone(corpus, c) == {s \in corpus : missing(s) = {c}}
missing_cells(corpus)  == UNION {missing(s) : s \in corpus}

\* The greedy cover: each time the cell most of the netlists still blocked
\* miss; the cells taken so far, in order.
left(corpus, have) == {s \in blocked(corpus) : ~(missing(s) \subseteq have)}
Needs(corpus, have, c) == Cardinality({s \in left(corpus, have) : c \in missing(s)})
greedy_cover(corpus) ==
  LET open == missing_cells(corpus)
      taken[n \in 0..Cardinality(open)] ==
        IF n = 0 THEN {}
        ELSE LET have == taken[n - 1]
                 cand == missing_cells(left(corpus, have)) \ have
             IN  IF cand = {} THEN have
                 ELSE have \cup {CHOOSE c \in cand : \A e \in cand :
                        Needs(corpus, have, e) <= Needs(corpus, have, c)}
  IN  taken
CoverOpens ==
  left(Corpus, greedy_cover(Corpus)[Cardinality(missing_cells(Corpus))]) = {}
----------------------------------------------------------------------------
(* The import sweep: the run it makes of a netlist. *)

\* The ports of one direction, once each, in the order of the declarations, and
\* the bits of a vector from zero.
ports_of(s, class) == SelectSeq(NetOrder, LAMBDA n : Len(n) = 1 /\ n[1] \in s.decls[class])
expand(s, n) ==
  IF n[1] \in DOMAIN s.vports
  THEN [i \in 1..(s.vports[n[1]][1] - s.vports[n[1]][2] + 1) |-> <<n[1], i - 1>>]
  ELSE <<n>>
sweep_pin(s) ==
  IF "rst" \in s.decls.input /\ \E c \in cells_of(s) : base_of(c) = "dfrtp"
  THEN <<"rst">> ELSE None
PortList(s, class, pin) ==
  LET names == SelectSeq(ports_of(s, class), LAMBDA n : n # pin)
  IN  FlattenSeq([k \in DOMAIN names |-> expand(s, names[k])])
sweep_one(s) ==
  [s EXCEPT !.pin = sweep_pin(s), !.cut = {}, !.check = "auto",
            !.ins = PortList(s, "input", sweep_pin(s)),
            !.outs = PortList(s, "output", None)]

\* What the sweep reports of a run that has ended.
blocker(reason) ==
  CASE reason = "no expansion"    -> "unmodelled-cell"
    [] reason = "unmodelled flop" -> "unmodelled-flop"
    [] reason = "assign form" /\ \E t \in ToSet(src.assigns) : t.range -> "range-grammar"
    [] OTHER -> "other"
sweep_verdict == IF src.decls.output = {} THEN "SKIP"
                 ELSE IF phase = "done" THEN "IMPORTS" ELSE blocker(why)
----------------------------------------------------------------------------
(* The cone census, over the pins as written. *)

OUTPINS == {"X", "Y", "Q", "HI", "LO"}
SEQ_PREFIX == Sequential
ConeInsts == {k \in DOMAIN src.insts : base_of(src.insts[k].cell) \notin Physical}
IsSeq(k)  == base_of(src.insts[k].cell) \in SEQ_PREFIX
Pins(k)   == DOMAIN src.insts[k].conns
OutNets(k) == {src.insts[k].conns[p] : p \in Pins(k) \cap OUTPINS}
InNets(k)  == {src.insts[k].conns[p] : p \in Pins(k) \ OUTPINS}
seq_out   == UNION {OutNets(k) : k \in {j \in ConeInsts : IsSeq(j)}}
ConeDriven == UNION {OutNets(k) : k \in ConeInsts}
driver(n) == CHOOSE k \in ConeInsts : n \in OutNets(k)
                 /\ \A j \in ConeInsts : n \in OutNets(j) => j <= k

\* Faulty form: the enable pin of a flop roots no cone.
root_pins_d == {"D", "SET_B", "RESET_B"}
root_pins == {"D", "DE", "SET_B", "RESET_B"}
cutnets == ConeDriven \cap src.cut

\* A cone stops at a flop, a primary input, a literal, a net nothing drives
\* and a cut point (which roots a cone of its own).
IsLeaf(n, root) ==
  \/ n # root /\ n \in cutnets
  \/ n \in seq_out \/ n[1] \in src.decls.input \/ n \in Literals \/ n \notin ConeDriven
cone(root) ==
  LET seen[d \in 0..Cardinality(ConeInsts)] ==
        IF d = 0 THEN {root}
        ELSE seen[d - 1] \cup UNION {InNets(driver(n)) :
               n \in {m \in seen[d - 1] : ~IsLeaf(m, root)}}
  IN  seen[Cardinality(ConeInsts)]
leaves(root) == {n \in cone(root) : IsLeaf(n, root)}

\* The cones of a flop: one for each of its pins in the list.
flop_roots(k) == {src.insts[k].conns[p] : p \in Pins(k) \cap root_pins}
----------------------------------------------------------------------------
(* Correctness. *)

\* INVARIANT. The census says what the importer does about cells: a netlist it
\* calls clean is never refused for one, a netlist it calls blocked is never
\* imported, and the sweep's class of a refusal names a cell the census lists.
\* The greedy cover ends with no netlist blocked.
CensusIsExact ==
  /\ phase = "done" => bucket(src) # "blocked"
  /\ why = "no expansion" => \E c \in missing(src) : classify(c) = "logic-MISSING"
  /\ why = "unmodelled flop" => \E c \in missing(src) : classify(c) = "seq-MISSING"
  /\ (phase = "refused" /\ blocker(why) \in {"unmodelled-cell", "unmodelled-flop"}) =>
       bucket(src) = "blocked"
  /\ phase = "parse" => CoverOpens

\* INVARIANT. A cone of the census is the true support: the inputs an output
\* gate of the datum depends on are the leaves of the cones of its root, the
\* literals and the nets nothing drives aside.  So no certificate is wider than
\* the census says.  (The census reads no assign, so the netlist has none, and
\* it knows no cut made by hand.  A pin on a cut net is a cone of one leaf in
\* the datum; the census shows the cone of the cut a second time.)
Depends(j) ==
  LET sup[i \in DOMAIN gates] ==
        CASE gates[i].op = "inp"   -> {inputs[gates[i].args[1]]}
          [] gates[i].op = "const" -> {}
          [] OTHER -> UNION {sup[x] : x \in ToSet(gates[i].args)}
  IN  sup[out_idx[j]]
Counted(n) == leaves(n) \cap ToSet(inputs)
Shown(n)   == IF n \in cutnets THEN {n} ELSE Counted(n)
Shows(j) ==
  LET r    == Root(j)
      flop == auto[j - Len(src.outs)]
  IN  CASE j <= Len(src.outs) -> Shown(r[2])
        [] r[1] = "root"      -> Counted(r[2])
        [] OTHER -> UNION {Shown(n) : n \in flop_roots(flop)}
                      \cup (IF HasD(flop) THEN {} ELSE {Q(flop)})
ConesAreExact ==
  (phase = "conserve" /\ assigns = <<>>
     /\ \A n \in ToSet(src.ins) : n[1] \in src.decls.input) =>
    \A j \in 1..Roots : Depends(j) = Shows(j)
============================================================================
