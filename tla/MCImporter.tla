---------------------------- MODULE MCImporter -----------------------------
(* Small netlists of five families, each with the port lists and options    *)
(* that make its cases happen.                                              *)
EXTENDS Census

a == <<"a">>     clk == <<"clk">>  n1 == <<"n1">>  q1 == <<"q1">>  y == <<"y">>
b == <<"b">>     ck1 == <<"ck1">>  n2 == <<"n2">>  q2 == <<"q2">>  z == <<"z">>
d == <<"d">>     d0  == <<"d", 0>> d1 == <<"d", 1>> d2 == <<"d", 2>>
rst == <<"rst">> one == <<"1'b1">>
MCNetOrder == <<a, b, clk, ck1, d, d0, d1, d2, n1, n2, one, q1, q2, rst, y, z>>

I(cell, name, conns) == [cell |-> cell, name |-> name, conns |-> conns]
G1(cell, x, w, o) == I(cell, "u1", ("A" :> x) @@ ("B" :> w) @@ ("X" :> o) @@ ("Y" :> o))
Two(cell, name, x, w, o) ==
  I(cell, name, IF base_of(cell) \in {"inv", "clkbuf"}
                THEN ("A" :> x) @@ (IF base_of(cell) = "inv" THEN "Y" :> o ELSE "X" :> o)
                ELSE ("A" :> x) @@ ("B" :> w) @@
                     (IF base_of(cell) = "nand2" THEN "Y" :> o ELSE "X" :> o))
FF(cell, name, dn, de, cn, qn) ==
  I(cell, name, ("D" :> dn) @@ ("CLK" :> cn) @@ ("Q" :> qn) @@
     (IF cell = "edfxtp" THEN "DE" :> de ELSE IF cell = "dfrtp" THEN "RESET_B" :> de ELSE <<>>))
As(l, r) == [lhs |-> l, rhs |-> r, range |-> FALSE]
Seqs(insts) == Cardinality({k \in DOMAIN insts : insts[k].cell \in Sequential})
Base(insts, asg, ins, outs) ==
  [insts |-> insts, assigns |-> asg, ins |-> ins, outs |-> outs,
   decls |-> [input |-> {"a", "b", "clk", "d", "rst"}, output |-> {"y", "z"},
              wire |-> {"n1", "n2", "q1", "q2", "ck1"}],
   vports |-> ("d" :> <<1, 0>>), seq_in_text |-> Seqs(insts),
   pin |-> None, cut |-> {}, check |-> "require", pdk |-> TRUE]

\* Two gates wired every way, cycles and assign loops among them, and cuts.
Comb == {[Base(<<Two(c1, "u1", x1, w1, n1), Two("xor2_1", "u2", x2, w2, n2)>>,
               asg, <<a, d0, d1>>, <<y>>) EXCEPT !.cut = cu] :
           c1 \in {"nand2_2", "inv_1"}, x1 \in {a, d0, n2}, w1 \in {d0, n1, one}, x2 \in {n1, z},
           w2 \in {d1, n1, n2}, cu \in {{}, {n1}, {n2, a}, {z}},
           asg \in {<<As(y, <<n2>>)>>, <<As(y, <<z>>), As(z, <<n2>>)>>,
                    <<As(y, <<z>>), As(z, <<y>>)>>}}

\* Two flops, a gate between them and a clock tree, with hand cuts.
Seq2 == {[Base(<<FF(f1, "f1", dd, a, cn, q2), FF("dfxtp", "f2", n1, a, clk, qn),
                 Two("nand2_1", "u1", q1, x, n1), Two(cb, "cb", ck, b, ck1)>>,
               <<As(y, <<q2>>)>>, p[1], p[2]) EXCEPT !.seq_in_text = @ + extra] :
           f1 \in {"dfxtp", "edfxtp", "dfstp"}, dd \in {n1, q1}, cn \in {clk, ck1},
           qn \in {q1, q2}, x \in {a, q2}, cb \in {"inv_2", "clkbuf", "and2_1"},
           ck \in {clk, ck1}, extra \in {0, 1},
           p \in {<<<<a, b, clk>>, <<y>>>>, <<<<a, b, clk, q1>>, <<y, n1>>>>,
                  <<<<a, b, clk, q2>>, <<y>>>>, <<<<a, b, clk, q1, q2>>, <<y, n1, n2>>>>}}

\* The port lists: vectors by base and by bit, bits out of range, inputs and
\* wires asked for as outputs, duplicates, unparsed assign forms.
Ports == {[Base(<<Two("and2_1", "u1", x, d1, z)>>, asg, ins, outs)
             EXCEPT !.check = ck[1], !.pdk = ck[2]] :
            x \in {a, d0, d2}, ins \in {<<a, d>>, <<a, d0, d1>>, <<a, d0, d1, d2>>,
                                        <<a, d1, a>>, <<d1>>, <<a, d0, d1, b, n2>>},
            outs \in {<<z>>, <<y, z>>, <<z, a>>, <<n1>>, <<z, n1>>},
            asg \in {<<As(y, <<a>>)>>, <<As(y, <<a, b>>)>>, <<As(y, <<>>)>>,
                     <<[lhs |-> y, rhs |-> <<d0>>, range |-> TRUE]>>},
            ck \in {<<"off", TRUE>>, <<"auto", FALSE>>, <<"require", FALSE>>,
                    <<"auto", TRUE>>}}

\* Flops with an asynchronous reset, the net pinned, and its other readers.
Reset == {[Base(<<FF("dfrtp", "f1", a, r1, clk, q1), FF(f2, "f2", q1, r2, clk, q2),
                  Two("and2_1", "u1", q2, x, n1), Two("inv_1", "u2", b, b, n2)>>,
                asg, ins, <<y>>) EXCEPT !.pin = pn] :
            r1 \in {rst, q2, n2, z}, r2 \in {rst, z}, f2 \in {"dfxtp", "dfrtp"},
            x \in {a, rst}, asg \in {<<As(y, <<n1>>)>>, <<As(y, <<n1>>), As(z, <<n2>>)>>},
            ins \in {<<a, b, clk>>, <<a, b, clk, rst>>},
            pn \in {None, rst, q2, n2, z}}

\* Cells of every shape, enough gates for three chunks, a missing pin, a cell
\* with no expansion.
Shapes == {[Base(<<I("conb_1", "t1", ("HI" :> n1) @@ ("LO" :> n2)),
                   I("mux2_1", "u1", ("A0" :> n1) @@ ("A1" :> n2) @@ ("S" :> a) @@ ("X" :> q1)),
                   I("o21bai", "u2", ("A1" :> a) @@ ("A2" :> q1) @@ bn @@ ("Y" :> z)),
                   I(cell, "u3", ("A" :> a) @@ ("X" :> q2))>>,
                 <<As(y, <<n2>>)>>, <<a, b>>, <<y, z>>)
              EXCEPT !.pin = pn, !.cut = cu] :
            bn \in {"B1_N" :> b, <<>>}, cell \in {"decap", "clkbuf", "macro_1"},
            pn \in {None, b}, cu \in {{}, {q1}, {n1, n2}}}

\* Netlists without assigns: two flops, one with an enable, a literal on a pin,
\* and cuts; every output declared is driven.
Cones == {[Base(<<FF(f1, "f1", n1, de, clk, q1), FF("dfxtp", "f2", x, a, clk, q2),
                  Two("nand2_1", "u1", q1, w, n1), Two("xor2_1", "u2", v, b, n2),
                  Two("and2_1", "u3", n1, n2, z), I(cell, "u4", ("A" :> a) @@ ("X" :> y))>>,
                <<>>, <<a, b, clk>>, <<z>>)
             EXCEPT !.cut = cu, !.decls = [@ EXCEPT !.output = {"z"}]] :
            f1 \in {"dfxtp", "edfxtp"}, de \in {a, n2}, x \in {q1, n2}, w \in {a, q2},
            v \in {q2, n1, one}, cu \in {{}, {n1}, {n2, z}},
            cell \in {"clkbuf"}}
Swept == {sweep_one(s) : s \in {t \in Reset \cup Shapes : t.cut = {} /\ t.pin = None}}
Empty == Base(<<>>, <<>>, <<a>>, <<y>>)

\* A corpus in which one netlist needs two cells.
OfCells(cells) == [Empty EXCEPT !.insts = [k \in DOMAIN cells |-> I(cells[k], "u", <<>>)]]
MCCorpus == {Empty, OfCells(<<"inv_2", "dfstp">>), OfCells(<<"dfstp", "macro_1">>),
             OfCells(<<"nand2_2">>), OfCells(<<"macro_1", "macro_2", "dfstp">>)}

MCSources == Comb \cup Seq2 \cup Ports \cup Reset \cup Shapes \cup Cones \cup Swept
               \cup {Empty}
============================================================================
