------------------------------ MODULE Netlist ------------------------------
(***************************************************************************)
(* The data of the netlist importer (SaltWorks/Silicon/Importer): nets,    *)
(* the cell programs of EXPAND, the flop models of SEQ_MODELS, and the     *)
(* look-ups every later step shares.                                       *)
(*                                                                         *)
(* A net is a tuple of its name: <<"a">> is a scalar, <<"d", 3>> the       *)
(* bit-select d[3] (a scalar with the escaped name \d[3] is the same text, *)
(* so the same net to these tools), <<"1'b1">> a literal.  An instance is  *)
(* a record [cell, name, conns] with conns a function from the connected   *)
(* pins to nets, as written; power pins are left out.                      *)
(***************************************************************************)
EXTENDS Naturals, Sequences, SequencesExt

None == <<>>

\* One line of a cell's program: tmp := op(a, b), over pins and earlier tmps.
Line(t, op, a, b) == [t |-> t, op |-> op, a |-> a, b |-> b]
Not(t, a)    == Line(t, "not", a, a)
And(t, a, b) == Line(t, "and", a, b)
Or(t, a, b)  == Line(t, "or", a, b)
Xor(t, a, b) == Line(t, "xor", a, b)
Cell(ops, pin, t) == [ops |-> ops, outs |-> <<[pin |-> pin, tmp |-> t]>>]

\* EXPAND: one cell of each shape the table has (a buffer, an inverter, two
\* and three levels, an active-low pin, a shared select, and the tie cell,
\* the only one with two outputs and no input).  Its keys are full names and
\* names without the drive strength, as they came.
EXPAND ==
  [ clkbuf |-> Cell(<<Line("t", "buf", "A", "A")>>, "X", "t"),
    inv_1  |-> Cell(<<Not("t", "A")>>, "Y", "t"),
    and2_1 |-> Cell(<<And("t", "A", "B")>>, "X", "t"),
    xor2_1 |-> Cell(<<Xor("t", "A", "B")>>, "X", "t"),
    nand2_1 |-> Cell(<<And("a", "A", "B"), Not("t", "a")>>, "Y", "t"),
    o21bai |-> Cell(<<Or("a", "A1", "A2"), Not("n", "a"),
                      Or("t", "n", "B1_N")>>, "Y", "t"),
    mux2_1 |-> Cell(<<Not("n", "S"), And("a", "A0", "n"),
                      And("b", "A1", "S"), Or("t", "a", "b")>>, "X", "t"),
    conb   |-> [ops  |-> <<Line("hi", "const", TRUE, TRUE),
                           Line("lo", "const", FALSE, FALSE)>>,
                outs |-> <<[pin |-> "HI", tmp |-> "hi"],
                           [pin |-> "LO", tmp |-> "lo"]>>] ]

\* A cell's name without its drive strength.
Drive == [inv_1 |-> "inv", inv_2 |-> "inv", and2_1 |-> "and2", xor2_1 |-> "xor2",
          nand2_1 |-> "nand2", nand2_2 |-> "nand2", mux2_1 |-> "mux2",
          macro_1 |-> "macro", conb_1 |-> "conb"]
base_of(cell) == IF cell \in DOMAIN Drive THEN Drive[cell] ELSE cell

\* The classes of cells recognised by the prefix of their names.
Physical   == {"tapvpwrvgnd", "fill", "decap", "diode"}
Sequential == {"dfxtp", "dfrtp", "dfstp", "edfxtp"}
IsLogic(i) == i.cell \notin Physical \cup Sequential

\* The flop models: the pins the model accounts for, the data pin or the
\* next-state program, and the pin of an asynchronous reset with the value at
\* which it is inactive.
SEQ_MODELS ==
  [ dfxtp  |-> [pins |-> {"CLK", "D", "Q"}, next |-> <<>>, reset |-> None],
    edfxtp |-> [pins |-> {"CLK", "D", "DE", "Q"},
                next |-> <<Not("n", "DE"), And("a", "DE", "D"),
                           And("b", "n", "Q"), Or("t", "a", "b")>>,
                reset |-> None],
    dfrtp  |-> [pins |-> {"CLK", "D", "Q", "RESET_B"}, next |-> <<>>,
                reset |-> <<"RESET_B", TRUE>>] ]

\* The expansion of a cell: by its name, or by a name of another strength.
HasExpansion(cell) == \E k \in DOMAIN EXPAND : base_of(k) = base_of(cell)
expansion_for(cell) ==
  IF cell \in DOMAIN EXPAND THEN EXPAND[cell]
  ELSE EXPAND[CHOOSE k \in DOMAIN EXPAND : base_of(k) = base_of(cell)]
outputs_of(exp)     == exp.outs

Literals == {<<"1'b0">>, <<"1'b1">>}

\* The nets an instance drives, by its outputs; a pin on a literal is left out.
DrivenNets(i) ==
  IF IsLogic(i) /\ HasExpansion(i.cell)
  THEN {i.conns[p] : p \in DOMAIN i.conns
                        \cap {o.pin : o \in ToSet(outputs_of(expansion_for(i.cell)))}}
       \ Literals
  ELSE {}

\* The driver map: a later instance overwrites an earlier one, so the driver
\* of a net is the last instance that has an output on it.
Drivers(insts, n) == {k \in DOMAIN insts : n \in DrivenNets(insts[k])}
all_drivers(insts) ==
  [n \in UNION {DrivenNets(insts[k]) : k \in DOMAIN insts} |->
     CHOOSE k \in Drivers(insts, n) : \A j \in Drivers(insts, n) : j <= k]

\* The right-hand side of the first assign whose left-hand side is n.
Aliases(assigns, n) == {k \in DOMAIN assigns : assigns[k][1] = n}
AliasOf(assigns, n) ==
  assigns[CHOOSE k \in Aliases(assigns, n) :
            \A j \in Aliases(assigns, n) : k <= j][2]

\* The importer's parser takes no literal on a pin: the pin is left out.
Parsed(i) == [i EXCEPT !.conns = RestrictValues(@, LAMBDA n : n \notin Literals)]
============================================================================
