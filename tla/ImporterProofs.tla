--------------------------- MODULE ImporterProofs ---------------------------
(***************************************************************************)
(* Proofs about the importer and the census of the cells it can read, for  *)
(* every finite corpus of netlists and every input of a run.               *)
(*                                                                         *)
(* A run that got past the flops has a model for each of them, and one     *)
(* that got past the inputs has an expansion for each logic cell; so the   *)
(* census, which looks at the names of the cells only, says of the netlist *)
(* what the run came to.  The greedy cover takes a cell the corpus misses  *)
(* at each step at which a netlist is left blocked, so it has them all     *)
(* after as many steps as there are.                                       *)
(*                                                                         *)
(* The gates compute the source because, at every step of the walk and for *)
(* every valuation of the nets and the tmps that satisfies the source's    *)
(* equations, every gate index in sight (of a bound net, a collected       *)
(* output, a tmp or an operand of a call in progress, the index returned)  *)
(* has the value of what it stands for, and every call is owed what the    *)
(* call below it, or the output asked for, waits for.  Each gate reads     *)
(* earlier ones, so evaluating them in order gives values that satisfy     *)
(* them all, and the chunks on disk, one after the other, are the gates.   *)
(***************************************************************************)
EXTENDS Census, FiniteSetTheorems, SequenceTheorems, WellFoundedInduction, TLAPS

\* Dropping the connections to literals leaves the name of a cell.
LEMMA CellIs ==
  ASSUME src \in Sources, NEW k \in DOMAIN src.insts
  PROVE  Inst(k).cell = src.insts[k].cell /\ src.insts[k].cell \in cells_of(src)
<1> DEFINE i == src.insts[k]
<1>1. i \in ToSet(src.insts)
  BY DEF ToSet
<1>2. "cell" \in DOMAIN i
  BY <1>1, SourcesAssumption
<1>3. Inst(k).cell = i.cell
  <2> DEFINE e == RestrictValues(i.conns, LAMBDA n : n \notin Literals)
  <2>1. Inst(k) = [i EXCEPT !.conns = e]
    BY DEF Inst, Parsed
  <2>2. [i EXCEPT !.conns = e].cell = i.cell
    <3> HIDE DEF e, i
    <3> QED BY <1>2
  <2> QED BY <2>1, <2>2
<1>4. i.cell \in cells_of(src)
  BY <1>1 DEF cells_of
<1> QED BY <1>3, <1>4

\* No cell changes its kind with its drive: what is written with a drive is logic.
LEMMA BaseIs ==
  ASSUME NEW c
  PROVE  /\ c \in Physical <=> base_of(c) \in Physical
         /\ c \in Sequential <=> base_of(c) \in Sequential
         /\ base_of(c) \in Sequential => base_of(c) = c
<1>1. CASE c \in DOMAIN Drive
  <2>1. c \notin Physical \cup Sequential
    BY <1>1 DEF Drive, Physical, Sequential
  <2>2. base_of(c) \in {"inv", "and2", "xor2", "nand2", "mux2", "macro", "conb"}
    BY <1>1 DEF base_of, Drive
  <2> QED BY <2>1, <2>2 DEF Physical, Sequential
<1>2. CASE c \notin DOMAIN Drive
  BY <1>2 DEF base_of
<1> QED BY <1>1, <1>2

\* The two classes of the census that keep a netlist out, by the importer's tables.
LEMMA ClassIs ==
  ASSUME NEW c
  PROVE  /\ classify(c) = "logic-MISSING" <=>
               c \notin Physical \cup Sequential /\ ~HasExpansion(c)
         /\ classify(c) = "seq-MISSING" <=> c \in Sequential /\ c \notin DOMAIN SEQ_MODELS
<1>0. Physical \cap Sequential = {}
  BY DEF Physical, Sequential
<1>1. CASE c \in Physical
  <2>0. base_of(c) \in Physical
    BY <1>1, BaseIs
  <2>a. base_of(c) \notin Sequential
    BY <1>0, <2>0
  <2>1. classify(c) = "physical"
    BY <2>0, <2>a DEF classify
  <2>2. "physical" # "logic-MISSING" /\ "physical" # "seq-MISSING"
    OBVIOUS
  <2>3. c \notin Sequential
    BY <1>0, <1>1
  <2> QED BY <1>1, <2>1, <2>2, <2>3
<1>2. CASE c \in Sequential
  <2>1. classify(c) = IF base_of(c) \in DOMAIN SEQ_MODELS THEN "seq-ok" ELSE "seq-MISSING"
    <3>1. base_of(c) \in Sequential /\ base_of(c) \notin Physical
      BY <1>2, <1>0, BaseIs
    <3> QED BY <3>1 DEF classify
  <2>2. base_of(c) = c
    BY <1>2, BaseIs
  <2> QED BY <1>0, <1>2, <2>1, <2>2
<1>3. CASE c \notin Physical \cup Sequential
  <2>1. classify(c) = IF HasExpansion(c) THEN "logic-ok" ELSE "logic-MISSING"
    <3>1. base_of(c) \notin Sequential /\ base_of(c) \notin Physical
      BY <1>3, BaseIs
    <3> QED BY <3>1 DEF classify
  <2> QED BY <1>3, <2>1
<1> QED BY <1>1, <1>2, <1>3
----------------------------------------------------------------------------
\* What a run needs that the census counts, and where it has it.
AllExpand == \A k \in DOMAIN src.insts : IsLogic(Inst(k)) => HasExpansion(Inst(k).cell)

CellsInv ==
  /\ src \in Sources
  /\ phase \in {"parse", "ports", "outs", "width", "flops", "clock", "pin", "handcut", "cut",
                "inputs", "build", "conserve", "readback", "done", "refused"}
  /\ phase \in {"clock", "pin", "handcut", "cut", "inputs", "build", "conserve", "readback", "done"}
       => SeqInsts = Modelled
  /\ phase \in {"build", "conserve", "readback", "done"} => AllExpand
  /\ why = "no expansion" => ~AllExpand
  /\ why = "unmodelled flop" => SeqInsts # Modelled

\* Nothing is asked of the cells before the parse.
LEMMA InitCells == Init => CellsInv
BY DEF Init, CellsInv

\* The cells are those of the input, whatever the run has reached.
LEMMA CellsStay ==
  ASSUME src' = src
  PROVE  AllExpand' = AllExpand /\ SeqInsts' = SeqInsts /\ Modelled' = Modelled
<1>1. \A k : Inst(k)' = Inst(k)
  BY DEF Inst
<1> QED BY <1>1 DEF AllExpand, SeqInsts, Modelled, IsLogic, HasExpansion

\* A step of the walk, before it ends, changes neither the netlist nor the verdict.
LEMMA WalkKeeps ==
  ASSUME CellsInv, phase = "build",
         \/ UNCHANGED <<front, why>> /\ phase' \in {"build", "conserve"}
         \/ \E reason \in {"assign loop", "no driver", "combinational cycle", "unconnected pin"} :
              Refuse(reason)
  PROVE  CellsInv'
<1>1. src' = src
  BY DEF front, Refuse
<1>2. AllExpand' = AllExpand /\ SeqInsts' = SeqInsts /\ Modelled' = Modelled
  BY <1>1, CellsStay
<1>3. CASE UNCHANGED <<front, why>> /\ phase' \in {"build", "conserve"}
  BY <1>1, <1>2, <1>3 DEF CellsInv
<1>4. CASE \E reason \in {"assign loop", "no driver", "combinational cycle", "unconnected pin"} :
              Refuse(reason)
  <2>1. phase' = "refused" /\ why' \in {"assign loop", "no driver", "combinational cycle", "unconnected pin"}
    BY <1>4 DEF Refuse
  <2> QED BY <1>1, <1>2, <2>1 DEF CellsInv
<1> QED BY <1>3, <1>4

\* The checks before the walk: only find_flops lets the flops through.
LEMMA ElaborateKeeps == CellsInv /\ Elaborate => CellsInv'
<1> SUFFICES ASSUME CellsInv, Elaborate PROVE CellsInv'
  OBVIOUS
<1>1. src' = src
  BY DEF front, Refuse, Elaborate, parse, CV1, CV3, CV2, find_flops, check_clock_domain,
         check_pinned_reset, treatment, cut_points
<1>2. AllExpand' = AllExpand /\ SeqInsts' = SeqInsts /\ Modelled' = Modelled
  BY <1>1, CellsStay
<1> DEFINE other == {"assign form", "C-V1", "C-V3", "C-V2", "flop pins", "asynchronous reset",
                     "nothing to pin", "gated clock", "clock domains", "pinned reset",
                     "half a hand cut", "nothing to cut", "cut of an input"}
<1>3. ASSUME NEW reason \in other, Refuse(reason) PROVE CellsInv'
  BY <1>1, <1>2, <1>3 DEF CellsInv, Refuse
<1>4. ASSUME phase \in {"parse", "ports", "outs", "width"},
             phase' \in {"ports", "outs", "width", "flops"}, why' = why
      PROVE  CellsInv'
  BY <1>1, <1>2, <1>4 DEF CellsInv
<1>5. ASSUME phase \in {"clock", "pin", "handcut", "cut"},
             phase' \in {"pin", "handcut", "cut", "inputs"}, why' = why
      PROVE  CellsInv'
  BY <1>1, <1>2, <1>5 DEF CellsInv
<1>6. CASE parse
  BY <1>3, <1>4, <1>6 DEF parse, GoTo
<1>7. CASE CV1
  BY <1>3, <1>4, <1>7 DEF CV1, GoTo
<1>8. CASE CV3
  BY <1>3, <1>4, <1>8 DEF CV3, GoTo
<1>9. CASE CV2
  BY <1>3, <1>4, <1>9 DEF CV2, GoTo
<1>10. CASE find_flops
  <2>1. CASE SeqInsts # Modelled /\ Refuse("unmodelled flop")
    BY <1>1, <1>2, <2>1 DEF CellsInv, Refuse
  <2>2. CASE SeqInsts = Modelled /\ phase' \in {"cut", "clock"} /\ why' = why
    BY <1>1, <1>2, <1>10, <2>2 DEF CellsInv, find_flops
  <2>3. CASE \E reason \in other : Refuse(reason)
    BY <1>3, <2>3
  <2> QED BY <1>10, <2>1, <2>2, <2>3 DEF find_flops, GoTo
<1>11. CASE check_clock_domain
  BY <1>3, <1>5, <1>11 DEF check_clock_domain, GoTo
<1>12. CASE check_pinned_reset
  BY <1>3, <1>5, <1>12 DEF check_pinned_reset, GoTo
<1>13. CASE treatment
  BY <1>3, <1>5, <1>13 DEF treatment, GoTo
<1>14. CASE cut_points
  BY <1>3, <1>5, <1>14 DEF cut_points, GoTo
<1> QED BY <1>6, <1>7, <1>8, <1>9, <1>10, <1>11, <1>12, <1>13, <1>14 DEF Elaborate

\* Every step keeps the invariant: only bind_inputs lets the logic through.
LEMMA CellsKeep == CellsInv /\ [Next]_vars => CellsInv'
<1> SUFFICES ASSUME CellsInv, [Next]_vars PROVE CellsInv'
  OBVIOUS
<1>1. CASE Elaborate
  BY <1>1, ElaborateKeeps
<1>2. CASE bind_inputs
  <2>1. src' = src
    BY <1>2 DEF bind_inputs, front, Refuse
  <2>2. AllExpand' = AllExpand /\ SeqInsts' = SeqInsts /\ Modelled' = Modelled
    BY <2>1, CellsStay
  <2>3. CASE Refuse("duplicate input")
    BY <2>1, <2>2, <2>3 DEF CellsInv, Refuse
  <2>4. CASE ~AllExpand /\ Refuse("no expansion")
    BY <2>1, <2>2, <2>4 DEF CellsInv, Refuse
  <2>5. CASE phase = "inputs" /\ AllExpand /\ phase' = "build" /\ why' = why
    BY <2>1, <2>2, <2>5 DEF CellsInv
  <2> QED BY <1>2, <2>3, <2>4, <2>5 DEF bind_inputs, AllExpand
<1>3. CASE Walk
  BY <1>3, WalkKeeps DEF Walk, AskRoot, TakeRoot, NetBound, NetFixed, NetAlias, NetDriven, NetRefused,
     Operand, OperandMissing, TakeOperand, EmitLine, Return, Asking, Running, AtLine, Building
<1>4. CASE Write
  BY <1>4, WalkKeeps DEF Write
<1>5. CASE Conserve \/ Readback
  <2>1. src' = src
    BY <1>5 DEF Conserve, Readback, front, Refuse
  <2>2. AllExpand' = AllExpand /\ SeqInsts' = SeqInsts /\ Modelled' = Modelled
    BY <2>1, CellsStay
  <2>3. CASE \E reason \in {"conservation", "no Liberty", "readback mismatch"} : Refuse(reason)
    BY <2>1, <2>2, <2>3 DEF CellsInv, Refuse
  <2>4. CASE phase \in {"conserve", "readback"} /\ phase' \in {"readback", "done"} /\ why' = why
    BY <2>1, <2>2, <2>4 DEF CellsInv
  <2> QED BY <1>5, <2>3, <2>4 DEF Conserve, Readback, GoTo
<1>6. CASE UNCHANGED vars
  <2>1. src' = src /\ phase' = phase /\ why' = why
    BY <1>6 DEF vars, front
  <2>2. AllExpand' = AllExpand /\ SeqInsts' = SeqInsts /\ Modelled' = Modelled
    BY <2>1, CellsStay
  <2> QED BY <2>1, <2>2 DEF CellsInv
<1> QED BY <1>1, <1>2, <1>3, <1>4, <1>5, <1>6 DEF Next, Import, Done

\* Where the run is, the census of its netlist says what it has to.
LEMMA CensusOf ==
  ASSUME CellsInv
  PROVE  /\ phase = "done" => bucket(src) # "blocked"
         /\ why = "no expansion" => \E c \in missing(src) : classify(c) = "logic-MISSING"
         /\ why = "unmodelled flop" => \E c \in missing(src) : classify(c) = "seq-MISSING"
         /\ (phase = "refused" /\ blocker(why) \in {"unmodelled-cell", "unmodelled-flop"}) =>
              bucket(src) = "blocked"
<1>0. src \in Sources
  BY DEF CellsInv
<1>1. AllExpand <=> \A c \in cells_of(src) : classify(c) # "logic-MISSING"
  <2>1. \A c \in cells_of(src) : \E k \in DOMAIN src.insts : c = src.insts[k].cell
    BY DEF cells_of, ToSet
  <2>2. \A k \in DOMAIN src.insts :
          (classify(src.insts[k].cell) = "logic-MISSING"
             <=> IsLogic(Inst(k)) /\ ~HasExpansion(Inst(k).cell))
    BY <1>0, CellIs, ClassIs DEF IsLogic
  <2>3. \A k \in DOMAIN src.insts : src.insts[k].cell \in cells_of(src)
    BY <1>0, CellIs
  <2> QED BY <2>1, <2>2, <2>3 DEF AllExpand
<1>2. SeqInsts = Modelled <=> \A c \in cells_of(src) : classify(c) # "seq-MISSING"
  <2>1. \A c \in cells_of(src) : \E k \in DOMAIN src.insts : c = src.insts[k].cell
    BY DEF cells_of, ToSet
  <2>2. \A k \in DOMAIN src.insts :
          (classify(src.insts[k].cell) = "seq-MISSING"
             <=> Inst(k).cell \in Sequential /\ Inst(k).cell \notin DOMAIN SEQ_MODELS)
    BY <1>0, CellIs, ClassIs
  <2>3. \A k \in DOMAIN src.insts : src.insts[k].cell \in cells_of(src)
    BY <1>0, CellIs
  <2>4. SeqInsts = Modelled <=> \A k \in SeqInsts : Inst(k).cell \in DOMAIN SEQ_MODELS
    BY DEF Modelled
  <2> QED BY <2>1, <2>2, <2>3, <2>4 DEF SeqInsts
<1>3. missing(src) # {} <=> ~(AllExpand /\ SeqInsts = Modelled)
  BY <1>1, <1>2 DEF missing
<1>4. bucket(src) = "blocked" <=> missing(src) # {}
  <2>1. cells_of(src) = {} => missing(src) = {}
    BY DEF missing
  <2> QED BY <2>1 DEF bucket
<1>5. phase = "done" => AllExpand /\ SeqInsts = Modelled
  BY DEF CellsInv
<1>6. blocker(why) \in {"unmodelled-cell", "unmodelled-flop"}
        => why \in {"no expansion", "unmodelled flop"}
  <2>1. SUFFICES ASSUME why # "no expansion", why # "unmodelled flop"
                 PROVE  blocker(why) \in {"range-grammar", "other"}
    OBVIOUS
  <2> DEFINE ranged == why = "assign form" /\ \E t \in ToSet(src.assigns) : t.range
  <2>2. blocker(why) = IF ranged THEN "range-grammar" ELSE "other"
    BY <2>1 DEF blocker
  <2> QED BY <2>2
<1>7. why \in {"no expansion", "unmodelled flop"} => ~(AllExpand /\ SeqInsts = Modelled)
  BY DEF CellsInv
<1>8. /\ why = "no expansion" => \E c \in cells_of(src) : classify(c) = "logic-MISSING"
      /\ why = "unmodelled flop" => \E c \in cells_of(src) : classify(c) = "seq-MISSING"
  BY <1>1, <1>2 DEF CellsInv
<1>9. \A c \in cells_of(src) : classify(c) \in {"seq-MISSING", "logic-MISSING"} => c \in missing(src)
  BY DEF missing
<1> QED BY <1>3, <1>4, <1>5, <1>6, <1>7, <1>8, <1>9
----------------------------------------------------------------------------
\* A set of numbers has a least.
LEMMA LeastOf ==
  ASSUME NEW T \in SUBSET Nat, T # {}
  PROVE  \E x \in T : \A y \in T : x <= y
<1> DEFINE R == {ss \in Nat \X Nat : ss[1] < ss[2]}
<1>1. IsWellFoundedOn(R, Nat)
  BY NatLessThanWellFounded DEF OpToRel
<1>2. \E x \in T : \A y \in T : ~ (<<y, x>> \in R)
  <2> HIDE DEF R
  <2> QED
    BY <1>1, WFMin
<1>3. PICK x \in T : \A y \in T : ~ (<<y, x>> \in R)
  BY <1>2
<1>4. ASSUME NEW y \in T
      PROVE  x <= y
  <2>1. x \in Nat /\ y \in Nat /\ <<y, x>> \in Nat \X Nat /\ <<y, x>>[1] = y /\ <<y, x>>[2] = x
    OBVIOUS
  <2>2. ~ (y < x)
    BY <1>3, <2>1
  <2> QED
    BY <2>1, <2>2
<1> QED
  BY <1>4

Open == missing_cells(Corpus)
\* A netlist misses finitely many cells, and so do the netlists of a corpus.
LEMMA OpenIsFinite == IsFiniteSet(Open) /\ Cardinality(Open) \in Nat
<1>1. ASSUME NEW s \in Corpus PROVE IsFiniteSet(missing(s))
  <2>1. s.insts \in Seq(ToSet(s.insts))
    BY CorpusAssumption
  <2>2. Len(s.insts) \in Nat /\ DOMAIN s.insts = 1..Len(s.insts)
    BY <2>1
  <2>3. IsFiniteSet(1..Len(s.insts))
    BY <2>2, FS_Interval
  <2> DEFINE f == [k \in 1..Len(s.insts) |-> s.insts[k].cell]
             R == {f[k] : k \in 1..Len(s.insts)}
  <2>4. f \in Surjection(1..Len(s.insts), R)
    BY DEF Surjection
  <2>5. IsFiniteSet(R)
    <3> HIDE DEF f, R
    <3> QED BY <2>3, <2>4, FS_Surjection
  <2>6. missing(s) \subseteq R
    BY <2>2 DEF missing, cells_of, ToSet
  <2> QED BY <2>5, <2>6, FS_Subset
<1> DEFINE g == [s \in Corpus |-> missing(s)]
           M == {missing(s) : s \in Corpus}
<1>2. g \in Surjection(Corpus, M)
  BY DEF Surjection
<1>3. IsFiniteSet(M)
  <2> HIDE DEF g, M
  <2> QED BY <1>2, FS_Surjection, CorpusAssumption
<1>4. \A T \in M : IsFiniteSet(T)
  BY <1>1
<1>5. IsFiniteSet(UNION M)
  <2> HIDE DEF M
  <2> QED BY <1>3, <1>4, FS_UNION
<1> QED BY <1>5, FS_CardinalityType DEF Open, missing_cells

\* One step of the cover.
Candidates(have) == missing_cells(left(Corpus, have)) \ have
Taking(have) ==
  IF Candidates(have) = {} THEN have
  ELSE have \cup {CHOOSE c \in Candidates(have) : \A e \in Candidates(have) :
                   Needs(Corpus, have, e) <= Needs(Corpus, have, c)}
\* A step takes a cell that was open, as long as a netlist is blocked.
LEMMA TakingOpens ==
  ASSUME NEW have \in SUBSET Open
  PROVE  \/ left(Corpus, have) = {} /\ Taking(have) = have
         \/ \E c \in Open \ have : Taking(have) = have \cup {c}
<1>1. CASE Candidates(have) = {}
  <2>1. \A s \in left(Corpus, have) : \E c \in missing(s) : c \notin have
    BY DEF left
  <2>2. \A s \in left(Corpus, have) : \A c \in missing(s) \ have : c \in Candidates(have)
    BY DEF Candidates, missing_cells
  <2> QED BY <1>1, <2>1, <2>2 DEF Taking
<1>2. CASE Candidates(have) # {}
  <2> DEFINE cand == Candidates(have)
             need(c) == Needs(Corpus, have, c)
             most == Cardinality(Corpus)
  <2>1. left(Corpus, have) \subseteq Corpus
    BY DEF left, blocked
  <2>2. cand \subseteq Open \ have
    BY <2>1 DEF Candidates, missing_cells, Open
  <2>3. most \in Nat /\ \A c : need(c) \in Nat /\ need(c) <= most
    <3>1. most \in Nat
      BY CorpusAssumption, FS_CardinalityType
    <3>2. ASSUME NEW c PROVE need(c) \in Nat /\ need(c) <= most
      <4>1. {s \in left(Corpus, have) : c \in missing(s)} \in SUBSET Corpus
        BY <2>1
      <4> QED BY <4>1, CorpusAssumption, FS_Subset, FS_CardinalityType DEF Needs
    <3> QED BY <3>1, <3>2
  <2> HIDE DEF cand, need, most
  <2> DEFINE T == {most - need(c) : c \in cand}
  <2>4. T \in SUBSET Nat /\ T # {}
    BY <2>3, <1>2 DEF cand
  <2>5. PICK x \in T : \A y \in T : x <= y
    <3> HIDE DEF T
    <3> QED BY <2>4, LeastOf
  <2>6. PICK b \in cand : x = most - need(b)
    BY <2>5
  <2>7. ASSUME NEW e \in cand PROVE need(e) <= need(b)
    <3>1. x <= most - need(e)
      BY <2>5
    <3>2. most \in Nat /\ need(e) \in Nat /\ need(b) \in Nat
      BY <2>3
    <3> QED BY <2>6, <3>1, <3>2
  <2>8. \E c \in cand : \A e \in cand : need(e) <= need(c)
    BY <2>7
  <2> DEFINE c == CHOOSE d \in cand : \A e \in cand : need(e) <= need(d)
  <2>9. c \in cand
    BY <2>8
  <2>10. Taking(have) = have \cup {c}
    BY <1>2 DEF Taking, cand, need
  <2> QED BY <2>2, <2>9, <2>10
<1> QED BY <1>1, <1>2

\* The cells the cover has taken after n steps.
LEMMA CoverIs ==
  LET G == greedy_cover(Corpus) IN
  /\ G[0] = {}
  /\ \A n \in 1..Cardinality(Open) : G[n] = Taking(G[n - 1])
<1> DEFINE N == Cardinality(Open)
           Up(f, n) == IF n = 0 THEN {} ELSE Taking(f[n - 1])
           Partial(f, n) == f = [k \in 0..n |-> Up(f, k)]
<1>0. N \in Nat
  BY OpenIsFinite
<1>1. ASSUME NEW n \in Nat PROVE \E f : Partial(f, n)
  <2> DEFINE T == {k \in Nat : ~ \E f : Partial(f, k)}
  <2> SUFFICES ASSUME T # {} PROVE FALSE
    BY <1>1
  <2>1. PICK m \in T : \A y \in T : m <= y
    <3>1. T \in SUBSET Nat
      OBVIOUS
    <3> HIDE DEF T
    <3> QED BY <3>1, LeastOf
  <2>2. CASE m = 0
    <3> DEFINE f == [k \in 0..0 |-> {}]
    <3>1. f = [k \in 0..0 |-> Up(f, k)]
      OBVIOUS
    <3> QED BY <2>1, <2>2, <3>1
  <2>3. CASE m # 0
    <3>a. m \in Nat /\ m - 1 \in Nat /\ m - 1 < m
      BY <2>3
    <3>b. ~(m <= m - 1)
      BY <3>a
    <3>1. m - 1 \in Nat /\ m - 1 \notin T
      <4> HIDE DEF T
      <4> QED BY <2>1, <3>a, <3>b
    <3>2. PICK f : Partial(f, m - 1)
      BY <3>1
    <3> DEFINE g == [k \in 0..m |-> IF k = m THEN Taking(f[m - 1]) ELSE f[k]]
    <3>3. \A k \in 0..(m - 1) : g[k] = f[k] /\ f[k] = Up(f, k)
      <4>1. \A k \in 0..(m - 1) : f[k] = Up(f, k)
        BY <3>2
      <4>2. \A k \in 0..(m - 1) : k # m /\ k \in 0..m
        BY <3>a
      <4>3. \A k \in 0..(m - 1) : g[k] = f[k]
        BY <4>2
      <4> QED BY <4>1, <4>3
    <3>4. ASSUME NEW k \in 0..m PROVE g[k] = Up(g, k)
      <4>1. CASE k = m
        <5>1. g[k] = Taking(f[k - 1]) /\ k - 1 \in 0..(m - 1)
          BY <3>a, <4>1
        <5>2. g[k - 1] = f[k - 1]
          <6> HIDE DEF g, Up
          <6> QED BY <3>3, <5>1
        <5> HIDE DEF g
        <5> QED BY <2>3, <4>1, <5>1, <5>2
      <4>2. CASE k = 0
        <5>1. k \in 0..(m - 1)
          BY <3>a, <4>2
        <5> HIDE DEF g
        <5> QED BY <3>3, <4>2, <5>1
      <4>3. CASE k # m /\ k # 0
        <5>1. k \in 0..(m - 1) /\ k - 1 \in 0..(m - 1)
          BY <3>a, <4>3
        <5> HIDE DEF g
        <5>2. g[k] = Up(f, k) /\ g[k - 1] = f[k - 1]
          <6> HIDE DEF Up
          <6> QED BY <3>3, <5>1
        <5> QED BY <4>3, <5>2
      <4> QED BY <4>1, <4>2, <4>3
    <3>5. g = [k \in 0..m |-> Up(g, k)]
      BY <3>4
    <3> QED BY <2>1, <3>5
  <2> QED BY <2>2, <2>3
<1> DEFINE G == greedy_cover(Corpus)
<1>2. G = CHOOSE f : Partial(f, N)
  BY DEF greedy_cover, Taking, Candidates, Open
<1>3. Partial(G, N)
  <2> HIDE DEF Partial, N, G
  <2> QED BY <1>0, <1>1, <1>2
<1>4. \A n \in 0..N : G[n] = Up(G, n)
  <2> HIDE DEF G
  <2> QED BY <1>3
<1>5. G[0] = Up(G, 0) /\ \A n \in 1..N : G[n] = Up(G, n)
  <2> HIDE DEF G, Up
  <2> QED BY <1>0, <1>4
<1> QED
  <2> HIDE DEF G
  <2>1. \A n \in 1..N : n # 0
    BY <1>0
  <2>2. G[0] = {} /\ \A n \in 1..N : G[n] = Taking(G[n - 1])
    BY <1>5, <2>1
  <2> QED BY <2>2 DEF G

\* The greedy cover opens every netlist of the corpus.
LEMMA CoverHolds == CoverOpens
<1> DEFINE G == greedy_cover(Corpus)
           N == Cardinality(Open)
           Good(n) == /\ G[n] \in SUBSET Open
                      /\ left(Corpus, G[n]) = {} \/ Cardinality(G[n]) = n
<1>0. N \in Nat
  BY OpenIsFinite
<1>1. G[0] = {} /\ \A n \in 1..N : G[n] = Taking(G[n - 1])
  BY CoverIs
<1> HIDE DEF G, N
<1>2. Good(0)
  BY <1>1, FS_EmptySet
<1>3. ASSUME NEW n \in 1..N, Good(n - 1) PROVE Good(n)
  <2> DEFINE have == G[n - 1]
  <2>1. have \in SUBSET Open /\ n - 1 \in Nat
    BY <1>0, <1>3
  <2>2. G[n] = Taking(have)
    BY <1>1
  <2>3. CASE left(Corpus, have) = {} /\ Taking(have) = have
    BY <2>1, <2>2, <2>3
  <2>4. CASE \E c \in Open \ have : Taking(have) = have \cup {c}
    <3>1. PICK c \in Open \ have : Taking(have) = have \cup {c}
      BY <2>4
    <3>2. G[n] \in SUBSET Open
      BY <2>1, <2>2, <3>1
    <3>3. CASE left(Corpus, have) = {}
      <4>1. left(Corpus, G[n]) = {}
        BY <2>2, <3>1, <3>3 DEF left
      <4> QED BY <3>2, <4>1
    <3>4. CASE Cardinality(have) = n - 1
      <4>1. IsFiniteSet(have)
        BY <2>1, OpenIsFinite, FS_Subset
      <4>2. Cardinality(have \cup {c}) = Cardinality(have) + 1
        BY <3>1, <4>1, FS_AddElement
      <4>3. Cardinality(G[n]) = (n - 1) + 1
        BY <2>2, <3>1, <3>4, <4>2
      <4>4. (n - 1) + 1 = n
        BY <1>0
      <4> QED BY <3>2, <4>3, <4>4
    <3> QED BY <1>3, <3>3, <3>4
  <2> QED BY <2>1, <2>3, <2>4, TakingOpens
<1>4. Good(N)
  <2> DEFINE T == {n \in 0..N : ~Good(n)}
  <2> SUFFICES ASSUME T # {} PROVE FALSE
    BY <1>0
  <2>1. T \in SUBSET Nat
    BY <1>0
  <2>2. PICK m \in T : \A y \in T : m <= y
    <3> HIDE DEF T
    <3> QED BY <2>1, LeastOf
  <2>3. m # 0 /\ m \in 0..N /\ ~Good(m)
    BY <1>2, <2>2
  <2>4. m \in 1..N /\ m - 1 \in 0..N /\ ~(m <= m - 1)
    BY <1>0, <2>3
  <2>5. Good(m - 1)
    <3> HIDE DEF Good
    <3> QED BY <2>2, <2>4
  <2>6. Good(m)
    <3> HIDE DEF Good
    <3> QED BY <1>3, <2>4, <2>5
  <2> QED BY <2>3, <2>6
<1>5. left(Corpus, G[N]) = {}
  <2>1. CASE Cardinality(G[N]) = N
    <3>1. G[N] = Open
      BY <1>4, <2>1, OpenIsFinite, FS_Subset DEF N
    <3>2. \A s \in Corpus : missing(s) \subseteq Open
      BY DEF Open, missing_cells
    <3> QED BY <3>1, <3>2 DEF left, blocked
  <2> QED BY <1>4, <2>1
<1> QED BY <1>5 DEF CoverOpens, G, N, Open

\* The invariant and the cover give the property.
LEMMA CensusHolds == CellsInv => CensusIsExact
BY CensusOf, CoverHolds DEF CensusIsExact

\* The cell coverage census is exact: a netlist it calls clean is never refused
\* for a cell, one the importer finished had no cell missing, the blocker the
\* sweep names is in the census, and the greedy cover opens the whole corpus.
THEOREM CensusIsRight == Spec => []CensusIsExact
<1>1. Spec => []CellsInv
  BY InitCells, CellsKeep, PTL DEF Spec
<1> QED BY <1>1, CensusHolds, PTL
----------------------------------------------------------------------------
(* Sequences of nets, and the orders of the elaboration. *)

\* A finite set in a strict total order is a sequence of its members.
LEMMA OrderedIs ==
  ASSUME NEW S, IsFiniteSet(S), NEW R,
         \A c \in S : <<c, c>> \notin R,
         \A c, d \in S : c # d => <<c, d>> \in R \/ <<d, c>> \in R,
         \A c, d, e \in S : <<c, d>> \in R /\ <<d, e>> \in R => <<c, e>> \in R
  PROVE  Ordered(S, R) \in Seq(S)
<1> DEFINE n == Cardinality(S)
           under(c) == {d \in S : <<d, c>> \in R}
           rank(c) == Cardinality(under(c))
           f == [c \in S |-> rank(c) + 1]
<1>1. n \in Nat
  BY FS_CardinalityType
<1>2. ASSUME NEW c \in S
      PROVE  IsFiniteSet(under(c)) /\ rank(c) \in Nat /\ rank(c) < n
  <2>1. under(c) \in SUBSET S /\ c \notin under(c)
    OBVIOUS
  <2>2. IsFiniteSet(under(c)) /\ rank(c) \in Nat /\ rank(c) <= n /\ (rank(c) = n => S = under(c))
    <3> HIDE DEF under
    <3> QED BY <2>1, FS_Subset, FS_CardinalityType
  <2> QED BY <1>1, <2>1, <2>2
<1>3. ASSUME NEW c \in S, NEW d \in S, <<c, d>> \in R
      PROVE  rank(c) < rank(d)
  <2>1. under(c) \in SUBSET under(d)
    BY <1>3
  <2>2. c \in under(d) /\ c \notin under(c)
    BY <1>3
  <2>3. IsFiniteSet(under(d)) /\ rank(c) \in Nat /\ rank(d) \in Nat
    BY <1>2
  <2>4. rank(c) <= rank(d) /\ (rank(c) = rank(d) => under(d) = under(c))
    <3> HIDE DEF under
    <3> QED BY <2>1, <2>3, FS_Subset
  <2> QED BY <2>2, <2>3, <2>4
<1> HIDE DEF under
<1>4. f \in Injection(S, 1..n)
  <2>1. f \in [S -> 1..n]
    BY <1>1, <1>2
  <2>2. ASSUME NEW c \in S, NEW d \in S, c # d PROVE f[c] # f[d]
    <3>1. rank(c) \in Nat /\ rank(d) \in Nat
      BY <1>2
    <3>2. rank(c) < rank(d) \/ rank(d) < rank(c)
      BY <1>3, <2>2
    <3> HIDE DEF rank
    <3> QED BY <3>1, <3>2
  <2> HIDE DEF f
  <2> QED BY <2>1, <2>2 DEF Injection, IsInjective
<1>5. f \in Surjection(S, 1..n)
  <2>1. IsFiniteSet(1..n) /\ Cardinality(1..n) = n
    BY <1>1, FS_Interval
  <2> HIDE DEF f, n
  <2> QED BY <1>1, <1>4, <2>1, FS_Injection DEF n
<1>6. \A k \in 1..n : \E c \in S : rank(c) = k - 1
  <2>1. \A k \in 1..n : \E c \in S : f[c] = k
    <3> HIDE DEF f
    <3> QED BY <1>5 DEF Surjection
  <2>2. ASSUME NEW k \in 1..n, NEW c \in S, f[c] = k PROVE rank(c) = k - 1
    <3>1. rank(c) + 1 = k /\ rank(c) \in Nat
      BY <1>2, <2>2
    <3> HIDE DEF rank
    <3> QED BY <3>1
  <2> HIDE DEF f, rank
  <2> QED BY <2>1, <2>2
<1> DEFINE s == Ordered(S, R)
<1>7. s = [k \in 1..n |-> CHOOSE c \in S : rank(c) = k - 1]
  BY DEF Ordered, under
<1> HIDE DEF s
<1>8. \A k \in 1..n : s[k] \in S
  <2> HIDE DEF rank
  <2> QED BY <1>6, <1>7
<1>9. s \in [1..n -> S]
  BY <1>7, <1>8
<1> QED
  <2> HIDE DEF n
  <2> QED BY <1>1, <1>9 DEF s

\* The members of a sequence are finitely many.
LEMMA SeqIsFinite ==
  ASSUME NEW S, NEW s \in Seq(S) PROVE IsFiniteSet(ToSet(s)) /\ IsFiniteSet(DOMAIN s)
<1>1. Len(s) \in Nat /\ DOMAIN s = 1..Len(s)
  OBVIOUS
<1>2. IsFiniteSet(1..Len(s))
  BY <1>1, FS_Interval
<1> DEFINE R == {s[k] : k \in 1..Len(s)}
<1>3. s \in Surjection(1..Len(s), R)
  BY <1>1 DEF Surjection
<1>4. IsFiniteSet(R)
  <2> HIDE DEF R
  <2> QED BY <1>2, <1>3, FS_Surjection
<1>5. ToSet(s) = R
  BY <1>1 DEF ToSet
<1> QED BY <1>1, <1>2, <1>4, <1>5

\* The place of a net in the order of the names.
LEMMA PosIs ==
  /\ IsFiniteSet(Nets)
  /\ \A n \in Nets : Pos(n) \in Nat /\ NetOrder[Pos(n)] = n
<1>1. NetOrder \in Seq(Nets)
  BY NetsAssumption
<1>2. IsFiniteSet(Nets)
  BY <1>1, SeqIsFinite DEF Nets
<1>3. \A n \in Nets : \E i \in DOMAIN NetOrder : NetOrder[i] = n
  BY DEF Nets, ToSet
<1>4. \A n \in Nets : Pos(n) \in DOMAIN NetOrder /\ NetOrder[Pos(n)] = n
  BY <1>3 DEF Pos
<1>5. DOMAIN NetOrder \subseteq Nat
  BY <1>1
<1> QED BY <1>2, <1>4, <1>5

\* Nets in the order of the names.
LEMMA SortedIs ==
  ASSUME NEW S \in SUBSET Nets PROVE Sorted(S) \in Seq(S)
<1> DEFINE R == {p \in S \X S : Pos(p[1]) < Pos(p[2])}
<1>1. IsFiniteSet(S)
  BY PosIs, FS_Subset
<1>2. \A c, d \in S : <<c, d>> \in R <=> Pos(c) < Pos(d)
  OBVIOUS
<1>3. \A c \in S : Pos(c) \in Nat /\ NetOrder[Pos(c)] = c
  BY PosIs
<1> HIDE DEF R
<1>4. \A c \in S : <<c, c>> \notin R
  BY <1>2, <1>3
<1>5. \A c, d \in S : c # d => <<c, d>> \in R \/ <<d, c>> \in R
  <2> SUFFICES ASSUME NEW c \in S, NEW d \in S, c # d PROVE Pos(c) < Pos(d) \/ Pos(d) < Pos(c)
    BY <1>2
  <2>1. Pos(c) # Pos(d)
    BY <1>3
  <2> QED BY <1>3, <2>1
<1>6. \A c, d, e \in S : <<c, d>> \in R /\ <<d, e>> \in R => <<c, e>> \in R
  BY <1>2, <1>3
<1>7. Ordered(S, R) \in Seq(S)
  BY <1>1, <1>4, <1>5, <1>6, OrderedIs
<1> QED BY <1>7 DEF Sorted, R
----------------------------------------------------------------------------
(* What the source asks for, and what the elaboration leaves to build(). *)

\* What the source asks for is a matter of the front: the walk changes none of it.
LEMMA FrontStays ==
  ASSUME UNCHANGED front
  PROVE  /\ \A k : /\ Inst(k)' = Inst(k) /\ Flop(k)' = Flop(k) /\ HasD(k)' = HasD(k)
                   /\ D(k)' = D(k) /\ Q(k)' = Q(k)
         /\ \A n : Fixed(n)' = Fixed(n) /\ Level(n)' = Level(n)
         /\ \A k, n : OutTmp(k, n)' = OutTmp(k, n) /\ PinNet(k, n)' = PinNet(k, n)
         /\ Roots' = Roots /\ \A j : Root(j)' = Root(j)
<1>1. /\ src' = src /\ drv' = drv /\ assigns' = assigns /\ flops' = flops /\ auto' = auto
      /\ pinned' = pinned /\ inputs' = inputs /\ cuts' = cuts
  BY DEF front
<1>2. \A k : Inst(k)' = Inst(k)
  BY <1>1 DEF Inst
<1>3. \A k : Flop(k)' = Flop(k) /\ D(k)' = D(k) /\ Q(k)' = Q(k)
  BY <1>2 DEF Flop, D, Q
<1>4. \A k : HasD(k)' = HasD(k)
  BY <1>3 DEF HasD
<1>5. \A n : Fixed(n)' = Fixed(n) /\ Level(n)' = Level(n)
  BY <1>1 DEF Fixed, Level
<1>6. \A k, n : OutTmp(k, n)' = OutTmp(k, n)
  BY <1>2 DEF OutTmp
<1>7. \A k, p : PinNet(k, p)' = PinNet(k, p)
  BY <1>1 DEF PinNet
<1>8. Roots' = Roots
  BY <1>1 DEF Roots
<1>9. \A j : Root(j)' = Root(j)
  BY <1>1, <1>3, <1>4 DEF Root
<1> QED BY <1>2, <1>3, <1>4, <1>5, <1>6, <1>7, <1>8, <1>9

\* The values w of a list of gates, on the inputs of a valuation.
GateHolds(v, w, gs, i) ==
  LET g == gs[i] IN
  /\ g.op = "inp"   => w[i] = v.net[inputs[g.args[1]]]
  /\ g.op = "const" => w[i] = g.args[1]
  /\ g.op = "not"   => w[i] = ~w[g.args[1]]
  /\ g.op = "and"   => w[i] = (w[g.args[1]] /\ w[g.args[2]])
  /\ g.op = "or"    => w[i] = (w[g.args[1]] \/ w[g.args[2]])
  /\ g.op = "xor"   => w[i] = (w[g.args[1]] # w[g.args[2]])
Evaluates(v, w, gs) == \A i \in DOMAIN gs : GateHolds(v, w, gs, i)

\* What the equations say is a matter of the front too.
LEMMA CircuitStays ==
  ASSUME UNCHANGED front, NEW v
  PROVE  /\ \A k, ops, pc, x : Arg(v, k, ops, pc, x)' = Arg(v, k, ops, pc, x)
         /\ \A k, ops, pc : Holds(v, k, ops, pc)' = Holds(v, k, ops, pc)
         /\ Circuit(v)' = Circuit(v)
         /\ \A j : RootValue(v, j)' = RootValue(v, j)
         /\ \A w, gs, i : GateHolds(v, w, gs, i)' = GateHolds(v, w, gs, i)
<1>1. /\ src' = src /\ drv' = drv /\ assigns' = assigns /\ flops' = flops /\ auto' = auto
      /\ pinned' = pinned /\ inputs' = inputs /\ cuts' = cuts
  BY DEF front
<1>2. \A k, ops, pc, x : Arg(v, k, ops, pc, x)' = Arg(v, k, ops, pc, x)
  BY FrontStays DEF Arg
<1>3. \A k, ops, pc : Holds(v, k, ops, pc)' = Holds(v, k, ops, pc)
  BY <1>2 DEF Holds
<1>4. \A k, ops : ProgramHolds(v, k, ops)' = ProgramHolds(v, k, ops)
  BY <1>3 DEF ProgramHolds
<1>5. Circuit(v)' = Circuit(v)
  BY <1>1, <1>4, FrontStays DEF Circuit
<1>6. \A j : RootValue(v, j)' = RootValue(v, j)
  BY <1>1, FrontStays DEF RootValue
<1>7. \A w, gs, i : GateHolds(v, w, gs, i)' = GateHolds(v, w, gs, i)
  BY <1>1 DEF GateHolds
<1> QED BY <1>2, <1>3, <1>5, <1>6, <1>7

\* The pins of an instance are those written on a net that is not a literal.
LEMMA ConnsIs ==
  ASSUME src \in Sources, NEW k \in DOMAIN src.insts
  PROVE  LET c == src.insts[k].conns  e == Inst(k).conns IN
         /\ DOMAIN e = {p \in DOMAIN c : c[p] \notin Literals}
         /\ \A p \in DOMAIN e : e[p] = c[p] /\ e[p] \in Nets /\ PinNet(k, p) = e[p]
<1> DEFINE i == src.insts[k]
           c == i.conns
           P == {p \in DOMAIN c : c[p] \notin Literals}
           e == RestrictValues(c, LAMBDA n : n \notin Literals)
<1>1. i \in ToSet(src.insts)
  BY DEF ToSet
<1>2. {"cell", "conns"} \subseteq DOMAIN i /\ \A p \in DOMAIN c : c[p] \in Nets
  BY <1>1, SourcesAssumption
<1>3. Inst(k).conns = e
  <2>1. Inst(k) = [i EXCEPT !.conns = e]
    BY DEF Inst, Parsed
  <2>2. [i EXCEPT !.conns = e].conns = e
    <3> HIDE DEF e, i
    <3> QED BY <1>2
  <2> QED BY <2>1, <2>2
<1>4. e = [p \in P |-> c[p]]
  BY DEF RestrictValues, Restrict
<1> HIDE DEF e
<1>5. DOMAIN e = P /\ \A p \in P : e[p] = c[p] /\ e[p] \in Nets /\ PinNet(k, p) = e[p]
  BY <1>2, <1>4 DEF PinNet
<1> QED BY <1>3, <1>5

\* Every program of the tables ends, and leaves its outputs, on lines it has.
Ops == {"const", "buf", "not", "and", "or", "xor"}
Program(ops) ==
  /\ Len(ops) \in Nat /\ DOMAIN ops = 1..Len(ops)
  /\ \A pc \in DOMAIN ops : ops[pc].op \in Ops /\ (ops[pc].op = "const" => ops[pc].a \in BOOLEAN)
LEMMA ProgramsAre ==
  ASSUME NEW cell
  PROVE  /\ HasExpansion(cell) =>
              LET e == expansion_for(cell) IN
              /\ Program(e.ops)
              /\ \A o \in ToSet(e.outs) : \E pc \in DOMAIN e.ops : e.ops[pc].t = o.tmp
         /\ cell \in DOMAIN SEQ_MODELS =>
              LET m == SEQ_MODELS[cell] IN
              /\ Program(m.next) /\ {"CLK", "D", "Q"} \subseteq m.pins
<1>1. \A c \in DOMAIN EXPAND :
        /\ Program(EXPAND[c].ops)
        /\ \A o \in ToSet(EXPAND[c].outs) : \E pc \in DOMAIN EXPAND[c].ops : EXPAND[c].ops[pc].t = o.tmp
  <2> SUFFICES ASSUME NEW c \in DOMAIN EXPAND
        PROVE /\ Program(EXPAND[c].ops)
              /\ \A o \in ToSet(EXPAND[c].outs) : \E pc \in DOMAIN EXPAND[c].ops : EXPAND[c].ops[pc].t = o.tmp
    OBVIOUS
  <2>1. c \in {"clkbuf", "inv_1", "and2_1", "xor2_1", "nand2_1", "o21bai", "mux2_1", "conb"}
    BY DEF EXPAND
  <2>2. CASE c = "clkbuf"
    BY <2>2 DEF EXPAND, Cell, Line, Not, And, Or, Xor, Program, Ops, ToSet
  <2>3. CASE c = "inv_1"
    BY <2>3 DEF EXPAND, Cell, Line, Not, And, Or, Xor, Program, Ops, ToSet
  <2>4. CASE c = "and2_1"
    BY <2>4 DEF EXPAND, Cell, Line, Not, And, Or, Xor, Program, Ops, ToSet
  <2>5. CASE c = "xor2_1"
    BY <2>5 DEF EXPAND, Cell, Line, Not, And, Or, Xor, Program, Ops, ToSet
  <2>6. CASE c = "nand2_1"
    BY <2>6 DEF EXPAND, Cell, Line, Not, And, Or, Xor, Program, Ops, ToSet
  <2>7. CASE c = "o21bai"
    <3> DEFINE ops == <<Or("a", "A1", "A2"), Not("n", "a"), Or("t", "n", "B1_N")>>
    <3>1. EXPAND[c].ops = ops /\ EXPAND[c].outs = <<[pin |-> "Y", tmp |-> "t"]>>
      BY <2>7 DEF EXPAND, Cell
    <3>2. Program(ops) /\ 3 \in DOMAIN ops /\ ops[3].t = "t"
      BY DEF Line, Not, And, Or, Program, Ops
    <3>3. \A o \in ToSet(EXPAND[c].outs) : o.tmp = "t"
      BY <3>1 DEF ToSet
    <3> HIDE DEF ops
    <3> QED BY <3>1, <3>2, <3>3
  <2>8. CASE c = "mux2_1"
    <3> DEFINE ops == <<Not("n", "S"), And("a", "A0", "n"), And("b", "A1", "S"), Or("t", "a", "b")>>
    <3>1. EXPAND[c].ops = ops /\ EXPAND[c].outs = <<[pin |-> "X", tmp |-> "t"]>>
      BY <2>8 DEF EXPAND, Cell
    <3>2. Program(ops) /\ 4 \in DOMAIN ops /\ ops[4].t = "t"
      BY DEF Line, Not, And, Or, Program, Ops
    <3>3. \A o \in ToSet(EXPAND[c].outs) : o.tmp = "t"
      BY <3>1 DEF ToSet
    <3> HIDE DEF ops
    <3> QED BY <3>1, <3>2, <3>3
  <2>9. CASE c = "conb"
    <3> DEFINE ops == <<Line("hi", "const", TRUE, TRUE), Line("lo", "const", FALSE, FALSE)>>
    <3>1. EXPAND[c].ops = ops /\ EXPAND[c].outs = <<[pin |-> "HI", tmp |-> "hi"], [pin |-> "LO", tmp |-> "lo"]>>
      BY <2>9 DEF EXPAND
    <3>a. Len(ops) = 2 /\ DOMAIN ops = 1..2 /\ \A pc \in 1..2 : pc = 1 \/ pc = 2
      OBVIOUS
    <3>b. /\ ops[1].t = "hi" /\ ops[1].op = "const" /\ ops[1].a = TRUE
          /\ ops[2].t = "lo" /\ ops[2].op = "const" /\ ops[2].a = FALSE
      BY DEF Line
    <3>2. Program(ops) /\ 1 \in DOMAIN ops /\ 2 \in DOMAIN ops /\ ops[1].t = "hi" /\ ops[2].t = "lo"
      <4> HIDE DEF ops
      <4>1. ASSUME NEW pc \in DOMAIN ops PROVE ops[pc].op = "const" /\ ops[pc].a \in BOOLEAN
        <5>1. CASE pc = 1
          BY <3>b, <5>1
        <5>2. CASE pc = 2
          BY <3>b, <5>2
        <5> QED BY <3>a, <5>1, <5>2
      <4> QED BY <3>a, <3>b, <4>1 DEF Program, Ops
    <3>3. \A o \in ToSet(EXPAND[c].outs) : o.tmp = "hi" \/ o.tmp = "lo"
      BY <3>1 DEF ToSet
    <3> HIDE DEF ops
    <3> QED BY <3>1, <3>2, <3>3
  <2> QED BY <2>1, <2>2, <2>3, <2>4, <2>5, <2>6, <2>7, <2>8, <2>9
<1>2. HasExpansion(cell) => \E c \in DOMAIN EXPAND : expansion_for(cell) = EXPAND[c]
  <2>1. CASE cell \in DOMAIN EXPAND
    BY <2>1 DEF expansion_for
  <2>2. CASE cell \notin DOMAIN EXPAND
    <3> DEFINE c == CHOOSE k \in DOMAIN EXPAND : base_of(k) = base_of(cell)
    <3>1. HasExpansion(cell) => c \in DOMAIN EXPAND
      BY DEF HasExpansion
    <3>2. expansion_for(cell) = EXPAND[c]
      BY <2>2 DEF expansion_for
    <3> QED BY <3>1, <3>2
  <2> QED BY <2>1, <2>2
<1>3. \A c \in DOMAIN SEQ_MODELS :
        Program(SEQ_MODELS[c].next) /\ {"CLK", "D", "Q"} \subseteq SEQ_MODELS[c].pins
  <2> SUFFICES ASSUME NEW c \in DOMAIN SEQ_MODELS
               PROVE  Program(SEQ_MODELS[c].next) /\ {"CLK", "D", "Q"} \subseteq SEQ_MODELS[c].pins
    OBVIOUS
  <2>1. c \in {"dfxtp", "edfxtp", "dfrtp"}
    BY DEF SEQ_MODELS
  <2>2. CASE c = "dfxtp"
    BY <2>2 DEF SEQ_MODELS, Line, Not, And, Or, Program, Ops
  <2>3. CASE c = "edfxtp"
    <3> DEFINE ops == <<Not("n", "DE"), And("a", "DE", "D"), And("b", "n", "Q"), Or("t", "a", "b")>>
    <3>1. SEQ_MODELS[c].next = ops /\ SEQ_MODELS[c].pins = {"CLK", "D", "DE", "Q"}
      BY <2>3 DEF SEQ_MODELS
    <3>2. Program(ops)
      BY DEF Line, Not, And, Or, Program, Ops
    <3> QED BY <3>1, <3>2
  <2>4. CASE c = "dfrtp"
    BY <2>4 DEF SEQ_MODELS, Line, Not, And, Or, Program, Ops
  <2> QED BY <2>1, <2>2, <2>3, <2>4
<1> QED BY <1>1, <1>2, <1>3

\* What the elaboration leaves to build(): nets on both sides of the assigns, flops
\* with a model and all its pins, drivers with an output on the net, lists of these.
Untreated == {"parse", "ports", "outs", "width", "flops"}
Elaborated ==
  /\ src \in Sources
  /\ assigns \in Seq(Nets \X Nets)
  /\ flops \subseteq Modelled /\ \A k \in flops : Flop(k).pins = DOMAIN Inst(k).conns
  /\ \A n \in DOMAIN drv : /\ n \in Nets /\ drv[n] \in DOMAIN src.insts
                           /\ n \in DrivenNets(src.insts[drv[n]])
  /\ auto \in Seq(flops) /\ cuts \in Seq(DOMAIN drv) /\ inputs \in Seq(Nets)
  /\ phase \in Untreated => auto = <<>> /\ cuts = <<>>

\* The sequences of an input.
LEMMA SourceIs ==
  ASSUME src \in Sources
  PROVE  /\ Len(src.insts) \in Nat /\ DOMAIN src.insts = 1..Len(src.insts)
         /\ src.ins \in Seq(Nets) /\ src.outs \in Seq(Nets)
         /\ Len(src.assigns) \in Nat /\ DOMAIN src.assigns = 1..Len(src.assigns)
         /\ \A k \in DOMAIN src.assigns :
              src.assigns[k].lhs \in Nets /\ src.assigns[k].rhs \in Seq(Nets)
<1>1. src.insts \in Seq(ToSet(src.insts)) /\ src.assigns \in Seq(ToSet(src.assigns))
  BY SourcesAssumption
<1>2. Len(src.insts) \in Nat /\ DOMAIN src.insts = 1..Len(src.insts)
  <2> DEFINE S == ToSet(src.insts)
  <2> HIDE DEF S
  <2> QED BY <1>1 DEF S
<1>3. Len(src.assigns) \in Nat /\ DOMAIN src.assigns = 1..Len(src.assigns)
  <2> DEFINE S == ToSet(src.assigns)
  <2> HIDE DEF S
  <2> QED BY <1>1 DEF S
<1>4. \A k \in DOMAIN src.assigns : src.assigns[k] \in ToSet(src.assigns)
  BY DEF ToSet
<1> QED BY <1>2, <1>3, <1>4, SourcesAssumption

\* The nets an instance drives are nets on its outputs.
LEMMA DrivenIs ==
  ASSUME src \in Sources, NEW k \in DOMAIN src.insts, NEW n \in DrivenNets(src.insts[k])
  PROVE  /\ n \in Nets /\ HasExpansion(Inst(k).cell) /\ IsLogic(Inst(k))
         /\ LET ops == expansion_for(Inst(k).cell).ops IN
            Program(ops) /\ \E pc \in DOMAIN ops : ops[pc].t = OutTmp(k, n)
<1> DEFINE i == src.insts[k]
           e == expansion_for(i.cell)
<1>1. Inst(k).cell = i.cell
  BY CellIs
<1>2. IsLogic(i) /\ HasExpansion(i.cell) /\ n \notin Literals
  BY DEF DrivenNets
<1>3. PICK p \in DOMAIN i.conns \cap {o.pin : o \in ToSet(e.outs)} : n = i.conns[p]
  BY <1>2 DEF DrivenNets, outputs_of
<1>4. p \in DOMAIN Inst(k).conns /\ Inst(k).conns[p] = n /\ n \in Nets
  BY <1>2, <1>3, ConnsIs
<1>5. PICK j \in DOMAIN e.outs : e.outs[j].pin = p
  BY <1>3 DEF ToSet
<1> DEFINE outs == e.outs
           fits(m) == outs[m].pin \in DOMAIN Inst(k).conns /\ Inst(k).conns[outs[m].pin] = n
           c == CHOOSE m \in DOMAIN outs : fits(m)
<1>6. OutTmp(k, n) = outs[c].tmp
  BY <1>1 DEF OutTmp
<1>7. c \in DOMAIN outs
  <2>1. fits(j)
    BY <1>4, <1>5
  <2> HIDE DEF fits
  <2> QED BY <1>5, <2>1
<1>8. outs[c] \in ToSet(e.outs)
  BY <1>7 DEF ToSet
<1>9. Program(e.ops) /\ \E pc \in DOMAIN e.ops : e.ops[pc].t = outs[c].tmp
  BY <1>2, <1>8, ProgramsAre
<1>10. IsLogic(Inst(k))
  BY <1>1, <1>2 DEF IsLogic
<1> QED BY <1>1, <1>2, <1>4, <1>6, <1>9, <1>10

\* The greatest of a finite set of numbers.
LEMMA LastOf ==
  ASSUME NEW N \in Nat, NEW T \in SUBSET (1..N), T # {}
  PROVE  \E x \in T : \A y \in T : y <= x
<1> DEFINE U == {N - y : y \in T}
<1>1. U \in SUBSET Nat /\ U # {}
  <2>1. \A y \in T : y \in Nat /\ y <= N
    OBVIOUS
  <2>2. \A y \in T : N - y \in Nat
    BY <2>1
  <2>3. \E y : y \in T
    OBVIOUS
  <2> QED BY <2>2, <2>3
<1>2. PICK u \in U : \A z \in U : u <= z
  <2> HIDE DEF U
  <2> QED BY <1>1, LeastOf
<1>3. PICK x \in T : u = N - x
  BY <1>2
<1>4. ASSUME NEW y \in T PROVE y <= x
  <2>1. u <= N - y
    BY <1>2
  <2>2. x \in 1..N /\ y \in 1..N
    OBVIOUS
  <2> QED BY <1>3, <2>1, <2>2
<1> QED BY <1>4

\* The driver map gives a net an instance that drives it.
LEMMA DriversAre ==
  ASSUME src \in Sources
  PROVE  LET m == all_drivers(src.insts) IN
         \A n \in DOMAIN m : n \in Nets /\ m[n] \in DOMAIN src.insts
                             /\ n \in DrivenNets(src.insts[m[n]])
<1> DEFINE m == all_drivers(src.insts)
<1> SUFFICES ASSUME NEW n \in DOMAIN m
             PROVE n \in Nets /\ m[n] \in DOMAIN src.insts /\ n \in DrivenNets(src.insts[m[n]])
  OBVIOUS
<1> DEFINE T == Drivers(src.insts, n)
           N == Len(src.insts)
<1>1. PICK k \in DOMAIN src.insts : n \in DrivenNets(src.insts[k])
  BY DEF all_drivers
<1>2. N \in Nat /\ T \in SUBSET (1..N) /\ T # {}
  BY <1>1, SourceIs DEF Drivers
<1>3. \E x \in T : \A y \in T : y <= x
  <2> HIDE DEF T, N
  <2> QED BY <1>2, LastOf
<1>4. m[n] = CHOOSE x \in T : \A y \in T : y <= x
  BY DEF all_drivers
<1>5. m[n] \in T
  <2> HIDE DEF T, m
  <2> QED BY <1>3, <1>4
<1>6. m[n] \in DOMAIN src.insts /\ n \in DrivenNets(src.insts[m[n]])
  BY <1>5 DEF Drivers
<1> QED BY <1>6, DrivenIs

\* A flop has its model's program, and its D and Q pins on nets.
LEMMA FlopIs ==
  ASSUME src \in Sources, NEW k \in Modelled, Flop(k).pins = DOMAIN Inst(k).conns
  PROVE  /\ k \in DOMAIN src.insts /\ Inst(k).cell \in DOMAIN SEQ_MODELS
         /\ Program(Flop(k).next) /\ D(k) \in Nets /\ Q(k) \in Nets
<1>1. k \in DOMAIN src.insts /\ Inst(k).cell \in DOMAIN SEQ_MODELS
  BY DEF Modelled, SeqInsts
<1>2. Program(Flop(k).next) /\ {"CLK", "D", "Q"} \subseteq DOMAIN Inst(k).conns
  BY <1>1, ProgramsAre DEF Flop
<1>3. D(k) \in Nets /\ Q(k) \in Nets
  BY <1>1, <1>2, ConnsIs DEF D, Q
<1> QED BY <1>1, <1>2, <1>3

\* Numbers from 1 in their order.
LEMMA CountedIs ==
  ASSUME NEW N \in Nat, NEW S \in SUBSET (1..N)
  PROVE  Ordered(S, {p \in S \X S : p[1] < p[2]}) \in Seq(S)
<1> DEFINE R == {p \in S \X S : p[1] < p[2]}
<1>1. IsFiniteSet(S)
  <2>1. IsFiniteSet(1..N)
    BY FS_Interval
  <2> DEFINE T == 1..N
  <2>2. IsFiniteSet(T) /\ S \in SUBSET T
    BY <2>1
  <2> HIDE DEF T
  <2> QED BY <2>2, FS_Subset
<1>2. \A c \in S : c \in Nat
  OBVIOUS
<1>3. \A c, d \in S : <<c, d>> \in R <=> c < d
  OBVIOUS
<1> HIDE DEF R
<1>4. \A c \in S : <<c, c>> \notin R
  BY <1>2, <1>3
<1>5. \A c, d \in S : c # d => <<c, d>> \in R \/ <<d, c>> \in R
  BY <1>2, <1>3
<1>6. \A c, d, e \in S : <<c, d>> \in R /\ <<d, e>> \in R => <<c, e>> \in R
  BY <1>2, <1>3
<1>7. Ordered(S, R) \in Seq(S)
  BY <1>1, <1>4, <1>5, <1>6, OrderedIs
<1> QED BY <1>7 DEF R

\* The flops left to the treatment, in the order of their Q nets.
LEMMA TreatedIs ==
  ASSUME Elaborated, NEW S \in SUBSET flops
  PROVE  Ordered(S, {p \in S \X S :
           Pos(Q(p[1])) < Pos(Q(p[2])) \/ (Q(p[1]) = Q(p[2]) /\ p[1] < p[2])}) \in Seq(S)
<1> DEFINE R == {p \in S \X S :
                   Pos(Q(p[1])) < Pos(Q(p[2])) \/ (Q(p[1]) = Q(p[2]) /\ p[1] < p[2])}
<1>1. \A c \in S : c \in DOMAIN src.insts /\ Q(c) \in Nets
  BY FlopIs DEF Elaborated
<1>2. IsFiniteSet(S) /\ \A c \in S : c \in Nat
  <2>1. S \subseteq 1..Len(src.insts) /\ Len(src.insts) \in Nat
    BY <1>1, SourceIs DEF Elaborated
  <2>2. IsFiniteSet(1..Len(src.insts))
    BY <2>1, FS_Interval
  <2>3. \A c \in S : c \in Nat
    BY <2>1
  <2> DEFINE T == 1..Len(src.insts)
  <2>4. IsFiniteSet(T) /\ S \in SUBSET T
    BY <2>1, <2>2
  <2> HIDE DEF T
  <2> QED BY <2>3, <2>4, FS_Subset
<1>3. \A c \in S : Pos(Q(c)) \in Nat
  BY <1>1, PosIs
<1>4. \A c, d \in S : Pos(Q(c)) = Pos(Q(d)) <=> Q(c) = Q(d)
  BY <1>1, PosIs
<1>5. \A c, d \in S : <<c, d>> \in R <=>
        Pos(Q(c)) < Pos(Q(d)) \/ (Pos(Q(c)) = Pos(Q(d)) /\ c < d)
  BY <1>4
<1> HIDE DEF R
<1> DEFINE r(c) == Pos(Q(c))
<1>a. \A c, d \in S : <<c, d>> \in R <=> r(c) < r(d) \/ (r(c) = r(d) /\ c < d)
  BY <1>5
<1>b. \A c \in S : r(c) \in Nat /\ c \in Nat
  BY <1>2, <1>3
<1> HIDE DEF r
<1>6. \A c \in S : <<c, c>> \notin R
  BY <1>a, <1>b
<1>7. \A c, d \in S : c # d => <<c, d>> \in R \/ <<d, c>> \in R
  BY <1>a, <1>b
<1>8. \A c, d, e \in S : <<c, d>> \in R /\ <<d, e>> \in R => <<c, e>> \in R
  BY <1>a, <1>b
<1>9. Ordered(S, R) \in Seq(S)
  BY <1>2, <1>6, <1>7, <1>8, OrderedIs
<1> QED BY <1>9 DEF R

\* The elaboration is a matter of the front.
LEMMA ElaboratedStays ==
  ASSUME Elaborated, UNCHANGED front, phase' \in Untreated => phase \in Untreated
  PROVE  Elaborated'
<1>1. /\ src' = src /\ drv' = drv /\ assigns' = assigns /\ flops' = flops /\ auto' = auto
      /\ inputs' = inputs /\ cuts' = cuts
  BY DEF front
<1>2. SeqInsts' = SeqInsts /\ Modelled' = Modelled
  BY <1>1, CellsStay
<1>3. \A k : Flop(k)' = Flop(k) /\ Inst(k)' = Inst(k)
  BY FrontStays
<1> QED BY <1>1, <1>2, <1>3 DEF Elaborated

\* A step of the elaboration keeps what it has built, and reaches build() at its end.
LEMMA ElaborateBuilds ==
  ASSUME Elaborated, Elaborate
  PROVE  Elaborated' /\ phase' # "build" /\ phase' # "conserve" /\ UNCHANGED walk
<1>0. src \in Sources
  BY DEF Elaborated
<1>1. UNCHANGED front /\ (phase' \in Untreated => phase \in Untreated) => Elaborated'
  BY ElaboratedStays
<1>2. ASSUME NEW reason, Refuse(reason)
      PROVE  Elaborated' /\ phase' # "build" /\ phase' # "conserve" /\ UNCHANGED walk
  BY <1>1, <1>2 DEF Refuse, Untreated
<1>3. CASE parse
  <2>1. CASE Refuse("assign form")
    BY <1>2, <2>1
  <2> DEFINE kept == {k \in DOMAIN src.assigns : src.assigns[k].rhs # <<>>}
             at == Ordered(kept, {p \in kept \X kept : p[1] < p[2]})
  <2>2. CASE /\ assigns' = [k \in DOMAIN at |-> <<src.assigns[at[k]].lhs, src.assigns[at[k]].rhs[1]>>]
             /\ phase = "parse" /\ GoTo("ports")
             /\ UNCHANGED <<src, drv, flops, auto, clockinfo, pinned, inputs, cuts>>
    <3>1. at \in Seq(kept)
      <4>1. kept \in SUBSET (1..Len(src.assigns)) /\ Len(src.assigns) \in Nat
        BY <1>0, SourceIs
      <4> HIDE DEF kept
      <4> QED BY <4>1, CountedIs
    <3>2. \A k \in kept : /\ src.assigns[k].lhs \in Nets
                          /\ src.assigns[k].rhs[1] \in Nets
      <4> SUFFICES ASSUME NEW k \in kept
                   PROVE  src.assigns[k].lhs \in Nets /\ src.assigns[k].rhs[1] \in Nets
        OBVIOUS
      <4> DEFINE r == src.assigns[k].rhs
      <4>1. src.assigns[k].lhs \in Nets /\ r \in Seq(Nets) /\ r # <<>>
        BY <1>0, SourceIs
      <4>2. r[1] \in Nets
        <5> HIDE DEF r
        <5> QED BY <4>1
      <4> QED BY <4>1, <4>2
    <3> DEFINE pair(k) == <<src.assigns[k].lhs, src.assigns[k].rhs[1]>>
    <3>3. \A k \in kept : pair(k) \in Nets \X Nets
      BY <3>2
    <3>4. assigns' \in Seq(Nets \X Nets)
      <4>1. assigns' = [k \in DOMAIN at |-> pair(at[k])]
        BY <2>2
      <4> HIDE DEF at, kept, pair
      <4>2. DOMAIN at = 1..Len(at) /\ Len(at) \in Nat /\ \A k \in DOMAIN at : at[k] \in kept
        BY <3>1
      <4>3. assigns' \in [1..Len(at) -> Nets \X Nets]
        BY <3>3, <4>1, <4>2
      <4> QED BY <4>2, <4>3
    <3>5. src' = src /\ drv' = drv /\ flops' = flops /\ auto' = auto /\ inputs' = inputs /\ cuts' = cuts
      BY <2>2
    <3>6. SeqInsts' = SeqInsts /\ Modelled' = Modelled
      BY <3>5, CellsStay
    <3>7. \A k : Flop(k)' = Flop(k) /\ Inst(k)' = Inst(k)
      BY <3>5 DEF Flop, Inst
    <3>8. phase' = "ports" /\ UNCHANGED walk /\ auto = <<>> /\ cuts = <<>>
      BY <2>2 DEF GoTo, Elaborated, Untreated
    <3> QED BY <3>4, <3>5, <3>6, <3>7, <3>8 DEF Elaborated
  <2> QED BY <1>3, <2>1, <2>2 DEF parse
<1>4. CASE CV1
  BY <1>1, <1>2, <1>4 DEF CV1, GoTo, Untreated
<1>5. CASE CV3
  BY <1>1, <1>2, <1>5 DEF CV3, GoTo, Untreated
<1>6. CASE CV2
  BY <1>1, <1>2, <1>6 DEF CV2, GoTo, Untreated
<1>7. CASE find_flops
  <2>1. CASE \E reason : Refuse(reason)
    BY <1>2, <2>1
  <2>2. CASE /\ SeqInsts = Modelled
             /\ \A k \in Modelled : Flop(k).pins = DOMAIN Inst(k).conns
             /\ flops' = SeqInsts /\ drv' = all_drivers(src.insts)
             /\ phase = "flops" /\ GoTo(IF SeqInsts = {} THEN "cut" ELSE "clock")
             /\ UNCHANGED <<src, assigns, auto, clockinfo, pinned, inputs, cuts>>
    <3>1. src' = src /\ assigns' = assigns /\ auto' = auto /\ inputs' = inputs /\ cuts' = cuts
      BY <2>2
    <3>2. SeqInsts' = SeqInsts /\ Modelled' = Modelled
      BY <3>1, CellsStay
    <3>3. \A k : Flop(k)' = Flop(k) /\ Inst(k)' = Inst(k)
      BY <3>1 DEF Flop, Inst
    <3>4. phase' \in {"cut", "clock"} /\ UNCHANGED walk
      BY <2>2 DEF GoTo
    <3>5. auto' = <<>> /\ cuts' = <<>>
      BY <2>2, <3>1 DEF Elaborated, Untreated
    <3>6. \A n \in DOMAIN drv' : n \in Nets /\ drv'[n] \in DOMAIN src.insts
                                 /\ n \in DrivenNets(src.insts[drv'[n]])
      BY <1>0, <2>2, DriversAre
    <3>7. auto' \in Seq(flops') /\ cuts' \in Seq(DOMAIN drv')
      BY <3>5
    <3> QED BY <2>2, <3>1, <3>2, <3>3, <3>4, <3>6, <3>7 DEF Elaborated, Untreated
  <2> QED BY <1>7, <2>1, <2>2 DEF find_flops
<1>8. CASE check_clock_domain
  <2>1. CASE \E reason : Refuse(reason)
    BY <1>2, <2>1
  <2>2. CASE /\ GoTo(IF src.pin = None THEN "handcut" ELSE "pin")
             /\ UNCHANGED <<src, drv, assigns, flops, auto, pinned, inputs, cuts>>
    <3>1. phase' \in {"handcut", "pin"} /\ UNCHANGED walk
      BY <2>2 DEF GoTo
    <3>2. /\ src' = src /\ drv' = drv /\ assigns' = assigns /\ flops' = flops /\ auto' = auto
          /\ inputs' = inputs /\ cuts' = cuts
      BY <2>2
    <3>3. SeqInsts' = SeqInsts /\ Modelled' = Modelled
      BY <3>2, CellsStay
    <3>4. \A k : Flop(k)' = Flop(k) /\ Inst(k)' = Inst(k)
      BY <3>2 DEF Flop, Inst
    <3> QED BY <3>1, <3>2, <3>3, <3>4 DEF Elaborated, Untreated
  <2> QED BY <1>8, <2>1, <2>2 DEF check_clock_domain
<1>9. CASE check_pinned_reset
  <2>1. CASE \E reason : Refuse(reason)
    BY <1>2, <2>1
  <2>2. CASE /\ GoTo("handcut")
             /\ UNCHANGED <<src, drv, assigns, flops, auto, clockinfo, inputs, cuts>>
    <3>1. phase' = "handcut" /\ UNCHANGED walk
      BY <2>2 DEF GoTo
    <3>2. /\ src' = src /\ drv' = drv /\ assigns' = assigns /\ flops' = flops /\ auto' = auto
          /\ inputs' = inputs /\ cuts' = cuts
      BY <2>2
    <3>3. SeqInsts' = SeqInsts /\ Modelled' = Modelled
      BY <3>2, CellsStay
    <3>4. \A k : Flop(k)' = Flop(k) /\ Inst(k)' = Inst(k)
      BY <3>2 DEF Flop, Inst
    <3> QED BY <3>1, <3>2, <3>3, <3>4 DEF Elaborated, Untreated
  <2> QED BY <1>9, <2>1, <2>2 DEF check_pinned_reset
<1>10. CASE treatment
  <2>1. CASE \E reason : Refuse(reason)
    BY <1>2, <2>1
  <2> DEFINE left0 == {k \in flops : Q(k) \notin ToSet(src.ins)}
  <2>2. CASE /\ auto' = Ordered(left0, {p \in left0 \X left0 :
                   Pos(Q(p[1])) < Pos(Q(p[2])) \/ (Q(p[1]) = Q(p[2]) /\ p[1] < p[2])})
             /\ GoTo("cut")
             /\ UNCHANGED <<src, drv, assigns, flops, clockinfo, pinned, inputs, cuts>>
    <3>1. phase' = "cut" /\ UNCHANGED walk
      BY <2>2 DEF GoTo
    <3>2. /\ src' = src /\ drv' = drv /\ assigns' = assigns /\ flops' = flops
          /\ inputs' = inputs /\ cuts' = cuts
      BY <2>2
    <3>3. SeqInsts' = SeqInsts /\ Modelled' = Modelled
      BY <3>2, CellsStay
    <3>4. \A k : Flop(k)' = Flop(k) /\ Inst(k)' = Inst(k)
      BY <3>2 DEF Flop, Inst
    <3>5. auto' \in Seq(flops)
      <4>1. auto' \in Seq(left0) /\ left0 \in SUBSET flops
        <5>1. left0 \in SUBSET flops
          OBVIOUS
        <5> HIDE DEF left0
        <5> QED BY <2>2, <5>1, TreatedIs
      <4> HIDE DEF left0
      <4> QED BY <4>1
    <3> QED BY <3>1, <3>2, <3>3, <3>4, <3>5 DEF Elaborated, Untreated
  <2> QED BY <1>10, <2>1, <2>2 DEF treatment
<1>11. CASE cut_points
  <2>1. CASE \E reason : Refuse(reason)
    BY <1>2, <2>1
  <2> DEFINE hits == {n \in DOMAIN drv : n \in src.cut}
  <2>2. CASE /\ cuts' = Sorted(hits) /\ inputs' = (src.ins \o StateIns) \o Sorted(hits)
             /\ GoTo("inputs")
             /\ UNCHANGED <<src, drv, assigns, flops, auto, clockinfo, pinned>>
    <3>1. phase' = "inputs" /\ UNCHANGED walk
      BY <2>2 DEF GoTo
    <3>2. src' = src /\ drv' = drv /\ assigns' = assigns /\ flops' = flops /\ auto' = auto
      BY <2>2
    <3>3. SeqInsts' = SeqInsts /\ Modelled' = Modelled
      BY <3>2, CellsStay
    <3>4. \A k : Flop(k)' = Flop(k) /\ Inst(k)' = Inst(k)
      BY <3>2 DEF Flop, Inst
    <3>5. Sorted(hits) \in Seq(hits) /\ hits \subseteq DOMAIN drv /\ hits \subseteq Nets
      <4>1. hits \in SUBSET Nets /\ hits \subseteq DOMAIN drv
        BY DEF Elaborated
      <4> HIDE DEF hits
      <4> QED BY <4>1, SortedIs
    <3>6. StateIns \in Seq(Nets)
      <4>1. auto \in Seq(flops) /\ \A k \in flops : Q(k) \in Nets
        BY FlopIs DEF Elaborated
      <4>2. DOMAIN auto = 1..Len(auto) /\ Len(auto) \in Nat /\ \A j \in DOMAIN auto : auto[j] \in flops
        BY <4>1
      <4>3. StateIns \in [1..Len(auto) -> Nets]
        BY <4>1, <4>2 DEF StateIns
      <4> QED BY <4>2, <4>3
    <3>7. src.ins \in Seq(Nets)
      BY <1>0, SourceIs
    <3>8. cuts' \in Seq(DOMAIN drv) /\ inputs' \in Seq(Nets)
      <4> DEFINE h == Sorted(hits)
      <4>1. h \in Seq(DOMAIN drv) /\ h \in Seq(Nets)
        <5> HIDE DEF hits
        <5> QED BY <3>5
      <4> HIDE DEF h
      <4> QED BY <2>2, <3>6, <3>7, <4>1 DEF h
    <3> QED BY <3>1, <3>2, <3>3, <3>4, <3>8 DEF Elaborated, Untreated
  <2> QED BY <1>11, <2>1, <2>2 DEF cut_points
<1> QED BY <1>3, <1>4, <1>5, <1>6, <1>7, <1>8, <1>9, <1>10, <1>11 DEF Elaborate
----------------------------------------------------------------------------
(* The invariant of the walk. *)

\* The program of a call, and whether the call waits for an operand.
OpsOf(f) == IF f.kind = "flop" THEN Flop(f.inst).next ELSE expansion_for(Inst(f.inst).cell).ops
Waits(f) == f.pc <= Len(f.ops) /\ Len(f.args) < Len(Operands(f.ops[f.pc]))

\* A call in progress, over N gates: the program of a driver, or the next state
\* of a flop, with the tmps of the lines done and some operands of the line it is at.
Fields == {"kind", "net", "inst", "ops", "pc", "loc", "args"}
Calls(f, N) ==
  /\ DOMAIN f = Fields /\ f.kind \in {"net", "root", "flop"} /\ f.ops = OpsOf(f)
  /\ f.pc \in 1..(Len(f.ops) + 1)
  /\ f.kind = "flop" => f.inst \in flops /\ f.ops # <<>>
  /\ f.kind # "flop" => f.net \in DOMAIN drv /\ f.inst = drv[f.net]
  /\ DOMAIN f.loc = {f.ops[j].t : j \in 1..(f.pc - 1)}
  /\ \A t \in DOMAIN f.loc : f.loc[t] \in 1..N
  /\ f.args \in Seq(1..N)
  /\ f.args # <<>> => f.pc <= Len(f.ops) /\ Len(f.args) <= Len(Operands(f.ops[f.pc]))

\* The shape of the walk, over N gates: I is idx, O out_idx, S the stack, n the net
\* wanted, r the index returned.  Only the call on top can be between two operands.
Shape(N, I, O, S, n, r) ==
  /\ \A m \in DOMAIN I : I[m] \in 1..N
  /\ ToSet(inputs) \subseteq DOMAIN I
  /\ O \in Seq(1..N) /\ Len(O) <= Roots
  /\ r = 0 \/ (r \in 1..N /\ n = None)
  /\ n = None \/ n \in Nets
  /\ S \in Seq(ToSet(S))
  /\ \A i \in DOMAIN S : /\ Calls(S[i], N)
                         /\ i > 1 => S[i].kind = "net"
                         /\ (i < Len(S) \/ n # None \/ r # 0) => Waits(S[i])
  /\ (S # <<>> \/ n # None \/ r # 0) => Len(O) < Roots

\* What the operand that a call waits for is worth, what a call is to return, and
\* what the i-th call (or the net wanted by the calls below) is asked for.
NextArg(v, f) == Arg(v, f.inst, f.ops, f.pc, Operands(f.ops[f.pc])[Len(f.args) + 1])
Owed(v, f) == v.tmp[f.inst][Result(f)]
Asked(v, O, S, i) == IF i = 1 THEN RootValue(v, Len(O) + 1) ELSE NextArg(v, S[i - 1])

\* A call has what it says: the tmps, the operands, and its net if it is for one.
Has(v, w, f) ==
  /\ \A t \in DOMAIN f.loc : w[f.loc[t]] = v.tmp[f.inst][t]
  /\ \A i \in DOMAIN f.args : w[f.args[i]] = Arg(v, f.inst, f.ops, f.pc, Operands(f.ops[f.pc])[i])
  /\ f.kind = "net" => Owed(v, f) = v.net[f.net]
Honest(v, w, I, O, S, n, r) ==
  /\ \A m \in DOMAIN I : w[I[m]] = v.net[m]
  /\ \A j \in DOMAIN O : w[O[j]] = RootValue(v, j)
  /\ \A i \in DOMAIN S : Has(v, w, S[i]) /\ Owed(v, S[i]) = Asked(v, O, S, i)
  /\ n # None => v.net[n] = Asked(v, O, S, Len(S) + 1)
  /\ r # 0 => w[r] = Asked(v, O, S, Len(S) + 1)

\* The walk is sound: for every valuation of the source and of the gates so far.
Sound(gs, I, O, S, n, r) ==
  /\ gs \in Seq(ToSet(gs)) /\ Shape(Len(gs), I, O, S, n, r)
  /\ \A v, w : Circuit(v) /\ Evaluates(v, w, gs) => Honest(v, w, I, O, S, n, r)
SoundNow == Sound(gates, idx, out_idx, stack, want, ret)

Before == Untreated \cup {"clock", "pin", "handcut", "cut", "inputs"}
WalkInv ==
  /\ Elaborated
  /\ phase \in Before => stack = <<>> /\ want = None /\ ret = 0 /\ out_idx = <<>>
  /\ phase \in {"build", "conserve"} => SoundNow

\* What the calls are owed is a matter of the front.
LEMMA CallStays ==
  ASSUME UNCHANGED front
  PROVE  /\ \A f : OpsOf(f)' = OpsOf(f) /\ Result(f)' = Result(f)
         /\ \A v, f : Owed(v, f)' = Owed(v, f) /\ NextArg(v, f)' = NextArg(v, f)
         /\ \A v, w, f : Has(v, w, f)' = Has(v, w, f)
         /\ \A f, N : Calls(f, N)' = Calls(f, N)
<1>1. flops' = flops /\ drv' = drv
  BY DEF front
<1>2. \A f : OpsOf(f)' = OpsOf(f) /\ Result(f)' = Result(f)
  BY FrontStays DEF OpsOf, Result
<1>3. \A v, f : Owed(v, f)' = Owed(v, f)
  BY <1>2 DEF Owed
<1>4. \A v, k, ops, pc, x : Arg(v, k, ops, pc, x)' = Arg(v, k, ops, pc, x)
  BY CircuitStays
<1>5. \A v, f : NextArg(v, f)' = NextArg(v, f)
  BY <1>4 DEF NextArg
<1>6. \A v, w, f : Has(v, w, f)' = Has(v, w, f)
  BY <1>3, <1>4 DEF Has
<1>7. \A f, N : Calls(f, N)' = Calls(f, N)
  BY <1>1, <1>2 DEF Calls
<1> QED BY <1>2, <1>3, <1>5, <1>6, <1>7

\* A sound walk stays so when the front does.
LEMMA SoundStays ==
  ASSUME UNCHANGED front
  PROVE  \A gs, I, O, S, n, r : Sound(gs, I, O, S, n, r)' = Sound(gs, I, O, S, n, r)
<1>1. inputs' = inputs /\ Roots' = Roots
  BY FrontStays DEF front
<1>2. \A N, I, O, S, n, r : Shape(N, I, O, S, n, r)' = Shape(N, I, O, S, n, r)
  BY <1>1, CallStays DEF Shape
<1>3. \A v, j : RootValue(v, j)' = RootValue(v, j)
  BY CircuitStays
<1>4. \A v, O, S, i : Asked(v, O, S, i)' = Asked(v, O, S, i)
  BY <1>3, CallStays DEF Asked
<1>5. \A v, w, I, O, S, n, r : Honest(v, w, I, O, S, n, r)' = Honest(v, w, I, O, S, n, r)
  BY <1>3, <1>4, CallStays DEF Honest
<1>6. \A v, w, gs : Evaluates(v, w, gs)' = Evaluates(v, w, gs)
  BY CircuitStays DEF Evaluates
<1>7. \A v : Circuit(v)' = Circuit(v)
  BY CircuitStays
<1> QED BY <1>2, <1>5, <1>6, <1>7 DEF Sound

\* So a step that leaves the front alone is sound when its walk is.
LEMMA SoundNext ==
  ASSUME UNCHANGED front, Sound(gates', idx', out_idx', stack', want', ret')
  PROVE  SoundNow'
<1>1. PICK gs, I, O, S, n, r :
        gs = gates' /\ I = idx' /\ O = out_idx' /\ S = stack' /\ n = want' /\ r = ret'
  OBVIOUS
<1>2. Sound(gs, I, O, S, n, r)
  BY <1>1
<1>3. Sound(gs, I, O, S, n, r)'
  BY <1>2, SoundStays
<1>4. SoundNow' = Sound(gs, I, O, S, n, r)'
  BY <1>1 DEF SoundNow
<1> QED BY <1>3, <1>4
----------------------------------------------------------------------------
(* How the parts of the invariant move: the stack, the gates, the calls. *)

\* A sequence over any set is one over its own members.
LEMMA Membered ==
  ASSUME NEW U, NEW T \in Seq(U)
  PROVE  T \in Seq(ToSet(T)) /\ Len(T) \in Nat /\ DOMAIN T = 1..Len(T)
<1>1. Len(T) \in Nat /\ DOMAIN T = 1..Len(T) /\ T = [i \in 1..Len(T) |-> T[i]]
  OBVIOUS
<1>2. \A i \in 1..Len(T) : T[i] \in ToSet(T)
  BY <1>1 DEF ToSet
<1> DEFINE R == ToSet(T)
           n == Len(T)
<1>3. T \in [1..n -> R] /\ n \in Nat
  <2>1. \A i \in 1..n : T[i] \in R
    BY <1>2
  <2>2. T = [i \in 1..n |-> T[i]] /\ n \in Nat
    BY <1>1
  <2> HIDE DEF R, n
  <2> QED BY <2>1, <2>2
<1>4. T \in Seq(R)
  <2> HIDE DEF R, n
  <2> QED BY <1>3
<1> QED BY <1>1, <1>4

\* A stack with one more call, with its top replaced, and without its top.
LEMMA Pushed ==
  ASSUME NEW S, S \in Seq(ToSet(S)), NEW f
  PROVE  LET T == Append(S, f) IN
         /\ Len(S) \in Nat /\ DOMAIN S = 1..Len(S)
         /\ T \in Seq(ToSet(T)) /\ Len(T) = Len(S) + 1 /\ DOMAIN T = 1..(Len(S) + 1)
         /\ \A i \in 1..Len(S) : T[i] = S[i]
         /\ T[Len(S) + 1] = f
<1> DEFINE U == ToSet(S) \cup {f}
           R == ToSet(S)
           T == Append(S, f)
<1>1. S \in Seq(R) /\ S \in Seq(U) /\ f \in U
  <2> HIDE DEF R
  <2>1. S \in Seq(R)
    BY DEF R
  <2>2. R \subseteq U
    BY DEF R
  <2> QED BY <2>1, <2>2
<1>2. /\ Len(S) \in Nat /\ DOMAIN S = 1..Len(S) /\ T \in Seq(U)
      /\ Len(T) = Len(S) + 1 /\ DOMAIN T = 1..(Len(S) + 1)
      /\ \A i \in 1..Len(S) : T[i] = S[i]
      /\ T[Len(S) + 1] = f
  <2> HIDE DEF U, R
  <2> QED BY <1>1
<1>3. T \in Seq(ToSet(T))
  <2> HIDE DEF T, U
  <2> QED BY <1>2, Membered
<1> QED BY <1>2, <1>3

\* The stack with its top replaced.
LEMMA Replaced ==
  ASSUME NEW S, S \in Seq(ToSet(S)), S # <<>>, NEW f
  PROVE  LET T == [S EXCEPT ![Len(S)] = f] IN
         /\ Len(S) \in Nat \ {0} /\ DOMAIN S = 1..Len(S)
         /\ T \in Seq(ToSet(T)) /\ Len(T) = Len(S) /\ DOMAIN T = 1..Len(S)
         /\ \A i \in 1..Len(S) : i # Len(S) => T[i] = S[i]
         /\ T[Len(S)] = f
<1> DEFINE U == ToSet(S) \cup {f}
           R == ToSet(S)
           T == [S EXCEPT ![Len(S)] = f]
           n == Len(S)
<1>1. S \in Seq(R) /\ S \in Seq(U) /\ f \in U
  <2> HIDE DEF R
  <2>1. S \in Seq(R)
    BY DEF R
  <2>2. R \subseteq U
    BY DEF R
  <2> QED BY <2>1, <2>2
<1>2. n \in Nat \ {0} /\ DOMAIN S = 1..n /\ S \in [1..n -> U]
  <2> HIDE DEF U, R
  <2> QED BY <1>1
<1>3. T \in [1..n -> U] /\ T[n] = f /\ \A i \in 1..n : i # n => T[i] = S[i]
  <2>1. T = [S EXCEPT ![n] = f]
    OBVIOUS
  <2> HIDE DEF U, n, T
  <2> QED BY <1>1, <1>2, <2>1
<1>4. T \in Seq(U) /\ Len(T) = n /\ DOMAIN T = 1..n
  <2> HIDE DEF U, n, T
  <2> QED BY <1>2, <1>3
<1>5. T \in Seq(ToSet(T))
  <2> HIDE DEF T, U, n
  <2> QED BY <1>4, Membered
<1> QED
  <2> HIDE DEF T
  <2> QED BY <1>2, <1>3, <1>4, <1>5 DEF T

\* The stack without its top.
LEMMA Popped ==
  ASSUME NEW S, S \in Seq(ToSet(S)), S # <<>>
  PROVE  LET T == SubSeq(S, 1, Len(S) - 1) IN
         /\ Len(S) \in Nat \ {0} /\ DOMAIN S = 1..Len(S)
         /\ T \in Seq(ToSet(T)) /\ Len(T) = Len(S) - 1 /\ DOMAIN T = 1..(Len(S) - 1)
         /\ \A i \in 1..(Len(S) - 1) : T[i] = S[i]
<1> DEFINE R == ToSet(S)
           n == Len(S)
           T == SubSeq(S, 1, n - 1)
<1>1. S \in Seq(R)
  OBVIOUS
<1>2. n \in Nat \ {0} /\ DOMAIN S = 1..n /\ \A i \in 1..n : S[i] \in R
  <2> HIDE DEF R
  <2> QED BY <1>1
<1>3. /\ T \in Seq(R) /\ Len(T) = IF 1 <= n - 1 THEN (n - 1) - 1 + 1 ELSE 0
      /\ \A i \in 1..((n - 1) - 1 + 1) : T[i] = S[1 + i - 1]
  <2>1. 1 \in Int /\ n - 1 \in Int /\ \A i \in 1..(n - 1) : S[i] \in R
    BY <1>2
  <2> HIDE DEF n, R
  <2> QED BY <2>1, SubSeqProperties
<1> HIDE DEF n, R, T
<1>4. Len(T) = n - 1 /\ \A i \in 1..(n - 1) : T[i] = S[i]
  <2>1. (n - 1) - 1 + 1 = n - 1 /\ \A i \in 1..(n - 1) : 1 + i - 1 = i
    BY <1>2
  <2>2. Len(T) = n - 1
    BY <1>2, <1>3
  <2> QED BY <1>3, <2>1, <2>2
<1>5. T \in Seq(ToSet(T)) /\ DOMAIN T = 1..Len(T)
  BY <1>3, Membered
<1> QED BY <1>2, <1>4, <1>5 DEF n, T

\* A call runs a program of the tables, whose equations the source satisfies, and
\* what it is to return is the tmp of one of its lines.
LEMMA CallIs ==
  ASSUME Elaborated, NEW f, NEW N, Calls(f, N)
  PROVE  /\ f.inst \in DOMAIN src.insts /\ Program(f.ops)
         /\ \E pc \in DOMAIN f.ops : f.ops[pc].t = Result(f)
         /\ \A v : Circuit(v) => ProgramHolds(v, f.inst, f.ops)
<1>0. src \in Sources
  BY DEF Elaborated
<1>1. CASE f.kind = "flop"
  <2>1. f.inst \in flops /\ f.ops # <<>> /\ f.ops = Flop(f.inst).next
    BY <1>1 DEF Calls, OpsOf
  <2>2. f.inst \in DOMAIN src.insts /\ Program(f.ops)
    BY <1>0, <2>1, FlopIs DEF Elaborated
  <2>3. Result(f) = f.ops[Len(f.ops)].t
    BY <1>1 DEF Result
  <2>4. Len(f.ops) \in DOMAIN f.ops
    <3>1. Len(f.ops) \in Nat /\ DOMAIN f.ops = 1..Len(f.ops)
      BY <2>2 DEF Program
    <3>2. Len(f.ops) # 0
      <4>1. \A m \in DOMAIN SEQ_MODELS : SEQ_MODELS[m].next = <<>> \/ Len(SEQ_MODELS[m].next) # 0
        BY DEF SEQ_MODELS
      <4>2. Inst(f.inst).cell \in DOMAIN SEQ_MODELS
        BY <1>0, <2>1, FlopIs DEF Elaborated
      <4> QED BY <2>1, <4>1, <4>2 DEF Flop
    <3> QED BY <3>1, <3>2
  <2>5. \A v : Circuit(v) => ProgramHolds(v, f.inst, f.ops)
    BY <2>1 DEF Circuit
  <2> QED BY <2>2, <2>3, <2>4, <2>5
<1>2. CASE f.kind # "flop"
  <2>1. f.net \in DOMAIN drv /\ f.inst = drv[f.net] /\ f.ops = expansion_for(Inst(f.inst).cell).ops
    BY <1>2 DEF Calls, OpsOf
  <2>2. f.inst \in DOMAIN src.insts /\ f.net \in DrivenNets(src.insts[f.inst])
    BY <2>1 DEF Elaborated
  <2>3. Program(f.ops) /\ \E pc \in DOMAIN f.ops : f.ops[pc].t = OutTmp(f.inst, f.net)
    BY <1>0, <2>1, <2>2, DrivenIs
  <2>4. Result(f) = OutTmp(f.inst, f.net)
    BY <1>2 DEF Result
  <2>5. \A v : Circuit(v) => ProgramHolds(v, f.inst, f.ops)
    BY <2>1 DEF Circuit
  <2> QED BY <2>2, <2>3, <2>4, <2>5
<1> QED BY <1>1, <1>2

\* More gates leave the walk as it was.
LEMMA CallsGrow ==
  ASSUME NEW f, NEW N \in Nat, NEW M \in Nat, N <= M, Calls(f, N)
  PROVE  Calls(f, M)
<1>1. \A x \in 1..N : x \in 1..M
  OBVIOUS
<1>2. f.args \in Seq(1..M)
  <2>1. f.args \in Seq(1..N)
    BY DEF Calls
  <2> DEFINE x == f.args  A == 1..N  B == 1..M
  <2>2. x \in Seq(A) /\ A \subseteq B
    BY <1>1, <2>1
  <2>3. x \in Seq(B)
    <3> HIDE DEF x, A, B
    <3> QED BY <2>2
  <2> QED BY <2>3
<1>3. \A t \in DOMAIN f.loc : f.loc[t] \in 1..M
  BY <1>1 DEF Calls
<1> QED BY <1>2, <1>3 DEF Calls

\* The shape of the walk, over more gates.
LEMMA ShapeGrows ==
  ASSUME NEW I, NEW O, NEW S, NEW n, NEW r, NEW N \in Nat, NEW M \in Nat, N <= M,
         Shape(N, I, O, S, n, r)
  PROVE  Shape(M, I, O, S, n, r)
<1>1. \A x \in 1..N : x \in 1..M
  OBVIOUS
<1>2. O \in Seq(1..M)
  <2> DEFINE A == 1..N  B == 1..M
  <2>1. O \in Seq(A) /\ A \subseteq B
    BY <1>1 DEF Shape
  <2>2. O \in Seq(B)
    <3> HIDE DEF A, B
    <3> QED BY <2>1
  <2> QED BY <2>2
<1>3. \A i \in DOMAIN S : Calls(S[i], M)
  BY CallsGrow DEF Shape
<1>4. /\ \A m \in DOMAIN I : I[m] \in 1..M
      /\ r = 0 \/ (r \in 1..M /\ n = None)
  BY <1>1 DEF Shape
<1> QED BY <1>2, <1>3, <1>4 DEF Shape

\* One more gate: what evaluates the longer list evaluates the shorter one.
LEMMA GatesGrow ==
  ASSUME NEW gs, gs \in Seq(ToSet(gs)), NEW g
  PROVE  LET hs == Append(gs, g) IN
         /\ Len(gs) \in Nat /\ Len(hs) = Len(gs) + 1 /\ hs \in Seq(ToSet(hs))
         /\ hs[Len(gs) + 1] = g
         /\ \A v, w : Evaluates(v, w, hs) =>
              Evaluates(v, w, gs) /\ GateHolds(v, w, hs, Len(gs) + 1)
<1> DEFINE hs == Append(gs, g)
<1>1. /\ Len(gs) \in Nat /\ DOMAIN gs = 1..Len(gs)
      /\ hs \in Seq(ToSet(hs)) /\ Len(hs) = Len(gs) + 1 /\ DOMAIN hs = 1..(Len(gs) + 1)
      /\ \A i \in 1..Len(gs) : hs[i] = gs[i]
      /\ hs[Len(gs) + 1] = g
  BY Pushed
<1> HIDE DEF hs
<1>2. ASSUME NEW v, NEW w, Evaluates(v, w, hs)
      PROVE  Evaluates(v, w, gs) /\ GateHolds(v, w, hs, Len(gs) + 1)
  <2>1. \A i \in DOMAIN hs : GateHolds(v, w, hs, i)
    BY <1>2 DEF Evaluates
  <2>2. \A i \in 1..Len(gs) : i \in DOMAIN hs /\ hs[i] = gs[i]
    BY <1>1
  <2>3. \A i \in 1..Len(gs) : GateHolds(v, w, gs, i)
    BY <2>1, <2>2 DEF GateHolds
  <2>4. Len(gs) + 1 \in DOMAIN hs
    BY <1>1
  <2> QED BY <1>1, <2>1, <2>3, <2>4 DEF Evaluates
<1> QED BY <1>1, <1>2 DEF hs

\* A call is asked for the same on a stack that agrees below it.
LEMMA AskedSame ==
  ASSUME NEW v, NEW O, NEW S, NEW T, NEW m \in Nat,
         \A i \in 1..m : T[i] = S[i]
  PROVE  \A i \in 1..(m + 1) : Asked(v, O, T, i) = Asked(v, O, S, i)
<1> SUFFICES ASSUME NEW i \in 1..(m + 1) PROVE Asked(v, O, T, i) = Asked(v, O, S, i)
  OBVIOUS
<1>1. CASE i = 1
  BY <1>1 DEF Asked
<1>2. CASE i # 1
  <2>1. i - 1 \in 1..m
    BY <1>2
  <2>2. T[i - 1] = S[i - 1]
    BY <2>1
  <2> QED BY <1>2, <2>2 DEF Asked
<1> QED BY <1>1, <1>2

\* The walk asks for another net, or has an index for the one it wanted.
LEMMA MoveIs ==
  ASSUME NEW gs, NEW I, NEW O, NEW S, NEW n, Sound(gs, I, O, S, n, 0),
         NEW hs, NEW J, NEW m, NEW r,
         hs \in Seq(ToSet(hs)), Len(gs) <= Len(hs),
         \A v, w : Evaluates(v, w, hs) => Evaluates(v, w, gs),
         \A x \in DOMAIN J : J[x] \in 1..Len(hs), DOMAIN I \subseteq DOMAIN J,
         m = None \/ m \in Nets, r = 0 \/ (r \in 1..Len(hs) /\ m = None),
         \A i \in DOMAIN S : Waits(S[i]), Len(O) < Roots,
         \A v, w : (Circuit(v) /\ Evaluates(v, w, hs) /\ Honest(v, w, I, O, S, n, 0)) =>
           /\ \A x \in DOMAIN J : w[J[x]] = v.net[x]
           /\ m # None => v.net[m] = Asked(v, O, S, Len(S) + 1)
           /\ r # 0 => w[r] = Asked(v, O, S, Len(S) + 1)
  PROVE  Sound(hs, J, O, S, m, r)
<1>1. Len(gs) \in Nat /\ Len(hs) \in Nat
  BY Membered DEF Sound
<1>2. Shape(Len(hs), I, O, S, n, 0)
  BY <1>1, ShapeGrows DEF Sound
<1>3. Shape(Len(hs), J, O, S, m, r)
  BY <1>2 DEF Shape
<1>4. ASSUME NEW v, NEW w, Circuit(v), Evaluates(v, w, hs) PROVE Honest(v, w, J, O, S, m, r)
  <2>1. Honest(v, w, I, O, S, n, 0)
    BY <1>4 DEF Sound
  <2> QED BY <1>4, <2>1 DEF Honest
<1> QED BY <1>3, <1>4 DEF Sound

\* The walk starts a call.
LEMMA PushIs ==
  ASSUME NEW gs, NEW I, NEW O, NEW S, NEW n, Sound(gs, I, O, S, n, 0),
         NEW f, Calls(f, Len(gs)), f.loc = <<>>, f.args = <<>>,
         S # <<>> => f.kind = "net",
         \A i \in DOMAIN S : Waits(S[i]), Len(O) < Roots,
         \A v, w : Circuit(v) /\ Honest(v, w, I, O, S, n, 0) =>
           /\ Owed(v, f) = Asked(v, O, S, Len(S) + 1)
           /\ f.kind = "net" => Owed(v, f) = v.net[f.net]
  PROVE  Sound(gs, I, O, Append(S, f), None, 0)
<1> DEFINE T == Append(S, f)
<1>0. Shape(Len(gs), I, O, S, n, 0) /\ S \in Seq(ToSet(S))
  BY DEF Sound, Shape
<1>1. /\ Len(S) \in Nat /\ DOMAIN S = 1..Len(S)
      /\ T \in Seq(ToSet(T)) /\ Len(T) = Len(S) + 1 /\ DOMAIN T = 1..(Len(S) + 1)
      /\ \A i \in 1..Len(S) : T[i] = S[i]
      /\ T[Len(S) + 1] = f
  BY <1>0, Pushed
<1> HIDE DEF T
<1>2. \A i \in DOMAIN T : \/ i \in DOMAIN S /\ T[i] = S[i]
                          \/ i = Len(S) + 1 /\ T[i] = f
  BY <1>1
<1>3. Shape(Len(gs), I, O, T, None, 0)
  <2>1. ASSUME NEW i \in DOMAIN T
        PROVE  /\ Calls(T[i], Len(gs))
               /\ i > 1 => T[i].kind = "net"
               /\ i < Len(T) => Waits(T[i])
    <3>1. CASE i \in DOMAIN S /\ T[i] = S[i]
      BY <1>0, <3>1 DEF Shape
    <3>2. CASE i = Len(S) + 1 /\ T[i] = f
      <4>1. ~(i < Len(T)) /\ (i > 1 => Len(S) # 0)
        BY <1>1, <3>2
      <4>2. Len(S) # 0 => S # <<>>
        OBVIOUS
      <4> QED BY <3>2, <4>1, <4>2
    <3> QED BY <1>2, <3>1, <3>2
  <2>2. /\ \A m \in DOMAIN I : I[m] \in 1..Len(gs)
        /\ ToSet(inputs) \subseteq DOMAIN I
        /\ O \in Seq(1..Len(gs)) /\ Len(O) <= Roots
    BY <1>0 DEF Shape
  <2> QED BY <1>1, <2>1, <2>2 DEF Shape
<1>4. ASSUME NEW v, NEW w, Circuit(v), Evaluates(v, w, gs) PROVE Honest(v, w, I, O, T, None, 0)
  <2>1. Honest(v, w, I, O, S, n, 0)
    BY <1>4 DEF Sound
  <2>2. \A i \in 1..(Len(S) + 1) : Asked(v, O, T, i) = Asked(v, O, S, i)
    BY <1>1, AskedSame
  <2>3. Has(v, w, f)
    <3>1. DOMAIN f.loc = {} /\ DOMAIN f.args = {}
      OBVIOUS
    <3> QED BY <1>4, <2>1, <3>1 DEF Has
  <2>4. \A i \in DOMAIN T : Has(v, w, T[i]) /\ Owed(v, T[i]) = Asked(v, O, T, i)
    BY <1>1, <1>2, <1>4, <2>1, <2>2, <2>3 DEF Honest
  <2> QED BY <2>1, <2>4 DEF Honest
<1> QED BY <1>3, <1>4 DEF Sound, T

\* The call on top goes on.
LEMMA TopIs ==
  ASSUME NEW gs, NEW I, NEW O, NEW S, NEW r, Sound(gs, I, O, S, None, r), S # <<>>,
         NEW hs, hs \in Seq(ToSet(hs)), Len(gs) <= Len(hs),
         \A v, w : Evaluates(v, w, hs) => Evaluates(v, w, gs),
         NEW g, Calls(g, Len(hs)), NEW f, f = S[Len(S)],
         g.kind = f.kind, g.net = f.net, g.inst = f.inst, g.ops = f.ops,
         \A v, w : (Circuit(v) /\ Evaluates(v, w, hs) /\ Honest(v, w, I, O, S, None, r)) => Has(v, w, g)
  PROVE  Sound(hs, I, O, [S EXCEPT ![Len(S)] = g], None, 0)
<1> DEFINE T == [S EXCEPT ![Len(S)] = g]
<1>0. Shape(Len(gs), I, O, S, None, r) /\ S \in Seq(ToSet(S))
  BY DEF Sound, Shape
<1>1. /\ Len(S) \in Nat \ {0} /\ DOMAIN S = 1..Len(S)
      /\ T \in Seq(ToSet(T)) /\ Len(T) = Len(S) /\ DOMAIN T = 1..Len(S)
      /\ \A i \in 1..Len(S) : i # Len(S) => T[i] = S[i]
      /\ T[Len(S)] = g
  BY <1>0, Replaced
<1> HIDE DEF T
<1> DEFINE c == Len(S)
<1>a. c \in Nat \ {0} /\ DOMAIN S = 1..c /\ DOMAIN T = 1..c /\ Len(T) = c /\ T[c] = g
      /\ (\A i \in 1..c : i # c => T[i] = S[i]) /\ f = S[c]
  BY <1>1
<1> HIDE DEF c
<1>2. Len(gs) \in Nat /\ Len(hs) \in Nat
  BY Membered DEF Sound
<1>3. Shape(Len(hs), I, O, S, None, r)
  BY <1>0, <1>2, ShapeGrows
<1>4. Shape(Len(hs), I, O, T, None, 0)
  <2>1. ASSUME NEW i \in DOMAIN T
        PROVE  /\ Calls(T[i], Len(hs))
               /\ i > 1 => T[i].kind = "net"
               /\ i < Len(T) => Waits(T[i])
    <3>1. CASE i # Len(S)
      <4>1. T[i] = S[i] /\ i \in DOMAIN S
        BY <1>1, <3>1
      <4> QED BY <1>1, <1>3, <4>1 DEF Shape
    <3>2. CASE i = Len(S)
      <4>a. i = c
        BY <3>2 DEF c
      <4>1. ~(i < Len(T)) /\ i = c
        BY <1>a, <4>a
      <4>2. i \in DOMAIN S /\ T[i] = g /\ f = S[i]
        BY <1>a, <2>1, <4>1
      <4> QED BY <1>3, <4>1, <4>2 DEF Shape
    <3> QED BY <3>1, <3>2
  <2> QED BY <1>1, <1>3, <2>1 DEF Shape
<1>5. ASSUME NEW v, NEW w, Circuit(v), Evaluates(v, w, hs) PROVE Honest(v, w, I, O, T, None, 0)
  <2>1. Honest(v, w, I, O, S, None, r)
    BY <1>5 DEF Sound
  <2>2. \A i \in 1..Len(S) : Asked(v, O, T, i) = Asked(v, O, S, i)
    <3> DEFINE m == c - 1
    <3>1. m \in Nat /\ m + 1 = c /\ \A i \in 1..m : i \in 1..c /\ i # c
      BY <1>a
    <3>2. \A i \in 1..m : T[i] = S[i]
      BY <1>a, <3>1
    <3>3. \A i \in 1..(m + 1) : Asked(v, O, T, i) = Asked(v, O, S, i)
      <4> HIDE DEF m
      <4> QED BY <3>1, <3>2, AskedSame
    <3> QED BY <3>1, <3>3 DEF c
  <2>3. Has(v, w, g)
    BY <1>5, <2>1
  <2>4. Owed(v, g) = Owed(v, f)
    BY DEF Owed, Result
  <2>5. \A i \in DOMAIN T : Has(v, w, T[i]) /\ Owed(v, T[i]) = Asked(v, O, T, i)
    BY <1>1, <2>1, <2>2, <2>3, <2>4 DEF Honest
  <2> QED BY <2>1, <2>5 DEF Honest
<1> QED BY <1>4, <1>5 DEF Sound, T

\* What the outputs stand for: nets, flops with a program, driven nets that are cut.
LEMMA RootIs ==
  ASSUME Elaborated, NEW j \in 1..Roots
  PROVE  /\ Roots \in Nat
         /\ \/ \E n \in Nets : Root(j) = <<"net", n>> /\ \A v : RootValue(v, j) = v.net[n]
            \/ \E k \in flops : /\ Root(j) = <<"flop", k>> /\ Flop(k).next # <<>>
                                /\ \A v : RootValue(v, j) = v.tmp[k][Flop(k).next[Len(Flop(k).next)].t]
            \/ \E n \in DOMAIN drv : /\ Root(j) = <<"root", n>>
                                     /\ \A v : RootValue(v, j) = v.tmp[drv[n]][OutTmp(drv[n], n)]
<1>0. src \in Sources /\ src.outs \in Seq(Nets) /\ auto \in Seq(flops) /\ cuts \in Seq(DOMAIN drv)
  BY SourceIs DEF Elaborated
<1> DEFINE a1 == Len(src.outs)  a2 == Len(auto)  a3 == Len(cuts)  D1 == DOMAIN drv
<1>1. a1 \in Nat /\ DOMAIN src.outs = 1..a1 /\ \A i \in 1..a1 : src.outs[i] \in Nets
  BY <1>0
<1>2. a2 \in Nat /\ DOMAIN auto = 1..a2 /\ \A i \in 1..a2 : auto[i] \in flops
  BY <1>0
<1>3. a3 \in Nat /\ DOMAIN cuts = 1..a3 /\ \A i \in 1..a3 : cuts[i] \in D1
  <2>1. cuts \in Seq(D1)
    BY <1>0
  <2> HIDE DEF D1
  <2> QED BY <2>1
<1>4. Roots = a1 + a2 + a3
  BY DEF Roots
<1>5. Root(j) = IF j <= a1 THEN <<"net", src.outs[j]>>
                ELSE IF j <= a1 + a2
                     THEN IF HasD(auto[j - a1]) THEN <<"net", D(auto[j - a1])>> ELSE <<"flop", auto[j - a1]>>
                     ELSE <<"root", cuts[j - a1 - a2]>>
  BY DEF Root
<1> HIDE DEF a1, a2, a3
<1>6. Roots \in Nat
  BY <1>1, <1>2, <1>3, <1>4
<1>7. \/ \E n \in Nets : Root(j) = <<"net", n>>
      \/ \E k \in flops : Root(j) = <<"flop", k>> /\ ~HasD(k)
      \/ \E n \in DOMAIN drv : Root(j) = <<"root", n>>
  <2>1. CASE j <= a1
    <3>1. j \in 1..a1
      BY <1>1, <1>6, <2>1
    <3> QED BY <1>1, <1>5, <2>1, <3>1
  <2>2. CASE ~(j <= a1) /\ j <= a1 + a2
    <3> DEFINE k == auto[j - a1]
    <3>1. j - a1 \in 1..a2
      BY <1>1, <1>2, <1>6, <2>2
    <3>2. k \in flops
      BY <1>2, <3>1
    <3>3. D(k) \in Nets
      BY <1>0, <3>2, FlopIs DEF Elaborated
    <3>4. Root(j) = IF HasD(k) THEN <<"net", D(k)>> ELSE <<"flop", k>>
      BY <1>5, <2>2
    <3> HIDE DEF k
    <3> QED BY <3>2, <3>3, <3>4
  <2>3. CASE ~(j <= a1) /\ ~(j <= a1 + a2)
    <3>1. j - a1 - a2 \in 1..a3
      BY <1>1, <1>2, <1>3, <1>4, <1>6, <2>3
    <3>2. cuts[j - a1 - a2] \in D1
      BY <1>3, <3>1
    <3> QED BY <1>5, <2>3, <3>2
  <2> QED BY <2>1, <2>2, <2>3
<1>8. ASSUME NEW n, Root(j) = <<"net", n>> PROVE \A v : RootValue(v, j) = v.net[n]
  BY <1>8 DEF RootValue
<1>9. ASSUME NEW k, Root(j) = <<"flop", k>>
      PROVE  \A v : RootValue(v, j) = v.tmp[k][Flop(k).next[Len(Flop(k).next)].t]
  <2> DEFINE r == Root(j)
  <2>1. r[1] = "flop" /\ r[2] = k /\ r[1] # "net"
    BY <1>9
  <2> HIDE DEF r
  <2> QED BY <2>1 DEF RootValue, r
<1>10. ASSUME NEW n, Root(j) = <<"root", n>>
       PROVE  \A v : RootValue(v, j) = v.tmp[drv[n]][OutTmp(drv[n], n)]
  <2> DEFINE r == Root(j)
  <2>1. r[1] = "root" /\ r[2] = n /\ r[1] # "net" /\ r[1] # "flop"
    BY <1>10
  <2> HIDE DEF r
  <2> QED BY <2>1 DEF RootValue, r
<1> QED BY <1>6, <1>7, <1>8, <1>9, <1>10 DEF HasD

\* An alias is a net.
LEMMA AliasIs ==
  ASSUME Elaborated, NEW n, Aliases(assigns, n) # {}
  PROVE  AliasOf(assigns, n) \in Nets
<1> DEFINE T == Aliases(assigns, n)
<1>1. assigns \in Seq(Nets \X Nets)
  BY DEF Elaborated
<1>2. T \in SUBSET Nat /\ T \subseteq DOMAIN assigns
  <2>1. DOMAIN assigns \subseteq Nat
    BY <1>1
  <2> QED BY <2>1 DEF Aliases
<1>3. \E x \in T : \A y \in T : x <= y
  <2> HIDE DEF T
  <2> QED BY <1>2, LeastOf DEF T
<1> DEFINE c == CHOOSE x \in T : \A y \in T : x <= y
<1>4. c \in DOMAIN assigns
  <2>1. c \in T
    <3> HIDE DEF T
    <3> QED BY <1>3
  <2> QED BY <1>2, <2>1
<1>5. AliasOf(assigns, n) = assigns[c][2]
  BY DEF AliasOf
<1> HIDE DEF c
<1>6. assigns[c] \in Nets \X Nets
  BY <1>1, <1>4
<1> QED BY <1>5, <1>6

\* The calls as they start.
LEMMA StartIs ==
  ASSUME NEW kind, NEW n, NEW k, NEW ops
  PROVE  LET f == Frame(kind, n, k, ops) IN
         /\ DOMAIN f = Fields /\ f.kind = kind /\ f.net = n /\ f.inst = k /\ f.ops = ops
         /\ f.pc = 1 /\ f.loc = <<>> /\ f.args = <<>>
BY DEF Frame, Fields

\* A call for a driven net or a cut, as it starts.
LEMMA DrivenCall ==
  ASSUME Elaborated, NEW n \in DOMAIN drv, NEW kind \in {"net", "root"}, NEW N \in Nat
  PROVE  /\ Calls(Driven(kind, n), N)
         /\ \A v : Owed(v, Driven(kind, n)) = v.tmp[drv[n]][OutTmp(drv[n], n)]
<1> DEFINE f == Driven(kind, n)
<1>1. /\ DOMAIN f = Fields /\ f.kind = kind /\ f.net = n /\ f.inst = drv[n]
      /\ f.ops = expansion_for(Inst(drv[n]).cell).ops
      /\ f.pc = 1 /\ f.loc = <<>> /\ f.args = <<>>
  BY StartIs DEF Driven
<1> HIDE DEF f
<1>2. Program(f.ops)
  <2>1. src \in Sources /\ drv[n] \in DOMAIN src.insts /\ n \in DrivenNets(src.insts[drv[n]])
    BY DEF Elaborated
  <2> QED BY <1>1, <2>1, DrivenIs
<1>3. f.pc \in 1..(Len(f.ops) + 1)
  BY <1>1, <1>2 DEF Program
<1>4. DOMAIN f.loc = {} /\ {f.ops[j].t : j \in 1..(f.pc - 1)} = {}
  BY <1>1
<1>5. f.args \in Seq(1..N)
  BY <1>1
<1>6. kind # "flop"
  OBVIOUS
<1>7. Calls(f, N)
  BY <1>1, <1>3, <1>4, <1>5, <1>6 DEF Calls, OpsOf
<1>8. \A v : Owed(v, f) = v.tmp[drv[n]][OutTmp(drv[n], n)]
  BY <1>1, <1>6 DEF Owed, Result
<1> QED BY <1>7, <1>8 DEF f

\* A call for the next state of a flop, as it starts.
LEMMA FlopCall ==
  ASSUME Elaborated, NEW k \in flops, Flop(k).next # <<>>, NEW N \in Nat
  PROVE  LET f == Frame("flop", None, k, Flop(k).next) IN
         /\ Calls(f, N)
         /\ \A v : Owed(v, f) = v.tmp[k][Flop(k).next[Len(Flop(k).next)].t]
<1> DEFINE f == Frame("flop", None, k, Flop(k).next)
<1>1. /\ DOMAIN f = Fields /\ f.kind = "flop" /\ f.net = None /\ f.inst = k
      /\ f.ops = Flop(k).next
      /\ f.pc = 1 /\ f.loc = <<>> /\ f.args = <<>>
  BY StartIs
<1> HIDE DEF f
<1>2. Program(f.ops)
  BY <1>1, FlopIs DEF Elaborated
<1>3. f.pc \in 1..(Len(f.ops) + 1)
  BY <1>1, <1>2 DEF Program
<1>4. DOMAIN f.loc = {} /\ {f.ops[j].t : j \in 1..(f.pc - 1)} = {}
  BY <1>1
<1>5. f.args \in Seq(1..N)
  BY <1>1
<1>7. Calls(f, N)
  BY <1>1, <1>3, <1>4, <1>5 DEF Calls, OpsOf
<1>8. \A v : Owed(v, f) = v.tmp[k][Flop(k).next[Len(Flop(k).next)].t]
  BY <1>1 DEF Owed, Result
<1> QED BY <1>7, <1>8 DEF f
----------------------------------------------------------------------------
(* The steps of the walk. *)

SoundThen == Sound(gates', idx', out_idx', stack', want', ret')

\* The outputs are counted.
LEMMA RootsAre ==
  ASSUME Elaborated
  PROVE  Roots \in Nat
<1>1. src.outs \in Seq(Nets) /\ auto \in Seq(flops) /\ cuts \in Seq(DOMAIN drv)
  BY SourceIs DEF Elaborated
<1> DEFINE D1 == DOMAIN drv
<1>2. Len(cuts) \in Nat
  <2>1. cuts \in Seq(D1)
    BY <1>1
  <2> HIDE DEF D1
  <2> QED BY <2>1
<1>3. Len(src.outs) \in Nat /\ Len(auto) \in Nat
  BY <1>1
<1> QED BY <1>2, <1>3 DEF Roots

\* The gates the walk has, whichever net it is at.
LEMMA WalkIs ==
  ASSUME Elaborated, SoundNow
  PROVE  /\ gates \in Seq(ToSet(gates)) /\ Len(gates) \in Nat /\ Len(gates) <= Len(gates)
         /\ Len(out_idx) \in Nat /\ Roots \in Nat /\ Len(stack) \in Nat /\ DOMAIN stack = 1..Len(stack)
         /\ stack = <<>> => DOMAIN stack = {} /\ Len(stack) = 0
         /\ stack # <<>> => Len(stack) \in DOMAIN stack /\ Len(stack) >= 1
         /\ Shape(Len(gates), idx, out_idx, stack, want, ret)
<1>1. Shape(Len(gates), idx, out_idx, stack, want, ret) /\ gates \in Seq(ToSet(gates))
  BY DEF SoundNow, Sound
<1>2. Len(gates) \in Nat /\ Len(gates) <= Len(gates)
  BY <1>1, Membered
<1>3. stack \in Seq(ToSet(stack))
  BY <1>1 DEF Shape
<1>4. /\ Len(stack) \in Nat /\ DOMAIN stack = 1..Len(stack)
      /\ stack = <<>> => DOMAIN stack = {} /\ Len(stack) = 0
      /\ stack # <<>> => Len(stack) \in DOMAIN stack /\ Len(stack) >= 1
  <2> DEFINE R == ToSet(stack)
  <2>1. stack \in Seq(R)
    BY <1>3
  <2> HIDE DEF R
  <2> QED BY <2>1
<1>5. Len(out_idx) \in Nat
  <2> DEFINE A == 1..Len(gates)
  <2>1. out_idx \in Seq(A)
    BY <1>1 DEF Shape
  <2> HIDE DEF A
  <2> QED BY <2>1
<1>6. Roots \in Nat
  BY RootsAre
<1> QED BY <1>1, <1>2, <1>4, <1>5, <1>6

\* The next output is asked for.
LEMMA AskRootWalks ==
  ASSUME Elaborated, SoundNow, AskRoot
  PROVE  SoundThen
<1> DEFINE j == Len(out_idx) + 1
           r == Root(j)
<1>1. /\ want = None /\ ret = 0 /\ stack = <<>> /\ Len(out_idx) < Roots
      /\ gates' = gates /\ idx' = idx /\ ret' = ret /\ out_idx' = out_idx
      /\ \/ r[1] = "net"  /\ want' = r[2] /\ UNCHANGED stack
         \/ r[1] = "flop" /\ stack' = <<Frame("flop", None, r[2], Flop(r[2]).next)>>
                          /\ UNCHANGED want
         \/ r[1] = "root" /\ stack' = <<Driven("root", r[2])>> /\ UNCHANGED want
  BY DEF AskRoot
<1>2. /\ gates \in Seq(ToSet(gates)) /\ Len(gates) \in Nat /\ Len(gates) <= Len(gates)
      /\ DOMAIN stack = {} /\ Len(stack) = 0
      /\ Shape(Len(gates), idx, out_idx, stack, want, ret)
  BY <1>1, WalkIs
<1>3. j \in 1..Roots
  BY <1>1, WalkIs
<1>4. \A v : Asked(v, out_idx, stack, Len(stack) + 1) = RootValue(v, j)
  BY <1>2 DEF Asked
<1>5. Sound(gates, idx, out_idx, stack, None, 0)
  BY <1>1 DEF SoundNow
<1>6. \A i \in DOMAIN stack : Waits(stack[i])
  BY <1>2
<1> HIDE DEF j, r
<1>7. ASSUME NEW n \in Nets, r = <<"net", n>>, \A v : RootValue(v, j) = v.net[n] PROVE SoundThen
  <2>1. r[1] = "net" /\ r[1] # "flop" /\ r[1] # "root" /\ r[2] = n
    BY <1>7
  <2>2. want' = n /\ stack' = stack /\ ret' = 0
    BY <1>1, <2>1
  <2>3. \A v, w : (Circuit(v) /\ Evaluates(v, w, gates) /\ Honest(v, w, idx, out_idx, stack, None, 0)) =>
           /\ \A x \in DOMAIN idx : w[idx[x]] = v.net[x]
           /\ v.net[n] = Asked(v, out_idx, stack, Len(stack) + 1)
    BY <1>4, <1>7 DEF Honest
  <2>4. \A x \in DOMAIN idx : idx[x] \in 1..Len(gates)
    BY <1>2 DEF Shape
  <2>5. Sound(gates, idx, out_idx, stack, n, 0)
    BY <1>1, <1>2, <1>5, <1>6, <2>3, <2>4, MoveIs
  <2> QED BY <1>1, <2>2, <2>5 DEF SoundThen
<1>8. ASSUME NEW f, stack' = <<f>>, want' = want, Calls(f, Len(gates)), f.loc = <<>>, f.args = <<>>,
             f.kind # "net", \A v : Owed(v, f) = RootValue(v, j)
      PROVE  SoundThen
  <2>1. \A v, w : Circuit(v) /\ Honest(v, w, idx, out_idx, stack, None, 0) =>
           /\ Owed(v, f) = Asked(v, out_idx, stack, Len(stack) + 1)
           /\ f.kind = "net" => Owed(v, f) = v.net[f.net]
    BY <1>4, <1>8
  <2>2. Sound(gates, idx, out_idx, Append(stack, f), None, 0)
    BY <1>1, <1>5, <1>6, <1>8, <2>1, PushIs
  <2>3. stack' = Append(stack, f)
    <3>1. Append(<<>>, f) = <<f>>
      OBVIOUS
    <3> QED BY <1>1, <1>8, <3>1
  <2> QED BY <1>1, <1>8, <2>2, <2>3 DEF SoundThen
<1>9. ASSUME NEW k \in flops, r = <<"flop", k>>, Flop(k).next # <<>>,
             \A v : RootValue(v, j) = v.tmp[k][Flop(k).next[Len(Flop(k).next)].t]
      PROVE  SoundThen
  <2> DEFINE f == Frame("flop", None, k, Flop(k).next)
  <2>1. r[1] = "flop" /\ r[1] # "net" /\ r[1] # "root" /\ r[2] = k
    BY <1>9
  <2>2. stack' = <<f>> /\ want' = want
    BY <1>1, <2>1
  <2>3. f.loc = <<>> /\ f.args = <<>> /\ f.kind # "net"
    BY StartIs
  <2>4. Calls(f, Len(gates)) /\ \A v : Owed(v, f) = RootValue(v, j)
    BY <1>2, <1>9, FlopCall
  <2> HIDE DEF f
  <2> QED BY <1>8, <2>2, <2>3, <2>4
<1>10. ASSUME NEW n \in DOMAIN drv, r = <<"root", n>>,
              \A v : RootValue(v, j) = v.tmp[drv[n]][OutTmp(drv[n], n)]
       PROVE  SoundThen
  <2> DEFINE f == Driven("root", n)
  <2>1. r[1] = "root" /\ r[1] # "net" /\ r[1] # "flop" /\ r[2] = n
    BY <1>10
  <2>2. stack' = <<f>> /\ want' = want
    BY <1>1, <2>1
  <2>3. f.loc = <<>> /\ f.args = <<>> /\ f.kind # "net"
    BY StartIs DEF Driven
  <2>4. Calls(f, Len(gates)) /\ \A v : Owed(v, f) = RootValue(v, j)
    BY <1>2, <1>10, DrivenCall
  <2> HIDE DEF f
  <2> QED BY <1>8, <2>2, <2>3, <2>4
<1> QED BY <1>3, <1>7, <1>9, <1>10, RootIs DEF r

\* An output has its index.
LEMMA TakeRootWalks ==
  ASSUME Elaborated, SoundNow, TakeRoot
  PROVE  SoundThen
<1>1. /\ ret # 0 /\ stack = <<>> /\ out_idx' = Append(out_idx, ret) /\ ret' = 0
      /\ gates' = gates /\ idx' = idx /\ stack' = stack /\ want' = want
  BY DEF TakeRoot
<1>2. /\ Len(gates) \in Nat /\ Len(out_idx) \in Nat /\ Roots \in Nat /\ DOMAIN stack = {} /\ Len(stack) = 0
      /\ Shape(Len(gates), idx, out_idx, stack, want, ret)
  BY <1>1, WalkIs
<1>3. /\ ret \in 1..Len(gates) /\ want = None /\ out_idx \in Seq(1..Len(gates)) /\ Len(out_idx) < Roots
  BY <1>1, <1>2 DEF Shape
<1> DEFINE A == 1..Len(gates)
           O == out_idx'
<1>4. /\ O \in Seq(A) /\ Len(O) = Len(out_idx) + 1 /\ DOMAIN O = DOMAIN out_idx \cup {Len(out_idx) + 1}
      /\ \A j \in DOMAIN out_idx : O[j] = out_idx[j]
      /\ O[Len(out_idx) + 1] = ret
  <2>1. out_idx \in Seq(A) /\ ret \in A /\ O = Append(out_idx, ret)
    BY <1>1, <1>3
  <2> HIDE DEF A, O
  <2> QED BY <2>1
<1>5. Shape(Len(gates), idx, O, stack, None, 0)
  <2>1. Len(O) <= Roots
    BY <1>2, <1>3, <1>4
  <2> QED BY <1>1, <1>2, <1>4, <2>1 DEF Shape
<1>6. ASSUME NEW v, NEW w, Circuit(v), Evaluates(v, w, gates) PROVE Honest(v, w, idx, O, stack, None, 0)
  <2>1. Honest(v, w, idx, out_idx, stack, want, ret)
    BY <1>6 DEF SoundNow, Sound
  <2>2. w[ret] = RootValue(v, Len(out_idx) + 1)
    BY <1>1, <1>2, <2>1 DEF Honest, Asked
  <2>3. \A j \in DOMAIN O : w[O[j]] = RootValue(v, j)
    BY <1>4, <2>1, <2>2 DEF Honest
  <2>4. \A i \in DOMAIN stack : Has(v, w, stack[i]) /\ Owed(v, stack[i]) = Asked(v, O, stack, i)
    BY <1>2
  <2> QED BY <2>1, <2>3, <2>4 DEF Honest
<1>7. Sound(gates, idx, O, stack, None, 0)
  BY <1>5, <1>6 DEF SoundNow, Sound
<1> QED BY <1>1, <1>3, <1>7 DEF SoundThen

\* What an asking walk has to answer.
LEMMA AskingIs ==
  ASSUME Elaborated, SoundNow, Asking
  PROVE  /\ want \in Nets /\ want # None /\ ret = 0 /\ Len(out_idx) < Roots
         /\ Sound(gates, idx, out_idx, stack, want, 0)
         /\ \A i \in DOMAIN stack : Waits(stack[i])
         /\ \A x \in DOMAIN idx : idx[x] \in 1..Len(gates)
         /\ want \notin DOMAIN idx => want \in Nets \ ToSet(inputs)
         /\ \A v, w : Honest(v, w, idx, out_idx, stack, want, 0) =>
              /\ v.net[want] = Asked(v, out_idx, stack, Len(stack) + 1)
              /\ \A x \in DOMAIN idx : w[idx[x]] = v.net[x]
<1>1. want # None
  BY DEF Asking
<1>2. Shape(Len(gates), idx, out_idx, stack, want, ret)
  BY WalkIs
<1>3. /\ want \in Nets /\ ret = 0 /\ Len(out_idx) < Roots
      /\ \A i \in DOMAIN stack : Waits(stack[i])
      /\ \A x \in DOMAIN idx : idx[x] \in 1..Len(gates)
      /\ ToSet(inputs) \subseteq DOMAIN idx
  BY <1>1, <1>2 DEF Shape
<1> QED BY <1>1, <1>3 DEF SoundNow, Honest

\* A net bound before has its index.
LEMMA NetBoundWalks ==
  ASSUME Elaborated, SoundNow, NetBound
  PROVE  SoundThen
<1>1. /\ want \in DOMAIN idx /\ ret' = idx[want] /\ want' = None
      /\ gates' = gates /\ idx' = idx /\ stack' = stack /\ out_idx' = out_idx
  BY DEF NetBound
<1>2. Asking
  BY DEF NetBound
<1>3. \A v, w : Circuit(v) /\ Evaluates(v, w, gates) /\ Honest(v, w, idx, out_idx, stack, want, 0) =>
        /\ \A x \in DOMAIN idx : w[idx[x]] = v.net[x]
        /\ w[idx[want]] = Asked(v, out_idx, stack, Len(stack) + 1)
  BY <1>1, <1>2, AskingIs
<1> DEFINE r == idx[want]
<1>4. r \in 1..Len(gates)
  BY <1>1, <1>2, AskingIs
<1>5. Sound(gates, idx, out_idx, stack, None, r)
  <2>1. \A v, w : Circuit(v) /\ Evaluates(v, w, gates) /\ Honest(v, w, idx, out_idx, stack, want, 0) =>
          /\ \A x \in DOMAIN idx : w[idx[x]] = v.net[x]
          /\ w[r] = Asked(v, out_idx, stack, Len(stack) + 1)
    BY <1>3
  <2> HIDE DEF r
  <2> QED BY <1>2, <1>4, <2>1, AskingIs, WalkIs, MoveIs
<1> QED BY <1>1, <1>5 DEF SoundThen

\* A pinned net or a literal becomes a constant.
LEMMA NetFixedWalks ==
  ASSUME Elaborated, SoundNow, NetFixed
  PROVE  SoundThen
<1> DEFINE g == [op |-> "const", args |-> <<Level(want)>>]
           hs == Append(gates, g)
           N == Len(gates) + 1
           J == Bound(idx, want, N)
<1>1. /\ want \notin DOMAIN idx /\ Fixed(want) /\ gates' = hs /\ idx' = J /\ ret' = N /\ want' = None
      /\ stack' = stack /\ out_idx' = out_idx
  BY DEF NetFixed, Emit
<1>2. Asking
  BY DEF NetFixed
<1>3. Len(gates) \in Nat /\ gates \in Seq(ToSet(gates))
  BY WalkIs
<1>4. /\ hs \in Seq(ToSet(hs)) /\ Len(hs) = N /\ hs[N] = g
      /\ \A v, w : Evaluates(v, w, hs) => Evaluates(v, w, gates) /\ GateHolds(v, w, hs, N)
  <2> HIDE DEF g
  <2> QED BY <1>3, GatesGrow
<1>5. g.op = "const" /\ g.args[1] = Level(want)
  OBVIOUS
<1> HIDE DEF g
<1>6. DOMAIN J = {want} \cup DOMAIN idx /\ J[want] = N /\ \A x \in DOMAIN idx : J[x] = idx[x]
  <2> HIDE DEF N
  <2> QED BY <1>1 DEF J, Bound
<1> HIDE DEF hs, J
<1>7. ASSUME NEW v, NEW w, Circuit(v), Evaluates(v, w, hs), Honest(v, w, idx, out_idx, stack, want, 0)
      PROVE  /\ \A x \in DOMAIN J : w[J[x]] = v.net[x]
             /\ w[N] = Asked(v, out_idx, stack, Len(stack) + 1)
  <2>1. w[N] = Level(want)
    <3>1. GateHolds(v, w, hs, N)
      BY <1>4, <1>7
    <3> HIDE DEF N
    <3> QED BY <1>4, <1>5, <3>1 DEF GateHolds
  <2>2. v.net[want] = Level(want)
    <3>1. want \in Nets \ ToSet(inputs)
      BY <1>1, <1>2, AskingIs
    <3> QED BY <1>1, <1>7, <3>1 DEF Circuit
  <2>3. /\ v.net[want] = Asked(v, out_idx, stack, Len(stack) + 1)
        /\ \A x \in DOMAIN idx : w[idx[x]] = v.net[x]
    BY <1>2, <1>7, AskingIs
  <2> HIDE DEF N
  <2> QED BY <1>6, <2>1, <2>2, <2>3
<1>8. /\ \A x \in DOMAIN J : J[x] \in 1..Len(hs)
      /\ Len(gates) <= Len(hs) /\ N \in 1..Len(hs) /\ N # 0
  <2>1. \A x \in DOMAIN idx : idx[x] \in 1..Len(gates)
    BY <1>2, AskingIs
  <2> QED BY <1>3, <1>4, <1>6, <2>1
<1>9. Sound(hs, J, out_idx, stack, None, N)
  <2>1. DOMAIN idx \subseteq DOMAIN J
    BY <1>6
  <2>2. \A v, w : Evaluates(v, w, hs) => Evaluates(v, w, gates)
    BY <1>4
  <2> HIDE DEF N
  <2> QED BY <1>2, <1>4, <1>7, <1>8, <2>1, <2>2, AskingIs, MoveIs
<1> QED BY <1>1, <1>9 DEF SoundThen

\* An alias is the net it names.
LEMMA NetAliasWalks ==
  ASSUME Elaborated, SoundNow, NetAlias
  PROVE  SoundThen
<1> DEFINE m == AliasOf(assigns, want)
<1>1. /\ Free(want) /\ Aliases(assigns, want) # {} /\ want' = m
      /\ gates' = gates /\ idx' = idx /\ stack' = stack /\ ret' = ret /\ out_idx' = out_idx
  BY DEF NetAlias
<1>2. Asking
  BY DEF NetAlias
<1>3. m \in Nets
  BY <1>1, AliasIs
<1>4. ASSUME NEW v, NEW w, Circuit(v), Honest(v, w, idx, out_idx, stack, want, 0)
      PROVE  /\ \A x \in DOMAIN idx : w[idx[x]] = v.net[x]
             /\ v.net[m] = Asked(v, out_idx, stack, Len(stack) + 1)
  <2>1. want \in Nets \ ToSet(inputs) /\ ~Fixed(want)
    BY <1>1, <1>2, AskingIs DEF Free
  <2>2. v.net[want] = v.net[m]
    BY <1>1, <1>4, <2>1 DEF Circuit
  <2> QED BY <1>2, <1>4, <2>2, AskingIs
<1> HIDE DEF m
<1>5. Sound(gates, idx, out_idx, stack, m, 0)
  BY <1>2, <1>3, <1>4, AskingIs, WalkIs, MoveIs
<1>6. ret = 0
  BY <1>2, AskingIs
<1> QED BY <1>1, <1>5, <1>6 DEF SoundThen

\* A driven net is what its driver leaves on it.
LEMMA NetDrivenWalks ==
  ASSUME Elaborated, SoundNow, NetDriven
  PROVE  SoundThen
<1> DEFINE f == Driven("net", want)
<1>1. /\ Free(want) /\ Aliases(assigns, want) = {} /\ want \in DOMAIN drv
      /\ stack' = Append(stack, f) /\ want' = None
      /\ gates' = gates /\ idx' = idx /\ ret' = ret /\ out_idx' = out_idx
  BY DEF NetDriven
<1>2. Asking
  BY DEF NetDriven
<1>3. f.loc = <<>> /\ f.args = <<>> /\ f.kind = "net" /\ f.net = want
  BY StartIs DEF Driven
<1>4. Calls(f, Len(gates)) /\ \A v : Owed(v, f) = v.tmp[drv[want]][OutTmp(drv[want], want)]
  BY <1>1, WalkIs, DrivenCall
<1> HIDE DEF f
<1>5. ASSUME NEW v, NEW w, Circuit(v), Honest(v, w, idx, out_idx, stack, want, 0)
      PROVE  /\ Owed(v, f) = Asked(v, out_idx, stack, Len(stack) + 1)
             /\ Owed(v, f) = v.net[f.net]
  <2>1. want \in Nets \ ToSet(inputs) /\ ~Fixed(want)
    BY <1>1, <1>2, AskingIs DEF Free
  <2>2. v.net[want] = Owed(v, f)
    BY <1>1, <1>4, <1>5, <2>1 DEF Circuit
  <2> QED BY <1>2, <1>3, <1>5, <2>2, AskingIs
<1>6. Sound(gates, idx, out_idx, Append(stack, f), None, 0)
  BY <1>2, <1>3, <1>4, <1>5, AskingIs, PushIs
<1>7. ret = 0
  BY <1>2, AskingIs
<1> QED BY <1>1, <1>6, <1>7 DEF SoundThen

\* A call with other operands, and nothing else changed.
LEMMA ArgsSet ==
  ASSUME NEW f, DOMAIN f = Fields, NEW x
  PROVE  LET g == [f EXCEPT !.args = x] IN
         /\ DOMAIN g = Fields /\ g.args = x /\ g.kind = f.kind /\ g.net = f.net
         /\ g.inst = f.inst /\ g.ops = f.ops /\ g.pc = f.pc /\ g.loc = f.loc
BY DEF Fields

\* A call at another line, and nothing else changed.
LEMMA LineSet ==
  ASSUME NEW f, DOMAIN f = Fields, NEW p, NEW x, NEW l
  PROVE  LET g == [f EXCEPT !.pc = p, !.args = x, !.loc = l] IN
         /\ DOMAIN g = Fields /\ g.args = x /\ g.kind = f.kind /\ g.net = f.net
         /\ g.inst = f.inst /\ g.ops = f.ops /\ g.pc = p /\ g.loc = l
BY DEF Fields

\* The operands of a line, by its operator.
LEMMA OperandsAre ==
  ASSUME NEW l
  PROVE  /\ Len(Operands(l)) \in Nat
         /\ l.op = "const" => Len(Operands(l)) = 0
         /\ l.op \in {"not", "buf"} => Len(Operands(l)) = 1 /\ Operands(l)[1] = l.a
         /\ l.op \in {"and", "or", "xor"} =>
              Len(Operands(l)) = 2 /\ Operands(l)[1] = l.a /\ Operands(l)[2] = l.b
<1>1. CASE l.op = "const"
  BY <1>1 DEF Operands
<1>2. CASE l.op \in {"not", "buf"}
  BY <1>2 DEF Operands
<1>3. CASE l.op # "const" /\ l.op \notin {"not", "buf"}
  <2>1. Operands(l) = <<l.a, l.b>>
    BY <1>3 DEF Operands
  <2> QED BY <1>3, <2>1
<1> QED BY <1>1, <1>2, <1>3

\* The call on top, with what it says.
LEMMA TopCall ==
  ASSUME Elaborated, SoundNow, want = None, stack # <<>>
  PROVE  /\ Calls(Top, Len(gates)) /\ Program(Top.ops) /\ Top = stack[Len(stack)]
         /\ Top.inst \in DOMAIN src.insts /\ DOMAIN Top = Fields
         /\ ret # 0 => Waits(Top) /\ ret \in 1..Len(gates)
         /\ \A i \in DOMAIN stack : i < Len(stack) => Waits(stack[i])
         /\ Len(out_idx) < Roots
         /\ Sound(gates, idx, out_idx, stack, None, ret)
         /\ \A v, w : Honest(v, w, idx, out_idx, stack, None, ret) =>
              /\ Has(v, w, Top) /\ Owed(v, Top) = Asked(v, out_idx, stack, Len(stack))
              /\ ret # 0 => w[ret] = NextArg(v, Top)
<1>1. /\ Len(stack) \in DOMAIN stack /\ Len(stack) >= 1 /\ Len(stack) \in Nat
      /\ Shape(Len(gates), idx, out_idx, stack, want, ret)
  BY WalkIs
<1>2. Top = stack[Len(stack)]
  BY DEF Top
<1>3. Calls(Top, Len(gates))
  BY <1>1, <1>2 DEF Shape
<1>4. Program(Top.ops) /\ Top.inst \in DOMAIN src.insts
  BY <1>3, CallIs
<1>5. /\ ret # 0 => Waits(Top) /\ ret \in 1..Len(gates)
      /\ \A i \in DOMAIN stack : i < Len(stack) => Waits(stack[i])
      /\ Len(out_idx) < Roots
  BY <1>1, <1>2 DEF Shape
<1>6. ASSUME NEW v, NEW w, Honest(v, w, idx, out_idx, stack, None, ret)
      PROVE  /\ Has(v, w, Top) /\ Owed(v, Top) = Asked(v, out_idx, stack, Len(stack))
             /\ ret # 0 => w[ret] = NextArg(v, Top)
  <2>1. Has(v, w, Top) /\ Owed(v, Top) = Asked(v, out_idx, stack, Len(stack))
    BY <1>1, <1>2, <1>6 DEF Honest
  <2>2. Asked(v, out_idx, stack, Len(stack) + 1) = NextArg(v, Top)
    <3>1. Len(stack) + 1 # 1 /\ (Len(stack) + 1) - 1 = Len(stack)
      BY <1>1
    <3> QED BY <1>2, <3>1 DEF Asked
  <2>3. ret # 0 => w[ret] = Asked(v, out_idx, stack, Len(stack) + 1)
    BY <1>6 DEF Honest
  <2> QED BY <2>1, <2>2, <2>3
<1>7. DOMAIN Top = Fields
  BY <1>3 DEF Calls
<1>8. Sound(gates, idx, out_idx, stack, None, ret)
  BY DEF SoundNow
<1> QED BY <1>2, <1>3, <1>4, <1>5, <1>6, <1>7, <1>8

\* The call on top has one more operand.
LEMMA ArgTaken ==
  ASSUME Elaborated, SoundNow, want = None, stack # <<>>, Waits(Top), NEW x \in 1..Len(gates),
         \A v, w : (Circuit(v) /\ Evaluates(v, w, gates) /\ Honest(v, w, idx, out_idx, stack, None, ret))
                     => w[x] = NextArg(v, Top)
  PROVE  Sound(gates, idx, out_idx, SetTop([Top EXCEPT !.args = Append(@, x)]), None, 0)
<1> DEFINE f == Top
           as == Append(f.args, x)
           g == [f EXCEPT !.args = as]
           N == Len(gates)
           A == 1..N
<1>1. /\ Calls(f, N) /\ DOMAIN f = Fields /\ f = stack[Len(stack)]
      /\ Sound(gates, idx, out_idx, stack, None, ret)
      /\ gates \in Seq(ToSet(gates)) /\ N <= N /\ N \in Nat
  BY TopCall, WalkIs
<1>2. /\ DOMAIN g = Fields /\ g.args = as /\ g.kind = f.kind /\ g.net = f.net
      /\ g.inst = f.inst /\ g.ops = f.ops /\ g.pc = f.pc /\ g.loc = f.loc
  <2> HIDE DEF f, as
  <2> QED BY <1>1, ArgsSet
<1> DEFINE l == f.ops[f.pc]
           n == Len(f.args)
<1>3. /\ f.args \in Seq(A) /\ f.pc <= Len(f.ops) /\ n < Len(Operands(l)) /\ Len(Operands(l)) \in Nat
  BY <1>1, OperandsAre DEF Calls, Waits
<1>4. /\ as \in Seq(A) /\ Len(as) = n + 1 /\ n \in Nat /\ DOMAIN as = 1..(n + 1)
      /\ \A i \in 1..n : as[i] = f.args[i] /\ i \in DOMAIN f.args
      /\ as[n + 1] = x
  <2> DEFINE c == f.args
  <2>1. c \in Seq(A) /\ x \in A
    BY <1>3
  <2> HIDE DEF A, c
  <2> QED BY <2>1 DEF c
<1>5. Len(as) <= Len(Operands(l))
  <2> HIDE DEF l, as, n
  <2> QED BY <1>3, <1>4
<1>6. SetTop([Top EXCEPT !.args = Append(@, x)]) = [stack EXCEPT ![Len(stack)] = g]
  BY DEF SetTop
<1> HIDE DEF f, as, g, n
<1>7. Calls(g, N)
  <2>1. g.args # <<>> => g.pc <= Len(g.ops) /\ Len(g.args) <= Len(Operands(g.ops[g.pc]))
    BY <1>2, <1>3, <1>5
  <2>2. OpsOf(g) = OpsOf(f)
    BY <1>2 DEF OpsOf
  <2>3. g.args \in Seq(1..N)
    BY <1>2, <1>4
  <2>4. Calls(f, N)
    BY <1>1
  <2> HIDE DEF N, A, l
  <2> QED BY <1>2, <2>1, <2>2, <2>3, <2>4 DEF Calls
<1>8. ASSUME NEW v, NEW w, Circuit(v), Evaluates(v, w, gates), Honest(v, w, idx, out_idx, stack, None, ret)
      PROVE  Has(v, w, g)
  <2>1. Has(v, w, f)
    BY <1>8, TopCall DEF f
  <2>2. w[x] = Arg(v, f.inst, f.ops, f.pc, Operands(l)[n + 1])
    BY <1>8 DEF f, n, NextArg
  <2>3. \A i \in DOMAIN as : w[as[i]] = Arg(v, f.inst, f.ops, f.pc, Operands(l)[i])
    <3>1. ASSUME NEW i \in 1..n PROVE w[as[i]] = Arg(v, f.inst, f.ops, f.pc, Operands(l)[i])
      BY <1>4, <2>1, <3>1 DEF Has
    <3>2. \A i \in DOMAIN as : i \in 1..n \/ i = n + 1
      BY <1>4
    <3> QED BY <1>4, <2>2, <3>1, <3>2
  <2>4. Owed(v, g) = Owed(v, f)
    BY <1>2 DEF Owed, Result
  <2> QED BY <1>2, <2>1, <2>3, <2>4 DEF Has
<1>9. Sound(gates, idx, out_idx, [stack EXCEPT ![Len(stack)] = g], None, 0)
  BY <1>1, <1>2, <1>7, <1>8, TopIs
<1> QED BY <1>6, <1>9

\* The call on top has done its line.
LEMMA LineTaken ==
  ASSUME Elaborated, SoundNow, want = None, stack # <<>>, Top.pc <= Len(Top.ops),
         NEW hs, hs \in Seq(ToSet(hs)), Len(gates) <= Len(hs),
         \A v, w : Evaluates(v, w, hs) => Evaluates(v, w, gates),
         NEW x \in 1..Len(hs),
         \A v, w : (Circuit(v) /\ Evaluates(v, w, hs) /\ Honest(v, w, idx, out_idx, stack, None, ret))
                     => w[x] = v.tmp[Top.inst][Top.ops[Top.pc].t],
         LineDone(x)
  PROVE  Sound(hs, idx, out_idx, stack', None, 0)
<1> DEFINE f == Top
           t == f.ops[f.pc].t
           loc == Bound(f.loc, t, x)
           p == f.pc + 1
           g == [f EXCEPT !.pc = p, !.args = <<>>, !.loc = loc]
           N == Len(gates)
           M == Len(hs)
<1>1. /\ Calls(f, N) /\ Program(f.ops) /\ DOMAIN f = Fields /\ f = stack[Len(stack)]
      /\ Sound(gates, idx, out_idx, stack, None, ret) /\ N \in Nat /\ M \in Nat
  BY TopCall, WalkIs, Membered
<1>2. /\ DOMAIN g = Fields /\ g.args = <<>> /\ g.kind = f.kind /\ g.net = f.net
      /\ g.inst = f.inst /\ g.ops = f.ops /\ g.pc = p /\ g.loc = loc
  <2> HIDE DEF f, p, loc
  <2> QED BY <1>1, LineSet
<1>3. stack' = [stack EXCEPT ![Len(stack)] = g]
  BY DEF LineDone, SetTop
<1>4. /\ DOMAIN loc = {t} \cup DOMAIN f.loc /\ loc[t] = x
      /\ \A s \in DOMAIN f.loc : s # t => loc[s] = f.loc[s]
  <2> HIDE DEF t, f
  <2> QED BY DEF Bound
<1> HIDE DEF f, g, loc
<1>5. f.pc \in Nat /\ p \in 1..(Len(f.ops) + 1) /\ p - 1 = f.pc /\ f.pc \in 1..f.pc
  <2>1. f.pc \in 1..(Len(f.ops) + 1) /\ Len(f.ops) \in Nat /\ f.pc <= Len(f.ops)
    BY <1>1 DEF Calls, Program, f
  <2> QED BY <2>1
<1>6. DOMAIN loc = {f.ops[j].t : j \in 1..(p - 1)}
  <2>1. DOMAIN f.loc = {f.ops[j].t : j \in 1..(f.pc - 1)}
    BY <1>1 DEF Calls
  <2>2. \A j : j \in 1..(p - 1) <=> j \in 1..(f.pc - 1) \/ j = f.pc
    BY <1>5
  <2> HIDE DEF p
  <2> QED BY <1>4, <2>1, <2>2
<1> HIDE DEF p
<1>7. \A s \in DOMAIN loc : loc[s] \in 1..M
  <2>1. \A s \in DOMAIN f.loc : f.loc[s] \in 1..M
    <3>1. Calls(f, M)
      BY <1>1, CallsGrow
    <3> QED BY <3>1 DEF Calls
  <2> QED BY <1>4, <2>1
<1>8. Calls(g, M)
  <2>1. OpsOf(g) = OpsOf(f)
    BY <1>2 DEF OpsOf
  <2>2. g.args \in Seq(1..M)
    BY <1>2
  <2> QED BY <1>1, <1>2, <1>5, <1>6, <1>7, <2>1, <2>2 DEF Calls
<1>9. ASSUME NEW v, NEW w, Circuit(v), Evaluates(v, w, hs), Honest(v, w, idx, out_idx, stack, None, ret)
      PROVE  Has(v, w, g)
  <2>1. Has(v, w, f)
    <3>1. \A y, z : Honest(y, z, idx, out_idx, stack, None, ret) => Has(y, z, Top)
      BY TopCall
    <3> QED BY <1>9, <3>1 DEF f
  <2>2. w[x] = v.tmp[f.inst][t]
    BY <1>9 DEF f, t
  <2>3. \A s \in DOMAIN loc : w[loc[s]] = v.tmp[f.inst][s]
    <3> HIDE DEF t
    <3> QED BY <1>4, <2>1, <2>2 DEF Has
  <2>4. Owed(v, g) = Owed(v, f)
    BY <1>2 DEF Owed, Result
  <2>5. DOMAIN g.args = {}
    BY <1>2
  <2> QED BY <1>2, <2>1, <2>3, <2>4, <2>5 DEF Has
<1>10. Sound(hs, idx, out_idx, [stack EXCEPT ![Len(stack)] = g], None, 0)
  BY <1>1, <1>2, <1>8, <1>9, TopIs
<1> QED BY <1>3, <1>10

\* What a sequence is a function of.
LEMMA SeqsAre ==
  ASSUME NEW U, NEW T \in Seq(U)
  PROVE  Len(T) \in Nat /\ DOMAIN T = 1..Len(T) /\ \A i \in DOMAIN T : T[i] \in U
<1>1. Len(T) \in Nat /\ DOMAIN T = 1..Len(T)
  OBVIOUS
<1>2. ASSUME NEW i \in 1..Len(T) PROVE T[i] \in U
  OBVIOUS
<1> QED BY <1>1, <1>2
\* An operand is a tmp the call has, or the net on a pin is asked for.
LEMMA OperandWalks ==
  ASSUME Elaborated, SoundNow, Operand
  PROVE  SoundThen
<1> DEFINE f == Top
           o == NextOperand
<1>1. /\ want = None /\ ret = 0 /\ stack # <<>> /\ f.pc <= Len(f.ops)
      /\ Len(f.args) < Len(Operands(f.ops[f.pc]))
      /\ gates' = gates /\ idx' = idx /\ ret' = ret /\ out_idx' = out_idx
      /\ \/ /\ o \in DOMAIN f.loc
            /\ stack' = SetTop([Top EXCEPT !.args = Append(@, Top.loc[o])])
            /\ want' = want
         \/ /\ o \notin DOMAIN f.loc /\ o \in DOMAIN Inst(f.inst).conns
            /\ want' = Inst(f.inst).conns[o] /\ stack' = stack
  BY DEF Operand, AtLine, Running
<1>2. Waits(f) /\ o = Operands(f.ops[f.pc])[Len(f.args) + 1]
  BY <1>1 DEF Waits, NextOperand
<1>3. Calls(f, Len(gates)) /\ f.inst \in DOMAIN src.insts /\ src \in Sources
  BY <1>1, TopCall DEF Elaborated
<1>4. \A v : NextArg(v, f) = IF o \in DOMAIN f.loc THEN v.tmp[f.inst][o] ELSE v.net[PinNet(f.inst, o)]
  <2>1. o \in DOMAIN f.loc <=> \E j \in 1..(f.pc - 1) : f.ops[j].t = o
    <3> HIDE DEF f, o
    <3> QED BY <1>3 DEF Calls
  <2> HIDE DEF f, o
  <2> QED BY <1>2, <2>1 DEF NextArg, Arg
<1>5. CASE /\ o \in DOMAIN f.loc
           /\ stack' = SetTop([Top EXCEPT !.args = Append(@, Top.loc[o])])
           /\ want' = want
  <2> DEFINE x == Top.loc[o]
  <2>1. x \in 1..Len(gates)
    BY <1>3, <1>5 DEF Calls
  <2>2. \A v, w : (Circuit(v) /\ Evaluates(v, w, gates) /\ Honest(v, w, idx, out_idx, stack, None, ret))
                     => w[x] = NextArg(v, Top)
    <3>1. ASSUME NEW v, NEW w, Honest(v, w, idx, out_idx, stack, None, ret) PROVE w[x] = NextArg(v, Top)
      <4>1. Has(v, w, Top)
        BY <1>1, <3>1, TopCall
      <4>2. w[x] = v.tmp[f.inst][o]
        BY <1>5, <4>1 DEF Has
      <4> QED BY <1>4, <1>5, <4>2
    <3> QED BY <3>1
  <2>3. stack' = SetTop([Top EXCEPT !.args = Append(@, x)])
    BY <1>5
  <2> HIDE DEF x, o
  <2>4. Sound(gates, idx, out_idx, SetTop([Top EXCEPT !.args = Append(@, x)]), None, 0)
    BY <1>1, <1>2, <2>1, <2>2, ArgTaken
  <2> QED BY <1>1, <1>5, <2>3, <2>4 DEF SoundThen
<1>6. CASE /\ o \notin DOMAIN f.loc /\ o \in DOMAIN Inst(f.inst).conns
           /\ want' = Inst(f.inst).conns[o] /\ stack' = stack
  <2> DEFINE m == Inst(f.inst).conns[o]
  <2>1. m \in Nets /\ PinNet(f.inst, o) = m
    <3> HIDE DEF f, o
    <3> QED BY <1>3, <1>6, ConnsIs
  <2>2. \A v : NextArg(v, f) = v.net[m]
    BY <1>4, <1>6, <2>1
  <2>3. \A i \in DOMAIN stack : Waits(stack[i])
    <3>1. \A i \in DOMAIN stack : i < Len(stack) \/ i = Len(stack)
      BY WalkIs
    <3> QED BY <1>1, <1>2, <3>1, TopCall
  <2>4. \A v : Asked(v, out_idx, stack, Len(stack) + 1) = NextArg(v, f)
    <3>1. Len(stack) + 1 # 1 /\ (Len(stack) + 1) - 1 = Len(stack)
      BY <1>1, WalkIs
    <3> QED BY <3>1 DEF Asked, Top
  <2>5. Sound(gates, idx, out_idx, stack, None, 0) /\ Len(out_idx) < Roots
    BY <1>1, TopCall
  <2>6. \A x \in DOMAIN idx : idx[x] \in 1..Len(gates)
    BY WalkIs DEF Shape
  <2> HIDE DEF m, f, o
  <2>7. \A v, w : Honest(v, w, idx, out_idx, stack, None, 0) =>
           /\ \A x \in DOMAIN idx : w[idx[x]] = v.net[x]
           /\ v.net[m] = Asked(v, out_idx, stack, Len(stack) + 1)
    BY <2>2, <2>4 DEF Honest
  <2>8. Sound(gates, idx, out_idx, stack, m, 0)
    BY <2>1, <2>3, <2>5, <2>6, <2>7, MoveIs, WalkIs
  <2> QED BY <1>1, <1>6, <2>8 DEF SoundThen, m
<1> QED BY <1>1, <1>5, <1>6

\* The index returned is the operand the call below waited for.
LEMMA TakeOperandWalks ==
  ASSUME Elaborated, SoundNow, TakeOperand
  PROVE  SoundThen
<1>1. /\ ret # 0 /\ stack # <<>> /\ stack' = SetTop([Top EXCEPT !.args = Append(@, ret)]) /\ ret' = 0
      /\ gates' = gates /\ idx' = idx /\ want' = want /\ out_idx' = out_idx
  BY DEF TakeOperand
<1>2. want = None
  BY <1>1, WalkIs DEF Shape
<1>3. /\ Waits(Top) /\ ret \in 1..Len(gates)
      /\ \A v, w : Honest(v, w, idx, out_idx, stack, None, ret) => w[ret] = NextArg(v, Top)
  BY <1>1, <1>2, TopCall
<1>4. Sound(gates, idx, out_idx, SetTop([Top EXCEPT !.args = Append(@, ret)]), None, 0)
  BY <1>1, <1>2, <1>3, ArgTaken
<1> QED BY <1>1, <1>2, <1>4 DEF SoundThen

\* The gate of a line computes the line.
LEMMA EmitLineWalks ==
  ASSUME Elaborated, SoundNow, EmitLine
  PROVE  SoundThen
<1> DEFINE f == Top
           l == f.ops[f.pc]
           as == f.args
           A == 1..Len(gates)
           N == Len(gates) + 1
           g == [op |-> l.op, args |-> IF l.op = "const" THEN <<l.a>> ELSE as]
           hs == Append(gates, g)
<1>1. /\ want = None /\ ret = 0 /\ stack # <<>> /\ f.pc <= Len(f.ops) /\ Len(as) = Len(Operands(l))
      /\ idx' = idx /\ want' = want /\ ret' = ret /\ out_idx' = out_idx
      /\ \/ l.op = "buf" /\ LineDone(as[1]) /\ gates' = gates
         \/ l.op # "buf" /\ gates' = hs /\ LineDone(N)
  BY DEF EmitLine, AtLine, Running, Emit
<1>2. Calls(f, Len(gates)) /\ Program(f.ops)
  BY <1>1, TopCall
<1>3. f.pc \in DOMAIN f.ops /\ l.op \in Ops
  <2>1. f.pc \in 1..(Len(f.ops) + 1) /\ Len(f.ops) \in Nat /\ DOMAIN f.ops = 1..Len(f.ops)
    BY <1>2 DEF Calls, Program
  <2>2. f.pc \in DOMAIN f.ops
    <3> HIDE DEF f
    <3> QED BY <1>1, <2>1
  <2> QED BY <1>2, <2>2 DEF Program
<1>4. as \in Seq(A) /\ Len(gates) \in Nat /\ gates \in Seq(ToSet(gates))
  BY <1>2, WalkIs DEF Calls
<1>5. Len(as) \in Nat /\ DOMAIN as = 1..Len(as) /\ \A i \in DOMAIN as : as[i] \in A
  <2>1. as \in Seq(A)
    BY <1>4
  <2> HIDE DEF as, A
  <2> QED BY <2>1, SeqsAre
<1>6. ASSUME NEW v, NEW w, Circuit(v), Honest(v, w, idx, out_idx, stack, None, ret)
      PROVE  /\ Holds(v, f.inst, f.ops, f.pc)
             /\ \A i \in DOMAIN as : w[as[i]] = Arg(v, f.inst, f.ops, f.pc, Operands(l)[i])
  <2>1. Has(v, w, f)
    BY <1>1, <1>6, TopCall
  <2>2. ProgramHolds(v, f.inst, f.ops)
    BY <1>2, <1>6, CallIs
  <2> QED BY <1>3, <2>1, <2>2 DEF Has, ProgramHolds
<1>a. Len(as) = Len(Operands(l))
  BY <1>1
<1> HIDE DEF as, A
<1>7. CASE l.op = "buf" /\ LineDone(as[1]) /\ gates' = gates
  <2>1. Len(Operands(l)) = 1 /\ Operands(l)[1] = l.a
    BY <1>7, OperandsAre
  <2>2. 1 \in DOMAIN as /\ as[1] \in 1..Len(gates)
    <3>1. Len(as) = 1
      BY <1>a, <2>1
    <3>2. 1 \in DOMAIN as
      BY <1>5, <3>1
    <3>3. as[1] \in A
      BY <1>5, <3>2
    <3> QED BY <3>2, <3>3 DEF A
  <2>3. ASSUME NEW v, NEW w, Circuit(v), Honest(v, w, idx, out_idx, stack, None, ret)
        PROVE  w[as[1]] = v.tmp[f.inst][l.t]
    <3>1. w[as[1]] = Arg(v, f.inst, f.ops, f.pc, l.a)
      BY <1>6, <2>1, <2>2, <2>3
    <3>2. v.tmp[f.inst][l.t] = Arg(v, f.inst, f.ops, f.pc, l.a)
      BY <1>6, <1>7, <2>3 DEF Holds
    <3> QED BY <3>1, <3>2
  <2> DEFINE x == as[1]
  <2>4. Sound(gates, idx, out_idx, stack', None, 0)
    <3>1. x \in 1..Len(gates) /\ LineDone(x)
      BY <1>7, <2>2
    <3>2. \A v, w : (Circuit(v) /\ Evaluates(v, w, gates) /\ Honest(v, w, idx, out_idx, stack, None, ret))
                     => w[x] = v.tmp[Top.inst][Top.ops[Top.pc].t]
      BY <2>3
    <3> HIDE DEF x
    <3> QED BY <1>1, <1>4, <3>1, <3>2, WalkIs, LineTaken
  <2> QED BY <1>1, <1>7, <2>4 DEF SoundThen
<1>8. CASE l.op # "buf" /\ gates' = hs /\ LineDone(N)
  <2>1. /\ hs \in Seq(ToSet(hs)) /\ Len(hs) = N /\ hs[N] = g
        /\ \A v, w : Evaluates(v, w, hs) => Evaluates(v, w, gates) /\ GateHolds(v, w, hs, N)
    <3> HIDE DEF g
    <3> QED BY <1>4, GatesGrow
  <2>2. g.op = l.op /\ g.args = IF l.op = "const" THEN <<l.a>> ELSE as
    <3> HIDE DEF l
    <3> QED OBVIOUS
  <2> HIDE DEF g, hs
  <2>3. ASSUME NEW v, NEW w, Circuit(v), Evaluates(v, w, hs), Honest(v, w, idx, out_idx, stack, None, ret)
        PROVE  w[N] = v.tmp[f.inst][l.t]
    <3> DEFINE arg(y) == Arg(v, f.inst, f.ops, f.pc, y)
               tmp == v.tmp[f.inst][l.t]
    <3>1. GateHolds(v, w, hs, N)
      BY <2>1, <2>3
    <3>2. /\ l.op = "const" => w[N] = g.args[1]
          /\ l.op = "not" => w[N] = ~w[g.args[1]]
          /\ l.op = "and" => w[N] = (w[g.args[1]] /\ w[g.args[2]])
          /\ l.op = "or"  => w[N] = (w[g.args[1]] \/ w[g.args[2]])
          /\ l.op = "xor" => w[N] = (w[g.args[1]] # w[g.args[2]])
      <4> HIDE DEF N, l
      <4> QED BY <2>1, <2>2, <3>1 DEF GateHolds
    <3>3. /\ l.op = "const" => tmp = l.a
          /\ l.op = "not" => tmp = ~arg(l.a)
          /\ l.op = "and" => tmp = (arg(l.a) /\ arg(l.b))
          /\ l.op = "or"  => tmp = (arg(l.a) \/ arg(l.b))
          /\ l.op = "xor" => tmp = (arg(l.a) # arg(l.b))
      <4>1. Holds(v, f.inst, f.ops, f.pc)
        BY <1>6, <2>3
      <4> QED BY <4>1 DEF Holds
    <3>4. \A i \in DOMAIN as : w[as[i]] = arg(Operands(l)[i])
      BY <1>6, <2>3
    <3> HIDE DEF arg, tmp
    <3>5. CASE l.op = "const"
      <4>1. g.args[1] = l.a
        BY <2>2, <3>5
      <4> QED BY <3>2, <3>3, <3>5, <4>1 DEF tmp
    <3>6. CASE l.op = "not"
      <4>1. g.args = as /\ Len(as) = 1 /\ Operands(l)[1] = l.a
        BY <1>1, <2>2, <3>6, OperandsAre
      <4>2. 1 \in DOMAIN as
        BY <1>5, <4>1
      <4>3. w[g.args[1]] = arg(l.a)
        BY <3>4, <4>1, <4>2
      <4> QED BY <3>2, <3>3, <3>6, <4>3 DEF tmp
    <3>7. CASE l.op \in {"and", "or", "xor"}
      <4>1. g.args = as /\ Len(as) = 2 /\ Operands(l)[1] = l.a /\ Operands(l)[2] = l.b
        BY <1>1, <2>2, <3>7, OperandsAre
      <4>2. 1 \in DOMAIN as /\ 2 \in DOMAIN as
        BY <1>5, <4>1
      <4>3. w[g.args[1]] = arg(l.a) /\ w[g.args[2]] = arg(l.b)
        BY <3>4, <4>1, <4>2
      <4> QED BY <3>2, <3>3, <3>7, <4>3 DEF tmp
    <3> QED BY <1>3, <1>8, <3>5, <3>6, <3>7 DEF Ops
  <2>4. N \in 1..Len(hs) /\ Len(gates) <= Len(hs)
    BY <1>4, <2>1
  <2>5. Sound(hs, idx, out_idx, stack', None, 0)
    <3>1. \A v, w : (Circuit(v) /\ Evaluates(v, w, hs) /\ Honest(v, w, idx, out_idx, stack, None, ret))
                     => w[N] = v.tmp[Top.inst][Top.ops[Top.pc].t]
      BY <2>3
    <3>2. \A v, w : Evaluates(v, w, hs) => Evaluates(v, w, gates)
      BY <2>1
    <3>3. LineDone(N)
      BY <1>8
    <3> HIDE DEF N
    <3> QED BY <1>1, <2>1, <2>4, <3>1, <3>2, <3>3, LineTaken
  <2> QED BY <1>1, <1>8, <2>5 DEF SoundThen
<1> QED BY <1>1, <1>7, <1>8

\* The call returns the tmp on its net, or the next state.
LEMMA ReturnWalks ==
  ASSUME Elaborated, SoundNow, Return
  PROVE  SoundThen
<1> DEFINE f == Top
           r == f.loc[Result(f)]
           T == Below
           J == IF f.kind = "net" THEN Bound(idx, f.net, r) ELSE idx
           c == Len(stack)
<1>1. /\ want = None /\ ret = 0 /\ stack # <<>> /\ f.pc > Len(f.ops)
      /\ ret' = r /\ stack' = T /\ idx' = J
      /\ gates' = gates /\ want' = want /\ out_idx' = out_idx
  BY DEF Return, Running
<1>2. /\ Calls(f, Len(gates)) /\ Program(f.ops) /\ Len(out_idx) < Roots
      /\ \A i \in DOMAIN stack : i < Len(stack) => Waits(stack[i])
  BY <1>1, TopCall
<1>3. PICK pc \in DOMAIN f.ops : f.ops[pc].t = Result(f)
  BY <1>2, CallIs
<1>4. Result(f) \in DOMAIN f.loc
  <2>1. f.pc \in 1..(Len(f.ops) + 1) /\ Len(f.ops) \in Nat /\ DOMAIN f.ops = 1..Len(f.ops)
        /\ DOMAIN f.loc = {f.ops[j].t : j \in 1..(f.pc - 1)}
    BY <1>2 DEF Calls, Program
  <2>2. f.pc - 1 = Len(f.ops)
    <3> DEFINE at == f.pc
               L  == Len(f.ops)
    <3>1. at \in 1..(L + 1) /\ L \in Nat
      BY <2>1
    <3>2. at > L
      BY <1>1
    <3> HIDE DEF at, L
    <3>3. at - 1 = L
      BY <3>1, <3>2
    <3> QED BY <3>3 DEF at, L
  <2>3. pc \in 1..(f.pc - 1)
    BY <1>3, <2>1, <2>2
  <2> HIDE DEF f
  <2> QED BY <1>3, <2>1, <2>3
<1>5. r \in 1..Len(gates) /\ r # 0
  <2>1. r \in 1..Len(gates)
    BY <1>2, <1>4 DEF Calls
  <2> HIDE DEF r
  <2> QED BY <2>1, WalkIs
<1>6. /\ Shape(Len(gates), idx, out_idx, stack, None, 0) /\ stack \in Seq(ToSet(stack))
      /\ gates \in Seq(ToSet(gates))
  BY <1>1, WalkIs DEF Shape
<1>7. /\ c \in Nat \ {0} /\ DOMAIN stack = 1..c
      /\ T \in Seq(ToSet(T)) /\ Len(T) = c - 1 /\ DOMAIN T = 1..(c - 1)
      /\ \A i \in 1..(c - 1) : T[i] = stack[i]
  BY <1>1, <1>6, Popped DEF Below
<1>8. /\ DOMAIN idx \subseteq DOMAIN J /\ \A x \in DOMAIN J : J[x] \in 1..Len(gates)
      /\ \A x \in DOMAIN J : \/ x \in DOMAIN idx /\ J[x] = idx[x]
                             \/ f.kind = "net" /\ x = f.net /\ J[x] = r
  <2>1. \A x \in DOMAIN idx : idx[x] \in 1..Len(gates)
    BY <1>6 DEF Shape
  <2> HIDE DEF f, r
  <2>2. CASE f.kind = "net"
    <3>1. J = [y \in {f.net} \cup DOMAIN idx |-> IF y = f.net THEN r ELSE idx[y]]
      BY <2>2 DEF Bound
    <3> HIDE DEF J
    <3> QED BY <1>5, <2>1, <2>2, <3>1
  <2>3. CASE f.kind # "net"
    BY <2>1, <2>3
  <2> QED BY <2>2, <2>3
<1>9. \A i \in DOMAIN T : i \in DOMAIN stack /\ i < c /\ T[i] = stack[i]
  <2> HIDE DEF T, c
  <2> QED BY <1>7
<1> HIDE DEF f, r, T, J
<1>10. Shape(Len(gates), J, out_idx, T, None, r)
  <2>1. \A i \in DOMAIN T : /\ Calls(T[i], Len(gates))
                            /\ i > 1 => T[i].kind = "net"
                            /\ Waits(T[i])
    BY <1>2, <1>6, <1>9 DEF Shape
  <2> QED BY <1>2, <1>5, <1>6, <1>7, <1>8, <2>1 DEF Shape
<1>11. ASSUME NEW v, NEW w, Circuit(v), Evaluates(v, w, gates)
       PROVE  Honest(v, w, J, out_idx, T, None, r)
  <2>1. Honest(v, w, idx, out_idx, stack, None, 0)
    BY <1>1, <1>11 DEF SoundNow, Sound
  <2>2. Has(v, w, f) /\ Owed(v, f) = Asked(v, out_idx, stack, c)
    BY <1>1, <2>1, TopCall DEF f
  <2>3. w[r] = Owed(v, f)
    BY <1>4, <2>2 DEF Has, Owed, r
  <2>4. \A x \in DOMAIN J : w[J[x]] = v.net[x]
    BY <1>8, <2>1, <2>2, <2>3 DEF Has, Honest
  <2>5. \A i \in 1..c : Asked(v, out_idx, T, i) = Asked(v, out_idx, stack, i)
    <3> DEFINE m == c - 1
    <3> HIDE DEF c
    <3>1. m \in Nat /\ m + 1 = c /\ \A i \in 1..m : T[i] = stack[i]
      BY <1>7
    <3>2. \A i \in 1..(m + 1) : Asked(v, out_idx, T, i) = Asked(v, out_idx, stack, i)
      <4> HIDE DEF m
      <4> QED BY <3>1, AskedSame
    <3> QED BY <3>1, <3>2
  <2>6. Len(T) + 1 = c /\ c \in 1..c /\ \A i \in DOMAIN T : i \in 1..c
    <3> HIDE DEF c
    <3> QED BY <1>7
  <2>7. w[r] = Asked(v, out_idx, T, Len(T) + 1)
    BY <2>2, <2>3, <2>5, <2>6
  <2>8. \A i \in DOMAIN T : Has(v, w, T[i]) /\ Owed(v, T[i]) = Asked(v, out_idx, T, i)
    BY <1>9, <2>1, <2>5, <2>6 DEF Honest
  <2> QED BY <2>1, <2>4, <2>7, <2>8 DEF Honest
<1>12. Sound(gates, J, out_idx, T, None, r)
  BY <1>6, <1>10, <1>11 DEF Sound
<1> QED BY <1>1, <1>12 DEF SoundThen
----------------------------------------------------------------------------
(* The invariant holds, and gives the property. *)

\* A refusal leaves the walk as it is, and ends it.
LEMMA Refused ==
  ASSUME WalkInv, NEW reason, Refuse(reason)
  PROVE  WalkInv'
<1>1. UNCHANGED front /\ phase' = "refused"
  BY DEF Refuse
<1>2. Elaborated'
  BY <1>1, ElaboratedStays DEF WalkInv, Untreated
<1> QED BY <1>1, <1>2 DEF WalkInv, Before, Untreated


\* The run starts with nothing built.
LEMMA InitWalk == Init => WalkInv
<1> SUFFICES ASSUME Init PROVE WalkInv
  OBVIOUS
<1>1. /\ src \in Sources /\ phase = "parse" /\ drv = <<>> /\ assigns = <<>> /\ flops = {} /\ auto = <<>>
      /\ inputs = <<>> /\ cuts = <<>> /\ stack = <<>> /\ want = None /\ ret = 0 /\ out_idx = <<>>
  BY DEF Init
<1>2. DOMAIN drv = {}
  BY <1>1
<1>3. assigns \in Seq(Nets \X Nets) /\ auto \in Seq(flops) /\ cuts \in Seq(DOMAIN drv) /\ inputs \in Seq(Nets)
  BY <1>1
<1>4. Elaborated
  BY <1>1, <1>2, <1>3 DEF Elaborated
<1> QED BY <1>1, <1>4 DEF WalkInv

\* The gates of the inputs are what the inputs carry.
LEMMA BindInputsWalks ==
  ASSUME WalkInv, bind_inputs
  PROVE  WalkInv'
<1>1. CASE \E reason : Refuse(reason)
  BY <1>1, Refused
<1>2. ASSUME phase = "inputs", phase' = "build", UNCHANGED <<front, stack, want, ret, out_idx>>,
             gates' = [k \in DOMAIN inputs |-> [op |-> "inp", args |-> <<k>>]],
             idx' = [n \in ToSet(inputs) |-> CHOOSE k \in DOMAIN inputs : inputs[k] = n]
      PROVE  WalkInv'
  <2> DEFINE N == Len(inputs)
             g(k) == [op |-> "inp", args |-> <<k>>]
             gs == [k \in 1..N |-> g(k)]
             I == [n \in ToSet(inputs) |-> CHOOSE k \in 1..N : inputs[k] = n]
  <2>1. Elaborated /\ stack = <<>> /\ want = None /\ ret = 0 /\ out_idx = <<>>
    BY <1>2 DEF WalkInv, Before
  <2>2. N \in Nat /\ DOMAIN inputs = 1..N /\ UNCHANGED front
    BY <1>2, <2>1 DEF Elaborated
  <2>3. gates' = gs /\ idx' = I
    BY <1>2, <2>2
  <2>4. \A n \in DOMAIN I : I[n] \in 1..N /\ inputs[I[n]] = n
    <3> SUFFICES ASSUME NEW n \in ToSet(inputs) PROVE I[n] \in 1..N /\ inputs[I[n]] = n
      OBVIOUS
    <3>1. \E k \in 1..N : inputs[k] = n
      BY <2>2 DEF ToSet
    <3>2. I[n] = CHOOSE k \in 1..N : inputs[k] = n
      OBVIOUS
    <3> HIDE DEF I, N
    <3> QED BY <3>1, <3>2
  <2>5. DOMAIN I = ToSet(inputs)
    OBVIOUS
  <2>6. \A k \in 1..N : gs[k] = g(k) /\ g(k).op = "inp" /\ g(k).args[1] = k
    OBVIOUS
  <2>7. gs \in Seq(ToSet(gs)) /\ Len(gs) = N /\ DOMAIN gs = 1..N
    <3> DEFINE U == {g(k) : k \in 1..N}
    <3>1. gs \in [1..N -> U]
      OBVIOUS
    <3> HIDE DEF gs, U, N
    <3>2. gs \in Seq(U) /\ Len(gs) = N
      BY <2>2, <3>1
    <3> QED BY <3>2, Membered
  <2> HIDE DEF N, g, gs, I
  <2>8. Shape(Len(gs), I, <<>>, <<>>, None, 0)
    <3>1. <<>> \in Seq(1..N) /\ Len(<<>>) = 0 /\ DOMAIN <<>> = {} /\ <<>> \in Seq(ToSet(<<>>))
      OBVIOUS
    <3>2. Roots \in Nat
      BY <2>1, RootsAre
    <3>3. Len(<<>>) <= Roots
      BY <3>1, <3>2
    <3> QED BY <2>4, <2>5, <2>7, <3>1, <3>3 DEF Shape
  <2>9. ASSUME NEW v, NEW w, Evaluates(v, w, gs)
        PROVE  Honest(v, w, I, <<>>, <<>>, None, 0)
    <3>1. ASSUME NEW n \in DOMAIN I PROVE w[I[n]] = v.net[n]
      <4> DEFINE k == I[n]
      <4>1. k \in 1..N /\ inputs[k] = n
        BY <2>4
      <4>2. GateHolds(v, w, gs, k)
        BY <2>7, <2>9, <4>1 DEF Evaluates
      <4> HIDE DEF k
      <4>3. gs[k].op = "inp" /\ gs[k].args[1] = k
        BY <2>6, <4>1
      <4>4. w[k] = v.net[inputs[k]]
        BY <4>2, <4>3 DEF GateHolds
      <4> QED BY <4>1, <4>4 DEF k
    <3>2. DOMAIN <<>> = {}
      OBVIOUS
    <3> QED BY <3>1, <3>2 DEF Honest
  <2>10. Sound(gs, I, <<>>, <<>>, None, 0)
    BY <2>7, <2>8, <2>9 DEF Sound
  <2>11. SoundNow'
    <3>1. out_idx' = <<>> /\ stack' = <<>> /\ want' = None /\ ret' = 0
      BY <1>2, <2>1
    <3>2. Sound(gates', idx', out_idx', stack', want', ret')
      BY <2>3, <2>10, <3>1
    <3> QED BY <2>2, <3>2, SoundNext
  <2>12. Elaborated'
    BY <1>2, <2>1, <2>2, ElaboratedStays DEF Untreated
  <2> QED BY <1>2, <2>11, <2>12 DEF WalkInv, Before, Untreated
<1> QED BY <1>1, <1>2 DEF bind_inputs

\* Every step of the walk keeps it sound.
LEMMA WalkWalks ==
  ASSUME WalkInv, Walk
  PROVE  WalkInv'
<1>1. CASE \E reason : Refuse(reason)
  BY <1>1, Refused
<1>2. ASSUME phase = "build", phase' = "build", UNCHANGED front, Elaborated /\ SoundNow => SoundThen
      PROVE  WalkInv'
  <2>1. Elaborated /\ SoundNow
    BY <1>2 DEF WalkInv
  <2>2. SoundNow'
    BY <1>2, <2>1, SoundNext DEF SoundThen
  <2>3. Elaborated'
    BY <1>2, <2>1, ElaboratedStays DEF Untreated
  <2> QED BY <1>2, <2>2, <2>3 DEF WalkInv, Before, Untreated
<1>3. CASE AskRoot
  BY <1>2, <1>3, AskRootWalks DEF AskRoot, Building
<1>4. CASE TakeRoot
  BY <1>2, <1>4, TakeRootWalks DEF TakeRoot, Building
<1>5. CASE NetBound
  BY <1>2, <1>5, NetBoundWalks DEF NetBound, Asking, Building
<1>6. CASE NetFixed
  BY <1>2, <1>6, NetFixedWalks DEF NetFixed, Asking, Building
<1>7. CASE NetAlias
  BY <1>2, <1>7, NetAliasWalks DEF NetAlias, Asking, Building
<1>8. CASE NetDriven
  BY <1>2, <1>8, NetDrivenWalks DEF NetDriven, Asking, Building
<1>9. CASE NetRefused
  BY <1>1, <1>9 DEF NetRefused
<1>10. CASE Operand
  BY <1>2, <1>10, OperandWalks DEF Operand, AtLine, Running, Building
<1>11. CASE OperandMissing
  BY <1>1, <1>11 DEF OperandMissing
<1>12. CASE TakeOperand
  BY <1>2, <1>12, TakeOperandWalks DEF TakeOperand, Building
<1>13. CASE EmitLine
  BY <1>2, <1>13, EmitLineWalks DEF EmitLine, AtLine, Running, Building
<1>14. CASE Return
  BY <1>2, <1>14, ReturnWalks DEF Return, Running, Building
<1> QED BY <1>3, <1>4, <1>5, <1>6, <1>7, <1>8, <1>9, <1>10, <1>11, <1>12, <1>13, <1>14 DEF Walk

\* Every step of a run keeps the invariant.
LEMMA NextWalk == WalkInv /\ [Next]_vars => WalkInv'
<1> SUFFICES ASSUME WalkInv, [Next]_vars PROVE WalkInv'
  OBVIOUS
<1>1. ASSUME UNCHANGED <<front, walk>>, phase' = phase \/ (phase' = "conserve" /\ phase = "build")
                                                     \/ phase' \in {"readback", "done"}
      PROVE  WalkInv'
  <2>1. Elaborated'
    BY <1>1, ElaboratedStays DEF WalkInv, Untreated
  <2>2. UNCHANGED front /\ stack' = stack /\ want' = want /\ ret' = ret /\ out_idx' = out_idx
        /\ gates' = gates /\ idx' = idx
    BY <1>1 DEF walk
  <2>3. phase' \in {"build", "conserve"} => SoundNow'
    <3> SUFFICES ASSUME phase' \in {"build", "conserve"} PROVE SoundNow'
      OBVIOUS
    <3>1. SoundNow
      BY <1>1 DEF WalkInv
    <3>2. Sound(gates', idx', out_idx', stack', want', ret')
      BY <2>2, <3>1 DEF SoundNow
    <3> QED BY <2>2, <3>2, SoundNext
  <2>4. phase' \in Before => phase \in Before
    BY <1>1 DEF Before, Untreated
  <2> QED BY <2>1, <2>2, <2>3, <2>4 DEF WalkInv
<1>2. CASE Elaborate
  <2>1. Elaborated' /\ phase' # "build" /\ phase' # "conserve" /\ UNCHANGED walk
    BY <1>2, ElaborateBuilds DEF WalkInv
  <2>2. phase \in Before
    BY <1>2 DEF Elaborate, parse, CV1, CV3, CV2, find_flops, check_clock_domain, check_pinned_reset,
                treatment, cut_points, Before, Untreated
  <2> QED BY <2>1, <2>2 DEF WalkInv, walk
<1>3. CASE bind_inputs
  BY <1>3, BindInputsWalks
<1>4. CASE Walk
  BY <1>4, WalkWalks
<1>5. CASE Write
  BY <1>1, <1>5 DEF Write
<1>6. CASE Conserve
  <2>1. CASE Refuse("conservation")
    BY <2>1, Refused
  <2>2. CASE GoTo("readback") /\ UNCHANGED front
    BY <1>1, <2>2 DEF GoTo
  <2> QED BY <1>6, <2>1, <2>2 DEF Conserve
<1>7. CASE Readback
  <2>1. CASE \E reason : Refuse(reason)
    BY <2>1, Refused
  <2>2. CASE GoTo("done") /\ UNCHANGED front
    BY <1>1, <2>2 DEF GoTo
  <2> QED BY <1>7, <2>1, <2>2 DEF Readback
<1>8. CASE UNCHANGED vars
  BY <1>1, <1>8 DEF vars
<1> QED BY <1>2, <1>3, <1>4, <1>5, <1>6, <1>7, <1>8 DEF Next, Import, Done
-----------------------------------------------------------------------------
(* The gates evaluated in their order, each reading earlier ones. *)

\* A function that takes one step at a time exists, as long as the steps do.
Iterates(f, X, a, N, s) ==
  f \in [0..N -> X] /\ f[0] = a /\ \A i \in 1..N : f[i] = s[<<i, f[i - 1]>>]
LEMMA Iterated ==
  ASSUME NEW X, NEW a \in X, NEW N \in Nat, NEW s, s \in [(1..N) \X X -> X]
  PROVE  \E f : Iterates(f, X, a, N, s)
<1> DEFINE Steps(f, n) == f \in [0..n -> X] /\ f[0] = a /\ \A i \in 1..n : f[i] = s[<<i, f[i - 1]>>]
           T == {k \in Nat : k <= N /\ ~ \E f : Steps(f, k)}
<1> SUFFICES ASSUME T # {} PROVE FALSE
  <2>1. N \in Nat /\ N <= N
    OBVIOUS
  <2>2. SUFFICES T = {} => \E f : Steps(f, N)
    BY DEF Iterates
  <2> QED BY <2>1
<1>1. PICK m \in T : \A y \in T : m <= y
  <2>1. T \in SUBSET Nat
    OBVIOUS
  <2> HIDE DEF T
  <2> QED BY <2>1, LeastOf
<1>2. m \in Nat /\ m <= N /\ ~ \E f : Steps(f, m)
  BY <1>1
<1>3. m # 0
  <2> SUFFICES ASSUME m = 0 PROVE FALSE
    OBVIOUS
  <2> DEFINE f == [k \in 0..0 |-> a]
  <2>1. Steps(f, 0)
    OBVIOUS
  <2> HIDE DEF Steps, f
  <2> QED BY <1>2, <2>1
<1>4. m - 1 \in Nat /\ m - 1 < m /\ m - 1 <= N /\ ~(m <= m - 1) /\ m \in 1..N
  BY <1>2, <1>3
<1>5. PICK f : Steps(f, m - 1)
  <2>1. m - 1 \notin T
    <3> HIDE DEF T
    <3> QED BY <1>1, <1>4
  <2> HIDE DEF Steps
  <2> QED BY <1>4, <2>1
<1> DEFINE e == s[<<m, f[m - 1]>>]
           g == [k \in 0..m |-> IF k = m THEN e ELSE f[k]]
<1>6. f[m - 1] \in X /\ e \in X
  <2>1. m - 1 \in 0..(m - 1)
    BY <1>4
  <2>2. f[m - 1] \in X
    BY <1>5, <2>1
  <2>3. <<m, f[m - 1]>> \in (1..N) \X X
    BY <1>4, <2>2
  <2> QED BY <2>2, <2>3
<1>7. \A k \in 0..m : k # m => k \in 0..(m - 1)
  BY <1>4
<1>8. g \in [0..m -> X]
  <2>1. \A k \in 0..m : (IF k = m THEN e ELSE f[k]) \in X
    <3> HIDE DEF e
    <3> QED BY <1>5, <1>6, <1>7
  <2> HIDE DEF e
  <2> QED BY <2>1
<1>9. g[0] = a
  <2>1. 0 \in 0..m /\ 0 # m
    BY <1>4
  <2> QED BY <1>5, <2>1
<1>10. ASSUME NEW i \in 1..m PROVE g[i] = s[<<i, g[i - 1]>>]
  <2>1. i \in 0..m /\ i - 1 \in 0..m /\ i - 1 # m
    BY <1>4
  <2>2. g[i - 1] = f[i - 1]
    BY <2>1
  <2>3. CASE i = m
    BY <2>1, <2>2, <2>3
  <2>4. CASE i # m
    <3>1. i \in 1..(m - 1)
      BY <1>4, <2>4
    <3>2. g[i] = f[i] /\ f[i] = s[<<i, f[i - 1]>>]
      BY <1>5, <2>1, <2>4, <3>1
    <3> QED BY <2>2, <3>2
  <2> QED BY <2>3, <2>4
<1>11. Steps(g, m)
  <2> HIDE DEF g
  <2> QED BY <1>8, <1>9, <1>10
<1> QED
  <2> HIDE DEF Steps, g
  <2> QED BY <1>2, <1>11

\* The gates that are high, one after the other.
HighsOf(h, gs, vec) ==
  /\ h[0] = {} /\ \A i \in 1..Len(gs) : h[i] = Raised(gs, vec, i, h[i - 1])
  /\ GateValues(gs, vec) = [i \in DOMAIN gs |-> i \in h[Len(gs)]]
LEMMA HighIs ==
  ASSUME NEW gs, NEW vec, Len(gs) \in Nat
  PROVE  \E h : HighsOf(h, gs, vec)
<1> DEFINE N == Len(gs)
           X == SUBSET (1..N)
           Up(f, i) == IF i = 0 THEN {} ELSE Raised(gs, vec, i, f[i - 1])
           s == [p \in (1..N) \X X |-> Raised(gs, vec, p[1], p[2])]
           c == CHOOSE f : f = [i \in 0..N |-> Up(f, i)]
<1>1. N \in Nat
  OBVIOUS
<1>2. s \in [(1..N) \X X -> X]
  <2>1. \A i \in 1..N, h \in X : Raised(gs, vec, i, h) = h \/ Raised(gs, vec, i, h) = h \cup {i}
    BY DEF Raised
  <2>2. ASSUME NEW i \in 1..N, NEW h \in X PROVE Raised(gs, vec, i, h) \in X
    <3>1. h \in X /\ h \cup {i} \in X
      <4> HIDE DEF N
      <4> QED OBVIOUS
    <3> HIDE DEF X, N
    <3> QED BY <2>1, <3>1
  <2> HIDE DEF X
  <2> QED BY <2>2
<1>3. PICK f : Iterates(f, X, {}, N, s)
  <2>1. {} \in X
    OBVIOUS
  <2> HIDE DEF X, s, N
  <2> QED BY <1>1, <1>2, <2>1, Iterated
<1>a. f \in [0..N -> X] /\ f[0] = {} /\ \A i \in 1..N : f[i] = s[<<i, f[i - 1]>>]
  <2> HIDE DEF X, s, N
  <2> QED BY <1>3 DEF Iterates
<1>4. \A i \in 0..N : f[i] = Up(f, i)
  <2> SUFFICES ASSUME NEW i \in 0..N, i # 0 PROVE f[i] = Raised(gs, vec, i, f[i - 1])
    BY <1>a
  <2>1. i \in 1..N /\ i - 1 \in 0..N
    BY <1>1
  <2>2. f[i - 1] \in X
    BY <1>a, <2>1
  <2>3. f[i] = s[<<i, f[i - 1]>>]
    BY <1>a, <2>1
  <2>4. <<i, f[i - 1]>> \in (1..N) \X X
    BY <2>1, <2>2
  <2> HIDE DEF X, N
  <2> QED BY <2>3, <2>4
<1>5. f = [i \in 0..N |-> Up(f, i)]
  <2>1. f = [i \in 0..N |-> f[i]]
    BY <1>a
  <2> HIDE DEF Up, N, X
  <2> QED BY <1>4, <2>1
<1>6. c = [i \in 0..N |-> Up(c, i)]
  <2> HIDE DEF Up, N
  <2> QED BY <1>5
<1>7. GateValues(gs, vec) = [i \in DOMAIN gs |-> i \in c[N]]
  BY DEF GateValues
<1>8. \A i \in 0..N : c[i] = Up(c, i)
  <2> HIDE DEF c, Up
  <2> QED BY <1>6
<1>9. c[0] = {} /\ \A i \in 1..N : c[i] = Raised(gs, vec, i, c[i - 1])
  <2>1. 0 \in 0..N /\ \A i \in 1..N : i \in 0..N /\ i # 0
    BY <1>1
  <2> HIDE DEF c, N
  <2> QED BY <1>8, <2>1
<1> HIDE DEF c
<1>10. HighsOf(c, gs, vec)
  BY <1>7, <1>9 DEF HighsOf
<1> QED BY <1>10

\* What is high stays high, and only the next gate is added.
LEMMA HighStays ==
  ASSUME NEW N \in Nat, NEW h, h[0] = {},
         \A i \in 1..N : h[i] = h[i - 1] \/ h[i] = h[i - 1] \cup {i}
  PROVE  \A i \in 0..N : \A j : j \in h[i] <=> j \in 1..i /\ j \in h[j]
<1> DEFINE P(i) == \A j : j \in h[i] <=> j \in 1..i /\ j \in h[j]
           T == {k \in Nat : k <= N /\ ~P(k)}
<1> SUFFICES ASSUME T # {} PROVE FALSE
  <2>1. \A i \in 0..N : i \in Nat /\ i <= N
    OBVIOUS
  <2> SUFFICES T = {} => \A i \in 0..N : P(i)
    OBVIOUS
  <2> HIDE DEF P
  <2> QED BY <2>1
<1>1. PICK m \in T : \A y \in T : m <= y
  <2>1. T \in SUBSET Nat
    OBVIOUS
  <2> HIDE DEF T
  <2> QED BY <2>1, LeastOf
<1>2. m \in Nat /\ m <= N /\ ~P(m)
  BY <1>1
<1>3. m # 0
  <2>1. P(0)
    OBVIOUS
  <2> HIDE DEF P
  <2> QED BY <1>2, <2>1
<1>4. m - 1 \in Nat /\ m - 1 <= N /\ ~(m <= m - 1) /\ m \in 1..N
  BY <1>2, <1>3
<1>5. P(m - 1)
  <2>1. m - 1 \notin T
    <3> HIDE DEF T
    <3> QED BY <1>1, <1>4
  <2> HIDE DEF P
  <2> QED BY <1>4, <2>1
<1>6. h[m] = h[m - 1] \/ h[m] = h[m - 1] \cup {m}
  BY <1>4
<1>7. \A j : j \in 1..m <=> j \in 1..(m - 1) \/ j = m
  BY <1>4
<1>8. ASSUME NEW j PROVE j \in h[m] <=> j \in 1..m /\ j \in h[j]
  <2>1. CASE j = m
    BY <1>7, <2>1
  <2>2. CASE j # m
    <3>1. j \in h[m] <=> j \in h[m - 1]
      BY <1>6, <2>2
    <3> QED BY <1>5, <1>7, <2>2, <3>1
  <2> QED BY <2>1, <2>2
<1> QED BY <1>2, <1>8

\* A list of gates, each with as many operands as it needs, all of them before it.
Wires(g, i) ==
  \/ g.op = "inp" /\ g.args[1] \in DOMAIN inputs
  \/ g.op = "const" /\ g.args[1] \in BOOLEAN
  \/ g.op = "not" /\ g.args[1] \in 1..(i - 1)
  \/ /\ g.op \in {"and", "or", "xor"} /\ Len(g.args) = 2
     /\ g.args[1] \in 1..(i - 1) /\ g.args[2] \in 1..(i - 1)
Wired(gs) == \A i \in DOMAIN gs : Wires(gs[i], i)

\* The values of such a list satisfy its gates.
LEMMA GatesEvaluate ==
  ASSUME NEW gs, gs \in Seq(ToSet(gs)), Wired(gs), NEW vec \in Vectors,
         NEW v, \A k \in DOMAIN inputs : v.net[inputs[k]] = vec[k]
  PROVE  Evaluates(v, GateValues(gs, vec), gs)
<1> DEFINE N == Len(gs)
           w == GateValues(gs, vec)
<1>1. N \in Nat /\ DOMAIN gs = 1..N
  BY Membered
<1>a. Len(gs) \in Nat
  BY <1>1
<1> HIDE DEF w, N
<1>b. PICK h : HighsOf(h, gs, vec)
  BY <1>a, HighIs
<1>2. /\ h[0] = {} /\ \A i \in 1..N : h[i] = Raised(gs, vec, i, h[i - 1])
      /\ w = [i \in DOMAIN gs |-> i \in h[N]]
  BY <1>b DEF HighsOf, N, w
<1>3. \A i \in 0..N : \A j : j \in h[i] <=> j \in 1..i /\ j \in h[j]
  <2>1. \A i \in 1..N : h[i] = h[i - 1] \/ h[i] = h[i - 1] \cup {i}
    BY <1>2 DEF Raised
  <2> QED BY <1>1, <1>2, <2>1, HighStays
<1>4. \A i \in 1..N : w[i] = (i \in h[i])
  <2>1. N \in 0..N
    BY <1>1
  <2>2. \A i \in 1..N : w[i] = (i \in h[N])
    BY <1>1, <1>2
  <2>3. \A i \in 1..N : i \in h[N] <=> i \in h[i]
    BY <1>3, <2>1
  <2> QED BY <2>2, <2>3
<1>5. ASSUME NEW i \in 1..N PROVE GateHolds(v, w, gs, i)
  <2> DEFINE g == gs[i]
             b == h[i - 1]
             x == g.args[1]
             y == g.args[2]
  <2>1. i - 1 \in 0..N /\ i \in 1..N /\ i \notin 1..(i - 1) /\ \A j \in 1..(i - 1) : j \in 1..N
    BY <1>1
  <2>2. \A j \in 1..(i - 1) : j \in b <=> w[j]
    BY <1>3, <1>4, <2>1
  <2>3. i \notin b
    BY <1>3, <2>1
  <2>4. h[i] = Raised(gs, vec, i, b)
    BY <1>2
  <2>a. w[i] = (i \in h[i])
    BY <1>4
  <2>b. \/ g.op = "inp" /\ x \in DOMAIN inputs
        \/ g.op = "const" /\ x \in BOOLEAN
        \/ g.op = "not" /\ x \in 1..(i - 1)
        \/ g.op \in {"and", "or", "xor"} /\ Len(g.args) = 2 /\ x \in 1..(i - 1) /\ y \in 1..(i - 1)
    BY <1>1 DEF Wired, Wires
  <2>c. h[i] = LET z == g.args[Len(g.args)] IN
               IF CASE g.op = "inp"   -> vec[x]
                    [] g.op = "const" -> x
                    [] g.op = "not"   -> x \notin b
                    [] g.op = "and"   -> x \in b /\ z \in b
                    [] g.op = "or"    -> x \in b \/ z \in b
                    [] g.op = "xor"   -> (x \in b) # (z \in b)
               THEN b \cup {i} ELSE b
    BY <2>4 DEF Raised
  <2>d. ASSUME NEW j \in 1..(i - 1) PROVE w[j] \in BOOLEAN
    <3>1. w[j] = (j \in h[j])
      BY <1>4, <2>1
    <3>2. (j \in h[j]) \in BOOLEAN
      OBVIOUS
    <3> QED BY <3>1, <3>2
  <2> HIDE DEF b
  <2>5. CASE g.op = "inp" /\ x \in DOMAIN inputs
    <3>1. vec[x] \in BOOLEAN /\ v.net[inputs[x]] = vec[x]
      BY <2>5 DEF Vectors
    <3>2. h[i] = IF vec[x] THEN b \cup {i} ELSE b
      BY <2>5, <2>c
    <3>3. w[i] = vec[x]
      BY <2>3, <2>a, <3>1, <3>2
    <3> QED BY <2>5, <3>1, <3>3 DEF GateHolds
  <2>6. CASE g.op = "const" /\ x \in BOOLEAN
    <3>2. h[i] = IF x THEN b \cup {i} ELSE b
      BY <2>6, <2>c
    <3>3. w[i] = x
      BY <2>3, <2>6, <2>a, <3>2
    <3> QED BY <2>6, <3>3 DEF GateHolds
  <2>7. CASE g.op = "not" /\ x \in 1..(i - 1)
    <3>2. h[i] = IF x \notin b THEN b \cup {i} ELSE b
      BY <2>7, <2>c
    <3>3. w[i] = ~w[x]
      BY <2>2, <2>3, <2>7, <2>a, <2>d, <3>2
    <3> QED BY <2>7, <3>3 DEF GateHolds
  <2>8. CASE g.op \in {"and", "or", "xor"} /\ Len(g.args) = 2 /\ x \in 1..(i - 1) /\ y \in 1..(i - 1)
    <3>1. (x \in b <=> w[x]) /\ (y \in b <=> w[y]) /\ w[x] \in BOOLEAN /\ w[y] \in BOOLEAN
      BY <2>2, <2>8, <2>d
    <3>2. /\ g.op = "and" => h[i] = IF x \in b /\ y \in b THEN b \cup {i} ELSE b
          /\ g.op = "or"  => h[i] = IF x \in b \/ y \in b THEN b \cup {i} ELSE b
          /\ g.op = "xor" => h[i] = IF (x \in b) # (y \in b) THEN b \cup {i} ELSE b
      BY <2>8, <2>c
    <3> HIDE DEF x, y
    <3>3. /\ g.op = "and" => w[i] = (w[x] /\ w[y])
          /\ g.op = "or"  => w[i] = (w[x] \/ w[y])
          /\ g.op = "xor" => w[i] = (w[x] # w[y])
      BY <2>3, <2>a, <3>1, <3>2
    <3> QED BY <2>8, <3>3 DEF GateHolds, x, y
  <2> QED BY <2>5, <2>6, <2>7, <2>8, <2>b
<1> QED BY <1>1, <1>5 DEF Evaluates, w

\* One more gate on the wires before it.
LEMMA WiredGrows ==
  ASSUME NEW gs, gs \in Seq(ToSet(gs)), Wired(gs), NEW g, Wires(g, Len(gs) + 1)
  PROVE  Wired(Append(gs, g))
<1> DEFINE T == Append(gs, g)
           N == Len(gs)
<1>1. /\ N \in Nat /\ DOMAIN gs = 1..N /\ DOMAIN T = 1..(N + 1)
      /\ \A i \in 1..N : T[i] = gs[i]
      /\ T[N + 1] = g
  BY Pushed
<1> HIDE DEF T, N
<1>2. ASSUME NEW i \in DOMAIN T PROVE Wires(T[i], i)
  <2>1. i \in 1..N \/ i = N + 1
    BY <1>1
  <2>2. CASE i \in 1..N
    BY <1>1, <2>2 DEF Wired
  <2>3. CASE i = N + 1
    BY <1>1, <2>3 DEF N
  <2> QED BY <2>1, <2>2, <2>3
<1> QED BY <1>2 DEF Wired, T

\* The wiring of the gates is a matter of the inputs.
LEMMA WiredStays ==
  ASSUME inputs' = inputs
  PROVE  \A gs : Wired(gs)' = Wired(gs)
BY DEF Wired, Wires

\* The walk wires its gates to gates it has, a pinned net carries one level, and no
\* input is named twice.
WireInv ==
  /\ \A n \in DOMAIN pinned : pinned[n] \in BOOLEAN
  /\ phase \in {"build", "conserve"} =>
       Wired(gates) /\ \A j, k \in DOMAIN inputs : inputs[j] = inputs[k] => j = k

LEMMA InitWire == Init => WireInv
<1> SUFFICES ASSUME Init PROVE WireInv
  OBVIOUS
<1>1. pinned = <<>> /\ phase = "parse"
  BY DEF Init
<1>2. DOMAIN pinned = {}
  BY <1>1
<1> QED BY <1>1, <1>2 DEF WireInv

\* A step that adds no gate keeps the wiring.
LEMMA WireStays ==
  ASSUME WireInv, UNCHANGED front,
         phase' \in {"build", "conserve"} => phase \in {"build", "conserve"} /\ gates' = gates
  PROVE  WireInv'
<1>1. inputs' = inputs /\ pinned' = pinned
  BY DEF front
<1>2. phase' \in {"build", "conserve"} => Wired(gates)'
  <2> SUFFICES ASSUME phase' \in {"build", "conserve"} PROVE Wired(gates)'
    OBVIOUS
  <2>1. Wired(gates) /\ gates' = gates
    BY DEF WireInv
  <2>2. PICK gs : gs = gates
    OBVIOUS
  <2>3. Wired(gs)'
    BY <1>1, <2>1, <2>2, WiredStays
  <2> QED BY <2>1, <2>2, <2>3
<1> QED BY <1>1, <1>2 DEF WireInv

\* A step that adds a gate keeps it if the gate is wired.
LEMMA WireAdds ==
  ASSUME WireInv, gates \in Seq(ToSet(gates)), UNCHANGED front, phase = "build", phase' = "build",
         NEW g, Wires(g, Len(gates) + 1), gates' = Append(gates, g)
  PROVE  WireInv'
<1>1. inputs' = inputs /\ pinned' = pinned
  BY DEF front
<1>2. Wired(Append(gates, g))
  BY WiredGrows DEF WireInv
<1>3. PICK gs : gs = Append(gates, g)
  OBVIOUS
<1>4. Wired(gs)' /\ gs = gates'
  BY <1>1, <1>2, <1>3, WiredStays
<1> QED BY <1>1, <1>4 DEF WireInv

\* A constant net is at a level.
LEMMA NetFixedWires ==
  ASSUME WalkInv, WireInv, NetFixed
  PROVE  WireInv'
<1> DEFINE g == [op |-> "const", args |-> <<Level(want)>>]
<1>1. /\ gates' = Append(gates, g) /\ UNCHANGED front /\ phase = "build" /\ phase' = "build"
  BY DEF NetFixed, Emit, Asking, Building
<1>2. gates \in Seq(ToSet(gates))
  BY <1>1, WalkIs DEF WalkInv
<1>3. Level(want) \in BOOLEAN
  BY DEF Level, WireInv
<1>4. g.op = "const" /\ g.args[1] = Level(want)
  OBVIOUS
<1>5. Wires(g, Len(gates) + 1)
  <2> HIDE DEF g
  <2> QED BY <1>3, <1>4 DEF Wires
<1> HIDE DEF g
<1> QED BY <1>1, <1>2, <1>5, WireAdds

\* The operands of a line are gates the walk has.
LEMMA EmitLineWires ==
  ASSUME WalkInv, WireInv, EmitLine
  PROVE  WireInv'
<1> DEFINE f == Top
           l == f.ops[f.pc]
           as == f.args
           A == 1..Len(gates)
           N == Len(gates) + 1
           g == [op |-> l.op, args |-> IF l.op = "const" THEN <<l.a>> ELSE as]
<1>1. /\ want = None /\ ret = 0 /\ stack # <<>> /\ f.pc <= Len(f.ops) /\ Len(as) = Len(Operands(l))
      /\ UNCHANGED front /\ phase = "build" /\ phase' = "build"
      /\ \/ gates' = gates
         \/ l.op # "buf" /\ gates' = Append(gates, g)
  BY DEF EmitLine, AtLine, Running, Emit, Building
<1>a. Elaborated /\ SoundNow
  BY <1>1 DEF WalkInv
<1>2. Calls(f, Len(gates)) /\ Program(f.ops)
  BY <1>1, <1>a, TopCall
<1>3. l.op \in Ops /\ (l.op = "const" => l.a \in BOOLEAN)
  <2>1. f.pc \in 1..(Len(f.ops) + 1) /\ Len(f.ops) \in Nat /\ DOMAIN f.ops = 1..Len(f.ops)
    BY <1>2 DEF Calls, Program
  <2>2. f.pc \in DOMAIN f.ops
    <3> HIDE DEF f
    <3> QED BY <1>1, <2>1
  <2> QED BY <1>2, <2>2 DEF Program
<1>4. as \in Seq(A) /\ Len(gates) \in Nat /\ gates \in Seq(ToSet(gates))
  BY <1>2, <1>a, WalkIs DEF Calls
<1>5. Len(as) \in Nat /\ DOMAIN as = 1..Len(as) /\ \A i \in DOMAIN as : as[i] \in A
  <2>1. as \in Seq(A)
    BY <1>4
  <2> HIDE DEF as, A
  <2> QED BY <2>1, SeqsAre
<1>6. N - 1 = Len(gates)
  BY <1>4
<1>7. g.op = l.op /\ g.args = IF l.op = "const" THEN <<l.a>> ELSE as
  OBVIOUS
<1>8. CASE gates' = gates
  BY <1>1, <1>8, WireStays
<1>b. Len(as) = Len(Operands(l))
  BY <1>1
<1> HIDE DEF g, as, l
<1>9. CASE l.op # "buf" /\ gates' = Append(gates, g)
  <2>1. Wires(g, N)
    <3>1. CASE l.op = "const"
      BY <1>3, <1>7, <3>1 DEF Wires
    <3>2. CASE l.op = "not"
      <4>1. Len(as) = 1
        BY <1>b, <3>2, OperandsAre
      <4>2. 1 \in DOMAIN as
        BY <1>5, <4>1
      <4>3. as[1] \in 1..(N - 1)
        BY <1>5, <1>6, <4>2
      <4> HIDE DEF N
      <4> QED BY <1>7, <3>2, <4>3 DEF Wires
    <3>3. CASE l.op \in {"and", "or", "xor"}
      <4>1. Len(as) = 2
        BY <1>b, <3>3, OperandsAre
      <4>2. 1 \in DOMAIN as /\ 2 \in DOMAIN as
        BY <1>5, <4>1
      <4>3. as[1] \in 1..(N - 1) /\ as[2] \in 1..(N - 1)
        BY <1>5, <1>6, <4>2
      <4> HIDE DEF N
      <4> QED BY <1>7, <3>3, <4>1, <4>3 DEF Wires
    <3> QED BY <1>3, <1>9, <3>1, <3>2, <3>3 DEF Ops
  <2> QED BY <1>1, <1>4, <1>9, <2>1, WireAdds
<1> QED BY <1>1, <1>8, <1>9

\* The level at which a reset is inactive is one.
LEMMA ResetIs ==
  ASSUME NEW k \in Modelled, Gated(k)
  PROVE  Flop(k).reset[2] \in BOOLEAN
<1> DEFINE c == Inst(k).cell
<1>1. c \in DOMAIN SEQ_MODELS /\ Flop(k) = SEQ_MODELS[c]
  BY DEF Modelled, Flop
<1> HIDE DEF c
<1>2. c \in {"dfxtp", "edfxtp", "dfrtp"}
  BY <1>1 DEF SEQ_MODELS
<1>3. SEQ_MODELS["dfxtp"].reset = None /\ SEQ_MODELS["edfxtp"].reset = None
  BY DEF SEQ_MODELS
<1>4. SEQ_MODELS["dfrtp"].reset = <<"RESET_B", TRUE>>
  BY DEF SEQ_MODELS
<1>5. <<"RESET_B", TRUE>>[2] = TRUE
  OBVIOUS
<1>6. c = "dfrtp"
  BY <1>1, <1>2, <1>3 DEF Gated
<1>7. Flop(k).reset[2] = TRUE
  BY <1>1, <1>4, <1>5, <1>6
<1> QED BY <1>7

\* The elaboration binds the pinned net alone.
LEMMA ElaborateWires ==
  ASSUME WalkInv, WireInv, Elaborate
  PROVE  WireInv'
<1>1. phase' \notin {"build", "conserve"}
  BY ElaborateBuilds DEF WalkInv
<1>2. ASSUME pinned' = pinned PROVE WireInv'
  BY <1>1, <1>2 DEF WireInv
<1>3. ASSUME NEW reason, Refuse(reason) PROVE WireInv'
  BY <1>2, <1>3 DEF Refuse, front
<1>4. CASE check_pinned_reset
  <2>1. CASE Refuse("pinned reset")
    BY <1>3, <2>1
  <2> DEFINE S == {Flop(k).reset[2] : k \in {j \in flops : Gated(j)}}
  <2>2. CASE PinnedOK /\ pinned' = [n \in {src.pin} |-> CHOOSE b \in S : TRUE]
    <3>1. S # {}
      BY <2>2 DEF PinnedOK
    <3>2. \A b \in S : b \in BOOLEAN
      BY ResetIs DEF WalkInv, Elaborated
    <3> HIDE DEF S
    <3>3. (CHOOSE b \in S : TRUE) \in BOOLEAN
      BY <3>1, <3>2
    <3>4. \A n \in DOMAIN pinned' : pinned'[n] \in BOOLEAN
      BY <2>2, <3>3
    <3> QED BY <1>1, <3>4 DEF WireInv
  <2> QED BY <1>4, <2>1, <2>2 DEF check_pinned_reset
<1>5. CASE parse
  BY <1>2, <1>3, <1>5 DEF parse
<1>6. CASE CV1 \/ CV3 \/ CV2
  BY <1>2, <1>3, <1>6 DEF CV1, CV3, CV2, front
<1>7. CASE find_flops
  BY <1>2, <1>3, <1>7 DEF find_flops
<1>8. CASE check_clock_domain
  BY <1>2, <1>3, <1>8 DEF check_clock_domain
<1>9. CASE treatment
  BY <1>2, <1>3, <1>9 DEF treatment
<1>10. CASE cut_points
  BY <1>2, <1>3, <1>10 DEF cut_points
<1> QED BY <1>4, <1>5, <1>6, <1>7, <1>8, <1>9, <1>10 DEF Elaborate

\* The first gates are the inputs.
LEMMA BindInputsWires ==
  ASSUME WalkInv, WireInv, bind_inputs
  PROVE  WireInv'
<1>1. CASE \E reason : Refuse(reason)
  BY <1>1, WireStays DEF Refuse
<1>2. CASE /\ \A j, k \in DOMAIN inputs : inputs[j] = inputs[k] => j = k
           /\ gates' = [k \in DOMAIN inputs |-> [op |-> "inp", args |-> <<k>>]]
           /\ UNCHANGED front
  <2>1. inputs' = inputs /\ pinned' = pinned
    BY <1>2 DEF front
  <2> DEFINE g(k) == [op |-> "inp", args |-> <<k>>]
             gs == [k \in DOMAIN inputs |-> g(k)]
  <2>2. \A k \in DOMAIN inputs : gs[k] = g(k) /\ g(k).op = "inp" /\ g(k).args[1] = k
    OBVIOUS
  <2>3. DOMAIN gs = DOMAIN inputs /\ gates' = gs
    BY <1>2
  <2> HIDE DEF gs, g
  <2>4. Wired(gs)
    BY <2>2, <2>3 DEF Wired, Wires
  <2>5. PICK hs : hs = gs
    OBVIOUS
  <2>6. Wired(hs)' /\ hs = gates'
    BY <2>1, <2>3, <2>4, <2>5, WiredStays
  <2> QED BY <1>2, <2>1, <2>6 DEF WireInv
<1> QED BY <1>1, <1>2 DEF bind_inputs

\* Every step of a run keeps the wiring.
LEMMA NextWire == WalkInv /\ WireInv /\ [Next]_vars => WireInv'
<1> SUFFICES ASSUME WalkInv, WireInv, [Next]_vars PROVE WireInv'
  OBVIOUS
<1>1. ASSUME UNCHANGED front, gates' = gates, phase' \in {"build", "conserve"} => phase \in {"build", "conserve"}
      PROVE  WireInv'
  BY <1>1, WireStays
<1>2. ASSUME NEW reason, Refuse(reason) PROVE WireInv'
  BY <1>2, WireStays DEF Refuse
<1>3. CASE Elaborate
  BY <1>3, ElaborateWires
<1>4. CASE bind_inputs
  BY <1>4, BindInputsWires
<1>5. CASE AskRoot \/ TakeRoot \/ NetBound \/ NetAlias \/ NetDriven \/ Operand \/ TakeOperand \/ Return
  <2>1. UNCHANGED front /\ gates' = gates /\ phase = "build"
    BY <1>5 DEF AskRoot, TakeRoot, NetBound, NetAlias, NetDriven, Operand, TakeOperand, Return,
                AtLine, Running, Asking, Building
  <2> QED BY <1>1, <2>1
<1>6. CASE NetFixed
  BY <1>6, NetFixedWires
<1>7. CASE EmitLine
  BY <1>7, EmitLineWires
<1>8. CASE NetRefused \/ OperandMissing
  BY <1>2, <1>8 DEF NetRefused, OperandMissing
<1>9. CASE Write
  BY <1>1, <1>9 DEF Write, walk
<1>10. CASE Conserve
  BY <1>1, <1>2, <1>10 DEF Conserve, GoTo, walk
<1>11. CASE Readback
  BY <1>1, <1>2, <1>11 DEF Readback, GoTo, walk
<1>12. CASE UNCHANGED vars
  BY <1>1, <1>12 DEF vars, walk
<1> QED BY <1>3, <1>4, <1>5, <1>6, <1>7, <1>8, <1>9, <1>10, <1>11, <1>12 DEF Next, Import, Walk, Done
-----------------------------------------------------------------------------
(* The datum on disk, and the theorems. *)

\* A flattened list of sequences is one after the other.
LEMMA FlattenIs ==
  ASSUME NEW U, NEW S, Len(S) \in Nat \ {0}, \A i \in 1..Len(S) : S[i] \in Seq(U)
  PROVE  \E f : /\ f[1] = S[1] /\ \A i \in 2..Len(S) : f[i] = f[i - 1] \o S[i]
                /\ FlattenSeq(S) = f[Len(S)]
<1> DEFINE N == Len(S)
           M == N - 1
           X == Seq(U)
           Up(f, i) == IF i = 1 THEN S[i] ELSE f[i - 1] \o S[i]
           s == [p \in (1..M) \X X |-> p[2] \o S[p[1] + 1]]
           c == CHOOSE f : f = [i \in 1..N |-> Up(f, i)]
<1>1. N \in Nat /\ N # 0 /\ M \in Nat /\ S[1] \in X
  BY DEF X
<1>2. s \in [(1..M) \X X -> X]
  <2>1. \A i \in 1..M : i + 1 \in 1..Len(S)
    BY <1>1
  <2>2. \A i \in 1..M, h \in Seq(U) : h \o S[i + 1] \in Seq(U)
    <3> HIDE DEF M
    <3> QED BY <2>1
  <2> HIDE DEF M
  <2> QED BY <2>2
<1>3. PICK e : Iterates(e, X, S[1], M, s)
  <2> HIDE DEF X, s, M
  <2> QED BY <1>1, <1>2, Iterated
<1>4. e \in [0..M -> X] /\ e[0] = S[1] /\ \A i \in 1..M : e[i] = s[<<i, e[i - 1]>>]
  <2> HIDE DEF X, s, M
  <2> QED BY <1>3 DEF Iterates
<1>5. \A i \in 1..M : e[i] = e[i - 1] \o S[i + 1]
  <2> SUFFICES ASSUME NEW i \in 1..M PROVE e[i] = e[i - 1] \o S[i + 1]
    OBVIOUS
  <2>1. i - 1 \in 0..M
    BY <1>1
  <2> HIDE DEF X, M
  <2>2. e[i - 1] \in X /\ e[i] = s[<<i, e[i - 1]>>]
    BY <1>4, <2>1
  <2>3. <<i, e[i - 1]>> \in (1..M) \X X
    BY <2>2
  <2> QED BY <2>2, <2>3
<1> DEFINE f == [i \in 1..N |-> e[i - 1]]
<1>6. \A i \in 1..N : f[i] = Up(f, i)
  <2> SUFFICES ASSUME NEW i \in 1..N PROVE f[i] = Up(f, i)
    OBVIOUS
  <2>1. CASE i = 1
    <3>1. f[i] = e[0]
      BY <2>1
    <3> QED BY <1>4, <2>1, <3>1
  <2>2. CASE i # 1
    <3>1. i - 1 \in 1..M /\ i - 1 \in 1..N /\ (i - 1) + 1 = i
      BY <1>1, <2>2
    <3>2. f[i] = e[i - 1] /\ f[i - 1] = e[(i - 1) - 1]
      BY <3>1
    <3>3. e[i - 1] = e[(i - 1) - 1] \o S[i]
      <4> HIDE DEF M
      <4> QED BY <1>5, <3>1
    <3> QED BY <2>2, <3>2, <3>3
  <2> QED BY <2>1, <2>2
<1>7. f = [i \in 1..N |-> Up(f, i)]
  <2>1. f = [i \in 1..N |-> f[i]]
    OBVIOUS
  <2> HIDE DEF Up, N, f
  <2> QED BY <1>6, <2>1
<1>8. c = [i \in 1..N |-> Up(c, i)]
  <2> HIDE DEF Up, N, f
  <2> QED BY <1>7
<1>9. FlattenSeq(S) = c[N]
  BY <1>1 DEF FlattenSeq
<1>10. \A i \in 1..N : c[i] = Up(c, i)
  <2> HIDE DEF c, Up
  <2> QED BY <1>8
<1>11. c[1] = S[1] /\ \A i \in 2..N : c[i] = c[i - 1] \o S[i]
  <2>1. 1 \in 1..N /\ \A i \in 2..N : i \in 1..N /\ i # 1
    BY <1>1
  <2> HIDE DEF c, N
  <2> QED BY <1>10, <2>1
<1> HIDE DEF c
<1> QED BY <1>9, <1>11

\* The pieces cover the list: as many as its length needs, at most all of it.
LEMMA PiecesCover ==
  ASSUME NEW n \in Nat, n # 0
  PROVE  LET M == (n + Chunk - 1) \div Chunk
         IN  /\ M \in Nat \ {0} /\ n <= M * Chunk
             /\ \A c \in 1..M : (c - 1) * Chunk \in 0..n
<1> DEFINE M == (n + Chunk - 1) \div Chunk
           R == (n + Chunk - 1) % Chunk
<1>1. Chunk \in Nat /\ Chunk > 0
  BY ChunkAssumption
<1>2. n + Chunk - 1 \in Nat /\ n >= 1
  BY <1>1
<1>3. M \in Int /\ R \in 0..(Chunk - 1) /\ n + Chunk - 1 = Chunk * M + R
  BY <1>1, <1>2, Z3
<1> HIDE DEF M, R
<1>4. M \in Nat /\ M # 0
  <2> SUFFICES ASSUME M <= 0 PROVE FALSE
    BY <1>3
  <2>1. Chunk * M <= 0
    BY <1>1, <1>3, Z3
  <2> QED BY <1>1, <1>2, <1>3, <2>1
<1>5. Chunk * M = M * Chunk
  BY <1>1, <1>3, Z3
<1>6. M * Chunk \in Int
  BY <1>1, <1>3
<1>7. n <= M * Chunk
  <2>1. R <= Chunk - 1
    BY <1>1, <1>3
  <2> QED BY <1>1, <1>2, <1>3, <1>5, <1>6, <2>1
<1>8. ASSUME NEW c \in 1..M PROVE (c - 1) * Chunk \in 0..n
  <2>1. c - 1 \in Nat /\ c - 1 <= M - 1
    BY <1>4
  <2>2. (c - 1) * Chunk \in Int /\ (c - 1) * Chunk >= 0
    BY <1>1, <2>1, Z3
  <2>3. (c - 1) * Chunk <= (M - 1) * Chunk
    BY <1>1, <1>4, <2>1, Z3
  <2>4. (M - 1) * Chunk = M * Chunk - Chunk
    BY <1>1, <1>4, Z3
  <2>5. R >= 0 /\ M * Chunk - Chunk = n - 1 - R
    BY <1>1, <1>2, <1>3, <1>5, <1>6
  <2>6. M * Chunk - Chunk <= n
    BY <1>1, <1>2, <1>3, <1>6, <2>5
  <2> DEFINE p == (c - 1) * Chunk
             q == (M - 1) * Chunk
  <2>7. p \in Int /\ p >= 0 /\ p <= q /\ q = M * Chunk - Chunk
    BY <2>2, <2>3, <2>4
  <2> HIDE DEF p, q
  <2>8. p \in 0..n
    BY <1>1, <1>6, <2>6, <2>7
  <2> QED BY <2>8 DEF p
<1> QED BY <1>4, <1>7, <1>8 DEF M

\* The chunks of a list, one after the other, are the list.
LEMMA ChunksAreGates ==
  ASSUME NEW U, NEW S \in Seq(U)
  PROVE  FlattenSeq(Chunks(S)) = S
<1> DEFINE n == Len(S)
           M == (n + Chunk - 1) \div Chunk
           End(c) == IF c * Chunk <= n THEN c * Chunk ELSE n
           C == [c \in 1..M |-> SubSeq(S, (c - 1) * Chunk + 1, End(c))]
<1>1. n \in Nat /\ Chunk \in Nat /\ Chunk > 0 /\ Threshold \in Nat
  BY ChunkAssumption
<1>2. CASE n <= Threshold
  <2>1. Chunks(S) = <<S>>
    BY <1>2 DEF Chunks
  <2> DEFINE T == <<S>>
  <2>2. Len(T) = 1 /\ T[1] = S
    OBVIOUS
  <2>3. Len(T) \in Nat \ {0} /\ \A i \in 1..Len(T) : T[i] \in Seq(U)
    BY <2>2
  <2> HIDE DEF T
  <2>4. \E f : /\ f[1] = T[1] /\ \A i \in 2..Len(T) : f[i] = f[i - 1] \o T[i]
               /\ FlattenSeq(T) = f[Len(T)]
    BY <2>3, FlattenIs
  <2>5. FlattenSeq(T) = S
    BY <2>2, <2>4
  <2> QED BY <2>1, <2>5 DEF T
<1>3. CASE ~(n <= Threshold)
  <2>1. Chunks(S) = C
    BY <1>3 DEF Chunks
  <2>2. n # 0
    BY <1>1, <1>3
  <2>3. /\ M \in Nat \ {0} /\ n <= M * Chunk
        /\ \A c \in 1..M : (c - 1) * Chunk \in 0..n
    BY <1>1, <2>2, PiecesCover
  <2> HIDE DEF M, n
  <2>4. ASSUME NEW c \in 1..M
        PROVE  End(c) \in (c - 1) * Chunk .. n /\ (c = M => End(c) = n)
    <3> DEFINE p == (c - 1) * Chunk
               q == c * Chunk
    <3>1. q = p + Chunk /\ p \in Int /\ q \in Int
      BY <1>1, <2>3, Z3
    <3>2. p \in 0..n
      BY <2>3
    <3>3. c = M => n <= q
      BY <2>3
    <3> HIDE DEF p, q
    <3>4. (IF q <= n THEN q ELSE n) \in p..n /\ (c = M => (IF q <= n THEN q ELSE n) = n)
      BY <1>1, <3>1, <3>2, <3>3
    <3> QED BY <3>4 DEF p, q
  <2>5. ASSUME NEW c \in 2..M PROVE End(c - 1) = (c - 1) * Chunk
    <3>1. c \in 1..M
      BY <2>3
    <3>2. (c - 1) * Chunk \in 0..n
      BY <2>3, <3>1
    <3>3. (c - 1) * Chunk <= n
      BY <1>1, <3>2
    <3> QED BY <3>3
  <2>6. Len(C) = M /\ \A c \in 1..M : C[c] = SubSeq(S, (c - 1) * Chunk + 1, End(c))
    <3> DEFINE G(c) == SubSeq(S, (c - 1) * Chunk + 1, End(c))
    <3>1. C = [c \in 1..M |-> G(c)]
      OBVIOUS
    <3>2. M \in Nat
      BY <2>3
    <3> HIDE DEF C, End, G
    <3>3. Len(C) = M /\ \A c \in 1..M : C[c] = G(c)
      BY <3>1, <3>2
    <3> QED BY <3>3 DEF G
  <2>7. ASSUME NEW c \in 1..M PROVE C[c] \in Seq(U)
    <3> DEFINE p == (c - 1) * Chunk
               e == End(c)
    <3>1. p \in 0..n /\ e \in p..n /\ C[c] = SubSeq(S, p + 1, e)
      <4> HIDE DEF C
      <4> QED BY <2>3, <2>4, <2>6
    <3> HIDE DEF C, p, e
    <3>2. p + 1 \in Int /\ e \in Int /\ \A i \in (p + 1)..e : i \in 1..n
      BY <1>1, <3>1
    <3>3. \A i \in (p + 1)..e : S[i] \in U
      <4>1. \A i \in 1..n : S[i] \in U
        BY DEF n
      <4> QED BY <3>2, <4>1
    <3> QED BY <3>1, <3>2, <3>3, SubSeqProperties
  <2> HIDE DEF C
  <2>8. PICK f : /\ f[1] = C[1] /\ \A i \in 2..M : f[i] = f[i - 1] \o C[i]
                 /\ FlattenSeq(C) = f[M]
    <3>1. Len(C) \in Nat \ {0} /\ \A i \in 1..Len(C) : C[i] \in Seq(U)
      BY <2>3, <2>6, <2>7
    <3>2. \E f : /\ f[1] = C[1] /\ \A i \in 2..Len(C) : f[i] = f[i - 1] \o C[i]
                 /\ FlattenSeq(C) = f[Len(C)]
      BY <3>1, FlattenIs
    <3> QED BY <2>6, <3>2
  <2> DEFINE P(c) == f[c] = SubSeq(S, 1, End(c))
             T == {c \in Nat : c \in 1..M /\ ~P(c)}
  <2>9. T = {}
    <3> SUFFICES ASSUME T # {} PROVE FALSE
      OBVIOUS
    <3>1. PICK m \in T : \A y \in T : m <= y
      <4>1. T \in SUBSET Nat
        OBVIOUS
      <4> HIDE DEF T
      <4> QED BY <4>1, LeastOf
    <3>2. m \in Nat /\ m \in 1..M /\ ~P(m)
      BY <3>1
    <3>3. CASE m = 1
      <4>1. (m - 1) * Chunk + 1 = 1
        BY <1>1, <3>3
      <4>2. C[m] = SubSeq(S, 1, End(m))
        <5> HIDE DEF End
        <5> QED BY <2>6, <3>2, <4>1
      <4> HIDE DEF End
      <4> QED BY <2>8, <3>2, <3>3, <4>2
    <3>4. CASE m # 1
      <4>1. m \in 2..M /\ m - 1 \in 1..M /\ m - 1 \in Nat /\ ~(m <= m - 1)
        BY <2>3, <3>2, <3>4
      <4>2. P(m - 1)
        <5>1. m - 1 \notin T
          <6> HIDE DEF T
          <6> QED BY <3>1, <4>1
        <5> HIDE DEF P
        <5> QED BY <4>1, <5>1
      <4> DEFINE p == (m - 1) * Chunk
                 q == End(m)
      <4>3. p \in 0..n /\ q \in p..n
        <5> HIDE DEF End
        <5> QED BY <2>3, <2>4, <3>2
      <4>4. f[m - 1] = SubSeq(S, 1, p) /\ C[m] = SubSeq(S, p + 1, q) /\ f[m] = f[m - 1] \o C[m]
        <5> HIDE DEF End
        <5> QED BY <2>5, <2>6, <2>8, <3>2, <4>1, <4>2
      <4>5. SubSeq(S, 1, p) \o SubSeq(S, p + 1, q) = SubSeq(S, 1, q)
        <5> HIDE DEF p, q
        <5>1. p \in 0..Len(S) /\ q \in p..Len(S)
          BY <4>3 DEF n
        <5>2. 1 \in 1..(Len(S) + 1) /\ p \in (1 - 1)..Len(S)
          BY <5>1
        <5> QED BY <5>1, <5>2, ConcatAdjacentSubSeq
      <4> QED
        <5> HIDE DEF End, p, q
        <5>1. f[m] = SubSeq(S, 1, q)
          BY <4>4, <4>5
        <5> QED BY <3>2, <5>1 DEF q
    <3> QED BY <3>3, <3>4
  <2>10. P(M)
    <3>1. M \in Nat /\ M \in 1..M
      BY <2>3
    <3> HIDE DEF P
    <3> QED BY <2>9, <3>1
  <2>11. End(M) = n
    <3>1. M \in 1..M
      BY <2>3
    <3> HIDE DEF End
    <3> QED BY <2>4, <3>1
  <2>12. SubSeq(S, 1, n) = S
    BY SubSeqFull DEF n
  <2> QED
    <3> HIDE DEF End
    <3> QED BY <2>1, <2>8, <2>10, <2>11, <2>12
<1> QED BY <1>2, <1>3

\* In the settled valuation a bound net has the level it is bound to.
LEMMA NetLeaf ==
  ASSUME src \in Sources, assigns \in Seq(Nets \X Nets), NEW leaf, NEW undriven,
         \A n \in DOMAIN leaf : n \in Nets /\ leaf[n] \in BOOLEAN
  PROVE  \A n \in DOMAIN leaf : NetValues(leaf, undriven)[n] = leaf[n]
<1> DEFINE N == Depth
           X == SUBSET Nets
           Next1(h) == HighNets(leaf, undriven, h)
           Up(f, i) == HighNets(leaf, undriven, IF i = 0 THEN {} ELSE f[i - 1])
           a == Next1({})
           s == [p \in (1..N) \X X |-> Next1(p[2])]
           c == CHOOSE f : f = [i \in 0..N |-> Up(f, i)]
<1>1. N \in Nat
  <2>1. Len(src.insts) \in Nat
    BY SourceIs
  <2>2. Len(assigns) \in Nat
    OBVIOUS
  <2> QED BY <2>1, <2>2 DEF Depth
<1>2. \A h : Next1(h) \in X
  BY DEF HighNets
<1>3. s \in [(1..N) \X X -> X]
  <2> HIDE DEF Next1, X, N
  <2> QED BY <1>2
<1>4. PICK f : Iterates(f, X, a, N, s)
  <2> HIDE DEF Next1, X, N, s
  <2>1. a \in X
    BY <1>2
  <2> HIDE DEF a
  <2> QED BY <1>1, <1>3, <2>1, Iterated
<1>5. f \in [0..N -> X] /\ f[0] = a /\ \A i \in 1..N : f[i] = s[<<i, f[i - 1]>>]
  <2> HIDE DEF X, s, N, a
  <2> QED BY <1>4 DEF Iterates
<1>6. ASSUME NEW i \in 0..N PROVE f[i] = Up(f, i)
  <2>1. CASE i = 0
    BY <1>5, <2>1
  <2>2. CASE i # 0
    <3>1. i \in 1..N /\ i - 1 \in 0..N
      BY <1>1, <2>2
    <3>2. f[i - 1] \in X /\ f[i] = s[<<i, f[i - 1]>>]
      BY <1>5, <3>1
    <3>3. <<i, f[i - 1]>> \in (1..N) \X X
      BY <3>1, <3>2
    <3>4. f[i] = Next1(f[i - 1])
      <4> HIDE DEF X, N, Next1
      <4> QED BY <3>2, <3>3
    <3> QED BY <2>2, <3>4
  <2> QED BY <2>1, <2>2
<1>7. f = [i \in 0..N |-> Up(f, i)]
  <2>1. f = [i \in 0..N |-> f[i]]
    BY <1>5
  <2> HIDE DEF Up, N, X
  <2> QED BY <1>6, <2>1
<1>8. c = [i \in 0..N |-> Up(c, i)]
  <2> HIDE DEF Up, N
  <2> QED BY <1>7
<1>9. c[N] = Up(c, N)
  <2>1. N \in 0..N
    BY <1>1
  <2> HIDE DEF c, Up, N
  <2> QED BY <1>8, <2>1
<1>10. NetValues(leaf, undriven) = [n \in Nets \cup {None} |-> n \in c[N]]
  BY DEF NetValues
<1>11. PICK h : c[N] = HighNets(leaf, undriven, h)
  <2> HIDE DEF c, N
  <2> QED BY <1>9
<1> HIDE DEF c, N
<1>12. ASSUME NEW n \in DOMAIN leaf PROVE NetValues(leaf, undriven)[n] = leaf[n]
  <2>1. n \in Nets /\ leaf[n] \in BOOLEAN
    OBVIOUS
  <2>2. n \in c[N] <=> leaf[n]
    BY <1>11, <2>1 DEF HighNets
  <2>3. NetValues(leaf, undriven)[n] = (n \in c[N])
    BY <1>10, <2>1
  <2>4. (n \in c[N]) \in BOOLEAN
    OBVIOUS
  <2> QED BY <2>1, <2>2, <2>3, <2>4
<1> QED BY <1>12

\* So an input has there the bit that the vector gives it.
LEMMA InputSettles ==
  ASSUME Elaborated, NEW vec \in Vectors,
         \A j, k \in DOMAIN inputs : inputs[j] = inputs[k] => j = k
  PROVE  \A k \in DOMAIN inputs : Settled(LeafOf(vec)).net[inputs[k]] = vec[k]
<1> DEFINE leaf == LeafOf(vec)
<1>1. src \in Sources /\ assigns \in Seq(Nets \X Nets) /\ inputs \in Seq(Nets)
  BY DEF Elaborated
<1>2. Len(inputs) \in Nat /\ DOMAIN inputs = 1..Len(inputs) /\ \A k \in DOMAIN inputs : inputs[k] \in Nets
  BY <1>1
<1>3. ASSUME NEW k \in DOMAIN inputs
      PROVE  inputs[k] \in DOMAIN leaf /\ leaf[inputs[k]] = vec[k]
  <2>1. inputs[k] \in ToSet(inputs)
    BY DEF ToSet
  <2>2. (CHOOSE j \in DOMAIN inputs : inputs[j] = inputs[k]) = k
    OBVIOUS
  <2> QED BY <2>1, <2>2 DEF LeafOf
<1>4. ASSUME NEW n \in DOMAIN leaf PROVE n \in Nets /\ leaf[n] \in BOOLEAN
  <2>1. n \in ToSet(inputs)
    BY DEF LeafOf
  <2>2. PICK k \in DOMAIN inputs : n = inputs[k]
    BY <2>1 DEF ToSet
  <2> QED BY <1>2, <1>3, <2>2 DEF Vectors
<1>5. Settled(leaf).net = NetValues(leaf, Held)
  BY DEF Settled
<1> HIDE DEF leaf
<1>6. \A n \in DOMAIN leaf : NetValues(leaf, Held)[n] = leaf[n]
  BY <1>1, <1>4, NetLeaf
<1>7. \A k \in DOMAIN inputs : Settled(leaf).net[inputs[k]] = vec[k]
  BY <1>3, <1>5, <1>6
<1> QED BY <1>7 DEF leaf

\* The datum just written has the gates in chunks, and an output for every root.
DatumInv ==
  phase = "conserve" => /\ datum.chunks = Chunks(gates) /\ datum.outs = out_idx
                        /\ Len(out_idx) = Roots

LEMMA InitDatum == Init => DatumInv
<1> QED BY DEF Init, DatumInv

LEMMA NextDatum == WalkInv /\ DatumInv /\ [Next]_vars => DatumInv'
<1> SUFFICES ASSUME WalkInv, DatumInv, [Next]_vars PROVE DatumInv'
  OBVIOUS
<1>1. CASE Write
  <2>1. UNCHANGED <<front, walk>> /\ datum' = to_lean /\ Len(out_idx) = Roots
    BY <1>1 DEF Write
  <2>2. gates' = gates /\ out_idx' = out_idx /\ Roots' = Roots
    BY <2>1, FrontStays DEF walk
  <2>3. datum'.chunks = Chunks(gates) /\ datum'.outs = out_idx
    BY <2>1 DEF to_lean
  <2> QED BY <2>1, <2>2, <2>3 DEF DatumInv, Chunks
<1>2. CASE UNCHANGED vars
  <2>1. UNCHANGED front /\ gates' = gates /\ out_idx' = out_idx /\ datum' = datum /\ phase' = phase
    BY <1>2 DEF vars, walk
  <2>2. Roots' = Roots
    BY <2>1, FrontStays
  <2> QED BY <2>1, <2>2 DEF DatumInv, Chunks
<1>3. ASSUME phase' # "conserve" PROVE DatumInv'
  BY <1>3 DEF DatumInv
<1>4. CASE Elaborate
  BY <1>3, <1>4, ElaborateBuilds DEF WalkInv
<1>5. CASE bind_inputs
  BY <1>3, <1>5 DEF bind_inputs, Refuse
<1>6. CASE Walk
  <2>1. phase' = "build" \/ phase' = "refused"
    BY <1>6 DEF Walk, AskRoot, TakeRoot, NetBound, NetFixed, NetAlias, NetDriven, NetRefused, Operand,
                OperandMissing, TakeOperand, EmitLine, Return, AtLine, Running, Asking, Building, Refuse
  <2> QED BY <1>3, <2>1
<1>7. CASE Conserve
  BY <1>3, <1>7 DEF Conserve, Refuse, GoTo
<1>8. CASE Readback
  BY <1>3, <1>8 DEF Readback, Refuse, GoTo
<1> QED BY <1>1, <1>2, <1>4, <1>5, <1>6, <1>7, <1>8 DEF Next, Import, Done

\* The datum computes the circuit: read back through its chunks on a vector, its outputs
\* are the roots in every valuation of the source that gives the inputs their bits.
ComputesCircuit ==
  phase = "conserve" =>
    \A vec \in Vectors : \A v :
      Circuit(v) /\ (\A k \in DOMAIN inputs : v.net[inputs[k]] = vec[k]) =>
        DatumOuts(datum, vec) = [j \in 1..Roots |-> RootValue(v, j)]

LEMMA WalkComputes == WalkInv /\ WireInv /\ DatumInv => ComputesCircuit
<1> SUFFICES ASSUME WalkInv, WireInv, DatumInv, phase = "conserve", NEW vec \in Vectors, NEW v,
                    Circuit(v), \A k \in DOMAIN inputs : v.net[inputs[k]] = vec[k]
             PROVE  DatumOuts(datum, vec) = [j \in 1..Roots |-> RootValue(v, j)]
  BY DEF ComputesCircuit
<1> DEFINE w == GateValues(gates, vec)
<1>1. Sound(gates, idx, out_idx, stack, want, ret)
  BY DEF WalkInv, SoundNow
<1>2. gates \in Seq(ToSet(gates))
  BY <1>1 DEF Sound
<1>3. Evaluates(v, w, gates)
  BY <1>2, GatesEvaluate DEF WireInv
<1> HIDE DEF w
<1>4. \A j \in DOMAIN out_idx : w[out_idx[j]] = RootValue(v, j)
  BY <1>1, <1>3 DEF Sound, Honest
<1>5. datum.chunks = Chunks(gates) /\ datum.outs = out_idx /\ Len(out_idx) = Roots
  BY DEF DatumInv
<1>6. DOMAIN out_idx = 1..Roots
  <2>1. out_idx \in Seq(1..Len(gates))
    BY <1>1 DEF Sound, Shape
  <2> QED BY <1>5, <2>1, Membered
<1>7. ReadGates(datum) = gates
  BY <1>2, <1>5, ChunksAreGates DEF ReadGates
<1>8. DatumOuts(datum, vec) = [j \in DOMAIN out_idx |-> w[out_idx[j]]]
  BY <1>5, <1>7 DEF DatumOuts, w
<1> QED BY <1>4, <1>6, <1>8

\* In particular it computes what the source settles to.
LEMMA CircuitSettles == WalkInv /\ WireInv /\ ComputesCircuit => ComputesSource
<1> SUFFICES ASSUME WalkInv, WireInv, ComputesCircuit, phase = "conserve", NEW vec \in Vectors
             PROVE  DatumComputes(vec)
  BY DEF ComputesSource
<1>1. \A k \in DOMAIN inputs : Settled(LeafOf(vec)).net[inputs[k]] = vec[k]
  BY InputSettles DEF WalkInv, WireInv
<1> QED BY <1>1 DEF ComputesCircuit, DatumComputes

\* THEOREM. For every netlist, port list, cut and pin, and every vector on the inputs, the
\* datum that build() and to_lean() write, read back through its chunks, computes the
\* source: each output has the value of the net, the next state or the cut logic it stands
\* for, in every valuation that satisfies the source's equations for that vector.
THEOREM DatumIsCircuit == Spec => []ComputesCircuit
<1> QED BY InitWalk, NextWalk, InitWire, NextWire, InitDatum, NextDatum, WalkComputes, PTL DEF Spec

\* THEOREM. So the datum computes the valuation the source settles to, round by round from
\* the inputs, whenever that one satisfies the equations.
THEOREM GatesAreSource == Spec => []ComputesSource
<1> QED BY InitWalk, NextWalk, InitWire, NextWire, DatumIsCircuit, CircuitSettles, PTL DEF Spec
=============================================================================
