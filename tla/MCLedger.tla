------------------------------ MODULE MCLedger ------------------------------
(* A personal seat m with a subagent, a personal seat n, an employer seat and *)
(* one on no list; each menu exercises one reader.                            *)
EXTENDS Records

Of(seat, sub) == [seat |-> seat, sub |-> sub]
MCTranscripts == <<Of("m", FALSE), Of("m", TRUE), Of("n", FALSE), Of("e", FALSE), Of("x", FALSE)>>
MCLane == [s \in {"m", "n", "e", "x"} |->
             CASE s \in {"m", "n"} -> "personal" [] s = "e" -> "employer" [] s = "x" -> "unlisted"]
MCQuotes == [t \in {"go", "stop", "nudge", "quote", "none"} |->
               IF t = "quote" THEN {"quote", "nudge"} ELSE {t}]

MCBuckets == <<0, 1, 2>>

Menu(what, number, end) ==
  [acts |-> what, steps |-> number, last |-> end, distinct |-> TRUE, modern |-> TRUE,
   seats |-> {"m"}, texts |-> {"go"}, payloads |-> {"nudge"}, senders |-> {1}, targets |-> {"n"}, touches |-> {"command"},
   injects |-> {"tick"}]
MCMenus ==
  { [Menu({"type", "busy", "commit"}, 4, 3) EXCEPT !.texts = {"go", "stop"}],
    [Menu({"touch", "inject", "commit"}, 3, 3) EXCEPT
       !.touches = {"command", "interrupt", "image", "pasted"},
       !.injects = {"tick", "task-notification", "peer", "coordinator", "summary", "result", "sidechain"}],
    [Menu({"touch", "inject", "commit"}, 3, 3) EXCEPT !.modern = FALSE,
       !.touches = {"command", "interrupt", "image"},
       !.injects = {"tick", "task-notification", "summary", "result"}],
    [Menu({"touch", "commit"}, 4, 3) EXCEPT !.seats = {"m", "e", "x"}],
    [Menu({"touch", "commit"}, 4, 4) EXCEPT !.seats = {"m", "n"}],
    [Menu({"touch", "commit", "lose"}, 4, 5) EXCEPT !.seats = {"m"}],
    [Menu({"touch", "answer", "commit"}, 4, 2) EXCEPT !.seats = {"m", "x"}],
    [Menu({"type", "busy", "tag"}, 4, 5) EXCEPT !.texts = {"go", "stop"}],
    [Menu({"touch", "type", "busy", "tag"}, 5, 4) EXCEPT !.texts = {"go"}],
    [Menu({"send", "type", "busy"}, 4, 3) EXCEPT !.texts = {"quote"}],
    [Menu({"touch", "post"}, 3, 5) EXCEPT !.seats = {"m", "n"}] }
\* A menu and a book that allow nothing.
MCRest == [Menu({}, 0, 1) EXCEPT !.seats = {}, !.targets = {}]
MCAllMenus == MCMenus \cup {MCRest}

\* Two files of one directory and one elsewhere, in a namespace or not.
nm(stem) == [ns |-> "none", stem |-> stem, primed |-> FALSE]
Thm(id, n) == [id |-> id, decl |-> {[name |-> n, by |-> "theorem"]}, says |-> {}]
Def(id, n) == [id |-> id, decl |-> {[name |-> n, by |-> "def"]}, says |-> {}]
Uses(id, n) == [id |-> id, decl |-> {}, says |-> {n}]
run == nm("run_trace")   runs == nm("run_trace_all")   less == nm("top")
runp == [run EXCEPT !.primed = TRUE]   seq == [run EXCEPT !.ns = "Seq"]
pa == <<"SaltWorks", "Core">>   pb == <<"SaltWorks", "Skew">>   pc == <<"SaltWorks", "HDL", "Core">>
name(n) == [k |-> "name", name |-> n]
loc(a, line, p) == [k |-> "loc", at |-> a, line |-> line, file |-> p]
nl == [k |-> "nl"]   cut == [k |-> "cut"]
none == [n \in {} |-> <<>>]
Book(text, tree, what, number) ==
  [note |-> text, head |-> tree, scratch |-> none, acts |-> what, edits |-> number,
   files |-> DOMAIN tree, lines |-> {Uses(0, run)}, names |-> {runs}, places |-> {}]
Tree == (pa :> <<Thm(1, run), Uses(2, less), Thm(3, less)>>) @@ (pb :> <<Uses(4, run), Thm(5, runs)>>)
MCClosed == [Book(<<>>, none, {}, 0) EXCEPT !.files = {}]
MCBooks ==
  { MCClosed,
    Book(<<name(run), loc(pa, 1, pa), name(less), loc(pa, 3, pa), nl>>, Tree, {"edit"}, 3),
    [Book(<<name(less), name(run), loc(<<"Core">>, 1, pa), cut, name(runs), nl, loc(pb, 2, pb)>>, Tree, {"edit"}, 2)
       EXCEPT !.lines = {Thm(0, runp)}, !.names = {runp}],
    Book(<<name(seq), loc(pa, 1, pa), nl, name(runp), loc(pb, 2, pb), nl, loc(pb, 1, pb)>>, Tree, {"edit"}, 2),
    [Book(<<name(run), loc(<<"Core">>, 1, pa), nl, name(runs), loc(pb, 2, pb)>>, Tree, {"edit", "move"}, 2)
       EXCEPT !.places = {pc, <<"SaltWorks", "Other">>}],
    [Book(<<name(run), loc(<<"sibling", "Zoo">>, 2, <<"Zoo">>), name(nm("Skew_ok")), loc(<<"Skew">>, 1, pb), nl, name(less)>>,
          Tree, {"edit"}, 2) EXCEPT !.lines = {Thm(0, nm("Skew_ok"))}],
    [Book(<<name(run), loc(pa, 1, pa), nl, name(runs), nl, name(less)>>, Tree, {"edit"}, 2) EXCEPT
       !.scratch = <<"Scratch">> :> <<Thm(6, runs), Thm(7, run), Thm(8, less), Def(9, less)>>,
       !.files = {pa, <<"Scratch">>}, !.lines = {Def(0, runs), [Def(0, runs) EXCEPT !.decl = {[name |-> runs, by |-> "structure"]}]}] }
MCLonger == [s \in {"run_trace", "run_trace_all", "top", "Skew_ok", "SaltWorks", "Core", "Skew", "HDL", "Zoo", "sibling", "Other", "Scratch"} |->
               CASE s = "run_trace" -> {s, "run_trace_all"} [] s = "Skew" -> {s, "Skew_ok"} [] OTHER -> {s}]
MCSibling == <<"Zoo">> :> <<Uses(1, less), Thm(2, run)>>
=============================================================================
