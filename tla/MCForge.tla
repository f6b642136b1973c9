------------------------------ MODULE MCForge -------------------------------
(* Menus that exercise one gate each, on one file and one named file; two     *)
(* sealers in one clone and one in another; two seats on the bus and a hand.  *)
EXTENDS Commons

k == <<"f", "clean">>   p == <<"f", "path">>  s == <<"f", "session">>
n == <<"f", "name">>    m == <<"box", "clean">>
MCKind   == [f |-> "md", box |-> "other", notes |-> "md", read |-> "readme", thm |-> "lean", gate |-> "checker"]
MCFiles  == DOMAIN MCKind
MCShapes ==
  [clean |-> {}, keep |-> {}, path |-> {"path"}, session |-> {"session"}, name |-> {"name"},
   v0 |-> {}, v1 |-> {}, v2 |-> {}, v3 |-> {},
   said |-> {"noun"}, wide |-> {"shape2"}, wider |-> {"shape2"},
   ab |-> {"extra"}, a |-> {"extra"}, b |-> {"extra"},
   cites |-> {"word", "abstract", "core"}, t1 |-> {}, t2 |-> {}, doc |-> {"doc", "extra"}]
MCLines  == DOMAIN MCShapes
MCDecl   == [l \in MCLines |-> IF l \in {"t1", "t2"} THEN <<"N", "t">> ELSE <<>>]
MCPieces == [l \in MCLines |-> IF l = "ab" THEN {"a", "b"} ELSE {l}]
MCVersion == [l \in MCLines |-> CASE l = "v1" -> 1 [] l = "v2" -> 2 [] l = "v3" -> 3 [] OTHER -> 0]
MCCites  == [l \in MCLines |-> IF l = "cites" THEN {[to |-> "name", name |-> <<"t">>]} ELSE {}]
Start(rows, base, branch) == [rows |-> rows, base |-> base, cur |-> branch]
MCRoot   == Start({<<"f", "keep">>}, EmptyBaseline, "main")

Plain == {[subject |-> {}, body |-> {}]}
Msg(sub, body) == [subject |-> sub, body |-> body]
Menu(rows, messages, lists, acts, room) ==
  [rows |-> rows, messages |-> messages, lists |-> lists, acts |-> acts, room |-> room,
   titles |-> {{}}, ref |-> {}, tags |-> {}, pins |-> {}, hooks |-> TRUE,
   start |-> MCRoot, edits |-> {}]
\* A pull request whose claims are checked: what it starts from, may write and may record.
Records == [EmptyBaseline EXCEPT !.files = {"debt", "ledgers"}]
Carrier(rows, base, changes, edits) ==
  [Menu(changes, Plain, {}, {"open", "claims"}, 4) EXCEPT
     !.hooks = FALSE, !.start = Start(rows, base, "topic"), !.edits = edits]
Edit(list, value) == [list |-> list, value |-> value]
Read(claim, stmt, reader) ==
  [claim |-> claim, lean |-> "thm", decl |-> <<"t">>, stmt |-> stmt, author |-> <<"kent">>, reader |-> reader]
Tag(name, tagger, sub, body, same) ==
  [name |-> name, annotated |-> TRUE, tagger |-> tagger, subject |-> sub, body |-> body,
   same_identity |-> same]
MCMenus ==
  { Menu({k}, Plain, {}, {"merge", "branch", "reset", "fetch", "scrub", "open"}, 4),
    Menu({k, p}, Plain, {"hist"}, {"merge", "branch"}, 4),
    [Menu({p}, Plain, {"paths", "hist"}, {"scrub", "reset"}, 3) EXCEPT !.hooks = FALSE],
    [Menu({s}, {Msg({}, {}), Msg({}, {"session"})}, {}, {"scrub"}, 4) EXCEPT !.hooks = FALSE],
    Menu({s}, {Msg({}, {}), Msg({}, {"path"})}, {"msgs"}, {"scrub"}, 3),
    Menu({n, m}, Plain, {"infra", "infra_hist"}, {"scrub"}, 3),
    Menu({k}, {Msg({}, {}), Msg({"kin"}, {}), Msg({}, {"lane"})}, {"subjects"}, {"scrub"}, 3),
    [Menu({k}, Plain, {}, {"branch", "open"}, 3) EXCEPT
       !.titles = {{}, {"session"}, {"kin"}}, !.hooks = FALSE],
    [Menu({k}, Plain, {}, {"branch", "open"}, 3) EXCEPT !.ref = {"kin"}, !.hooks = FALSE],
    [Menu({p}, Plain, {"hist", "paths"}, {"branch"}, 4) EXCEPT
       !.pins = {[ref |-> "topic", row |-> p]}],
    [Menu({k}, Plain, {}, {}, 2) EXCEPT
       !.tags = {Tag({}, {"name"}, {}, {}, TRUE), Tag({}, {"name"}, {}, {}, FALSE),
                 Tag({}, {}, {}, {"session"}, TRUE), Tag({"kin"}, {}, {}, {}, TRUE)}],
    Carrier({<<"gate", "v3">>, <<"thm", "t1">>}, Records, {<<"read", "said">>, <<"thm", "t2">>},
            {Edit("reads", {Read(<<"read", "said">>, l, r)}) : l \in {"t1", "t2"}, r \in {<<"lara">>, <<"kent", "helm">>}}),
    Carrier({<<"gate", "v1">>, <<"read", "wide">>}, Records, {<<"gate", "v2">>, <<"read", "wider">>},
            {Edit("debt", {<<"read", "wide">>}), Edit("debt", {<<"read", "wide">>, <<"read", "wider">>}),
             Edit("ledgers", {"read"})}),
    Carrier({<<"gate", "v0">>, <<"read", "ab">>}, [Records EXCEPT !.debt = {<<"read", "ab">>}],
            {<<"gate", "v1">>, <<"read", "a">>},
            {Edit("debt", {<<"read", x>> : x \in d}) : d \in {{"a"}, {"a", "b"}, {"ab", "a", "b"}}}),
    Carrier({<<"gate", "v2">>, <<"notes", "cites">>}, Records, {<<"gate", "v3">>, <<"thm", "t1">>, <<"thm", "doc">>},
            {Edit("fences", {[subject |-> "core", record |-> "notes"]}), Edit("exempt", {"notes"}),
             Edit("debt", {<<"thm", "doc">>})}) }
MCCloneOf == [x \in {"p", "q", "r"} |-> IF x = "r" THEN "d" ELSE "c"]
=============================================================================
