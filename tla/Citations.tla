----------------------------- MODULE Citations -----------------------------
(***************************************************************************)
(* A document that cites lines of Lean files, the files as they are        *)
(* edited, moved and landed, and the three tools that say whether the      *)
(* citations still stand: pin_check.py on the committed tree, citecheck.py *)
(* on the worktree, cited_but_unlanded.py on both.                         *)
(*                                                                         *)
(* A name is a namespace, a stem and perhaps a prime.  A line has an       *)
(* identity, what it declares and the names it has.  A path is a sequence  *)
(* of segments.  The document is a sequence of names and locators (what    *)
(* stands in backticks), clause ends and line ends.  `meant' holds, for    *)
(* each locator, the identity of the line its author cited.                *)
(***************************************************************************)
EXTENDS Naturals, Sequences, FiniteSets, SequencesExt, FiniteSetsExt

CONSTANTS Books,        \* the initial documents and trees, and what may be done to them
          Longer,       \* of a stem or segment: the stems it begins, itself among them
          Distinctive,  \* the stems long enough, and with an underscore or a hump
          Short,        \* the stems of less than eight characters
          Sibling,      \* the files of another repository, given with --also-root
          Near,         \* how many tokens fit in 120 characters
          Around        \* how far from the cited line a name is searched

\* A line declares one name at most, and has a number of its own in its file.
Names == [ns : STRING, stem : DOMAIN Longer, primed : BOOLEAN]
Lines == {l \in [id : Nat, decl : SUBSET [name : Names, by : STRING], says : SUBSET Names] :
            \A d, e \in l.decl : d = e}
Numbered(body) == \A i, j \in DOMAIN body : body[i].id = body[j].id => i = j
Proper(dir) ==
  /\ IsFiniteSet(DOMAIN dir)
  /\ \A p \in DOMAIN dir : /\ dir[p] \in Seq(Lines) /\ Numbered(dir[p])
                          /\ \A i \in DOMAIN dir[p] : dir[p][i].id < 100
ASSUME LongerAssumption == \A s \in DOMAIN Longer : s \in Longer[s]
ASSUME BooksAssumption == \A b \in Books :
  /\ Proper(b.head) /\ Proper(b.scratch)
  /\ b.lines \subseteq Lines /\ b.names \subseteq Names

VARIABLES book, note, head, work, tracked, meant, edits
shelf == <<book, note, head, work, tracked, meant, edits>>

Distance(i, j) == IF i < j THEN j - i ELSE i - j
Nearest(S, line) == CHOOSE i \in S : \A j \in S :
  Distance(i, line) < Distance(j, line) \/ (Distance(i, line) = Distance(j, line) /\ i <= j)
Is(i, kind) == i \in DOMAIN note /\ note[i].k = kind
Locators == {i \in DOMAIN note : note[i].k = "loc"}
Words(l) == l.says \cup {d.name : d \in l.decl}
----------------------------------------------------------------------------
(* pin_check.py *)

\* The name right before the locator, or else the last one close before it.
Adjacent(i) == LET j == IF Is(i - 1, "nl") THEN i - 2 ELSE i - 1 IN {x \in {j} : Is(x, "name")}
Close(i)    == {j \in DOMAIN note : j < i /\ i - j <= Near /\ note[j].k = "name"}
Strict(i)   == Adjacent(i) # {}
Pins == {i \in Locators : Strict(i) \/ Close(i) # {}}
PinName(i) == note[IF Strict(i) THEN Max(Adjacent(i)) ELSE Max(Close(i))].name

\* The file at that path, or the only one of that base name.
resolve(a) ==
  IF a \in DOMAIN head THEN {a}
  ELSE LET cands == {p \in DOMAIN head : Last(p) = Last(a)}
       IN  IF Cardinality(cands) = 1 THEN cands ELSE {}

\* A word boundary: it stands before a prime, and never after one.
word(n, w) == ~n.primed /\ w.stem = n.stem
\* Faulty form: the name as it is written, whatever namespace is open.
find_decl_lines_as_written(body, n) ==
  {i \in DOMAIN body : \E d \in body[i].decl : word(n, d.name) /\ d.name.ns = n.ns}
find_decl_lines(body, n) ==
  {i \in DOMAIN body : \E d \in body[i].decl : word(n, d.name) /\ d.name.ns \in {"none", n.ns}}
hits(body, n) == {i \in DOMAIN body : \E w \in Words(body[i]) : word(n, w)}
occurs_at(body, n, line) == \E i \in hits(body, n) : Distance(i, line) <= 1

\* The row of a pin: the verdict and the line it gives.
Row(verdict, at) == [verdict |-> verdict, at |-> at]
pin_row(i) ==
  LET line  == note[i].line
      n     == PinName(i)
      body  == head[CHOOSE p \in resolve(note[i].at) : TRUE]
      decls == find_decl_lines(body, n)
  IN  IF resolve(note[i].at) = {} THEN Row("external", 0)
      ELSE IF line \in decls THEN Row("ok", line)
      ELSE IF occurs_at(body, n, line) THEN Row("okuse", line)
      ELSE IF decls # {} THEN Row("drift", Nearest(decls, line))
      ELSE IF ~Strict(i) THEN Row("loose", 0)
      ELSE IF hits(body, n) # {} THEN Row("driftuse", Nearest(hits(body, n), line))
      ELSE Row("absent", 0)
pin_check_passes == \A i \in Pins : pin_row(i).verdict \notin {"drift", "driftuse", "absent"}
----------------------------------------------------------------------------
(* citecheck.py *)

candidates(a, dir) ==
  IF a \in DOMAIN dir THEN {a}
  ELSE {p \in DOMAIN dir : IF Len(a) = 1 THEN Last(p) = Last(a) ELSE IsSuffix(a, p)}
\* In one root, with the root's own name in front of the path or not.
within(a, dir, root) ==
  IF candidates(a, dir) # {} THEN candidates(a, dir)
  ELSE IF Len(a) > 1 /\ a[1] = root THEN candidates(Tail(a), dir) ELSE {}
resolve_across(a) ==
  LET here  == within(a, work, "repo")
      there == within(a, Sibling, "sibling")
  IN  IF here # {} THEN {<<p, work[p]>> : p \in here} ELSE {<<p, Sibling[p]>> : p \in there}

\* The tokens from the start of the line to the end of the clause, or to the
\* next citation.
context_for(i) ==
  {j \in DOMAIN note :
     /\ ~\E e \in DOMAIN note : /\ note[e].k = "nl" /\ j < e /\ e < i
     /\ ~\E e \in DOMAIN note : /\ note[e].k \in {"nl", "loc", "cut"} /\ i < e /\ e <= j}
\* A word of the address itself says nothing of a line; of an earlier address
\* on the line, the segments that look like code do.
self_referential(n, a) ==
  n.ns = "none" /\ (n.stem \in ToSet(a) \/ n.stem \in Longer[Last(a)] \/ Last(a) \in Longer[n.stem])
Plain(stem) == [ns |-> "none", stem |-> stem, primed |-> FALSE]
payload_candidates(i) ==
  LET said == {note[j].name : j \in {x \in context_for(i) : note[x].k = "name"}}
      dirs == UNION {{Plain(s) : s \in ToSet(note[j].at) \cap Distinctive} :
                       j \in {x \in context_for(i) : note[x].k = "loc" /\ x # i}}
  IN  {n \in said \cup dirs : ~self_referential(n, note[i].at)}
is_strong(n) == n.ns # "none" \/ n.stem \in Distinctive

\* `c in line': the text of a name within the text of a word.
Inside(n, w) == /\ w.stem \in Longer[n.stem] /\ n.ns \in {"none", w.ns}
                /\ n.primed => w.primed /\ w.stem = n.stem
Holds(names, l) == \E n \in names, w \in Words(l) : Inside(n, w)
At(body, names) == {i \in DOMAIN body : Holds(names, body[i])}
\* Faulty form: only a distinctive name may settle the line.
settling_strong(cands) == {n \in cands : is_strong(n)}
settling(cands) == cands
cite_row(i) ==
  LET line  == note[i].line
      found == resolve_across(note[i].at)
      body  == (CHOOSE f \in found : TRUE)[2]
      cands == payload_candidates(i)
      moved == At(body, {n \in cands : is_strong(n)})
      near  == {j \in moved : Distance(j, line) <= Around}
  IN  IF Cardinality(found) # 1 THEN Row("UNCHECKED", 0)
      ELSE IF line \notin DOMAIN body THEN Row("MISS", 0)
      ELSE IF cands = {} THEN Row("UNCHECKED", 0)
      ELSE IF line \in At(body, settling(cands)) THEN Row("OK", line)
      ELSE IF moved = {} THEN Row("UNCHECKED", 0)
      ELSE Row("MISS", IF near = {} THEN 0 ELSE Nearest(near, line))
----------------------------------------------------------------------------
(* cited_but_unlanded.py *)

Read(p) == IF p \in DOMAIN work THEN UNION {l.decl : l \in ToSet(work[p])} ELSE {}
declared_names == {d.name : d \in {x \in UNION {Read(p) : p \in tracked} : x.by # "structure"}}
Begins(n, d) == /\ d.ns = n.ns /\ d.stem \in Longer[n.stem]
                /\ n.primed => d = n
unlanded ==
  {n \in {d.name : d \in {x \in UNION {Read(p) : p \in DOMAIN work \ tracked} : x.by = "theorem"}} :
     n \notin declared_names /\ n.stem \notin Short /\ \E i \in DOMAIN note : Is(i, "name") /\ note[i].name = n}
unfollowable == {n \in unlanded : ~\E d \in declared_names : Begins(n, d)}
----------------------------------------------------------------------------
(* What is done to the files and to the document. *)

\* The document was right when it was written.
Cited(i, dir) == LET p == note[i].file IN dir[p][note[i].line].id
Shelve ==
  /\ book \in Books
  /\ note = book.note /\ head = book.head
  /\ work = [p \in DOMAIN book.head \cup DOMAIN book.scratch |->
               IF p \in DOMAIN book.head THEN book.head[p] ELSE book.scratch[p]]
  /\ tracked = DOMAIN head /\ edits = 0
  /\ meant = [i \in Locators |-> IF note[i].file \in DOMAIN head THEN Cited(i, head) ELSE 0]

Doing(what) == what \in book.acts /\ edits < book.edits /\ edits' = edits + 1 /\ UNCHANGED <<book, meant>>
Rewrite(p, body) == work' = [work EXCEPT ![p] = body]
\* A line goes in, out or elsewhere; a declaration gets another name.
InsertLine(p, i, l) ==
  /\ Doing("edit") /\ Rewrite(p, InsertAt(work[p], i, [l EXCEPT !.id = 100 + edits]))
  /\ UNCHANGED <<note, head, tracked>>
DeleteLine(p, i) == Doing("edit") /\ Rewrite(p, RemoveAt(work[p], i)) /\ UNCHANGED <<note, head, tracked>>
MoveLine(p, i, j) ==
  /\ Doing("edit") /\ Rewrite(p, InsertAt(RemoveAt(work[p], i), j, work[p][i]))
  /\ UNCHANGED <<note, head, tracked>>
Rename(p, i, n) ==
  /\ Doing("edit") /\ work[p][i].decl # {}
  /\ Rewrite(p, [work[p] EXCEPT ![i].decl = {[d EXCEPT !.name = n] : d \in @}])
  /\ UNCHANGED <<note, head, tracked>>
\* git mv, git add, git commit -a.
MoveFile(p, q) ==
  /\ Doing("move") /\ p \in tracked /\ q \notin DOMAIN work
  /\ work' = [x \in (DOMAIN work \ {p}) \cup {q} |-> IF x = q THEN work[p] ELSE work[x]]
  /\ tracked' = (tracked \ {p}) \cup {q} /\ UNCHANGED <<note, head>>
Land(p) ==
  /\ p \notin tracked /\ tracked' = tracked \cup {p}
  /\ UNCHANGED <<book, note, head, work, meant, edits>>
CommitTree ==
  /\ head # Restrict(work, tracked) /\ head' = Restrict(work, tracked)
  /\ UNCHANGED <<book, note, work, tracked, meant, edits>>
\* The document, with the lines one of the tools gives.
Renumber(row(_), places) ==
  [i \in DOMAIN note |-> IF i \in places /\ row(i).at # 0 THEN [note[i] EXCEPT !.line = row(i).at] ELSE note[i]]
Repair ==
  /\ \/ note' = Renumber(pin_row, Pins)
     \/ note' = Renumber(cite_row, Locators)
  /\ note' # note /\ UNCHANGED <<book, head, work, tracked, meant, edits>>

ShelfNext ==
  \/ \E p \in book.files \cap DOMAIN work :
       \/ \E i \in 1..(Len(work[p]) + 1), l \in book.lines : InsertLine(p, i, l)
       \/ \E i \in DOMAIN work[p] :
            \/ DeleteLine(p, i)
            \/ \E j \in DOMAIN work[p] \ {i} : MoveLine(p, i, j)
            \/ \E n \in book.names : Rename(p, i, n)
       \/ \E q \in book.places : MoveFile(p, q)
       \/ Land(p)
  \/ CommitTree \/ Repair
----------------------------------------------------------------------------
(* Correctness. *)

Position(p, id) == {i \in DOMAIN head[p] : head[p][i].id = id}
\* The files that have the line the locator was written for, and on it the only
\* declaration of the pin's name, in full or in its namespace.
Declares(l, n) == \E d \in l.decl : d.name.stem = n.stem /\ d.name.ns \in {"none", n.ns}
Standing(i) ==
  {p \in DOMAIN head : /\ ~PinName(i).primed /\ Position(p, meant[i]) # {}
                       /\ Position(p, meant[i]) = {j \in DOMAIN head[p] : Declares(head[p][j], PinName(i))}}

\* INVARIANT. However lines and files were moved, a pin whose declaration still
\* stands in the file the pin resolves to is never called absent, external or
\* loose: it is called right where it stands on that very line, and a drift is
\* reported with the line where it stands now; a pin called right though it does
\* not stand there has its name within a line.  A name with a prime is never
\* found (pin_check.py:131), and a file with another base name is external.  And
\* where the tool passes, the name next to a locator of a file it found has its
\* stem within a line of the place cited.
Stem(p, line, n) == \E j \in DOMAIN head[p] :
  Distance(j, line) <= 1 /\ \E w \in Words(head[p][j]) : w.stem = n.stem
PinsFindTheirLine ==
  /\ pin_check_passes => \A i \in Pins : \A p \in resolve(note[i].at) :
       Strict(i) => Stem(p, note[i].line, PinName(i))
  /\ \A i \in Pins : \A p \in Standing(i) :
       resolve(note[i].at) = {p} =>
         LET row == pin_row(i)  here == Max(Position(p, meant[i])) IN
         /\ row.verdict \in {"ok", "okuse", "drift"}
         /\ row.verdict = "ok" <=> note[i].line = here
         /\ row.verdict = "drift" => row.at = here
         /\ row.verdict = "okuse" => Stem(p, here, PinName(i)) /\ Stem(p, note[i].line, PinName(i))

\* INVARIANT. In a clean worktree the three tools do not contradict each other:
\* a pin that pin_check finds at its declaration is neither convicted by citecheck,
\* whatever else is cited on the line, nor without a landed declaration.  It is
\* so for names of no namespace, and not part of the cited file's own name:
\* citecheck takes `Seq.run' for text, and pin_check for `run' in a namespace.
ToolsAgree ==
  head = Restrict(work, tracked) =>
    \A i \in Pins :
      LET n == PinName(i) IN
      (pin_row(i).verdict = "ok" /\ n.ns = "none") =>
        /\ (n \in payload_candidates(i) /\ \E p \in resolve(note[i].at) :
                within(note[i].at, work, "repo") = {p}) => cite_row(i).verdict = "OK"
        /\ n \in unfollowable => \A p \in resolve(note[i].at) :
             \A d \in head[p][note[i].line].decl : d.by = "structure"
============================================================================
