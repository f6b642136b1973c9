------------------------------ MODULE GateProofs ------------------------------
(***************************************************************************)
(* What the gates of Forge let through.                                    *)
(*                                                                         *)
(* Clean work passes every gate, for every menu that is innocent: the      *)
(* ranges of a push and of a run are never empty, and merges, hand edits   *)
(* and writers keep clean work clean.                                      *)
(*                                                                         *)
(* No unread claim enters the default branch through a merge the claim     *)
(* jobs were green for: for any lexicon, splitter, files, records, hand    *)
(* edits and order of checks, pushes and merges.                           *)
(*                                                                         *)
(* Nobody opens a sealed label against other bytes than were committed.    *)
(* Every copy of the record that `open' may ever have read is a stage in   *)
(* the growth of the record at the remote, so of two copies one contains   *)
(* the other.  If a label was opened on both, the larger has both lines,   *)
(* and, having no duplicate, one.                                          *)
(***************************************************************************)
EXTENDS ForgeProofs, Seal

CleanRows(rows) ==
  \A r \in rows : Shapes[r[2]] \cap Forbidden = {} /\ r[1] \notin NamedFiles

\* A commit that no gate has anything against, with a line that stays.
Clean(c) ==
  /\ CleanRows(Rows(c)) /\ menu.start.rows \ menu.rows \subseteq Rows(c)
  /\ Message(c) \cap Forbidden = {} /\ Base(c).subjects = {}

\* What the innocent have written, here and at the forge, and what the gates
\* have said of it.
Unsullied ==
  /\ \A c \in Known : Clean(c)
  /\ wt.subjects = {} /\ pr.title \cap Forbidden = {}
  /\ \A b \in Branches : run[b].status = "running" => run[b].before \in Known \cup {0}
  /\ NoSpuriousRed

\* The lower end of a range: before some commit of it, or nothing at all.
Below(lo, c) == lo = 0 \/ \E d \in Anc(c) : lo \in Anc(d) \ {d}

------------------------------------------------------------------------------
(* Ranges.                                                                 *)

\* A commit below another is a lower number.
LEMMA BelowIsLess ==
  ASSUME Inv, NEW d \in Known, NEW lo \in Anc(d) \ {d}
  PROVE  lo \in Known /\ lo # 0 /\ d \notin Anc(lo)
<1>1. lo \in Known /\ Linked(d) /\ Linked(lo) /\ {d, lo} \subseteq Nat \ {0}
  BY Reach DEF Inv
<1>2. lo < d
  BY <1>1 DEF Linked
<1>3. QED
  BY <1>1, <1>2 DEF Linked

\* So a range with its end below the head is never empty, and is of the head's commits.
LEMMA RangeIsThere ==
  ASSUME Inv, NEW c \in Known, NEW lo, Below(lo, c)
  PROVE  /\ rev_list(lo, c) # {} /\ rev_list(lo, c) \subseteq Known
         /\ lo \in Known \cup {0}
<1>1. Linked(c) /\ Anc(c) \subseteq Known
  BY Reach DEF Inv
<1>2. CASE lo = 0
  BY <1>1, <1>2 DEF rev_list, Linked
<1>3. CASE lo # 0
  <2>1. PICK d \in Anc(c) : lo \in Anc(d) \ {d}
    BY <1>3 DEF Below
  <2>2. lo \in Known /\ d \notin Anc(lo)
    BY <1>1, <2>1, BelowIsLess
  <2>3. QED
    BY <1>1, <1>3, <2>1, <2>2 DEF rev_list
<1>4. QED
  BY <1>2, <1>3

\* The parent of a commit is below it.
LEMMA ParentIsBelow ==
  ASSUME Inv, NEW d \in Known, FirstParent(d) # 0
  PROVE  FirstParent(d) \in Anc(d) \ {d}
<1>1. Linked(d)
  BY DEF Inv, Chain
<1>2. QED
  BY <1>1 DEF FirstParent, Linked

\* The four ranges of the pre-push hook (pre-push, push_base).
LEMMA PushRange ==
  ASSUME Inv, NEW b \in Branches, NEW c \in Known, push_base(b, c) # <<>>
  PROVE  Below(push_base(b, c)[1], c)
<1> DEFINE tip == remote[b]
           mb  == IF origin["main"] = 0 THEN 0 ELSE merge_base(origin["main"], c)
           old == CHOOSE k \in Unpublished(c) : \A j \in Unpublished(c) : k <= j
<1>1. push_base(b, c) =
        IF tip # 0 /\ tip # c /\ Ancestor(tip, c) THEN <<tip>>
        ELSE IF mb # 0 /\ mb # c THEN <<mb>>
        ELSE IF Unpublished(c) = {} THEN <<>>
        ELSE <<FirstParent(old)>>
  BY DEF push_base
<1>2. Linked(c) /\ Anc(c) \subseteq Known /\ Known \subseteq Nat
  BY Reach DEF Inv
<1>3. mb # 0 => mb \in Anc(c)
  BY MergeBaseIsCommon DEF Inv, Heads, Branches
<1>4. ASSUME Unpublished(c) # {}
      PROVE  old \in Anc(c) /\ (FirstParent(old) # 0 => FirstParent(old) \in Anc(old) \ {old})
  <2>1. Unpublished(c) \in SUBSET Nat /\ Unpublished(c) \subseteq Anc(c)
    BY <1>2 DEF Unpublished
  <2>2. \E k \in Unpublished(c) : \A j \in Unpublished(c) : k <= j
    BY <1>4, <2>1, LeastOf
  <2>3. old \in Unpublished(c)
    BY <2>2
  <2>4. QED
    BY <1>2, <2>1, <2>3, ParentIsBelow
<1>5. CASE push_base(b, c) = <<tip>> /\ tip # c /\ Ancestor(tip, c)
  BY <1>2, <1>5 DEF Below, Ancestor, Linked
<1>6. CASE push_base(b, c) = <<mb>> /\ mb # 0 /\ mb # c
  BY <1>2, <1>3, <1>6 DEF Below, Linked
<1>7. CASE push_base(b, c) = <<FirstParent(old)>> /\ Unpublished(c) # {}
  <2> HIDE DEF old
  <2> QED
    BY <1>4, <1>7 DEF Below
<1>8. QED
  <2> HIDE DEF tip, mb, old
  <2> QED
    BY <1>1, <1>5, <1>6, <1>7

\* The three ranges of the workflow (scrub.yml); the root commit has none.
LEMMA RunRange ==
  ASSUME Inv, NEW before \in Known \cup {0}, NEW c \in Known, Parents(c) # <<>>
  PROVE  scrub_base(before, c) # 0 /\ Below(scrub_base(before, c), c)
<1> DEFINE mb == IF remote["main"] = 0 THEN 0 ELSE merge_base(remote["main"], c)
<1>1. scrub_base(before, c) =
        IF before # 0 /\ before # c /\ Ancestor(before, c) THEN before
        ELSE IF mb # 0 /\ mb # c THEN mb ELSE FirstParent(c)
  BY DEF scrub_base
<1>2. Linked(c) /\ c \in Anc(c)
  BY DEF Inv, Chain, Linked
<1>3. mb # 0 => mb \in Anc(c)
  BY MergeBaseIsCommon DEF Inv, Heads, Branches
<1>4. FirstParent(c) # 0 /\ FirstParent(c) \in Anc(c) \ {c}
  <2>1. FirstParent(c) = Parents(c)[1] /\ 1 \in DOMAIN Parents(c)
    BY <1>2 DEF FirstParent, Linked
  <2>2. FirstParent(c) \in Anc(c) \ {c} /\ Anc(c) \subseteq Known
    BY <1>2, <2>1, Reach DEF Inv, Linked
  <2>3. QED
    BY <2>2, Reach DEF Inv
<1>5. QED
  <2> HIDE DEF mb
  <2> QED
    BY <1>1, <1>2, <1>3, <1>4 DEF Below, Ancestor

------------------------------------------------------------------------------
(* What the gates answer for clean commits.                                *)

\* A clean commit has no finding of any kind, on its own or against another.
LEMMA NothingFound ==
  ASSUME NEW c, c # 0, Clean(c)
  PROVE  /\ path_scan(Rows(c)) = {} /\ names(Rows(c)) = {} /\ Scan(Rows(c), "session") = {}
         /\ path_scan(commit_introduced(c)) = {} /\ Scan(commit_introduced(c), "session") = {}
         /\ infra_tree_findings(c) = {} /\ infra_charged(c) = {}
         /\ \A lo : /\ path_scan(added_rows(lo, c)) = {} /\ names(added_rows(lo, c)) = {}
                    /\ path_hits(added_paths(lo, c)) = {}
<1>1. \A r \in Rows(c) : /\ ~Has(r, "path") /\ ~Has(r, "name") /\ ~Has(r, "session")
                         /\ r[1] \notin NamedFiles
  BY DEF Clean, CleanRows, Has, Forbidden
<1>2. \A rows \in SUBSET Rows(c) :
        path_scan(rows) = {} /\ names(rows) = {} /\ Scan(rows, "session") = {}
  BY <1>1 DEF path_scan, names, Scan
<1>3. FilesOf(c) \cap NamedFiles = {}
  BY <1>1 DEF FilesOf
<1>4. path_hits(FilesOf(c)) = {} /\ \A lo : path_hits(added_paths(lo, c)) = {}
  BY <1>3 DEF path_hits, added_paths
<1>5. commit_introduced(c) \subseteq Rows(c) /\ \A lo : added_rows(lo, c) \subseteq Rows(c)
  BY DEF commit_introduced, added_rows
<1>6. \A lo : path_scan(added_rows(lo, c)) = {} /\ names(added_rows(lo, c)) = {}
  BY <1>2, <1>5
<1>7. infra_charged(c) = {}
  BY <1>4, <1>6 DEF infra_charged
<1>8. QED
  BY <1>2, <1>4, <1>5, <1>6, <1>7 DEF infra_tree_findings

\* No arm of a gate that reads a range of clean commits refuses it.
LEMMA RangePasses ==
  ASSUME Inv, Innocent(menu), \A c \in Known : Clean(c), NEW c \in Known, NEW lo, Below(lo, c),
         NEW B, NEW shown, NEW others, NEW b \in Branches
  PROVE  /\ trailers(lo, c) /\ push_mode(lo, c, B) /\ subject_range(lo, c, B)
         /\ paths_range(lo, c, menu.pins, shown, others)
         /\ infra_range(lo, c, B) /\ ref_mode(RefKinds(b))
<1>1. rev_list(lo, c) # {} /\ rev_list(lo, c) \subseteq Known /\ c # 0 /\ 0 \notin Known
  BY RangeIsThere, Reach DEF Inv
<1>2. \A d \in Known : /\ Message(d) \cap Forbidden = {} /\ Subject(d) \cap Refused = {}
                       /\ Body(d) \cap Forbidden = {}
  BY DEF Clean, Message, Subject, Body, Forbidden, Refused
<1>3. Says(rev_list(lo, c), {"session"}) = {} /\ Says(rev_list(lo, c), {"path"}) = {}
      /\ subject_debt(rev_list(lo, c)) = {}
  BY <1>1, <1>2 DEF Says, Forbidden, subject_debt
<1>4. trailers(lo, c)
  BY <1>1, <1>3, NothingFound DEF trailers, trailers_scan
<1>5. push_mode(lo, c, B)
  <2>1. ASSUME NEW d \in rev_list(lo, c)
        PROVE  /\ "session" \notin Message(d)
               /\ path_scan(commit_introduced(d)) = {} /\ Scan(commit_introduced(d), "session") = {}
    BY <1>1, <1>2, <2>1, NothingFound DEF Forbidden
  <2>2. QED
    BY <1>1, <2>1 DEF push_mode
<1>6. subject_range(lo, c, B)
  BY <1>1, <1>2, <1>3 DEF subject_range, Forbidden
<1>7. paths_range(lo, c, menu.pins, shown, others)
  BY <1>1, <1>3, NothingFound DEF paths_range, partition, Innocent
<1>8. infra_range(lo, c, B)
  BY <1>1, NothingFound DEF infra_range
<1>9. ref_mode(RefKinds(b))
  BY DEF ref_mode, RefKinds, Innocent
<1>10. QED
  BY <1>4, <1>5, <1>6, <1>7, <1>8, <1>9

\* A push of clean commits goes through the hook, whatever range it takes.
LEMMA CleanPush ==
  ASSUME Inv, Innocent(menu), \A c \in Known : Clean(c), NEW b \in Branches, NEW c \in Known
  PROVE  pre_push(b, c)
BY PushRange, RangePasses DEF pre_push

\* A run of the workflow on a clean head that is no root commit is green.
LEMMA CleanRun ==
  ASSUME Inv, Innocent(menu), \A c \in Known : Clean(c), NEW b \in Branches,
         NEW before \in Known \cup {0}, NEW c \in Known, Parents(c) # <<>>
  PROVE  commit_trailers(before, c) /\ private_paths(b, before, c)
<1> DEFINE lo == scrub_base(before, c)
<1>1. lo # 0 /\ Below(lo, c) /\ Below(0, c) /\ c # 0 /\ 0 \notin Known
  BY RunRange, Reach DEF Inv, Below
<1>2. commit_trailers(before, c)
  <2> HIDE DEF lo
  <2>1. trailers(lo, c) /\ trailers(0, c)
    BY <1>1, RangePasses DEF Inv
  <2>2. QED
    BY <1>1, <2>1 DEF commit_trailers, lo
<1>3. Anc(c) \subseteq Known
  BY Reach DEF Inv
<1>4. ASSUME NEW d \in Anc(c)
      PROVE  /\ path_scan(commit_introduced(d)) = {} /\ infra_charged(d) = {}
             /\ "path" \notin Message(d) /\ Subject(d) \cap Refused = {}
  <2>1. d # 0 /\ Clean(d)
    BY <1>1, <1>3
  <2>2. Message(d) \cap Forbidden = {}
    BY <2>1 DEF Clean
  <2>3. QED
    BY <2>1, <2>2, NothingFound DEF Message, Subject, Forbidden, Refused
<1>5. message_findings(c) = {} /\ history_findings(c) = {} /\ infra_history_findings(c) = {}
      /\ subject_debt(Anc(c)) = {}
  BY <1>4 DEF message_findings, Says, history_findings, infra_history_findings, subject_debt
<1>6. /\ paths_tree(c, Base(c)) /\ infra_tree(c, Base(c)) /\ paths_messages(c, Base(c))
      /\ subject_history(c, Base(c)) /\ paths_history(c, Base(c)) /\ infra_history(c, Base(c))
  <2>1. Rows(c) # {} /\ Base(c).subjects = {}
    BY DEF Clean, Innocent
  <2>2. QED
    BY <1>1, <1>5, <2>1, NothingFound
       DEF paths_tree, infra_tree, paths_messages, subject_history, paths_history, infra_history
<1>7. private_paths(b, before, c)
  <2>1. /\ paths_range(lo, c, menu.pins, remote, [d \in Branches |-> 0])
        /\ subject_range(lo, c, Base(c)) /\ ref_mode(RefKinds(b)) /\ infra_range(lo, c, Base(c))
    <3> HIDE DEF lo
    <3> QED
      BY <1>1, RangePasses
  <2>2. QED
    BY <1>1, <1>6, <2>1 DEF private_paths
<1>8. QED
  BY <1>2, <1>7

------------------------------------------------------------------------------
(* Clean work stays clean.                                                 *)

\* A new commit of clean lines, with a clean message and no recorded subject.
LEMMA NewCommitClean ==
  ASSUME Inv, Unsullied, menu' = menu, NEW parents, NEW rows, NEW msg, NEW base, NEW forge, NEW read,
         NewCommit(parents, rows, msg, base, forge, read),
         CleanRows(rows), menu.start.rows \ menu.rows \subseteq rows,
         (msg.subject \cup msg.body) \cap Forbidden = {}, base.subjects = {}
  PROVE  \A c \in Known' : Clean(c)'
<1>1. PICK new :
        /\ Known' = Known \cup {new} /\ new # 0
        /\ \A c \in Known : commits'[c] = commits[c]
        /\ commits'[new].rows = rows /\ commits'[new].base = base
        /\ commits'[new].subject = msg.subject /\ commits'[new].body = msg.body
  BY NewCommitAdds DEF Inv
<1>2. \A c \in Known : Clean(c)'
  BY <1>1 DEF Unsullied, Clean, Rows, Message, Base, CleanRows
<1>3. Rows(new)' = rows /\ Message(new)' = msg.subject \cup msg.body /\ Base(new)' = base
  BY <1>1 DEF Rows, Message, Base
<1>4. Clean(new)'
  BY <1>3 DEF Clean, CleanRows
<1>5. QED
  BY <1>1, <1>2, <1>4

\* A merge of clean commits is clean, and keeps the lines that stay.
LEMMA CleanMerge ==
  ASSUME Inv, Unsullied, NEW b \in Known, NEW c \in Known
  PROVE  /\ CleanRows(MergeRows(b, c)) /\ menu.start.rows \ menu.rows \subseteq MergeRows(b, c)
         /\ MergeBases(b, c).subjects = {}
<1>1. Clean(b) /\ Clean(c)
  BY DEF Unsullied
<1>2. CleanRows(MergeRows(b, c)) /\ menu.start.rows \ menu.rows \subseteq MergeRows(b, c)
  BY <1>1 DEF Clean, CleanRows, MergeRows, Merge
<1>3. MergeBases(b, c).subjects =
        Merge(Base(b).subjects, Base(c).subjects, BaseOf(merge_base(b, c)).subjects)
  BY DEF MergeBases, MergeBase, EmptyBaseline
<1>4. QED
  BY <1>1, <1>2, <1>3 DEF Clean, Merge

\* No step of the innocent makes a commit or a worktree that is not clean.
LEMMA WorkStaysClean ==
  ASSUME Inv, Innocent(menu), Unsullied, [Next]_vars
  PROVE  menu' = menu /\ (\A c \in Known' : Clean(c)') /\ wt'.subjects = {}
<1>1. menu' = menu
  BY DEF Next, vars, clone, Commit, MergeLocal, Checkout, Branch, Reset, Fetch, WriteBaseline, Push,
         PushTag, Scrub, ReadProse, EndCheck, EditProse, CheckClaims, ForgeMerge
<1>2. Heads /\ wt.subjects = {} /\ \A c \in Known : Clean(c)
  BY DEF Inv, Unsullied
<1>3. ASSUME commits' = commits
      PROVE  \A c \in Known' : Clean(c)'
  BY <1>1, <1>2, <1>3 DEF Known, Clean, Rows, Message, Base, CleanRows
<1>4. ASSUME NEW row \in menu.rows, NEW msg \in menu.messages, Commit(row, msg)
      PROVE  (\A c \in Known' : Clean(c)') /\ wt'.subjects = {}
  <2>1. Tip \in Known /\ Clean(Tip) /\ "subjects" \in DOMAIN Base(Tip)
    BY <1>2, <1>4 DEF Commit, Heads, Tip, Inv, Chain, Linked, EmptyBaseline
  <2>2. PICK rows \in {Rows(Tip), Rows(Tip) \cup {row}, Rows(Tip) \ {row}},
             base \in {wt, Base(Tip)} \cup Edited :
          /\ NewCommit(<<Tip>>, rows, msg, base, FALSE, FALSE)
          /\ wt' = IF base \in {wt, Base(Tip)} THEN wt ELSE base
    BY <1>4 DEF Commit
  <2>3. CleanRows(rows) /\ menu.start.rows \ menu.rows \subseteq rows
    BY <2>1, <2>2 DEF Clean, CleanRows, Innocent
  <2>4. base.subjects = {}
    <3>1. ASSUME NEW e \in menu.edits
          PROVE  [Base(Tip) EXCEPT ![e.list] = e.value].subjects = {}
      BY <2>1 DEF Innocent, Clean
    <3>2. QED
      BY <1>2, <2>1, <2>2, <3>1 DEF Edited, Clean
  <2>5. (msg.subject \cup msg.body) \cap Forbidden = {}
    BY DEF Innocent
  <2>6. QED
    BY <1>1, <1>2, <2>2, <2>3, <2>4, <2>5, NewCommitClean
<1>5. ASSUME NEW b \in Branches, NEW row \in menu.rows, MergeLocal(b, row)
      PROVE  (\A c \in Known' : Clean(c)') /\ wt'.subjects = {}
  <2>1. Tip \in Known /\ local[b] \in Known
    BY <1>2, <1>5 DEF MergeLocal, Heads, Tip
  <2>2. PICK rows \in {MergeRows(Tip, local[b]), MergeRows(Tip, local[b]) \cup {row}} :
          NewCommit(<<Tip, local[b]>>, rows, Quiet, MergeBases(Tip, local[b]), FALSE, FALSE)
    BY <1>5 DEF MergeLocal
  <2>3. CleanRows(rows) /\ menu.start.rows \ menu.rows \subseteq rows
    BY <2>1, <2>2, CleanMerge DEF CleanRows, Innocent
  <2>4. MergeBases(Tip, local[b]).subjects = {}
    BY <2>1, CleanMerge
  <2>5. (Quiet.subject \cup Quiet.body) \cap Forbidden = {}
    BY DEF Quiet
  <2>6. wt' = MergeBases(Tip, local[b])
    BY <1>5 DEF MergeLocal
  <2>7. QED
    BY <1>1, <2>2, <2>3, <2>4, <2>5, <2>6, NewCommitClean
<1>6. CASE ForgeMerge
  <2> DEFINE m == remote["main"]
             t == remote["topic"]
             msg == [subject |-> RefKinds("topic"), body |-> pr.title]
             read == (pr.claims = [green |-> TRUE, on |-> <<m, t>>])
  <2>1. m \in Known /\ t \in Known
    BY <1>6, ForgeMergeGrows
  <2>2. NewCommit(<<m, t>>, MergeRows(m, t), msg, MergeBases(m, t), TRUE, read) /\ wt' = wt
    BY <1>6 DEF ForgeMerge, clone
  <2>3. (msg.subject \cup msg.body) \cap Forbidden = {}
    BY DEF Unsullied, Innocent, RefKinds
  <2>4. QED
    <3>1. /\ CleanRows(MergeRows(m, t)) /\ menu.start.rows \ menu.rows \subseteq MergeRows(m, t)
          /\ MergeBases(m, t).subjects = {}
      BY <2>1, CleanMerge
    <3> HIDE DEF m, t, msg, read
    <3>2. QED
      BY <1>1, <1>2, <2>2, <2>3, <3>1, NewCommitClean
<1>7. ASSUME NEW b \in Branches, Checkout(b)
      PROVE  (\A c \in Known' : Clean(c)') /\ wt'.subjects = {}
  <2>1. local[b] \in Known /\ wt' = Base(local[b]) /\ commits' = commits
    BY <1>2, <1>7 DEF Checkout, Heads
  <2>2. QED
    BY <1>2, <1>3, <2>1 DEF Clean
<1>8. CASE Reset
  <2>1. Tip \in Known /\ FirstParent(Tip) # 0
    BY <1>2, <1>8 DEF Reset, Heads, Tip
  <2>2. FirstParent(Tip) \in Known
    BY <2>1, BelowIsLess, ParentIsBelow
  <2>3. wt' \in {wt, Base(FirstParent(Tip))} /\ commits' = commits
    BY <1>8 DEF Reset
  <2>4. QED
    BY <1>1, <1>2, <1>3, <2>2, <2>3 DEF Clean
<1>9. ASSUME NEW list, WriteBaseline(list)
      PROVE  (\A c \in Known' : Clean(c)') /\ wt'.subjects = {}
  <2>1. Tip \in Known /\ "subjects" \in DOMAIN wt /\ commits' = commits
    BY <1>2, <1>9 DEF WriteBaseline, Heads, Tip, EmptyBaseline
  <2>2. subject_debt(Anc(Tip)) = {}
    <3>1. Anc(Tip) \subseteq Known
      BY <2>1, Reach DEF Inv
    <3>2. QED
      BY <1>2, <3>1 DEF subject_debt, Clean, Message, Subject, Forbidden, Refused
  <2>3. wt' = [wt EXCEPT ![list] =
                 merge_write_baseline(wt[list], Found(list), list \in {"paths", "infra"})]
    BY <1>9 DEF WriteBaseline
  <2>4. CASE list = "subjects"
    <3>1. Found(list) = {}
      BY <2>2, <2>4 DEF Found
    <3>2. QED
      BY <1>2, <1>3, <2>1, <2>3, <2>4, <3>1 DEF merge_write_baseline
  <2>5. CASE list # "subjects"
    BY <1>2, <1>3, <2>1, <2>3, <2>5
  <2>6. QED
    BY <2>4, <2>5
<1>10. CASE \/ Branch \/ Fetch \/ Push \/ ReadProse \/ EndCheck \/ CheckClaims
            \/ \E b \in Branches : Scrub(b)
            \/ \E t \in menu.tags : PushTag(t)
            \/ \E title \in menu.titles : EditProse(title)
            \/ UNCHANGED vars
  <2>1. commits' = commits /\ wt' = wt
    BY <1>10 DEF Branch, Fetch, Push, ReadProse, EndCheck, CheckClaims, Scrub, PushTag, EditProse,
                 vars, clone
  <2>2. QED
    BY <1>1, <1>2, <1>3, <2>1
<1>11. QED
  BY <1>1, <1>4, <1>5, <1>6, <1>7, <1>8, <1>9, <1>10 DEF Next

\* No title of the innocent is forbidden.
LEMMA TitleStaysClean ==
  ASSUME Inv, Innocent(menu), Unsullied, [Next]_vars
  PROVE  pr'.title \cap Forbidden = {}
<1>1. DOMAIN pr = {"title", "check", "judged", "edits", "claims"} /\ pr.title \cap Forbidden = {}
  BY DEF Inv, Judged, Unsullied
<1>2. ASSUME NEW title \in menu.titles, EditProse(title)
      PROVE  pr'.title \cap Forbidden = {}
  BY <1>1, <1>2 DEF EditProse, Innocent
<1>3. CASE Push \/ ReadProse \/ EndCheck \/ CheckClaims
  BY <1>1, <1>3 DEF Push, ReadProse, EndCheck, CheckClaims
<1>4. CASE pr' = pr
  BY <1>1, <1>4
<1>5. QED
  BY <1>2, <1>3, <1>4
     DEF Next, vars, Commit, MergeLocal, Checkout, Branch, Reset, Fetch, WriteBaseline, PushTag, Scrub,
         ForgeMerge

\* No hook refuses the innocent, and no run of theirs is red but on a root commit.
LEMMA NoRedStep ==
  ASSUME Inv, Innocent(menu), Unsullied, [Next]_vars
  PROVE  /\ NoSpuriousRed'
         /\ \A b \in Branches : run'[b].status = "running" => run'[b].before \in Known' \cup {0}
<1>1. /\ Heads /\ verdict # "refused" /\ Known \subseteq Known'
      /\ \A c \in Known : Clean(c) /\ commits'[c] = commits[c]
      /\ \A b \in Branches : /\ run[b].status = "red" => Parents(run[b].head) = <<>>
                             /\ run[b].status = "running" => run[b].before \in Known \cup {0}
  BY ChainStep DEF Inv, Unsullied, NoSpuriousRed
<1>2. verdict' # "refused"
  <2>1. CASE Push
    <3>1. Tip \in Known /\ cur \in Branches
      BY <1>1, <2>1 DEF Push, Heads, Tip
    <3>2. pre_push(cur, Tip)
      BY <1>1, <3>1, CleanPush
    <3>3. QED
      BY <2>1, <3>2 DEF Push
  <2>2. CASE ~Push
    BY <1>1, <2>2
       DEF Next, vars, Commit, MergeLocal, Checkout, Branch, Reset, Fetch, WriteBaseline, PushTag,
           Scrub, ReadProse, EndCheck, EditProse, CheckClaims, ForgeMerge
  <2>3. QED
    BY <2>1, <2>2
<1>3. ASSUME NEW b \in Branches, run'[b] = run[b]
      PROVE  /\ run'[b].status = "red" => Parents(run[b].head)' = <<>>
             /\ run'[b].status = "running" => run'[b].before \in Known' \cup {0}
  BY <1>1, <1>3 DEF Heads, Parents
<1>4. ASSUME NEW b \in Branches, NEW h, run' = Started(b, h)
      PROVE  \A d \in Branches :
               /\ run'[d].status = "red" => Parents(run[d].head)' = <<>>
               /\ run'[d].status = "running" => run'[d].before \in Known' \cup {0}
  <2>1. run'[b] = [head |-> h, before |-> remote[b], status |-> "running"]
        /\ \A d \in Branches \ {b} : run'[d] = run[d]
    BY <1>1, <1>4 DEF Started, Heads
  <2>2. run'[b].status = "running" /\ run'[b].before \in Known' \cup {0}
    BY <1>1, <2>1 DEF Heads
  <2>3. QED
    BY <1>3, <2>1, <2>2
<1>5. ASSUME NEW b \in Branches, Scrub(b)
      PROVE  \A d \in Branches :
               /\ run'[d].status = "red" => Parents(run[d].head)' = <<>>
               /\ run'[d].status = "running" => run'[d].before \in Known' \cup {0}
  <2>1. run[b].head \in Known /\ run[b].before \in Known \cup {0} /\ commits' = commits
    BY <1>1, <1>5 DEF Scrub, Heads
  <2>2. open_mode(pr.title, {})
    BY DEF Unsullied, open_mode, Forbidden
  <2>3. Parents(run[b].head) # <<>> =>
          /\ commit_trailers(run[b].before, run[b].head)
          /\ private_paths(b, run[b].before, run[b].head)
    BY <1>1, <2>1, CleanRun
  <2>4. /\ run'[b].head = run[b].head /\ run'[b].status \in {"green", "red"}
        /\ Parents(run[b].head) # <<>> => run'[b].status = "green"
        /\ \A d \in Branches \ {b} : run'[d] = run[d]
    BY <1>1, <1>5, <2>2, <2>3 DEF Scrub, Heads
  <2>5. Parents(run[b].head)' = Parents(run[b].head)
    BY <2>1, <2>4 DEF Parents
  <2>6. QED
    BY <1>3, <2>4, <2>5
<1>6. CASE Push
  <2>1. run' = run \/ run' = Started(cur, Tip)
    BY <1>6 DEF Push
  <2>2. cur \in Branches
    BY <1>1 DEF Heads
  <2>3. QED
    BY <1>2, <1>3, <1>4, <2>1, <2>2 DEF NoSpuriousRed
<1>7. CASE ForgeMerge
  BY <1>2, <1>4, <1>7 DEF ForgeMerge, NoSpuriousRed, Branches
<1>8. CASE run' = run
  BY <1>2, <1>3, <1>8 DEF NoSpuriousRed
<1>9. CASE \E b \in Branches : Scrub(b)
  BY <1>2, <1>5, <1>9 DEF NoSpuriousRed
<1>10. QED
  BY <1>6, <1>7, <1>8, <1>9
     DEF Next, vars, Commit, MergeLocal, Checkout, Branch, Reset, Fetch, WriteBaseline, PushTag,
         ReadProse, EndCheck, EditProse, CheckClaims

\* The gates do not cry wolf: however innocent people branch, merge, reset, force
\* and write baselines, no hook refuses a push of theirs and no run of the
\* workflow is red, but on a root commit (pre-push push_base; scrub.yml).
THEOREM InnocentPass == Spec => []NoSpuriousRed
<1> DEFINE CleanInv == Inv /\ (Innocent(menu) => Unsullied)
<1>1. Init => CleanInv
  <2> SUFFICES ASSUME Init, Innocent(menu)
               PROVE  Unsullied
    BY InitInv
  <2>1. PICK root : /\ commits = <<root>> /\ root.rows = menu.start.rows /\ root.subject = {}
                    /\ root.body = {} /\ root.base = menu.start.base
    BY DEF Init
  <2>2. Known = {1} /\ commits[1] = root
    BY <2>1 DEF Known
  <2>3. Clean(1)
    BY <2>1, <2>2 DEF Clean, CleanRows, Rows, Message, Base, Innocent
  <2>4. wt.subjects = {} /\ pr.title = {} /\ verdict = "none"
        /\ \A b \in Branches : run[b].status = "none"
    BY DEF Init, Innocent, Idle
  <2>5. QED
    BY <2>2, <2>3, <2>4 DEF Unsullied, NoSpuriousRed
<1>2. CleanInv /\ [Next]_vars => CleanInv'
  <2> SUFFICES ASSUME Inv, Innocent(menu) => Unsullied, [Next]_vars
               PROVE  Inv' /\ (Innocent(menu)' => Unsullied')
    OBVIOUS
  <2>1. menu' = menu
    BY DEF Next, vars, clone, Commit, MergeLocal, Checkout, Branch, Reset, Fetch, WriteBaseline, Push,
           PushTag, Scrub, ReadProse, EndCheck, EditProse, CheckClaims, ForgeMerge
  <2>2. Innocent(menu)' <=> Innocent(menu)
    BY <2>1 DEF Innocent
  <2>3. Innocent(menu) => Unsullied'
    BY WorkStaysClean, TitleStaysClean, NoRedStep DEF Unsullied
  <2>4. QED
    BY <2>2, <2>3, InvStep
<1>3. CleanInv => NoSpuriousRed
  BY DEF Unsullied, NoSpuriousRed
<1>4. QED
  BY <1>1, <1>2, <1>3, PTL DEF Spec
-------------------------------------------------------------------------------
\* What the claim jobs found in order: the rows and the records that a merge
\* into b brings.
Checked(b, rows, B) == prose_scan(rows, B) /\ ratchet(Rows(b), Base(b), rows, B)

\* A merge made on green jobs is of exactly what they were green for.
Vetted ==
  /\ \A c \in Known :
       /\ Rows(c) \subseteq Files \X Lines
       /\ commits[c].claims => FirstParent(c) \in Known /\ Checked(FirstParent(c), Rows(c), Base(c))
  /\ \E m, t \in Known \cup {0} :
       /\ pr.claims.on = <<m, t>>
       /\ pr.claims.green /\ m # 0 /\ t # 0 => Checked(m, MergeRows(m, t), MergeBases(m, t))

------------------------------------------------------------------------------
(* What the claim jobs let through.                                        *)

\* s is a claim on the new line r, of no ledger and no debt of before.
NewClaim(old, rows, B, Bb, r, s) ==
  /\ old \in SUBSET (Files \X Lines) /\ rows \in SUBSET (Files \X Lines)
  /\ prose_scan(rows, B) /\ ratchet(old, Bb, rows, B) /\ {"debt", "ledgers"} \subseteq Bb.files
  /\ r \in rows \ old /\ s \in Pieces[r[2]] /\ <<r[1], s>> \in claims(rows, Bb) \ Bb.debt
ReadIn(rows, B, k) ==
  \E read \in B.reads : /\ read.claim = k /\ read.reader[1] # read.author[1]
                        /\ <<read.lean, read.stmt>> \in rows

\* A claim on a new line is read, or else recorded: and neither a split
\* sentence nor a wider lexicon licenses the record of one on a new line.
LEMMA NewClaimsAreRead ==
  ASSUME NEW old, NEW rows, NEW B, NEW Bb, NEW r, NEW s, NewClaim(old, rows, B, Bb, r, s)
  PROVE  ReadIn(rows, B, <<r[1], s>>)
<1> USE DEF NewClaim
<1> DEFINE k == <<r[1], s>>
           added == B.debt \ Bb.debt
           removed == Bb.debt \ B.debt
           spans == removed \cap prose_claims(old, epoch_of(rows), TRUE) \cap rows
<1>1. k \in claims(rows, B)
  BY DEF claims, ratchet
<1>2. k \notin widening(old, Bb, rows, B, added)
  <2>1. k[1] = r[1] /\ r \in TextOf(rows, k[1]) /\ r \notin TextOf(old, k[1])
    BY DEF TextOf
  <2>2. QED
    BY <2>1 DEF widening
<1>3. k \notin split_migration(old, rows, B, added, removed)
  <2>1. prose_claims(old, epoch_of(rows), TRUE) \subseteq old
    <3> SUFFICES ASSUME NEW claim \in prose_claims(old, epoch_of(rows), TRUE)
                 PROVE  claim \in old
      OBVIOUS
    <3>1. PICK q \in old : claim \in {<<q[1], t>> : t \in {u \in split_sentences(q[2], TRUE) :
                             is_claim(u, is_headline(q[1], epoch_of(rows)), epoch_of(rows), FALSE)}}
      BY Zenon DEF prose_claims
    <3>2. split_sentences(q[2], TRUE) = {q[2]}
      BY DEF split_sentences
    <3>3. claim = <<q[1], q[2]>>
      BY <3>1, <3>2
    <3>4. q = <<q[1], q[2]>>
      OBVIOUS
    <3>5. QED
      BY <3>3, <3>4
  <2>2. r \in TextOf(rows, k[1]) /\ k[2] \in Pieces[r[2]] /\ r \notin spans
    BY <2>1 DEF TextOf
  <2>3. QED
    BY <2>2 DEF split_migration
<1>4. k \notin B.debt
  <2> SUFFICES ASSUME k \in added
               PROVE  FALSE
    OBVIOUS
  <2>1. added \subseteq split_migration(old, rows, B, added, removed)
                          \cup widening(old, Bb, rows, B, added)
    BY DEF ratchet
  <2>2. QED
    BY <1>2, <1>3, <2>1
<1>5. PICK read \in B.reads : read_ok(rows, B, read) /\ read.claim = k
  BY <1>1, <1>4 DEF prose_scan, read_keys
<1>6. read.reader[1] # read.author[1]
  BY <1>5 DEF read_ok, SelfRead
<1>7. <<read.lean, read.stmt>> \in rows
  <2>1. read.stmt \in lean_decls(rows, read.lean)
    BY <1>5 DEF read_ok, decl_statement
  <2>2. PICK q \in TextOf(rows, read.lean) : q[2] = read.stmt
    BY <2>1 DEF lean_decls
  <2>3. QED
    BY <2>2 DEF TextOf
<1>8. QED
  BY <1>5, <1>6, <1>7 DEF ReadIn

------------------------------------------------------------------------------
(* What was vetted stays as it was vetted.                                 *)

\* No step changes what a merge of two commits is.
LEMMA MergeStays ==
  ASSUME Inv, [Next]_vars, NEW m \in Known, NEW t \in Known
  PROVE  /\ MergeRows(m, t)' = MergeRows(m, t) /\ MergeBases(m, t)' = MergeBases(m, t)
         /\ Rows(m)' = Rows(m) /\ Base(m)' = Base(m)
<1>1. (\A c \in Known : commits'[c] = commits[c] /\ Anc(c) \subseteq Known)
  BY ChainStep
<1>2. \A c \in Known : Anc(c)' = Anc(c) /\ Rows(c)' = Rows(c) /\ Base(c)' = Base(c)
  BY <1>1 DEF Anc, Rows, Base
<1>3. merge_base(m, t)' = merge_base(m, t)
  <2> DEFINE Best(common) == IF common = {} THEN 0
                             ELSE CHOOSE best \in common : \A k \in common : k <= best
  <2>1. (Anc(m) \cap Anc(t))' = Anc(m) \cap Anc(t)
    BY <1>2
  <2>2. /\ merge_base(m, t) = Best(Anc(m) \cap Anc(t))
        /\ merge_base(m, t)' = Best((Anc(m) \cap Anc(t))')
    BY DEF merge_base
  <2> HIDE DEF Best
  <2>3. QED
    BY <2>1, <2>2
<1>4. merge_base(m, t) \in Known \cup {0}
  BY <1>1, MergeBaseIsCommon
<1>5. Rows(merge_base(m, t))' = Rows(merge_base(m, t))
      /\ BaseOf(merge_base(m, t))' = BaseOf(merge_base(m, t))
  <2>1. CASE merge_base(m, t) = 0
    BY <1>3, <2>1 DEF Rows, BaseOf, EmptyBaseline
  <2>2. CASE merge_base(m, t) \in Known
    BY <1>1, <1>3, <2>2 DEF Rows, BaseOf, EmptyBaseline, Base
  <2>3. QED
    BY <1>4, <2>1, <2>2
<1>6. QED
  BY <1>2, <1>5 DEF MergeRows, MergeBases, MergeBase, EmptyBaseline

\* A merge has no lines but those of files.
LEMMA MergeOfLines ==
  ASSUME Vetted, NEW m \in Known, NEW t \in Known
  PROVE  MergeRows(m, t) \subseteq Files \X Lines
BY DEF Vetted, MergeRows, Merge

\* A new commit is vetted if it is made of lines, and on green jobs as they found it.
LEMMA NewCommitVetted ==
  ASSUME Inv, Vetted, [Next]_vars, NEW parents, NEW rows, NEW msg, NEW base, NEW forge, NEW read,
         NewCommit(parents, rows, msg, base, forge, read), rows \subseteq Files \X Lines,
         read => /\ parents # <<>> /\ parents[1] \in Known /\ Checked(parents[1], rows, base)
  PROVE  \A c \in Known' :
           /\ Rows(c)' \subseteq Files \X Lines
           /\ commits'[c].claims =>
                FirstParent(c)' \in Known' /\ Checked(FirstParent(c), Rows(c), Base(c))'
<1>1. PICK new :
        /\ Known' = Known \cup {new} /\ new # 0
        /\ \A c \in Known : commits'[c] = commits[c]
        /\ commits'[new].parents = parents /\ commits'[new].rows = rows
        /\ commits'[new].base = base /\ commits'[new].claims = read
  BY NewCommitAdds DEF Inv
<1>2. ASSUME NEW c \in Known
      PROVE  /\ Rows(c)' \subseteq Files \X Lines
             /\ commits'[c].claims =>
                  FirstParent(c)' \in Known' /\ Checked(FirstParent(c), Rows(c), Base(c))'
  <2>1. Rows(c)' = Rows(c) /\ Base(c)' = Base(c) /\ FirstParent(c)' = FirstParent(c)
    BY <1>1 DEF Rows, Base, FirstParent, Parents
  <2>2. FirstParent(c) \in Known => /\ Rows(FirstParent(c))' = Rows(FirstParent(c))
                                    /\ Base(FirstParent(c))' = Base(FirstParent(c))
    BY <1>1, <2>1 DEF Rows, Base
  <2>3. QED
    BY <1>1, <2>1, <2>2 DEF Vetted, Checked
<1>3. Rows(new)' = rows /\ Base(new)' = base
  BY <1>1 DEF Rows, Base
<1>4. ASSUME read
      PROVE  FirstParent(new)' \in Known' /\ Checked(FirstParent(new), Rows(new), Base(new))'
  <2>1. FirstParent(new)' = parents[1] /\ parents[1] \in Known
    BY <1>1, <1>4 DEF FirstParent, Parents
  <2>2. Rows(FirstParent(new))' = Rows(parents[1]) /\ Base(FirstParent(new))' = Base(parents[1])
    BY <1>1, <2>1 DEF Rows, Base
  <2>3. QED
    BY <1>1, <1>3, <1>4, <2>1, <2>2 DEF Checked
<1>5. QED
  BY <1>1, <1>2, <1>3, <1>4

\* Every step leaves the commits, and what the claim jobs said, vetted.
LEMMA VettedStep ==
  ASSUME Inv, Vetted, [Next]_vars
  PROVE  Vetted'
<1> DEFINE Commits == \A c \in Known :
             /\ Rows(c) \subseteq Files \X Lines
             /\ commits[c].claims =>
                  FirstParent(c) \in Known /\ Checked(FirstParent(c), Rows(c), Base(c))
           Jobs(m, t) == /\ pr.claims.on = <<m, t>>
                         /\ pr.claims.green /\ m # 0 /\ t # 0 =>
                              Checked(m, MergeRows(m, t), MergeBases(m, t))
<1>1. Heads /\ Known \subseteq Known' /\ (0 \notin Known) /\ menu \in Menus
  BY ChainStep, Reach DEF Inv, Heads
<1>2. ASSUME commits' = commits
      PROVE  Commits'
  <2>1. Known' = Known /\ Commits
    BY <1>2 DEF Known, Vetted
  <2>2. ASSUME NEW c \in Known
        PROVE  /\ Rows(c)' = Rows(c) /\ Base(c)' = Base(c) /\ commits'[c] = commits[c]
               /\ FirstParent(c)' = FirstParent(c)
               /\ Rows(FirstParent(c))' = Rows(FirstParent(c))
               /\ Base(FirstParent(c))' = Base(FirstParent(c))
    BY <1>2 DEF Rows, Base, FirstParent, Parents
  <2>3. QED
    BY <2>1, <2>2 DEF Checked
<1>3. Commits'
  <2>1. ASSUME NEW row \in menu.rows, NEW msg, Commit(row, msg)
        PROVE  Commits'
    <3>1. Tip \in Known
      BY <1>1, <2>1 DEF Commit, Heads, Tip
    <3>2. PICK rows \in {Rows(Tip), Rows(Tip) \cup {row}, Rows(Tip) \ {row}},
               base \in {wt, Base(Tip)} \cup Edited :
            NewCommit(<<Tip>>, rows, msg, base, FALSE, FALSE)
      BY <2>1 DEF Commit
    <3>3. rows \subseteq Files \X Lines
      BY <1>1, <3>1, <3>2, MenusAssumption DEF Vetted
    <3>4. QED
      BY <3>2, <3>3, NewCommitVetted
  <2>2. ASSUME NEW b \in Branches, NEW row \in menu.rows, MergeLocal(b, row)
        PROVE  Commits'
    <3>1. Tip \in Known /\ local[b] \in Known
      BY <1>1, <2>2 DEF MergeLocal, Heads, Tip
    <3>2. PICK rows \in {MergeRows(Tip, local[b]), MergeRows(Tip, local[b]) \cup {row}} :
            NewCommit(<<Tip, local[b]>>, rows, Quiet, MergeBases(Tip, local[b]), FALSE, FALSE)
      BY <2>2 DEF MergeLocal
    <3>3. rows \subseteq Files \X Lines
      BY <1>1, <3>1, <3>2, MergeOfLines, MenusAssumption
    <3>4. QED
      BY <3>2, <3>3, NewCommitVetted
  <2>3. CASE ForgeMerge
    <3> DEFINE m == remote["main"]
               t == remote["topic"]
               msg == [subject |-> RefKinds("topic"), body |-> pr.title]
               read == (pr.claims = [green |-> TRUE, on |-> <<m, t>>])
    <3>1. m \in Known /\ t \in Known /\ <<m, t>> # <<>> /\ <<m, t>>[1] = m
      BY <2>3, ForgeMergeGrows
    <3>2. NewCommit(<<m, t>>, MergeRows(m, t), msg, MergeBases(m, t), TRUE, read)
      BY <2>3 DEF ForgeMerge
    <3>3. MergeRows(m, t) \subseteq Files \X Lines
      BY <3>1, MergeOfLines
    <3>4. read => Checked(m, MergeRows(m, t), MergeBases(m, t))
      <4>1. PICK mm, tt : Jobs(mm, tt)
        BY DEF Vetted
      <4>2. read => pr.claims.green /\ pr.claims.on = <<m, t>>
        OBVIOUS
      <4>3. m # 0 /\ t # 0
        BY <1>1, <3>1
      <4>4. read => mm = m /\ tt = t
        BY <4>1, <4>2
      <4>5. QED
        BY <4>1, <4>2, <4>3, <4>4
    <3>5. QED
      <4> HIDE DEF m, t, msg, read
      <4> QED
        BY <3>1, <3>2, <3>3, <3>4, NewCommitVetted
  <2>4. QED
    BY <1>2, <2>1, <2>2, <2>3
       DEF Next, vars, Checkout, Branch, Reset, Fetch, WriteBaseline, Push, PushTag, Scrub, ReadProse,
           EndCheck, EditProse, CheckClaims
<1>4. ASSUME NEW m \in Known \cup {0}, NEW t \in Known \cup {0}, Jobs(m, t), pr'.claims = pr.claims
      PROVE  Jobs(m, t)'
  <2>1. CASE m \in Known /\ t \in Known
    BY <1>4, <2>1, MergeStays DEF Checked
  <2>2. CASE m = 0 \/ t = 0
    BY <1>4, <2>2
  <2>3. QED
    BY <2>1, <2>2
<1>5. CASE CheckClaims
  <2> DEFINE m == remote["main"]
             t == remote["topic"]
  <2>1. m \in Known \cup {0} /\ t \in Known \cup {0} /\ "claims" \in DOMAIN pr
    BY <1>1 DEF Heads, Branches, Inv, Judged
  <2>2. /\ pr'.claims.on = <<m, t>>
        /\ pr'.claims.green => Checked(m, MergeRows(m, t), MergeBases(m, t))
    BY <1>5, <2>1 DEF CheckClaims, Checked
  <2>3. commits' = commits /\ remote' = remote
    BY <1>5 DEF CheckClaims
  <2>4. m # 0 /\ t # 0 => (/\ MergeRows(m, t)' = MergeRows(m, t) /\ MergeBases(m, t)' = MergeBases(m, t)
                            /\ Rows(m)' = Rows(m) /\ Base(m)' = Base(m))
    BY <2>1, <2>3, MergeStays
  <2>5. QED
    BY <1>1, <1>3, <2>1, <2>2, <2>3, <2>4 DEF Vetted, Checked
<1>6. CASE ~CheckClaims
  <2>1. pr'.claims = pr.claims
    <3>1. "claims" \in DOMAIN pr
      BY DEF Inv, Judged
    <3>2. QED
      BY <1>6, <3>1
         DEF Next, vars, Commit, MergeLocal, Checkout, Branch, Reset, Fetch, WriteBaseline, Push,
             PushTag, Scrub, ReadProse, EndCheck, EditProse, ForgeMerge
  <2>2. PICK m \in Known \cup {0}, t \in Known \cup {0} : Jobs(m, t)
    BY DEF Vetted
  <2>3. Jobs(m, t)'
    BY <1>4, <2>1, <2>2
  <2>4. QED
    BY <1>1, <1>3, <2>3 DEF Vetted
<1>7. QED
  BY <1>5, <1>6

\* No claim on a line new to the default branch is unread, where the claim jobs
\* were green for exactly what was merged (check_prose_lean.py).
THEOREM MergedClaimsAreRead == Spec => []ClaimsStayRead
<1>1. Init => Vetted
  <2> SUFFICES ASSUME Init
               PROVE  Vetted
    OBVIOUS
  <2>1. PICK root : commits = <<root>> /\ root.rows = menu.start.rows /\ root.claims = FALSE
    BY DEF Init
  <2>2. Known = {1} /\ commits[1] = root /\ Rows(1) \subseteq Files \X Lines
    BY <2>1, MenusAssumption DEF Init, Known, Rows
  <2>3. pr.claims.on = <<0, 0>>
    BY DEF Init
  <2>4. QED
    BY <2>1, <2>2, <2>3 DEF Vetted
<1>2. Inv /\ Vetted /\ [Next]_vars => Vetted'
  BY VettedStep
<1>3. Inv /\ Vetted => ClaimsStayRead
  <2> SUFFICES ASSUME Inv, Vetted, NEW c \in Known, commits[c].claims,
                      {"debt", "ledgers"} \subseteq Base(FirstParent(c)).files,
                      NEW r \in Rows(c) \ Rows(FirstParent(c)), NEW s \in Pieces[r[2]],
                      <<r[1], s>> \in claims(Rows(c), Base(FirstParent(c))) \ Base(FirstParent(c)).debt
               PROVE  ReadAgainst(<<r[1], s>>, c)
    BY DEF ClaimsStayRead
  <2>1. /\ FirstParent(c) \in Known /\ Checked(FirstParent(c), Rows(c), Base(c))
        /\ Rows(c) \subseteq Files \X Lines /\ Rows(FirstParent(c)) \subseteq Files \X Lines
    BY DEF Vetted
  <2>2. NewClaim(Rows(FirstParent(c)), Rows(c), Base(c), Base(FirstParent(c)), r, s)
    BY <2>1 DEF NewClaim, Checked
  <2>3. ReadIn(Rows(c), Base(c), <<r[1], s>>)
    BY <2>2, NewClaimsAreRead
  <2>4. QED
    BY <2>3 DEF ReadIn, ReadAgainst
<1>4. QED
  BY <1>1, <1>2, <1>3, Invariant, PTL DEF Spec

------------------------------------------------------------------------------
(* The seal gate.                                                          *)

Line == [n : Int, label : Labels, sha : Texts]

SealTypeOK ==
  /\ verdicts \in [Sealers -> Texts]
  /\ record \in [Clones -> SUBSET Line]
  /\ published \in SUBSET Line
  /\ tracking \in [Clones -> SUBSET Line]
  /\ lines \in Nat
  /\ doing \in [Sealers -> [at : {"idle", "checked", "read"}, label : Labels \cup {"none"},
                            sha : Texts, text : SUBSET Line]]
  /\ \A s \in Sealers : doing[s].at # "idle" => doing[s].label \in Labels
  /\ opened \in SUBSET [label : Labels, sha : Texts, text : SUBSET Line]

\* The copies of the record: as last seen by the clones, as read by a command,
\* and as read by those that emitted.
Copies ==
  {tracking[c] : c \in Clones} \cup {doing[s].text : s \in Sealers} \cup {o.text : o \in opened}
Staged ==
  /\ \A S \in Copies : S \subseteq published
  /\ \A S, T \in Copies : S \subseteq T \/ T \subseteq S

\* The text has one line for the label, and it says sha.
Sealed(text, label, sha) ==
  /\ \E l \in text : l.label = label /\ l.sha = sha
  /\ \A k, l \in text : (k.label = label /\ l.label = label) => k = l
Backed ==
  /\ \A s \in Sealers : doing[s].at = "read" => Sealed(doing[s].text, doing[s].label, doing[s].sha)
  /\ \A o \in opened : Sealed(o.text, o.label, o.sha)

SealInv == SealTypeOK /\ Staged /\ Backed
----------------------------------------------------------------------------
\* What open takes from a record without a duplicate of the label: its line.
LEMMA TheLine ==
  ASSUME NEW text \in SUBSET Line, NEW label, label \in seen(text) \ dupes(text)
  PROVE  /\ commitment(text, label) \in text
         /\ Sealed(text, label, commitment(text, label).sha)
<1>1. PICK l \in text : l.label = label
  BY DEF seen
<1>2. \A k \in text : k.label = label => k = l
  <2>1. SUFFICES ASSUME NEW k \in text, k.label = label, k # l PROVE FALSE
    OBVIOUS
  <2>2. k \in {j \in text : \E i \in text \ {j} : i.label = j.label}
    BY <1>1, <2>1
  <2>3. QED
    BY <2>1, <2>2 DEF dupes
<1>3. l.n <= l.n
  BY DEF Line
<1>4. commitment(text, label) \in text /\ commitment(text, label).label = label
  BY <1>1, <1>2, <1>3 DEF commitment
<1>5. QED
  BY <1>1, <1>2, <1>4 DEF Sealed

\* Two openings on staged copies of the record were on the same line.
LEMMA OneLine ==
  ASSUME NEW S, NEW T, NEW label, NEW a, NEW b,
         S \subseteq T \/ T \subseteq S, Sealed(S, label, a), Sealed(T, label, b)
  PROVE  a = b
BY DEF Sealed

\* The invariant gives the property.
LEMMA SealInvImplies == SealInv => OneCommitment
<1>1. SUFFICES ASSUME SealInv, NEW o \in opened
      PROVE  /\ \E l \in published : l.label = o.label /\ l.sha = o.sha
             /\ \A q \in opened : q.label = o.label => q.sha = o.sha
  BY DEF OneCommitment
<1>2. o.text \in Copies /\ Sealed(o.text, o.label, o.sha) /\ o.text \subseteq published
  BY <1>1 DEF SealInv, Staged, Backed, Copies
<1>3. \E l \in published : l.label = o.label /\ l.sha = o.sha
  BY <1>2 DEF Sealed
<1>4. ASSUME NEW q \in opened, q.label = o.label PROVE q.sha = o.sha
  <2>1. q.text \in Copies /\ Sealed(q.text, o.label, q.sha)
    BY <1>1, <1>4 DEF SealInv, Backed, Copies
  <2>2. q.text \subseteq o.text \/ o.text \subseteq q.text
    BY <1>1, <1>2, <2>1 DEF SealInv, Staged
  <2>3. QED
    BY <1>2, <2>1, <2>2, OneLine
<1>5. QED
  BY <1>3, <1>4

LEMMA SealInitEstablishes == SealInit => SealInv
<1>1. SUFFICES ASSUME SealInit PROVE SealInv
  OBVIOUS
<1>2. SealTypeOK
  BY <1>1, SealAssumption DEF SealInit, SealTypeOK, AtRest, Task
<1>3. \A S \in Copies : S = {}
  BY <1>1 DEF SealInit, Copies, AtRest, Task
<1>4. QED
  BY <1>1, <1>2, <1>3 DEF SealInit, SealInv, Staged, Backed, AtRest, Task

\* A copy more, taken from the others or above them all, is a stage too.
LEMMA StagesGrow ==
  ASSUME SealInv, published \subseteq published',
         \A S \in Copies' : S \in Copies \cup {published', {}}
  PROVE  Staged'
<1>1. \A S \in Copies : S \subseteq published'
  BY DEF SealInv, Staged
<1>2. \A S \in Copies' : S \subseteq published'
  BY <1>1
<1>3. ASSUME NEW S \in Copies', NEW T \in Copies' PROVE S \subseteq T \/ T \subseteq S
  <2>1. CASE S \in Copies /\ T \in Copies
    BY <2>1 DEF SealInv, Staged
  <2>2. CASE S \in {published', {}} \/ T \in {published', {}}
    BY <1>2, <2>2
  <2>3. QED
    BY <2>1, <2>2
<1>4. QED
  BY <1>2, <1>3 DEF Staged
----------------------------------------------------------------------------
\* Every step keeps the invariant.
LEMMA SealStepPreserves == SealInv /\ [SealNext]_seal => SealInv'
<1> SUFFICES ASSUME SealInv, [SealNext]_seal PROVE SealInv'
  OBVIOUS
<1> USE SealAssumption
<1>1. ASSUME NEW s \in Sealers, NEW label \in Labels, CheckLabel(s, label) PROVE SealInv'
  <2>1. doing' = [doing EXCEPT ![s] = [at |-> "checked", label |-> label, sha |-> Empty, text |-> {}]]
    BY <1>1 DEF CheckLabel, Command, AtRest, Task
  <2>2. SealTypeOK'
    BY <1>1, <2>1 DEF CheckLabel, SealInv, SealTypeOK
  <2>3. \A S \in Copies' : S \in Copies \cup {published', {}}
    BY <1>1, <2>1 DEF CheckLabel, SealInv, SealTypeOK, Copies
  <2>4. Staged'
    BY <1>1, <2>3, StagesGrow DEF CheckLabel
  <2>5. Backed'
    BY <1>1, <2>1 DEF CheckLabel, SealInv, SealTypeOK, Backed
  <2>6. QED
    BY <2>2, <2>4, <2>5 DEF SealInv
<1>2. ASSUME NEW s \in Sealers, AppendLine(s) PROVE SealInv'
  <2>1. doing' = [doing EXCEPT ![s] = [at |-> "idle", label |-> "none", sha |-> Empty, text |-> {}]]
    BY <1>2 DEF AppendLine, Command, AtRest, Task
  <2>2. [n |-> lines, label |-> doing[s].label, sha |-> verdicts[s]] \in Line
    BY <1>2 DEF AppendLine, Command, SealInv, SealTypeOK, Line
  <2>3. SealTypeOK'
    BY <1>2, <2>1, <2>2 DEF AppendLine, SealInv, SealTypeOK
  <2>4. \A S \in Copies' : S \in Copies \cup {published', {}}
    BY <1>2, <2>1 DEF AppendLine, SealInv, SealTypeOK, Copies
  <2>5. Staged'
    BY <1>2, <2>4, StagesGrow DEF AppendLine
  <2>6. Backed'
    BY <1>2, <2>1 DEF AppendLine, SealInv, SealTypeOK, Backed
  <2>7. QED
    BY <2>3, <2>5, <2>6 DEF SealInv
<1>3. ASSUME NEW s \in Sealers, NEW label \in Labels, ReadPublished(s, label) PROVE SealInv'
  <2> DEFINE text == tracking[CloneOf[s]]
             line == commitment(text, label)
  <2>1. /\ label \in seen(text) \ dupes(text)
        /\ doing' = [doing EXCEPT ![s] = [at |-> "read", label |-> label, sha |-> line.sha, text |-> text]]
    BY <1>3 DEF ReadPublished, Command, AtRest, Task, git_show
  <2>2. text \in SUBSET Line /\ text \in Copies
    BY DEF SealInv, SealTypeOK, Copies
  <2>3. line \in text /\ Sealed(text, label, line.sha)
    BY <2>1, <2>2, TheLine
  <2> HIDE DEF text, line
  <2>4. line.sha \in Texts
    BY <2>2, <2>3 DEF Line
  <2>5. SealTypeOK'
    BY <1>3, <2>1, <2>2, <2>4 DEF ReadPublished, SealInv, SealTypeOK
  <2>6. \A S \in Copies' : S \in Copies \cup {published', {}}
    BY <1>3, <2>1, <2>2 DEF ReadPublished, SealInv, SealTypeOK, Copies
  <2>7. Staged'
    BY <1>3, <2>6, StagesGrow DEF ReadPublished
  <2>8. Backed'
    BY <1>3, <2>1, <2>3 DEF ReadPublished, SealInv, SealTypeOK, Backed
  <2>9. QED
    BY <2>5, <2>7, <2>8 DEF SealInv
<1>4. ASSUME NEW s \in Sealers, Emit(s) PROVE SealInv'
  <2> DEFINE o == [label |-> doing[s].label, sha |-> verdicts[s], text |-> doing[s].text]
  <2>1. /\ doing' = [doing EXCEPT ![s] = [at |-> "idle", label |-> "none", sha |-> Empty, text |-> {}]]
        /\ opened' = opened \cup {o} /\ doing[s].at = "read" /\ verdicts[s] = doing[s].sha
    BY <1>4 DEF Emit, Command, AtRest, Task
  <2>2. /\ o \in [label : Labels, sha : Texts, text : SUBSET Line]
        /\ o.text \in Copies /\ Sealed(o.text, o.label, o.sha)
    BY <2>1 DEF SealInv, SealTypeOK, Backed, Copies
  <2> HIDE DEF o
  <2>3. SealTypeOK'
    BY <1>4, <2>1, <2>2 DEF Emit, SealInv, SealTypeOK
  <2>4. \A S \in Copies' : S \in Copies \cup {published', {}}
    BY <1>4, <2>1, <2>2 DEF Emit, SealInv, SealTypeOK, Copies
  <2>5. Staged'
    BY <1>4, <2>4, StagesGrow DEF Emit
  <2>6. Backed'
    BY <1>4, <2>1, <2>2 DEF Emit, SealInv, SealTypeOK, Backed
  <2>7. QED
    BY <2>3, <2>5, <2>6 DEF SealInv
<1>5. ASSUME NEW s \in Sealers, Mismatch(s) PROVE SealInv'
  <2>1. doing' = [doing EXCEPT ![s] = [at |-> "idle", label |-> "none", sha |-> Empty, text |-> {}]]
    BY <1>5 DEF Mismatch, Command, AtRest, Task
  <2>2. SealTypeOK'
    BY <1>5, <2>1 DEF Mismatch, SealInv, SealTypeOK
  <2>3. \A S \in Copies' : S \in Copies \cup {published', {}}
    BY <1>5, <2>1 DEF Mismatch, SealInv, SealTypeOK, Copies
  <2>4. Staged'
    BY <1>5, <2>3, StagesGrow DEF Mismatch
  <2>5. Backed'
    BY <1>5, <2>1 DEF Mismatch, SealInv, SealTypeOK, Backed
  <2>6. QED
    BY <2>2, <2>4, <2>5 DEF SealInv
<1>6. ASSUME NEW s \in Sealers, NEW text \in Texts, EditVerdicts(s, text) PROVE SealInv'
  <2>1. SealTypeOK'
    BY <1>6 DEF EditVerdicts, SealInv, SealTypeOK
  <2>2. Copies' = Copies /\ published' = published /\ doing' = doing /\ opened' = opened
    BY <1>6 DEF EditVerdicts, Copies
  <2>3. QED
    BY <2>1, <2>2 DEF SealInv, Staged, Backed
<1>7. ASSUME NEW c \in Clones, PushRecord(c) \/ FetchRecord(c) PROVE SealInv'
  <2>1. /\ published \subseteq published' /\ published' \in SUBSET Line
        /\ tracking' = [tracking EXCEPT ![c] = published']
        /\ UNCHANGED <<verdicts, record, lines, doing, opened>>
    BY <1>7 DEF PushRecord, FetchRecord, SealInv, SealTypeOK
  <2>2. SealTypeOK'
    BY <2>1 DEF SealInv, SealTypeOK
  <2>3. \A S \in Copies' : S \in Copies \cup {published', {}}
    BY <2>1 DEF SealInv, SealTypeOK, Copies
  <2>4. Staged'
    BY <2>1, <2>3, StagesGrow
  <2>5. Backed'
    BY <2>1 DEF SealInv, Backed
  <2>6. QED
    BY <2>2, <2>4, <2>5 DEF SealInv
<1>8. ASSUME NEW c \in Clones, MergeRecord(c) PROVE SealInv'
  <2>1. SealTypeOK'
    BY <1>8 DEF MergeRecord, SealInv, SealTypeOK
  <2>2. Copies' = Copies /\ published' = published /\ doing' = doing /\ opened' = opened
    BY <1>8 DEF MergeRecord, Copies
  <2>3. QED
    BY <2>1, <2>2 DEF SealInv, Staged, Backed
<1>9. CASE UNCHANGED seal
  BY <1>9 DEF seal, SealInv, SealTypeOK, Staged, Backed, Copies
<1>10. QED
  BY <1>1, <1>2, <1>3, <1>4, <1>5, <1>6, <1>7, <1>8, <1>9 DEF SealNext

\* Commit, then open: whoever was shown the reference had committed to those
\* bytes at the remote, and nobody opens a label twice against different ones.
THEOREM OpenedAsCommitted == SealSpec => []OneCommitment
<1>1. SealSpec => []SealInv
  BY SealInitEstablishes, SealStepPreserves, PTL DEF SealSpec
<1>2. QED
  BY <1>1, SealInvImplies, PTL
==============================================================================
