------------------------------- MODULE Gates -------------------------------
(***************************************************************************)
(* The scrub gates of scripts/: what each arm of each gate answers for a   *)
(* commit or a range.  An arm is TRUE when the gate passes.                *)
(*                                                                         *)
(* The kinds of forbidden shape are "session" (check_commit_trailers),     *)
(* "path" (check_private_paths), "name" (check_infra_names), "lane" and    *)
(* "kin" (check_pr_descriptions).  A baseline B is a record of the rows of *)
(* the baseline files: paths and infra (the tree ratchets), msgs, hist and *)
(* infra_hist (the history ratchets), subjects, and the lists of Claims.   *)
(* A missing file reads as an empty one: the two have the same verdict and *)
(* differ in its wording.                                                  *)
(***************************************************************************)
EXTENDS History

PATH == "PATH"      \* the second field of a baseline row for a path
Has(row, kind) == kind \in Shapes[row[2]]
Scan(rows, kind) == {r \in rows : Has(r, kind)}
Says(cs, kinds) == {c \in cs : Message(c) \cap kinds # {}}

EmptyBaseline == [paths |-> {}, msgs |-> {}, hist |-> {}, infra |-> {},
                  infra_hist |-> {}, subjects |-> {}, reads |-> {}, debt |-> {},
                  ledgers |-> {}, fences |-> {}, exempt |-> {}, files |-> {}]

\* Faulty form: a writer records what this branch's scan finds, and no more.
merge_write_regenerated(old, found, shrink) == found
\* Every writer of a baseline: a row that is there stays, unless the list may
\* shrink and the scan no longer sees it; new ones are added.
merge_write_baseline(old, found, shrink) ==
  (IF shrink THEN old \cap found ELSE old) \cup found
----------------------------------------------------------------------------
(* check_commit_trailers: the messages of a range and the tip's files. *)

trailers_scan(c) == Scan(Rows(c), "session")
trailers(lo, hi) ==
  /\ rev_list(lo, hi) # {}
  /\ Says(rev_list(lo, hi), {"session"}) = {}
  /\ trailers_scan(hi) = {}
----------------------------------------------------------------------------
(* check_private_paths. *)

path_scan(rows) == Scan(rows, "path")
history_key(c, row) == <<c, row>>
history_findings(c) ==
  UNION {{history_key(d, r) : r \in path_scan(commit_introduced(d))} : d \in Anc(c)}
message_findings(c) == Says(Anc(c), {"path"})

paths_tree(c, B)     == path_scan(Rows(c)) \subseteq B.paths
paths_messages(c, B) == message_findings(c) \subseteq B.msgs
paths_history(c, B)  == history_findings(c) \subseteq B.hist

\* A pin is a preserved line, [ref, row].  It is audited on the published branch, or on a local one of that name
\* when this checkout has no published one.
audit_local_first(pin, published, local) ==  \* Faulty form: before 08/26.
  LET c == IF local[pin.ref] # 0 THEN local[pin.ref] ELSE published[pin.ref]
  IN  c # 0 /\ pin.row \notin Rows(c)
audit_drifted(pin, published, local) ==
  LET c == IF published[pin.ref] # 0 THEN published[pin.ref] ELSE local[pin.ref]
  IN  c # 0 /\ pin.row \notin Rows(c)

\* A finding is excused by a pin of its file and its very line.
partition(found, pins) == {r \in found : \A pin \in pins : pin.row # r}
\* --range: the messages, the net added lines when there are two ends, the pins.
paths_range(lo, hi, pins, published, local) ==
  /\ rev_list(lo, hi) # {}
  /\ \A pin \in pins : ~audit_drifted(pin, published, local)
  /\ Says(rev_list(lo, hi), {"path"}) = {}
  /\ lo # 0 => partition(path_scan(added_rows(lo, hi)), pins) = {}
----------------------------------------------------------------------------
(* check_infra_names. *)

names(rows) == Scan(rows, "name")
path_hits(files) == {<<f, PATH>> : f \in files \cap NamedFiles}
infra_tree_findings(c) == names(Rows(c)) \cup path_hits(FilesOf(c))
infra_tree(c, B) == Rows(c) # {} /\ infra_tree_findings(c) \subseteq B.infra
\* The rows accepted in the tree are accepted in a range: a verbatim move.
infra_range(lo, hi, B) ==
  names(added_rows(lo, hi)) \cup path_hits(added_paths(lo, hi)) \subseteq B.infra
\* A commit is charged for what it adds to its first parent, by file.
infra_charged(c) ==
  {<<c, r[1]>> : r \in names(added_rows(FirstParent(c), c))}
    \cup {<<c, p[1], PATH>> : p \in path_hits(added_paths(FirstParent(c), c))}
infra_history_findings(c) == UNION {infra_charged(d) : d \in Anc(c)}
infra_history(c, B) == infra_history_findings(c) \subseteq B.infra_hist
----------------------------------------------------------------------------
(* check_pr_descriptions. *)

Refused == {"lane", "kin"}
subject_debt(cs) == {c \in cs : Subject(c) \cap Refused # {}}
\* --range: the subjects but for the accepted ones, every body for lane names.
subject_range(lo, hi, B) ==
  /\ rev_list(lo, hi) # {}
  /\ subject_debt(rev_list(lo, hi)) \subseteq B.subjects
  /\ \A c \in rev_list(lo, hi) : "lane" \notin Body(c)
\* --history: the debt found is the debt accepted, neither more nor less.
subject_history(c, B) == subject_debt(Anc(c)) = B.subjects
\* --ref: the name of a branch or a tag.
ref_mode(kinds) == kinds \cap Refused = {}
\* --open: the prose of a pull request; the body is not read for kin.
open_mode(title, body) ==
  /\ (title \cup body) \cap {"path", "session", "name", "lane"} = {}
  /\ "kin" \notin title

\* The activity types that re-run the check on a pull request.
types_default == {"opened", "synchronize", "reopened"}  \* Faulty form: GitHub's own.
pull_request_types == {"opened", "synchronize", "reopened", "edited"}
----------------------------------------------------------------------------
(* gate_scan.py: the hooks' view of the gates. *)

message_mode(kinds) == "session" \notin kinds
push_mode_net(lo, hi, B) ==   \* Faulty form: what the push adds, not each commit.
  /\ rev_list(lo, hi) # {}
  /\ \A c \in rev_list(lo, hi) : "session" \notin Message(c)
  /\ path_scan(added_rows(lo, hi)) = {} /\ Scan(added_rows(lo, hi), "session") = {}
push_mode(lo, hi, B) ==
  /\ rev_list(lo, hi) # {}
  /\ \A c \in rev_list(lo, hi) :
       /\ "session" \notin Message(c)
       /\ {history_key(c, r) : r \in path_scan(commit_introduced(c))} \subseteq B.hist
       /\ Scan(commit_introduced(c), "session") = {}
\* An annotated tag: its message, and its tagger unless the commit carries
\* the same identity.
tag_mode(tag) ==
  LET raw == tag.subject \cup tag.body \cup (IF tag.same_identity THEN {} ELSE tag.tagger)
  IN  /\ raw \cap {"session", "path", "name"} = {}
      /\ tag.subject \cap Refused = {} /\ "lane" \notin tag.body
============================================================================
