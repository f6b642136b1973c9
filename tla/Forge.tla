------------------------------- MODULE Forge -------------------------------
(***************************************************************************)
(* A clone, its public remote and the forge: commits and merges, the       *)
(* commit-msg and pre-push hooks, the Scrub workflow with its cancelled    *)
(* runs, a pull request whose prose can be edited, and the writers of the  *)
(* baselines.                                                              *)
(*                                                                         *)
(* What people do is chosen from `menu': the lines they add and remove,    *)
(* the kinds their messages and titles have, the tags they push, the lines *)
(* preserved, whether the clone has the hooks, and what else they do.      *)
(* origin is the clone's view of the remote.                               *)
(***************************************************************************)
EXTENDS Claims

CONSTANTS Menus, MaxEdits

Branches == {"main", "topic"}       \* main is the default branch

\* A menu starts on a branch, with every baseline file, and its rows are lines
\* of files; the forbidden shapes that the name of a branch can have are those
\* of a subject.
ASSUME MenusAssumption ==
  \A m \in Menus : /\ m.start.cur \in Branches /\ m.ref \subseteq Refused
                   /\ DOMAIN m.start.base = DOMAIN EmptyBaseline
                   /\ m.rows \cup m.start.rows \subseteq Files \X Lines

VARIABLES menu, local, remote, origin, cur, wt, verdict, run, pr, tags
clone == <<menu, local, cur, wt>>
vars  == <<commits, clone, remote, origin, verdict, run, pr, tags>>

\* One public root commit on main; the clone has it too, and is on main or on a
\* new topic.
Idle == [head |-> 0, before |-> 0, status |-> "none"]
Init ==
  /\ menu \in Menus
  /\ commits = <<[parents |-> <<>>, anc |-> {1}, rows |-> menu.start.rows, subject |-> {},
                  body |-> {}, base |-> menu.start.base, forge |-> FALSE, claims |-> FALSE]>>
  /\ cur = menu.start.cur /\ local = [b \in Branches |-> IF b \in {"main", cur} THEN 1 ELSE 0]
  /\ remote = [local EXCEPT !["topic"] = 0] /\ origin = remote /\ wt = menu.start.base
  /\ verdict = "none" /\ run = [b \in Branches |-> Idle]
  /\ pr = [title |-> {}, check |-> "none", judged |-> TRUE, edits |-> 0,
            claims |-> [green |-> FALSE, on |-> <<0, 0>>]]
  /\ tags = {}

Tip == local[cur]
Room == Len(commits) < menu.room
May(act) == act \in menu.acts
NewCommit(parents, rows, msg, base, forge, read) ==
  commits' = Append(commits,
    [parents |-> parents, rows |-> rows, subject |-> msg.subject, body |-> msg.body,
     anc |-> {Len(commits) + 1} \cup UNION {Anc(parents[i]) : i \in DOMAIN parents},
     base |-> base, forge |-> forge, claims |-> read])
Quiet == [subject |-> {}, body |-> {}]
----------------------------------------------------------------------------
(* The clone. *)

\* A commit, of lines, of the baselines as they are in the worktree, or of a
\* record rewritten by hand; the commit-msg hook reads its message.
Edited == {[Base(Tip) EXCEPT ![e.list] = e.value] : e \in menu.edits}
Commit(row, msg) ==
  /\ Room /\ Tip # 0
  /\ menu.hooks => message_mode(msg.subject \cup msg.body)
  /\ \E rows \in {Rows(Tip), Rows(Tip) \cup {row}, Rows(Tip) \ {row}},
        base \in {wt, Base(Tip)} \cup Edited :
       /\ rows # {} /\ \/ rows # Rows(Tip) \/ base # Base(Tip)
       /\ NewCommit(<<Tip>>, rows, msg, base, FALSE, FALSE)
       /\ wt' = IF base \in {wt, Base(Tip)} THEN wt ELSE base
  /\ local' = [local EXCEPT ![cur] = Len(commits) + 1]
  /\ UNCHANGED <<menu, cur, remote, origin, verdict, run, pr, tags>>

\* The baselines of a merge, list by list.
MergeBase(ours, theirs, base) ==
  [list \in DOMAIN EmptyBaseline |-> Merge(ours[list], theirs[list], base[list])]
BaseOf(c) == IF c = 0 THEN EmptyBaseline ELSE Base(c)
MergeRows(b, c) == Merge(Rows(b), Rows(c), Rows(merge_base(b, c)))
MergeBases(b, c) == MergeBase(Base(b), Base(c), BaseOf(merge_base(b, c)))
\* A merge in the clone; its author may add a line that no parent has.
MergeLocal(b, row) ==
  /\ May("merge") /\ Room /\ Tip # 0 /\ local[b] # 0 /\ wt = Base(Tip)
  /\ ~Ancestor(local[b], Tip) /\ ~Ancestor(Tip, local[b])
  /\ \E rows \in {MergeRows(Tip, local[b]), MergeRows(Tip, local[b]) \cup {row}} :
       NewCommit(<<Tip, local[b]>>, rows, Quiet, MergeBases(Tip, local[b]), FALSE, FALSE)
  /\ wt' = MergeBases(Tip, local[b])
  /\ local' = [local EXCEPT ![cur] = Len(commits) + 1]
  /\ UNCHANGED <<menu, cur, remote, origin, verdict, run, pr, tags>>

\* Another branch, a reset to the parent (hard or not), a fetch with its fast-forward.
Checkout(b) ==
  /\ May("branch") /\ b # cur /\ wt = Base(Tip) /\ local[b] # 0
  /\ cur' = b /\ wt' = Base(local[b])
  /\ UNCHANGED <<menu, commits, local, remote, origin, verdict, run, pr, tags>>
Branch ==
  /\ May("branch") /\ local["topic"] = 0 /\ local' = [local EXCEPT !["topic"] = Tip]
  /\ UNCHANGED <<menu, commits, cur, wt, remote, origin, verdict, run, pr, tags>>
Reset ==
  /\ May("reset") /\ Tip # 0 /\ FirstParent(Tip) # 0
  /\ local' = [local EXCEPT ![cur] = FirstParent(Tip)] /\ wt' \in {wt, Base(FirstParent(Tip))}
  /\ UNCHANGED <<menu, commits, cur, remote, origin, verdict, run, pr, tags>>
Fetch ==
  /\ May("fetch") /\ origin # remote /\ origin' = remote
  /\ local' = [b \in Branches |->
       IF b # cur /\ remote[b] # 0 /\ local[b] # 0 /\ Ancestor(local[b], remote[b])
       THEN remote[b] ELSE local[b]]
  /\ UNCHANGED <<menu, commits, cur, wt, remote, verdict, run, pr, tags>>

\* --write-baseline, one arm at a time.
Found(list) ==
  CASE list = "paths" -> path_scan(Rows(Tip))
    [] list = "msgs" -> message_findings(Tip)
    [] list = "hist" -> history_findings(Tip)
    [] list = "infra" -> infra_tree_findings(Tip)
    [] list = "infra_hist" -> infra_history_findings(Tip)
    [] list = "subjects" -> subject_debt(Anc(Tip))
WriteBaseline(list) ==
  /\ Tip # 0
  /\ wt' = [wt EXCEPT ![list] =
              merge_write_baseline(wt[list], Found(list), list \in {"paths", "infra"})]
  /\ wt' # wt
  /\ UNCHANGED <<menu, commits, local, cur, remote, origin, verdict, run, pr, tags>>
----------------------------------------------------------------------------
(* The pre-push hook. *)

\* The lower end of the range a push of c to branch b adds, or "nothing".
Unpublished(c) == Anc(c) \ UNION {Anc(origin[b]) : b \in {d \in Branches : origin[d] # 0}}
push_base_tip(b, c) ==   \* Faulty form: a rewound branch has an empty range.
  IF remote[b] # 0 THEN <<remote[b]>> ELSE <<merge_base(origin["main"], c)>>
push_base(b, c) ==
  LET tip  == remote[b]
      mb   == IF origin["main"] = 0 THEN 0 ELSE merge_base(origin["main"], c)
      old  == CHOOSE k \in Unpublished(c) : \A j \in Unpublished(c) : k <= j
  IN  IF tip # 0 /\ tip # c /\ Ancestor(tip, c) THEN <<tip>>
      ELSE IF mb # 0 /\ mb # c THEN <<mb>>
      ELSE IF Unpublished(c) = {} THEN <<>>
      ELSE <<FirstParent(old)>>
RefKinds(b) == IF b = "topic" THEN menu.ref ELSE {}
pre_push(b, c) ==
  LET from == push_base(b, c) IN
  from # <<>> =>
    /\ push_mode(from[1], c, wt)
    /\ paths_range(from[1], c, menu.pins, origin, local)
    /\ subject_range(from[1], c, wt)
    /\ infra_range(from[1], c, wt)
    /\ ref_mode(RefKinds(b))

\* A push of the current branch, by force if need be; the push event starts
\* a run of the workflow and cancels the one in progress on that branch.
Started(b, c) == [run EXCEPT ![b] = [head |-> c, before |-> remote[b], status |-> "running"]]
Push ==
  /\ Tip # 0 /\ remote[cur] # Tip
  /\ \/ /\ menu.hooks /\ ~pre_push(cur, Tip)
        /\ verdict' = "refused" /\ UNCHANGED <<remote, origin, run, pr>>
     \/ /\ menu.hooks => pre_push(cur, Tip)
        /\ verdict' = "sent"
        /\ remote' = [remote EXCEPT ![cur] = Tip]
        /\ origin' = [origin EXCEPT ![cur] = Tip]
        /\ run' = Started(cur, Tip)
        /\ pr' = IF cur = "topic" THEN [pr EXCEPT !.check = "running", !.judged = TRUE] ELSE pr
  /\ UNCHANGED <<commits, clone, tags>>

\* A new tag: on a commit the default branch has the tag is what is scanned,
\* on any other the commits are.
pre_push_tag(t) ==
  IF origin["main"] # 0 /\ Ancestor(Tip, origin["main"])
  THEN ref_mode(t.name) /\ (t.annotated => tag_mode(t))
  ELSE pre_push("main", Tip)
PushTag(t) ==
  /\ Tip # 0 /\ t \notin {u.tag : u \in tags}
  /\ menu.hooks => pre_push_tag(t)
  /\ tags' = tags \cup {[tag |-> t, on |-> Tip,
                         public |-> origin["main"] # 0 /\ Ancestor(Tip, origin["main"])]}
  /\ UNCHANGED <<commits, clone, remote, origin, verdict, run, pr>>
----------------------------------------------------------------------------
(* The forge: the Scrub workflow and the pull request from topic to main. *)

\* The range of a run; 0 as lower end is no range, and a failure.
scrub_base(before, c) ==
  LET mb == IF remote["main"] = 0 THEN 0 ELSE merge_base(remote["main"], c)
  IN  IF before # 0 /\ before # c /\ Ancestor(before, c) THEN before
      ELSE IF mb # 0 /\ mb # c THEN mb ELSE FirstParent(c)
commit_trailers_delta(before, c) ==  \* Faulty form: no pass over the whole history.
  LET lo == scrub_base(before, c) IN lo # 0 /\ trailers(lo, c)
commit_trailers(before, c) ==
  LET lo == scrub_base(before, c) IN lo # 0 /\ trailers(lo, c) /\ trailers(0, c)
private_paths(b, before, c) ==
  LET lo == scrub_base(before, c)
      B  == Base(c)
  IN  /\ lo # 0 /\ paths_range(lo, c, menu.pins, remote, [d \in Branches |-> 0])
      /\ subject_range(lo, c, B) /\ ref_mode(RefKinds(b)) /\ infra_range(lo, c, B)
      /\ paths_tree(c, B) /\ infra_tree(c, B) /\ paths_messages(c, B)
      /\ subject_history(c, B) /\ paths_history(c, B) /\ infra_history(c, B)
Scrub(b) ==
  /\ May("scrub") /\ run[b].status = "running"
  /\ run' = [run EXCEPT ![b].status =
       IF /\ commit_trailers(run[b].before, run[b].head)
          /\ private_paths(b, run[b].before, run[b].head)
          /\ remote["topic"] # 0 => open_mode(pr.title, {})
       THEN "green" ELSE "red"]
  /\ UNCHANGED <<commits, clone, remote, origin, verdict, pr, tags>>

\* The required check of the pull request reads the live prose, then ends; an
\* edit starts another run if the workflow listens for it.
ReadProse ==
  /\ May("open") /\ pr.check = "running"
  /\ pr' = [pr EXCEPT !.check = "read", !.judged = open_mode(pr.title, {})]
  /\ UNCHANGED <<commits, clone, remote, origin, verdict, run, tags>>
EndCheck ==
  /\ pr.check = "read"
  /\ pr' = [pr EXCEPT !.check = IF pr.judged THEN "green" ELSE "red"]
  /\ UNCHANGED <<commits, clone, remote, origin, verdict, run, tags>>
EditProse(title) ==
  /\ May("open") /\ remote["topic"] # 0 /\ title # pr.title /\ pr.edits < MaxEdits
  /\ pr' = [pr EXCEPT !.title = title, !.edits = pr.edits + 1,
                       !.check = IF "edited" \in pull_request_types THEN "running" ELSE @]
  /\ UNCHANGED <<commits, clone, remote, origin, verdict, run, tags>>

\* The jobs that are not required, on the merge of the two branches as they are.
CheckClaims ==
  /\ May("claims") /\ pr.check # "none" /\ ~Ancestor(remote["topic"], remote["main"])
  /\ LET b    == remote["main"]
         rows == MergeRows(b, remote["topic"])
         B    == MergeBases(b, remote["topic"])
     IN  pr' = [pr EXCEPT !.claims =
           [green |-> /\ prose_scan(rows, B) /\ ratchet(Rows(b), Base(b), rows, B)
                      /\ verification_scan(rows, B),
            on |-> <<b, remote["topic"]>>]]
  /\ UNCHANGED <<commits, clone, remote, origin, verdict, run, tags>>

\* The merge button, where no hook runs: the subject quotes the head ref, the
\* body is the title.
ForgeMerge ==
  /\ Room /\ pr.check = "green" /\ remote["topic"] # 0 /\ remote["main"] # 0
  /\ ~Ancestor(remote["topic"], remote["main"])
  /\ NewCommit(<<remote["main"], remote["topic"]>>, MergeRows(remote["main"], remote["topic"]),
               [subject |-> RefKinds("topic"), body |-> pr.title],
               MergeBases(remote["main"], remote["topic"]), TRUE,
               pr.claims = [green |-> TRUE, on |-> <<remote["main"], remote["topic"]>>])
  /\ remote' = [remote EXCEPT !["main"] = Len(commits) + 1]
  /\ run' = Started("main", Len(commits) + 1)
  /\ UNCHANGED <<clone, origin, verdict, pr, tags>>

Next ==
  \/ \E row \in menu.rows, msg \in menu.messages : Commit(row, msg)
  \/ \E b \in Branches, row \in menu.rows : MergeLocal(b, row)
  \/ \E b \in Branches : Checkout(b) \/ Scrub(b)
  \/ Branch \/ Reset \/ Fetch
  \/ \E list \in menu.lists : WriteBaseline(list)
  \/ CheckClaims
  \/ Push \/ \E t \in menu.tags : PushTag(t)
  \/ ReadProse \/ EndCheck \/ \E title \in menu.titles : EditProse(title)
  \/ ForgeMerge
Spec == Init /\ [][Next]_vars
----------------------------------------------------------------------------
(* Correctness. *)

Public == UNION {Anc(remote[b]) : b \in {d \in Branches : remote[d] # 0}}

\* INVARIANT. Nothing in a tree escapes the per-commit arms: every line of
\* every commit was introduced, in the sense of commit_introduced, by a commit
\* it reaches, whatever merges lie between.
EveryRowIntroduced ==
  \A c \in Known : \A r \in Rows(c) : \E d \in Anc(c) : r \in commit_introduced(d)

\* ACTION PROPERTY. With the hooks armed, a commit becomes public only if every
\* private path it introduced is recorded in the history baseline and nothing
\* of it is a chat session, whichever of the four ranges the hook took, and
\* whatever a later commit of the push removed; and so for the text of a tag
\* on a public commit.
Accounted(c) ==
  /\ \A r \in path_scan(commit_introduced(c)) : history_key(c, r) \in wt.hist
  /\ Scan(commit_introduced(c), "session") = {} /\ "session" \notin Message(c)
OnlyAccountedPublished ==
  [][menu.hooks =>
       /\ \A c \in Known' : (c \in Public' /\ c \notin Public) => Accounted(c)'
       /\ \A u \in tags' \ tags : u.public /\ u.tag.annotated =>
            "session" \notin u.tag.subject \cup u.tag.body]_vars

\* A menu of people who write nothing forbidden, and never take out all of a tree.
Forbidden == {"session", "path", "name", "lane", "kin"}
Innocent(m) ==
  /\ m.ref = {} /\ m.pins = {} /\ m.start.base.subjects = {}
  /\ m.start.rows \ m.rows # {}
  /\ \A r \in m.rows \cup m.start.rows : Shapes[r[2]] \cap Forbidden = {} /\ r[1] \notin NamedFiles
  /\ \A msg \in m.messages : (msg.subject \cup msg.body) \cap Forbidden = {}
  /\ \A title \in m.titles : title \cap Forbidden = {}
  /\ \A e \in m.edits : e.list = "subjects" => e.value = {}

\* INVARIANT. The gates do not cry wolf: with nothing forbidden anywhere no
\* push is refused and no run is red, for new branches, rewinds, pushes that
\* add no commit and merges; the root commit alone has no range for a run.
NoSpuriousRed ==
  Innocent(menu) =>
    /\ verdict # "refused"
    /\ \A b \in Branches : run[b].status = "red" => Parents(run[b].head) = <<>>

\* INVARIANT. A green run vouches for the whole history of its head, what
\* cancelled and red runs were about included: no message has a chat session,
\* every private path ever introduced is recorded, every debt in a subject is
\* the recorded one.
GreenVouchesForHistory ==
  \A b \in Branches : run[b].status = "green" =>
    \A c \in Anc(run[b].head) :
      /\ "session" \notin Message(c)
      /\ \A r \in path_scan(commit_introduced(c)) : history_key(c, r) \in Base(run[b].head).hist
      /\ Subject(c) \cap Refused # {} <=> c \in Base(run[b].head).subjects

\* INVARIANT. The merge button publishes no prose the check did not judge: an
\* edit after the check went green is judged again before the merge.
ForgeMergesClean ==
  \A c \in Known : commits[c].forge => Body(c) \cap {"session", "path", "name", "lane", "kin"} = {}

\* ACTION PROPERTY. Recorded debt is not forgotten: writing a history baseline
\* keeps the rows of commits this branch does not reach.
DebtKept ==
  [][(commits' = commits /\ local' = local /\ cur' = cur) =>
       wt.hist \subseteq wt'.hist /\ wt.msgs \subseteq wt'.msgs
         /\ wt.infra_hist \subseteq wt'.infra_hist]_vars

\* ACTION PROPERTY. Once a preserved line is gone from its published branch no
\* hooked push adds a commit to the remote, even where a local branch of that
\* name still has the line.
PinDriftStopsPushes ==
  [][(menu.hooks /\ commits' = commits /\ \E c \in Known : c \in Public' /\ c \notin Public) =>
       \A pin \in menu.pins : origin[pin.ref] # 0 => pin.row \in Rows(origin[pin.ref])]_vars

\* INVARIANT. Where the claim jobs were green for exactly what was merged and the
\* records existed before, no text new to the default branch makes a claim that
\* nobody but its author read against the statement as it is now: a wider
\* lexicon, a split sentence, an edited file or a new ledger does not let it in.
\* A sentence accepted before may be copied in its file.
ReadAgainst(k, c) ==
  \E r \in Base(c).reads : /\ r.claim = k /\ r.reader[1] # r.author[1]
                           /\ <<r.lean, r.stmt>> \in Rows(c)
ClaimsStayRead ==
  \A c \in Known :
    LET b == FirstParent(c) IN
    (commits[c].claims /\ {"debt", "ledgers"} \subseteq Base(b).files) =>
      \A r \in Rows(c) \ Rows(b) : \A s \in Pieces[r[2]] :
        <<r[1], s>> \in claims(Rows(c), Base(b)) \ Base(b).debt => ReadAgainst(<<r[1], s>>, c)
============================================================================
