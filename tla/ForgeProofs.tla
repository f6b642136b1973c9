----------------------------- MODULE ForgeProofs -----------------------------
(***************************************************************************)
(* Proofs about Forge, for every set of menus: any files, lines, messages, *)
(* merges, resets, forced pushes, hand edits of the records, and any       *)
(* number of commits.                                                      *)
(***************************************************************************)
EXTENDS Forge, SequenceTheorems, WellFoundedInduction, TLAPS

(* The inductive invariant.                                                *)

\* Commits are only appended, and what a commit reaches is closed.
Linked(c) ==
  /\ c \in Anc(c) /\ Anc(c) \subseteq 1..c
  /\ \A d \in Anc(c) : Anc(d) \subseteq Anc(c)
  /\ \A i \in DOMAIN Parents(c) : Parents(c)[i] \in Anc(c) \ {c}
  /\ Parents(c) = <<>> \/ 1 \in DOMAIN Parents(c)
  /\ DOMAIN Base(c) = DOMAIN EmptyBaseline
Chain ==
  /\ commits \in Seq({commits[c] : c \in Known})
  /\ \A c \in Known : Linked(c)

\* Every branch, here, there and as last seen, names a commit or nothing.
Heads ==
  /\ menu \in Menus /\ cur \in Branches
  /\ local \in [Branches -> Known \cup {0}]
  /\ remote \in [Branches -> Known \cup {0}]
  /\ origin \in [Branches -> Known \cup {0}]
  /\ DOMAIN run = Branches
  /\ \A b \in Branches :
       /\ DOMAIN run[b] = {"head", "before", "status"} /\ run[b].head \in Known \cup {0}
       /\ run[b].status # "none" => run[b].head \in Known
  /\ DOMAIN wt = DOMAIN EmptyBaseline

\* What the clone last saw of a branch is still reached from it: only this
\* clone rewinds the remote.
Seen ==
  \A b \in Branches : origin[b] # 0 => remote[b] # 0 /\ Anc(origin[b]) \subseteq Anc(remote[b])

\* A check that passed, passed the title as it is.
Judged ==
  /\ DOMAIN pr = {"title", "check", "judged", "edits", "claims"}
  /\ (pr.check = "read" /\ pr.judged) \/ pr.check = "green" => open_mode(pr.title, {})

Inv == Chain /\ Heads /\ Seen /\ Judged

------------------------------------------------------------------------------
(* A new commit.                                                           *)

\* What a record appended to a sequence does to it.
LEMMA Appended ==
  ASSUME NEW S, NEW s \in Seq(S), NEW e
  PROVE  /\ Len(s) \in Nat /\ DOMAIN s = 1..Len(s)
         /\ DOMAIN Append(s, e) = 1..(Len(s) + 1)
         /\ \A i \in 1..Len(s) : Append(s, e)[i] = s[i]
         /\ Append(s, e)[Len(s) + 1] = e
<1>1. s \in Seq(S \cup {e}) /\ e \in S \cup {e}
  BY SeqMonotonic, S \subseteq S \cup {e}
<1>2. QED
  BY <1>1, AppendProperties, LenProperties, S = S

\* A sequence is one over its own elements.
LEMMA OverItself ==
  ASSUME NEW S, NEW s \in Seq(S)
  PROVE  s \in Seq({s[i] : i \in DOMAIN s})
<1> DEFINE R == {s[i] : i \in DOMAIN s}
<1>1. Len(s) \in Nat /\ s \in [1..Len(s) -> R]
  BY LenProperties
<1>2. QED
  BY <1>1, SeqDef, SMT

\* A new commit with known parents: the old ones are as they were.
Grown(new, parents, rows) ==
  /\ Len(commits) \in Nat /\ new = Len(commits) + 1
  /\ Known = 1..Len(commits) /\ Known' = 1..new
  /\ \A c \in Known : commits'[c] = commits[c]
  /\ commits'[new].parents = parents /\ commits'[new].rows = rows
  /\ commits'[new].anc = {new} \cup UNION {Anc(parents[i]) : i \in DOMAIN parents}
  /\ DOMAIN commits'[new].base = DOMAIN EmptyBaseline
  /\ commits' \in Seq({commits'[c] : c \in Known'})

\* A new commit lengthens the chain by one, linked to its parents, with the message it was given.
LEMMA NewCommitGrows ==
  ASSUME Chain, NEW parents, NEW rows, NEW msg, NEW base, NEW forge, NEW read,
         DOMAIN base = DOMAIN EmptyBaseline,
         NewCommit(parents, rows, msg, base, forge, read)
  PROVE  /\ Grown(Len(commits) + 1, parents, rows)
         /\ commits'[Len(commits) + 1].subject = msg.subject
         /\ commits'[Len(commits) + 1].body = msg.body
         /\ commits'[Len(commits) + 1].forge = forge
<1> DEFINE S == {commits[c] : c \in Known}
           e == [parents |-> parents, rows |-> rows, subject |-> msg.subject, body |-> msg.body,
                 anc |-> {Len(commits) + 1} \cup UNION {Anc(parents[i]) : i \in DOMAIN parents},
                 base |-> base, forge |-> forge, claims |-> read]
<1>1. commits' = Append(commits, e) /\ commits \in Seq(S)
  BY DEF NewCommit, Chain
<1>2. commits' \in Seq(S \cup {e})
  <2>1. commits \in Seq(S \cup {e}) /\ e \in S \cup {e}
    BY <1>1, SeqMonotonic, S \subseteq S \cup {e}
  <2> HIDE DEF S, e
  <2>2. QED
    BY <1>1, <2>1, AppendProperties
<1>3. commits' \in Seq({commits'[c] : c \in Known'})
  <2> HIDE DEF S, e
  <2> QED
    BY <1>2, OverItself DEF Known
<1>4. /\ Len(commits) \in Nat /\ DOMAIN commits = 1..Len(commits)
      /\ DOMAIN commits' = 1..(Len(commits) + 1)
      /\ \A i \in 1..Len(commits) : commits'[i] = commits[i]
      /\ commits'[Len(commits) + 1] = e
  <2> HIDE DEF S, e
  <2> QED
    BY <1>1, Appended
<1>5. QED
  BY <1>3, <1>4 DEF Grown, Known

\* The new commit is as it was made, and the others are as they were.
LEMMA NewCommitAdds ==
  ASSUME Chain, NEW parents, NEW rows, NEW msg, NEW base, NEW forge, NEW read,
         NewCommit(parents, rows, msg, base, forge, read)
  PROVE  \E new :
           /\ Known' = Known \cup {new} /\ new \notin Known /\ new # 0
           /\ \A c \in Known : commits'[c] = commits[c]
           /\ commits'[new].parents = parents /\ commits'[new].rows = rows
           /\ commits'[new].subject = msg.subject /\ commits'[new].body = msg.body
           /\ commits'[new].base = base /\ commits'[new].claims = read
<1>1. PICK new : new = Len(commits) + 1
  OBVIOUS
<1> DEFINE e == [parents |-> parents, rows |-> rows, subject |-> msg.subject, body |-> msg.body,
                 anc |-> {new} \cup UNION {Anc(parents[i]) : i \in DOMAIN parents},
                 base |-> base, forge |-> forge, claims |-> read]
<1>2. PICK S : commits \in Seq(S)
  BY DEF Chain
<1>3. commits' = Append(commits, e)
  BY <1>1 DEF NewCommit
<1>4. /\ Known = 1..Len(commits) /\ Known' = 1..new /\ Len(commits) \in Nat
      /\ \A c \in Known : commits'[c] = commits[c]
      /\ commits'[new] = e
  <2> HIDE DEF e
  <2> QED
    BY <1>1, <1>2, <1>3, Appended DEF Known
<1>5. Known' = Known \cup {new} /\ new \notin Known /\ new # 0
  BY <1>1, <1>4
<1>6. QED
  BY <1>4, <1>5

\* Its number is a new one.
LEMMA GrownIsKnown ==
  ASSUME NEW new, NEW parents, NEW rows, Grown(new, parents, rows)
  PROVE  new \in Known' /\ new \notin Known /\ new # 0 /\ Known' = Known \cup {new}
BY DEF Grown

Sound(parents) == 1 \in DOMAIN parents /\ \A i \in DOMAIN parents : parents[i] \in Known

\* It keeps what a commit reaches closed.
LEMMA GrownKeepsChain ==
  ASSUME Chain, NEW new, NEW parents, NEW rows, Grown(new, parents, rows), Sound(parents)
  PROVE  Chain' /\ \A c \in Known : Anc(c) \subseteq Known /\ Anc(c)' = Anc(c)
<1>1. /\ new = Len(commits) + 1 /\ Len(commits) \in Nat /\ Known = 1..Len(commits) /\ Known' = 1..new /\ new \notin Known
      /\ \A c \in Known : commits'[c] = commits[c]
      /\ commits'[new].parents = parents
      /\ commits'[new].anc = {new} \cup UNION {Anc(parents[i]) : i \in DOMAIN parents}
      /\ DOMAIN commits'[new].base = DOMAIN EmptyBaseline
  BY DEF Grown
<1>2. \A c \in Known : /\ Anc(c) \subseteq Known /\ Anc(c)' = Anc(c)
                       /\ Parents(c)' = Parents(c) /\ Base(c)' = Base(c)
  BY <1>1 DEF Chain, Linked, Anc, Parents, Base
<1>3. ASSUME NEW c \in Known
      PROVE  Linked(c)'
  <2>1. Linked(c) /\ \A d \in Anc(c) : Anc(d)' = Anc(d)
    BY <1>2 DEF Chain
  <2>2. QED
    BY <1>2, <2>1 DEF Linked, EmptyBaseline
<1>4. /\ Anc(new)' = {new} \cup UNION {Anc(parents[i]) : i \in DOMAIN parents}
      /\ Parents(new)' = parents /\ DOMAIN Base(new)' = DOMAIN EmptyBaseline
  BY <1>1 DEF Anc, Parents, Base
<1>5. Linked(new)'
  <2>1. ASSUME NEW i \in DOMAIN parents
        PROVE  /\ parents[i] \in Known /\ Anc(parents[i]) \subseteq 1..new
               /\ parents[i] \in Anc(parents[i])
               /\ \A d \in Anc(parents[i]) : Anc(d)' \subseteq Anc(parents[i])
    <3>1. parents[i] \in Known /\ Linked(parents[i]) /\ Anc(parents[i]) \subseteq Known
      BY <1>2 DEF Chain, Sound
    <3>2. parents[i] \in Anc(parents[i])
          /\ \A d \in Anc(parents[i]) : d \in Known /\ Anc(d) \subseteq Anc(parents[i])
      BY <3>1 DEF Linked
    <3>3. \A d \in Anc(parents[i]) : Anc(d)' \subseteq Anc(parents[i])
      BY <1>2, <3>2
    <3>4. Anc(parents[i]) \subseteq 1..new
      BY <1>1, <3>2
    <3>5. QED
      BY <3>1, <3>2, <3>3, <3>4
  <2>2. (new \in Anc(new) /\ Anc(new) \subseteq 1..new)'
    <3>1. new \in 1..new
      BY <1>1
    <3>2. QED
      BY <1>4, <2>1, <3>1
  <2>3. \A d \in Anc(new)' : Anc(d)' \subseteq Anc(new)'
    BY <1>4, <2>1
  <2>4. (\A i \in DOMAIN Parents(new) : Parents(new)[i] \in Anc(new) \ {new})'
    BY <1>1, <1>4, <2>1
  <2>5. (Parents(new) = <<>> \/ 1 \in DOMAIN Parents(new))'
    BY <1>4 DEF Sound
  <2>6. QED
    BY <1>4, <2>2, <2>3, <2>4, <2>5 DEF Linked, EmptyBaseline
<1>6. (commits \in Seq({commits[c] : c \in Known}))'
  BY DEF Grown
<1>7. \A c \in Known' : c \in Known \/ c = new
  BY <1>1
<1>8. QED
  BY <1>2, <1>3, <1>5, <1>6, <1>7 DEF Chain

\* A line of a new commit is introduced by it, or is in a parent, where it was
\* introduced before.
LEMMA GrownKeepsRows ==
  ASSUME Chain, EveryRowIntroduced, NEW new, NEW parents, NEW rows,
         Grown(new, parents, rows), Sound(parents)
  PROVE  EveryRowIntroduced'
<1>1. /\ new = Len(commits) + 1 /\ Len(commits) \in Nat /\ Known = 1..Len(commits) /\ Known' = 1..new /\ new \notin Known
      /\ \A c \in Known : commits'[c] = commits[c]
      /\ commits'[new].parents = parents
      /\ commits'[new].anc = {new} \cup UNION {Anc(parents[i]) : i \in DOMAIN parents}
  BY DEF Grown
<1>2. \A c \in Known : Anc(c) \subseteq Known /\ Anc(c)' = Anc(c) /\ Rows(c)' = Rows(c)
  BY <1>1, GrownKeepsChain DEF Rows
<1>3. \A c \in Known : commit_introduced(c)' = commit_introduced(c)
  <2> TAKE c \in Known
  <2>1. Parents(c)' = Parents(c) /\ \A i \in DOMAIN Parents(c) : Parents(c)[i] \in Known
    BY <1>1, <1>2 DEF Parents, Chain, Linked
  <2>2. QED
    BY <1>2, <2>1 DEF commit_introduced
<1>4. ASSUME NEW c \in Known, NEW r \in Rows(c)
      PROVE  \E d \in Anc(c) : r \in commit_introduced(d)'
  BY <1>2, <1>3 DEF EveryRowIntroduced
<1>5. ASSUME NEW r \in Rows(new)'
      PROVE  \E d \in Anc(new)' : r \in commit_introduced(d)'
  <2>1. Parents(new)' = parents /\ new \in Anc(new)'
        /\ \A i \in DOMAIN parents : parents[i] \in Known /\ Anc(parents[i]) \subseteq Anc(new)'
    BY <1>1 DEF Parents, Anc, Sound
  <2>2. CASE \A i \in DOMAIN parents : r \notin Rows(parents[i])
    <3>1. \A i \in DOMAIN parents : r \notin Rows(parents[i])'
      BY <1>2, <2>1, <2>2
    <3>2. r \in commit_introduced(new)'
      BY <2>1, <3>1 DEF commit_introduced
    <3>3. QED
      BY <2>1, <3>2
  <2>3. CASE \E i \in DOMAIN parents : r \in Rows(parents[i])
    <3>1. PICK i \in DOMAIN parents : r \in Rows(parents[i])
      BY <2>3
    <3>2. \E d \in Anc(parents[i]) : r \in commit_introduced(d)'
      BY <1>4, <2>1, <3>1
    <3>3. QED
      BY <2>1, <3>2
  <2>4. QED
    BY <2>2, <2>3
<1>6. ASSUME NEW c \in Known', NEW r \in Rows(c)'
      PROVE  \E d \in Anc(c)' : r \in commit_introduced(d)'
  BY <1>1, <1>2, <1>4, <1>5
<1>7. QED
  BY <1>6 DEF EveryRowIntroduced

------------------------------------------------------------------------------
(* What a step does to the commits.                                        *)

\* A local commit grows the chain on the tip, and its branch moves to the new commit.
LEMMA CommitGrows ==
  ASSUME Inv, NEW row, NEW msg, Commit(row, msg)
  PROVE  /\ \E new, rows :
              /\ Grown(new, <<Tip>>, rows) /\ local'[cur] = new
              /\ commits'[new].forge = FALSE
         /\ Sound(<<Tip>>) /\ DOMAIN wt' = DOMAIN EmptyBaseline
<1>1. Tip \in Known /\ DOMAIN wt = DOMAIN EmptyBaseline
      /\ DOMAIN Base(Tip) = DOMAIN EmptyBaseline /\ cur \in DOMAIN local
  BY DEF Commit, Inv, Heads, Tip, Chain, Linked
<1>2. PICK rows \in {Rows(Tip), Rows(Tip) \cup {row}, Rows(Tip) \ {row}},
           base \in {wt, Base(Tip)} \cup Edited :
        /\ NewCommit(<<Tip>>, rows, msg, base, FALSE, FALSE)
        /\ wt' = IF base \in {wt, Base(Tip)} THEN wt ELSE base
  BY DEF Commit
<1>3. DOMAIN base = DOMAIN EmptyBaseline
  <2>1. \A e \in Edited : DOMAIN e = DOMAIN Base(Tip)
    BY DEF Edited
  <2>2. QED
    BY <1>1, <1>2, <2>1
<1>4. Grown(Len(commits) + 1, <<Tip>>, rows) /\ commits'[Len(commits) + 1].forge = FALSE
  BY <1>2, <1>3, NewCommitGrows DEF Inv
<1>5. local'[cur] = Len(commits) + 1
  BY <1>1 DEF Commit
<1>6. QED
  BY <1>1, <1>2, <1>3, <1>4, <1>5 DEF Sound

\* A local merge grows the chain on both its sides, as a commit of no forge.
LEMMA MergeLocalGrows ==
  ASSUME Inv, NEW b \in Branches, NEW row, MergeLocal(b, row)
  PROVE  /\ \E new, rows :
              /\ Grown(new, <<Tip, local[b]>>, rows) /\ local'[cur] = new
              /\ commits'[new].forge = FALSE
         /\ Sound(<<Tip, local[b]>>) /\ DOMAIN wt' = DOMAIN EmptyBaseline
<1>1. Tip \in Known /\ local[b] \in Known /\ cur \in DOMAIN local
  BY DEF MergeLocal, Inv, Heads, Tip
<1>2. PICK rows : NewCommit(<<Tip, local[b]>>, rows, Quiet, MergeBases(Tip, local[b]), FALSE, FALSE)
  BY DEF MergeLocal
<1>3. DOMAIN MergeBases(Tip, local[b]) = DOMAIN EmptyBaseline
  BY DEF MergeBases, MergeBase
<1>4. Grown(Len(commits) + 1, <<Tip, local[b]>>, rows) /\ commits'[Len(commits) + 1].forge = FALSE
  BY <1>2, <1>3, NewCommitGrows DEF Inv
<1>5. local'[cur] = Len(commits) + 1 /\ wt' = MergeBases(Tip, local[b])
  BY <1>1 DEF MergeLocal
<1>6. QED
  BY <1>1, <1>3, <1>4, <1>5 DEF Sound

\* The commit of the merge button has no line that neither parent has.
LEMMA ForgeMergeGrows ==
  ASSUME Inv, ForgeMerge
  PROVE  LET b == remote["main"]  t == remote["topic"]  new == Len(commits) + 1 IN
         /\ b \in Known /\ t \in Known /\ Sound(<<b, t>>)
         /\ Grown(new, <<b, t>>, MergeRows(b, t))
         /\ commits'[new].subject = menu.ref /\ commits'[new].body = pr.title
         /\ commits'[new].forge = TRUE
         /\ remote' = [remote EXCEPT !["main"] = new] /\ run' = Started("main", new)
<1> DEFINE b == remote["main"]
           t == remote["topic"]
<1>1. b \in Known /\ t \in Known
  BY DEF ForgeMerge, Inv, Heads, Branches
<1> DEFINE msg  == [subject |-> menu.ref, body |-> pr.title]
           read == (pr.claims = [green |-> TRUE, on |-> <<b, t>>])
<1>2. /\ NewCommit(<<b, t>>, MergeRows(b, t), msg, MergeBases(b, t), TRUE, read)
      /\ msg.subject = menu.ref /\ msg.body = pr.title
  BY DEF ForgeMerge, RefKinds
<1>3. DOMAIN MergeBases(b, t) = DOMAIN EmptyBaseline
  BY DEF MergeBases, MergeBase
<1>4. /\ Grown(Len(commits) + 1, <<b, t>>, MergeRows(b, t))
      /\ commits'[Len(commits) + 1].subject = menu.ref
      /\ commits'[Len(commits) + 1].body = pr.title
      /\ commits'[Len(commits) + 1].forge = TRUE
  <2> HIDE DEF b, t, msg, read
  <2> QED
    BY <1>2, <1>3, NewCommitGrows DEF Inv
<1>5. QED
  BY <1>1, <1>4 DEF ForgeMerge, Sound

\* Only the merge button makes a commit of the forge.
ByForge(new) == commits'[new].forge = FALSE \/ (ForgeMerge /\ new = Len(commits) + 1)

\* Every step leaves the commits alone or adds one, on parents that are there.
LEMMA Growth ==
  ASSUME Inv, [Next]_vars
  PROVE  \/ commits' = commits
         \/ \E new, parents, rows : Grown(new, parents, rows) /\ Sound(parents) /\ ByForge(new)
<1>1. ASSUME NEW row, NEW msg, Commit(row, msg)
      PROVE  \E new, parents, rows : Grown(new, parents, rows) /\ Sound(parents) /\ ByForge(new)
  <2>1. PICK new, rows : Grown(new, <<Tip>>, rows) /\ commits'[new].forge = FALSE
    BY <1>1, CommitGrows
  <2>2. Sound(<<Tip>>) /\ ByForge(new)
    BY <1>1, <2>1, CommitGrows DEF ByForge
  <2>3. QED
    BY <2>1, <2>2
<1>2. ASSUME NEW b \in Branches, NEW row, MergeLocal(b, row)
      PROVE  \E new, parents, rows : Grown(new, parents, rows) /\ Sound(parents) /\ ByForge(new)
  <2>1. PICK new, rows : Grown(new, <<Tip, local[b]>>, rows) /\ commits'[new].forge = FALSE
    BY <1>2, MergeLocalGrows
  <2>2. Sound(<<Tip, local[b]>>) /\ ByForge(new)
    BY <1>2, <2>1, MergeLocalGrows DEF ByForge
  <2>3. QED
    BY <2>1, <2>2
<1>3. ASSUME ForgeMerge
      PROVE  \E new, parents, rows : Grown(new, parents, rows) /\ Sound(parents) /\ ByForge(new)
  BY <1>3, ForgeMergeGrows DEF ByForge
<1>4. CASE \/ \E b \in Branches : Checkout(b) \/ Scrub(b)
           \/ Branch \/ Reset \/ Fetch \/ CheckClaims \/ Push \/ ReadProse \/ EndCheck
           \/ \E list \in menu.lists : WriteBaseline(list)
           \/ \E t \in menu.tags : PushTag(t)
           \/ \E title \in menu.titles : EditProse(title)
           \/ UNCHANGED vars
  BY <1>4 DEF Checkout, Scrub, Branch, Reset, Fetch, CheckClaims, Push, ReadProse, EndCheck,
              WriteBaseline, PushTag, EditProse, vars
<1>5. QED
  BY <1>1, <1>2, <1>3, <1>4 DEF Next

\* What a commit reaches was committed before it.
LEMMA Reach ==
  ASSUME Chain
  PROVE  Known \subseteq Nat \ {0} /\ \A c \in Known : Linked(c) /\ Anc(c) \subseteq Known
<1>1. PICK S : commits \in Seq(S)
  BY DEF Chain
<1>2. Len(commits) \in Nat /\ Known = 1..Len(commits)
  BY <1>1, LenProperties DEF Known
<1>3. QED
  BY <1>2 DEF Chain, Linked

\* No step changes a commit, and every step keeps the chain and its lines.
LEMMA ChainStep ==
  ASSUME Inv, [Next]_vars
  PROVE  /\ Chain' /\ Known \subseteq Known'
         /\ \A c \in Known : commits'[c] = commits[c] /\ Anc(c) \subseteq Known
         /\ EveryRowIntroduced => EveryRowIntroduced'
<1>1. ASSUME commits' = commits
      PROVE  /\ Chain' /\ Known \subseteq Known'
             /\ \A c \in Known : commits'[c] = commits[c] /\ Anc(c) \subseteq Known
             /\ EveryRowIntroduced => EveryRowIntroduced'
  <2>1. Chain' /\ Known' = Known
    BY <1>1 DEF Inv, Chain, Known, Linked, Anc, Parents, Base, EmptyBaseline
  <2>2. \A c \in Known : Anc(c) \subseteq Known
    BY Reach DEF Inv
  <2>3. EveryRowIntroduced => EveryRowIntroduced'
    BY <1>1 DEF EveryRowIntroduced, Known, Rows, Anc, commit_introduced, Parents
  <2>4. QED
    BY <1>1, <2>1, <2>2, <2>3
<1>2. ASSUME NEW new, NEW parents, NEW rows, Grown(new, parents, rows), Sound(parents)
      PROVE  /\ Chain' /\ Known \subseteq Known'
             /\ \A c \in Known : commits'[c] = commits[c] /\ Anc(c) \subseteq Known
             /\ EveryRowIntroduced => EveryRowIntroduced'
  <2>1. Chain' /\ \A c \in Known : Anc(c) \subseteq Known
    BY <1>2, GrownKeepsChain DEF Inv
  <2>2. EveryRowIntroduced => EveryRowIntroduced'
    BY <1>2, GrownKeepsRows DEF Inv
  <2>3. Known \subseteq Known' /\ \A c \in Known : commits'[c] = commits[c]
    BY <1>2 DEF Grown
  <2>4. QED
    BY <2>1, <2>2, <2>3
<1>3. QED
  BY <1>1, <1>2, Growth

------------------------------------------------------------------------------
(* The rest of the invariant.                                              *)

\* Branches, remote-tracking branches, pull request and CI runs keep naming commits that exist.
LEMMA HeadsStep ==
  ASSUME Inv, [Next]_vars
  PROVE  Heads'
<1>1. /\ Known \subseteq Known' /\ Heads
      /\ local  \in [Branches -> Known' \cup {0}]
      /\ remote \in [Branches -> Known' \cup {0}]
      /\ origin \in [Branches -> Known' \cup {0}]
      /\ \A b \in Branches : run[b].head \in Known' \cup {0}
      /\ \A b \in Branches : run[b].status # "none" => run[b].head \in Known'
  BY ChainStep DEF Inv, Heads
<1>2. \A c \in Known : DOMAIN Base(c) = DOMAIN EmptyBaseline
  BY DEF Inv, Chain, Linked
<1>3. ASSUME NEW row, NEW msg, Commit(row, msg)
      PROVE  Heads'
  <2>1. /\ local'[cur] \in Known' /\ DOMAIN wt' = DOMAIN EmptyBaseline
    BY <1>3, CommitGrows, GrownIsKnown
  <2>2. local' \in [Branches -> Known' \cup {0}]
    BY <1>1, <1>3, <2>1 DEF Commit, Heads
  <2>3. QED
    BY <1>1, <1>3, <2>1, <2>2 DEF Commit, Heads, EmptyBaseline
<1>4. ASSUME NEW b \in Branches, NEW row, MergeLocal(b, row)
      PROVE  Heads'
  <2>1. /\ local'[cur] \in Known' /\ DOMAIN wt' = DOMAIN EmptyBaseline
    BY <1>4, MergeLocalGrows, GrownIsKnown
  <2>2. local' \in [Branches -> Known' \cup {0}]
    BY <1>1, <1>4, <2>1 DEF MergeLocal, Heads
  <2>3. QED
    BY <1>1, <1>4, <2>1, <2>2 DEF MergeLocal, Heads, EmptyBaseline
<1>5. ASSUME ForgeMerge
      PROVE  Heads'
  <2>1. PICK new \in Known' :
          remote' = [remote EXCEPT !["main"] = new] /\ run' = Started("main", new)
    BY <1>5, ForgeMergeGrows, GrownIsKnown
  <2>2. QED
    BY <1>1, <1>5, <2>1 DEF ForgeMerge, clone, Heads, Started, Branches, EmptyBaseline
<1>6. ASSUME NEW b \in Branches, Checkout(b)
      PROVE  Heads'
  BY <1>1, <1>2, <1>6 DEF Checkout, Heads, Known, EmptyBaseline
<1>7. CASE Branch
  BY <1>1, <1>7 DEF Branch, Heads, Tip, Known, EmptyBaseline
<1>8. CASE Reset
  <2>1. FirstParent(Tip) \in Known
    <3>1. Tip \in Known /\ Linked(Tip)
      BY <1>8 DEF Reset, Heads, Tip, Inv, Chain
    <3>2. QED
      BY <1>8, <3>1, ChainStep DEF Reset, FirstParent, Linked
  <2>2. QED
    BY <1>1, <1>2, <1>8, <2>1 DEF Reset, Heads, Known, EmptyBaseline
<1>9. CASE Fetch
  BY <1>1, <1>9 DEF Fetch, Heads, Known, EmptyBaseline
<1>10. ASSUME NEW list, WriteBaseline(list)
       PROVE  Heads'
  BY <1>1, <1>10 DEF WriteBaseline, Heads, Known, EmptyBaseline
<1>11. CASE Push
  BY <1>1, <1>11 DEF Push, clone, Heads, Tip, Known, Started, EmptyBaseline
<1>12. ASSUME NEW b \in Branches, Scrub(b)
       PROVE  Heads'
  BY <1>1, <1>12 DEF Scrub, clone, Heads, Known, EmptyBaseline
<1>13. CASE \/ CheckClaims \/ ReadProse \/ EndCheck
            \/ \E t \in menu.tags : PushTag(t)
            \/ \E title \in menu.titles : EditProse(title)
            \/ UNCHANGED vars
  <2>1. UNCHANGED <<commits, clone, remote, origin, run>>
    BY <1>13 DEF CheckClaims, ReadProse, EndCheck, PushTag, EditProse, vars
  <2>2. QED
    BY <1>1, <2>1 DEF clone, Heads, Known, EmptyBaseline
<1>14. QED
  BY <1>3, <1>4, <1>5, <1>6, <1>7, <1>8, <1>9, <1>10, <1>11, <1>12, <1>13 DEF Next

\* What the clone last saw of a branch stays reached from it.
LEMMA SeenStep ==
  ASSUME Inv, [Next]_vars
  PROVE  Seen'
<1>1. \A c \in Known : commits'[c] = commits[c]
  BY ChainStep
<1>2. \A b \in Branches : {remote[b], origin[b]} \subseteq Known \cup {0}
  BY DEF Inv, Heads
<1>3. CASE UNCHANGED <<remote, origin>>
  BY <1>1, <1>2, <1>3 DEF Inv, Seen, Anc
<1>4. CASE Push
  <2>1. CASE UNCHANGED <<remote, origin>>
    BY <2>1, <1>3
  <2>2. CASE remote' = [remote EXCEPT ![cur] = Tip] /\ origin' = [origin EXCEPT ![cur] = Tip]
    BY <1>1, <1>2, <1>4, <2>2 DEF Push, Inv, Seen, Heads, Anc
  <2>3. QED
    BY <1>4, <2>1, <2>2 DEF Push
<1>5. CASE Fetch
  BY <1>5 DEF Fetch, Seen, Anc
<1>6. CASE ForgeMerge
  <2>1. PICK new : /\ Grown(new, <<remote["main"], remote["topic"]>>,
                            MergeRows(remote["main"], remote["topic"]))
                   /\ remote' = [remote EXCEPT !["main"] = new]
    BY <1>6, ForgeMergeGrows
  <2>2. new # 0 /\ commits[remote["main"]].anc \subseteq commits'[new].anc
    <3>1. DOMAIN <<remote["main"], remote["topic"]>> = 1..2
      OBVIOUS
    <3>2. 1 \in DOMAIN <<remote["main"], remote["topic"]>>
      BY <3>1
    <3>3. QED
      BY <2>1, <3>2, GrownIsKnown DEF Grown, Anc
  <2>3. "main" \in DOMAIN remote /\ origin' = origin
    BY <1>6 DEF Inv, Heads, Branches, ForgeMerge
  <2>4. ASSUME NEW b \in Branches, origin[b] # 0
        PROVE  remote'[b] # 0 /\ commits'[origin[b]].anc \subseteq commits'[remote'[b]].anc
    <3>1. CASE b = "main"
      <4>1. remote'[b] = new /\ origin[b] \in Known /\ commits'[origin[b]] = commits[origin[b]]
        BY <1>1, <1>2, <2>1, <2>3, <2>4, <3>1
      <4>2. commits[origin[b]].anc \subseteq commits[remote[b]].anc
        BY <2>4 DEF Inv, Seen, Anc
      <4>3. QED
        BY <2>2, <3>1, <4>1, <4>2
    <3>2. CASE b # "main"
      <4>1. remote'[b] = remote[b] /\ {origin[b], remote[b]} \subseteq Known
        BY <1>2, <2>1, <2>4, <3>2 DEF Inv, Seen, Anc, Heads
      <4>2. QED
        BY <1>1, <2>4, <4>1 DEF Inv, Seen, Anc
    <3>3. QED
      BY <3>1, <3>2
  <2>5. QED
    BY <2>3, <2>4 DEF Seen, Anc
<1>7. QED
  BY <1>3, <1>4, <1>5, <1>6
     DEF Next, vars, Commit, MergeLocal, Checkout, Scrub, Branch, Reset, CheckClaims, ReadProse,
         EndCheck, WriteBaseline, PushTag, EditProse

\* A pull request that can merge has had the title and body it shows judged.
LEMMA JudgedStep ==
  ASSUME Inv, [Next]_vars
  PROVE  Judged'
<1>1. Judged
  BY DEF Inv
<1>2. CASE UNCHANGED pr
  BY <1>1, <1>2 DEF Judged, open_mode
<1>3. CASE Push
  <2>1. \/ pr' = pr \/ pr' = [pr EXCEPT !.check = "running", !.judged = TRUE]
    BY <1>3 DEF Push
  <2>2. CASE pr' = [pr EXCEPT !.check = "running", !.judged = TRUE]
    <3>1. DOMAIN pr' = DOMAIN pr /\ pr'.check = "running"
      BY <1>1, <2>2 DEF Judged
    <3>2. QED
      BY <1>1, <3>1 DEF Judged
  <2>3. QED
    BY <1>2, <2>1, <2>2
<1>4. CASE ReadProse
  BY <1>1, <1>4 DEF ReadProse, Judged, open_mode
<1>5. CASE EndCheck
  BY <1>1, <1>5 DEF EndCheck, Judged, open_mode
<1>6. ASSUME NEW title, EditProse(title)
      PROVE  Judged'
  BY <1>1, <1>6 DEF EditProse, Judged, open_mode, pull_request_types
<1>7. CASE CheckClaims
  BY <1>1, <1>7 DEF CheckClaims, Judged, open_mode
<1>8. QED
  BY <1>2, <1>3, <1>4, <1>5, <1>6, <1>7
     DEF Next, vars, Commit, MergeLocal, Checkout, Scrub, Branch, Reset, Fetch, ForgeMerge,
         WriteBaseline, PushTag

\* The start of every menu satisfies the invariant, and introduces its own rows.
LEMMA InitInv ==
  ASSUME Init
  PROVE  Inv /\ EveryRowIntroduced
<1>1. PICK root : /\ commits = <<root>> /\ root.parents = <<>> /\ root.anc = {1}
                  /\ root.body = {} /\ root.forge = FALSE
                  /\ DOMAIN root.base = DOMAIN EmptyBaseline
  BY MenusAssumption DEF Init
<1>2. Len(commits) = 1 /\ Known = {1} /\ commits[1] = root /\ commits \in Seq({root})
  BY <1>1 DEF Known
<1>3. Anc(1) = {1} /\ Parents(1) = <<>> /\ DOMAIN Base(1) = DOMAIN EmptyBaseline
  BY <1>1, <1>2 DEF Anc, Parents, Base
<1>4. Linked(1)
  <2>1. DOMAIN Parents(1) = {}
    BY <1>3
  <2>2. QED
    BY <1>3, <2>1 DEF Linked
<1>5. Chain
  BY <1>2, <1>4, OverItself DEF Chain, Known
<1>6. EveryRowIntroduced
  <2>1. DOMAIN Parents(1) = {}
    BY <1>3
  <2>2. QED
    BY <1>2, <1>3, <2>1 DEF EveryRowIntroduced, commit_introduced
<1>7. Heads
  BY <1>2, MenusAssumption DEF Init, Heads, Idle, Branches, EmptyBaseline
<1>8. Seen
  BY DEF Init, Seen
<1>9. Judged
  BY DEF Init, Judged
<1>10. QED
  BY <1>5, <1>6, <1>7, <1>8, <1>9 DEF Inv

\* Every step preserves the invariant.
LEMMA InvStep ==
  Inv /\ [Next]_vars => Inv'
BY ChainStep, HeadsStep, SeenStep, JudgedStep DEF Inv

\* The invariant holds of every reachable state.
THEOREM Invariant == Spec => []Inv
<1>1. Init => Inv
  BY InitInv
<1>2. QED
  BY <1>1, InvStep, PTL DEF Spec

------------------------------------------------------------------------------
(* What the gates promise.                                                 *)

\* Nothing in a tree escapes the per-commit arms, for any history of commits
\* and merges (check_private_paths.py, commit_introduced).
THEOREM RowsIntroduced == Spec => []EveryRowIntroduced
<1>1. Init => Inv /\ EveryRowIntroduced
  BY InitInv
<1>2. Inv /\ EveryRowIntroduced /\ [Next]_vars => Inv' /\ EveryRowIntroduced'
  BY ChainStep, InvStep
<1>3. QED
  BY <1>1, <1>2, PTL DEF Spec

\* The merge button publishes no prose the check did not judge, for every
\* order of reads, edits and pushes (scrub.yml, the pull_request job).
THEOREM MergesClean == Spec => []ForgeMergesClean
<1>1. Init => ForgeMergesClean
  <2> SUFFICES ASSUME Init
               PROVE  ForgeMergesClean
    OBVIOUS
  <2>1. PICK root : commits = <<root>> /\ root.forge = FALSE
    BY DEF Init
  <2>2. QED
    BY <2>1 DEF ForgeMergesClean, Known
<1>2. Inv /\ ForgeMergesClean /\ [Next]_vars => ForgeMergesClean'
  <2> SUFFICES ASSUME Inv, ForgeMergesClean, [Next]_vars
               PROVE  ForgeMergesClean'
    OBVIOUS
  <2>1. \A c \in Known : commits'[c] = commits[c]
    BY ChainStep
  <2>2. ASSUME NEW c \in Known' \ Known, commits'[c].forge
        PROVE  commits'[c].body \cap {"session", "path", "name", "lane", "kin"} = {}
    <3>1. PICK new, parents, rows : Grown(new, parents, rows) /\ ByForge(new)
      BY <2>2, Growth DEF Known
    <3>2. c = new /\ ForgeMerge /\ new = Len(commits) + 1
      BY <2>2, <3>1, GrownIsKnown DEF ByForge
    <3>3. commits'[c].body = pr.title
      BY <3>2, ForgeMergeGrows
    <3>4. open_mode(pr.title, {})
      BY <3>2 DEF ForgeMerge, Inv, Judged
    <3>5. QED
      BY <3>3, <3>4 DEF open_mode
  <2>3. QED
    BY <2>1, <2>2 DEF ForgeMergesClean, Body
<1>3. QED
  BY <1>1, <1>2, Invariant, PTL DEF Spec

\* A green run vouches for the whole history of its head, for any order of
\* pushes and of cancelled and red runs (scrub.yml, both jobs).
THEOREM GreenVouches == Spec => []GreenVouchesForHistory
<1>1. Init => GreenVouchesForHistory
  BY DEF Init, GreenVouchesForHistory, Idle
<1>2. ASSUME Inv, GreenVouchesForHistory, [Next]_vars
      PROVE  GreenVouchesForHistory'
  <2> DEFINE Vouched(head) ==
        \A c \in Anc(head) :
          /\ "session" \notin Message(c)
          /\ \A r \in path_scan(commit_introduced(c)) : history_key(c, r) \in Base(head).hist
          /\ Subject(c) \cap Refused # {} <=> c \in Base(head).subjects
  <2>1. \A c \in Known : commits'[c] = commits[c] /\ Anc(c) \subseteq Known /\ Linked(c)
    BY <1>2, ChainStep DEF Inv, Chain
  <2>2. ASSUME NEW head \in Known, Vouched(head)
        PROVE  Vouched(head)'
    <3>1. Anc(head)' = Anc(head) /\ Base(head)' = Base(head)
      BY <2>1 DEF Anc, Base
    <3>2. ASSUME NEW c \in Known
          PROVE  /\ Message(c)' = Message(c) /\ Subject(c)' = Subject(c)
                 /\ commit_introduced(c)' = commit_introduced(c)
      <4>1. Parents(c)' = Parents(c) /\ Rows(c)' = Rows(c)
            /\ \A i \in DOMAIN Parents(c) : Parents(c)[i] \in Known
        BY <2>1 DEF Parents, Rows, Linked
      <4>2. \A i \in DOMAIN Parents(c) : Rows(Parents(c)[i])' = Rows(Parents(c)[i])
        BY <2>1, <4>1 DEF Rows
      <4>3. QED
        BY <2>1, <4>1, <4>2 DEF Message, Subject, commit_introduced
    <3>3. \A c \in Anc(head) : c \in Known
      BY <2>1
    <3>4. QED
      BY <2>2, <3>1, <3>2, <3>3
  <2>3. ASSUME NEW b \in Branches, Scrub(b), run'[b].status = "green"
        PROVE  run[b].head \in Known /\ Vouched(run[b].head)
    <3>1. run[b].head \in Known /\ run[b].status = "running"
      BY <1>2, <2>3 DEF Scrub, Inv, Heads
    <3>2. /\ commit_trailers(run[b].before, run[b].head)
          /\ private_paths(b, run[b].before, run[b].head)
      BY <1>2, <2>3 DEF Scrub, Inv, Heads
    <3>3. \A c \in Anc(run[b].head) : "session" \notin Message(c)
      <4>1. Says(rev_list(0, run[b].head), {"session"}) = {}
        BY <3>2 DEF commit_trailers, trailers
      <4>2. rev_list(0, run[b].head) = Anc(run[b].head)
        BY DEF rev_list
      <4>3. QED
        BY <4>1, <4>2 DEF Says
    <3>4. \A c \in Anc(run[b].head) : \A r \in path_scan(commit_introduced(c)) :
            history_key(c, r) \in Base(run[b].head).hist
      BY <3>2 DEF private_paths, paths_history, history_findings
    <3>5. \A c \in Anc(run[b].head) :
            Subject(c) \cap Refused # {} <=> c \in Base(run[b].head).subjects
      BY <3>2 DEF private_paths, subject_history, subject_debt
    <3>6. QED
      BY <3>1, <3>3, <3>4, <3>5
  <2>4. ASSUME NEW b \in Branches, run'[b].status = "green"
        PROVE  run'[b].head = run[b].head /\ run[b].head \in Known /\ Vouched(run[b].head)
    <3>1. Heads
      BY <1>2 DEF Inv
    <3>2. CASE run'[b] = run[b]
      BY <1>2, <2>4, <3>1, <3>2 DEF GreenVouchesForHistory, Heads
    <3>3. CASE Scrub(b)
      BY <2>3, <2>4, <3>1, <3>3 DEF Scrub, Heads
    <3>4. ASSUME NEW d \in Branches \ {b}, Scrub(d)
          PROVE  run'[b] = run[b]
      BY <3>1, <3>4 DEF Scrub, Heads
    <3>5. CASE Push
      BY <2>4, <3>1, <3>2, <3>5 DEF Push, Started, Heads
    <3>6. CASE ForgeMerge
      BY <2>4, <3>1, <3>2, <3>6 DEF ForgeMerge, Started, Heads
    <3>7. CASE run' = run
      BY <3>2, <3>7
    <3>8. QED
      BY <1>2, <3>2, <3>3, <3>4, <3>5, <3>6, <3>7
         DEF Next, vars, Commit, MergeLocal, Checkout, Branch, Reset, Fetch, CheckClaims, ReadProse,
             EndCheck, WriteBaseline, PushTag, EditProse
  <2>5. QED
    BY <2>2, <2>4 DEF GreenVouchesForHistory
<1>3. QED
  BY <1>1, <1>2, Invariant, PTL DEF Spec

\* Writing a history baseline keeps the rows that are there, of whatever branch
\* (merge_write_baseline of the three gates).
THEOREM DebtIsKept == Spec => DebtKept
<1> DEFINE Kept == (commits' = commits /\ local' = local /\ cur' = cur) =>
                     wt.hist \subseteq wt'.hist /\ wt.msgs \subseteq wt'.msgs
                       /\ wt.infra_hist \subseteq wt'.infra_hist
<1>1. ASSUME Inv, [Next]_vars
      PROVE  Kept
  <2>1. CASE wt' = wt
    BY <2>1
  <2>2. ASSUME NEW row, NEW msg, Commit(row, msg)
        PROVE  commits' # commits
    BY <1>1, <2>2, CommitGrows, GrownIsKnown DEF Known
  <2>3. ASSUME NEW b \in Branches, NEW row, MergeLocal(b, row)
        PROVE  commits' # commits
    BY <1>1, <2>3, MergeLocalGrows, GrownIsKnown DEF Known
  <2>4. ASSUME NEW b \in Branches, Checkout(b)
        PROVE  cur' # cur
    BY <2>4 DEF Checkout
  <2>5. CASE Reset
    <3>1. Tip \in Known /\ Linked(Tip) /\ cur \in DOMAIN local
      BY <1>1, <2>5 DEF Reset, Heads, Tip, Inv, Chain
    <3>2. FirstParent(Tip) # Tip
      BY <2>5, <3>1 DEF Reset, FirstParent, Linked
    <3>3. local'[cur] = FirstParent(Tip)
      BY <2>5, <3>1 DEF Reset
    <3>4. QED
      BY <3>2, <3>3 DEF Tip
  <2>6. ASSUME NEW list, WriteBaseline(list)
        PROVE  Kept
    <3>1. {"hist", "msgs", "infra_hist"} \subseteq DOMAIN wt
      BY <1>1 DEF Inv, Heads, EmptyBaseline
    <3>2. wt' = [wt EXCEPT ![list] =
                   merge_write_baseline(wt[list], Found(list), list \in {"paths", "infra"})]
      BY <2>6 DEF WriteBaseline
    <3>3. ASSUME NEW kept \in {"hist", "msgs", "infra_hist"}
          PROVE  wt[kept] \subseteq wt'[kept]
      BY <3>1, <3>2 DEF merge_write_baseline
    <3>4. QED
      BY <3>3
  <2>7. QED
    BY <1>1, <2>1, <2>2, <2>3, <2>4, <2>5, <2>6
       DEF Next, vars, clone, Branch, Fetch, Scrub, CheckClaims, Push, ReadProse, EndCheck, EditProse,
           PushTag, ForgeMerge
<1>2. QED
  BY <1>1, Invariant, PTL DEF Spec, DebtKept

\* A set of numbers has a least one, and a greatest one if it is bounded.
LEMMA LeastOf ==
  ASSUME NEW T \in SUBSET Nat, T # {}
  PROVE  \E x \in T : \A y \in T : x <= y
<1> DEFINE R == {ss \in Nat \X Nat : ss[1] < ss[2]}
<1>1. IsWellFoundedOn(R, Nat)
  BY NatLessThanWellFounded DEF OpToRel
<1>2. \E x \in T : \A y \in T : ~ (<<y, x>> \in R)
  <2> HIDE DEF R
  <2> QED
    BY <1>1, WFMin
<1>3. PICK x \in T : \A y \in T : ~ (<<y, x>> \in R)
  BY <1>2
<1>4. ASSUME NEW y \in T
      PROVE  x <= y
  <2>1. x \in Nat /\ y \in Nat /\ <<y, x>> \in Nat \X Nat /\ <<y, x>>[1] = y /\ <<y, x>>[2] = x
    OBVIOUS
  <2>2. ~ (y < x)
    BY <1>3, <2>1
  <2>3. QED
    BY <2>1, <2>2
<1>5. QED
  BY <1>4

\* A non-empty set of numbers up to n has a greatest member.
LEMMA GreatestOf ==
  ASSUME NEW n \in Nat, NEW T \in SUBSET (0..n), T # {}
  PROVE  \E x \in T : \A y \in T : y <= x
<1>1. PICK x \in {n - k : k \in T} : \A y \in {n - k : k \in T} : x <= y
  <2>1. {n - k : k \in T} \in SUBSET Nat /\ {n - k : k \in T} # {}
    <3>1. \A k \in T : n - k \in Nat
      OBVIOUS
    <3>2. QED
      BY <3>1
  <2>2. QED
    BY <2>1, LeastOf
<1>2. PICK k \in T : x = n - k
  OBVIOUS
<1>3. ASSUME NEW j \in T
      PROVE  j <= k
  BY <1>1, <1>2, n - j \in {n - i : i \in T}
<1>4. QED
  BY <1>3

\* A best common ancestor is one.
LEMMA MergeBaseIsCommon ==
  ASSUME Inv, NEW b \in Known, NEW c \in Known, merge_base(b, c) # 0
  PROVE  merge_base(b, c) \in Anc(b) \cap Anc(c)
<1> DEFINE common == Anc(b) \cap Anc(c)
<1>1. common # {} /\ merge_base(b, c) = CHOOSE m \in common : \A k \in common : k <= m
  BY DEF merge_base
<1>2. c \in Nat /\ common \in SUBSET (0..c)
  BY Reach DEF Inv, Linked
<1>3. \E m \in common : \A k \in common : k <= m
  BY <1>1, <1>2, GreatestOf
<1>4. QED
  BY <1>1, <1>3

\* The range of a push to a branch reaches every commit it publishes.
LEMMA RangeCovers ==
  ASSUME Inv, NEW b \in Branches, NEW h \in Known, NEW c \in Anc(h), c \notin Public
  PROVE  /\ push_base(b, h) # <<>>
         /\ c \in rev_list(push_base(b, h)[1], h)
<1> DEFINE tip == remote[b]
           mb  == IF origin["main"] = 0 THEN 0 ELSE merge_base(origin["main"], h)
           old == CHOOSE k \in Unpublished(h) : \A j \in Unpublished(h) : k <= j
<1>1. push_base(b, h) =
        IF tip # 0 /\ tip # h /\ Ancestor(tip, h) THEN <<tip>>
        ELSE IF mb # 0 /\ mb # h THEN <<mb>>
        ELSE IF Unpublished(h) = {} THEN <<>>
        ELSE <<FirstParent(old)>>
  BY DEF push_base
<1>2. \A k \in Known : Linked(k) /\ Anc(k) \subseteq Known
  BY Reach DEF Inv
<1>3. \A d \in Branches : remote[d] # 0 => Anc(remote[d]) \subseteq Public
  BY DEF Public
<1>4. \A d \in Branches : origin[d] # 0 => Anc(origin[d]) \subseteq Public
  BY <1>3 DEF Inv, Seen
<1>5. \A d \in Branches : origin[d] # 0 => origin[d] \in Known
  BY DEF Inv, Heads
<1>6. c \in Unpublished(h)
  BY <1>4 DEF Unpublished
<1>7. ASSUME NEW lo, lo # 0 => Anc(lo) \subseteq Public
      PROVE  c \in rev_list(lo, h)
  BY <1>7 DEF rev_list
<1>8. mb # 0 => Anc(mb) \subseteq Public
  <2> SUFFICES ASSUME mb # 0
               PROVE  Anc(mb) \subseteq Public
    OBVIOUS
  <2> DEFINE common == Anc(origin["main"]) \cap Anc(h)
  <2>1. "main" \in Branches /\ origin["main"] \in Known
    BY <1>5 DEF Branches
  <2>2. mb = CHOOSE m \in common : \A k \in common : k <= m
    BY <2>1 DEF merge_base
  <2>3. \E m \in common : \A k \in common : k <= m
    <3>1. h \in Nat /\ common \in SUBSET (0..h)
      BY <1>2, Reach DEF Inv, Linked
    <3>2. common # {}
      BY <2>1 DEF merge_base
    <3>3. QED
      BY <3>1, <3>2, GreatestOf
  <2>4. mb \in common
    BY <2>2, <2>3
  <2>5. Anc(mb) \subseteq Anc(origin["main"])
    BY <1>2, <2>1, <2>4 DEF Linked
  <2>6. QED
    BY <1>4, <2>1, <2>5
<1>9. FirstParent(old) # 0 => Anc(FirstParent(old)) \subseteq Public
  <2> SUFFICES ASSUME FirstParent(old) # 0
               PROVE  Anc(FirstParent(old)) \subseteq Public
    OBVIOUS
  <2>1. Unpublished(h) \in SUBSET Nat /\ Unpublished(h) \subseteq Known
    BY <1>2, Reach DEF Inv, Unpublished
  <2>2. old \in Unpublished(h) /\ \A j \in Unpublished(h) : old <= j
    BY <1>6, <2>1, LeastOf
  <2>3. FirstParent(old) \in Anc(old) \ {old}
    BY <1>2, <2>1, <2>2 DEF FirstParent, Linked
  <2>4. FirstParent(old) \in Known /\ FirstParent(old) < old /\ FirstParent(old) \in Anc(h)
    <3>1. old \in Known /\ old \in Anc(h) /\ old \in Nat
      BY <2>1, <2>2 DEF Unpublished
    <3>2. FirstParent(old) \in 1..old /\ Anc(old) \subseteq Anc(h)
      BY <1>2, <2>3, <3>1 DEF Linked
    <3>3. FirstParent(old) \in Known /\ FirstParent(old) \in Anc(h)
      BY <1>2, <2>3, <3>1, <3>2
    <3>4. FirstParent(old) < old
      <4> HIDE DEF old
      <4> QED
        BY <2>3, <3>1, <3>2
    <3>5. QED
      BY <3>3, <3>4
  <2>5. FirstParent(old) \notin Unpublished(h)
    BY <2>1, <2>2, <2>4
  <2>6. PICK d \in Branches : origin[d] # 0 /\ FirstParent(old) \in Anc(origin[d])
    BY <2>4, <2>5 DEF Unpublished
  <2>7. Anc(FirstParent(old)) \subseteq Anc(origin[d])
    BY <1>2, <1>5, <2>6 DEF Linked
  <2>8. QED
    BY <1>4, <2>6, <2>7
<1>10. QED
  <2>1. CASE tip # 0 /\ tip # h /\ Ancestor(tip, h)
    <3>1. push_base(b, h) = <<tip>>
      BY <1>1, <2>1
    <3>2. tip # 0 => Anc(tip) \subseteq Public
      BY <1>3
    <3>3. QED
      BY <1>7, <3>1, <3>2
  <2>2. CASE ~(tip # 0 /\ tip # h /\ Ancestor(tip, h)) /\ mb # 0 /\ mb # h
    <3>1. push_base(b, h) = <<mb>>
      BY <1>1, <2>2
    <3>2. QED
      BY <1>7, <1>8, <3>1
  <2>3. CASE ~(tip # 0 /\ tip # h /\ Ancestor(tip, h)) /\ ~(mb # 0 /\ mb # h)
    <3>1. push_base(b, h) = <<FirstParent(old)>>
      BY <1>1, <1>6, <2>3
    <3>2. QED
      BY <1>7, <1>9, <3>1
  <2>4. QED
    BY <2>1, <2>2, <2>3

\* What an armed hook let through.
LEMMA HookedPush ==
  ASSUME Inv, NEW b \in Branches, NEW h \in Known, pre_push(b, h), NEW c \in Anc(h), c \notin Public
  PROVE  /\ Accounted(c)
         /\ \A pin \in menu.pins : origin[pin.ref] # 0 => pin.row \in Rows(origin[pin.ref])
<1> DEFINE lo == push_base(b, h)[1]
<1>1. push_mode(lo, h, wt) /\ c \in rev_list(lo, h)
      /\ paths_range(lo, h, menu.pins, origin, local)
  BY RangeCovers DEF pre_push
<1>2. Accounted(c)
  BY <1>1 DEF push_mode, Accounted
<1>3. \A pin \in menu.pins : origin[pin.ref] # 0 => pin.row \in Rows(origin[pin.ref])
  BY <1>1 DEF paths_range, audit_drifted
<1>4. QED
  BY <1>2, <1>3

\* What a step publishes is what a push sends, or the commit of the merge button.
LEMMA Published ==
  ASSUME Inv, [Next]_vars, NEW c \in Public', c \notin Public
  PROVE  \/ /\ Push /\ commits' = commits /\ wt' = wt /\ Tip \in Known
            /\ c \in Anc(Tip) /\ (menu.hooks => pre_push(cur, Tip))
         \/ ForgeMerge /\ c = Len(commits) + 1
<1>1. \A k \in Known : commits'[k] = commits[k]
  BY ChainStep
<1>2. Heads
  BY DEF Inv
<1>3. PICK b \in Branches : remote'[b] # 0 /\ c \in commits'[remote'[b]].anc
  BY DEF Public, Anc
<1>4. remote' # remote
  <2> SUFFICES ASSUME remote' = remote
               PROVE  FALSE
    OBVIOUS
  <2>1. remote[b] \in Known /\ c \in Anc(remote[b])
    BY <1>1, <1>2, <1>3 DEF Heads, Anc
  <2>2. QED
    BY <1>3, <2>1 DEF Public
<1>5. CASE Push
  <2>1. /\ remote' = [remote EXCEPT ![cur] = Tip] /\ (menu.hooks => pre_push(cur, Tip))
        /\ commits' = commits /\ wt' = wt /\ Tip \in Known
    BY <1>2, <1>4, <1>5 DEF Push, clone, Heads, Tip
  <2>2. CASE b = cur
    BY <1>2, <1>3, <1>5, <2>1, <2>2 DEF Heads, Anc
  <2>3. CASE b # cur
    <3>1. remote'[b] = remote[b] /\ c \in Anc(remote[b])
      BY <1>2, <1>3, <2>1, <2>3 DEF Heads, Anc
    <3>2. QED
      BY <1>3, <3>1 DEF Public
  <2>4. QED
    BY <2>2, <2>3
<1>6. CASE ForgeMerge
  <2> DEFINE m == remote["main"]
             t == remote["topic"]
  <2>1. /\ m \in Known /\ t \in Known /\ remote' = [remote EXCEPT !["main"] = Len(commits) + 1]
        /\ Grown(Len(commits) + 1, <<m, t>>, MergeRows(m, t))
    BY <1>6, ForgeMergeGrows
  <2>2. m # 0 /\ t # 0 /\ Anc(m) \subseteq Public /\ Anc(t) \subseteq Public
    BY <1>6 DEF ForgeMerge, Public, Branches
  <2>3. CASE b = "main"
    <3>1. c \in commits'[Len(commits) + 1].anc
      BY <1>2, <1>3, <2>1, <2>3 DEF Heads
    <3>2. c \in {Len(commits) + 1} \cup UNION {Anc(<<m, t>>[i]) : i \in DOMAIN <<m, t>>}
      BY <2>1, <3>1 DEF Grown
    <3>3. DOMAIN <<m, t>> = {1, 2} /\ <<m, t>>[1] = m /\ <<m, t>>[2] = t
      OBVIOUS
    <3>4. QED
      BY <1>6, <2>2, <3>2, <3>3
  <2>4. CASE b # "main"
    <3>1. remote'[b] = remote[b] /\ remote[b] \in Known
      BY <1>2, <1>3, <2>1, <2>4 DEF Heads
    <3>2. c \in Anc(remote[b])
      BY <1>1, <1>3, <3>1 DEF Anc
    <3>3. QED
      BY <1>3, <3>1, <3>2 DEF Public
  <2>5. QED
    BY <2>3, <2>4
<1>7. QED
  BY <1>4, <1>5, <1>6
     DEF Next, vars, Commit, MergeLocal, Checkout, Branch, Reset, Fetch, Scrub, CheckClaims, ReadProse,
         EndCheck, EditProse, WriteBaseline, PushTag

\* With the hooks armed no commit becomes public with a private path or a chat
\* session that nobody accounted for, by whatever range the hook took (pre-push
\* push_base; gate_scan.py push_mode), nor by the merge button.
THEOREM PublishedIsAccounted == Spec => OnlyAccountedPublished
<1> DEFINE Honest ==
      menu.hooks =>
        /\ \A c \in Known' : (c \in Public' /\ c \notin Public) => Accounted(c)'
        /\ \A u \in tags' \ tags : u.public /\ u.tag.annotated =>
             "session" \notin u.tag.subject \cup u.tag.body
<1>1. ASSUME Inv, [Next]_vars
      PROVE  Honest
  <2>1. ASSUME menu.hooks, NEW c \in Known', c \in Public', c \notin Public
        PROVE  Accounted(c)'
    <3>1. CASE Push /\ commits' = commits /\ wt' = wt /\ Tip \in Known
               /\ c \in Anc(Tip) /\ pre_push(cur, Tip)
      <4>1. Accounted(c) /\ cur \in Branches
        BY <1>1, <2>1, <3>1, HookedPush DEF Inv, Heads
      <4>2. QED
        BY <3>1, <4>1 DEF Accounted, commit_introduced, Rows, Parents, Message, path_scan, Scan, Has,
                          history_key
    <3>2. CASE ForgeMerge /\ c = Len(commits) + 1
      <4> DEFINE m == remote["main"]
                 t == remote["topic"]
      <4>1. /\ m \in Known /\ t \in Known /\ Grown(c, <<m, t>>, MergeRows(m, t))
            /\ commits'[c].subject = menu.ref /\ commits'[c].body = pr.title
        BY <1>1, <3>2, ForgeMergeGrows
      <4>2. commit_introduced(c)' = {}
        <5>1. commits'[c].parents = <<m, t>> /\ commits'[c].rows = MergeRows(m, t)
              /\ commits'[m] = commits[m] /\ commits'[t] = commits[t] /\ c # 0
          BY <4>1, GrownIsKnown DEF Grown
        <5>2. 0 \notin Known
          BY <1>1, Reach DEF Inv
        <5>3. Rows(c)' = MergeRows(m, t) /\ Parents(c)' = <<m, t>>
          BY <5>1 DEF Rows, Parents
        <5>4. MergeRows(m, t) \subseteq Rows(m) \cup Rows(t)
          BY DEF MergeRows, Merge
        <5>5. DOMAIN <<m, t>> = {1, 2} /\ <<m, t>>[1] = m /\ <<m, t>>[2] = t
          OBVIOUS
        <5>6. ASSUME NEW r \in Rows(c)'
              PROVE  \E i \in DOMAIN Parents(c)' : r \in Rows(Parents(c)[i])'
          <6>1. r \in Rows(m) \/ r \in Rows(t)
            BY <5>3, <5>4
          <6>2. CASE r \in Rows(m)
            <7>1. r \in Rows(Parents(c)[1])'
              BY <4>1, <5>1, <5>2, <5>5, <6>2 DEF Rows, Parents
            <7>2. QED
              BY <5>3, <5>5, <7>1
          <6>3. CASE r \in Rows(t)
            <7>1. r \in Rows(Parents(c)[2])'
              BY <4>1, <5>1, <5>2, <5>5, <6>3 DEF Rows, Parents
            <7>2. QED
              BY <5>3, <5>5, <7>1
          <6>4. QED
            BY <6>1, <6>2, <6>3
        <5>7. QED
          BY <5>6 DEF commit_introduced
      <4>3. "session" \notin menu.ref
        BY <1>1, MenusAssumption DEF Inv, Heads, Refused
      <4>4. "session" \notin pr.title
        BY <1>1, <3>2 DEF Inv, Judged, ForgeMerge, open_mode
      <4>5. "session" \notin Message(c)'
        BY <4>1, <4>3, <4>4 DEF Message
      <4>6. QED
        BY <4>2, <4>5 DEF Accounted, path_scan, Scan
    <3>3. QED
      BY <1>1, <2>1, <3>1, <3>2, Published
  <2>2. ASSUME menu.hooks, NEW u \in tags' \ tags, u.public, u.tag.annotated
        PROVE  "session" \notin u.tag.subject \cup u.tag.body
    <3>1. PICK t \in menu.tags : PushTag(t)
      BY <1>1, <2>2
         DEF Next, vars, clone, Commit, MergeLocal, Checkout, Branch, Reset, Fetch, Scrub, CheckClaims,
             ReadProse, EndCheck, EditProse, WriteBaseline, Push, ForgeMerge
    <3>2. u.tag = t /\ origin["main"] # 0 /\ Ancestor(Tip, origin["main"])
      <4>1. u = [tag |-> t, on |-> Tip,
                 public |-> origin["main"] # 0 /\ Ancestor(Tip, origin["main"])]
        BY <2>2, <3>1 DEF PushTag
      <4>2. u.tag = t /\ u.public = (origin["main"] # 0 /\ Ancestor(Tip, origin["main"]))
        BY <4>1
      <4>3. QED
        BY <2>2, <4>2
    <3>3. tag_mode(t)
      BY <2>2, <3>1, <3>2 DEF PushTag, pre_push_tag
    <3>4. QED
      BY <3>2, <3>3 DEF tag_mode
  <2>3. QED
    BY <2>1, <2>2
<1>2. QED
  BY <1>1, Invariant, PTL DEF Spec, OnlyAccountedPublished

\* A preserved line that is gone from its published branch stops every hooked
\* push that would publish a commit (check_private_paths.py, audit_pins).
THEOREM DriftStopsPushes == Spec => PinDriftStopsPushes
<1> DEFINE Stopped ==
      (menu.hooks /\ commits' = commits /\ \E c \in Known : c \in Public' /\ c \notin Public) =>
        \A pin \in menu.pins : origin[pin.ref] # 0 => pin.row \in Rows(origin[pin.ref])
<1>1. ASSUME Inv, [Next]_vars
      PROVE  Stopped
  <2> SUFFICES ASSUME menu.hooks, commits' = commits, NEW c \in Known, c \in Public', c \notin Public
               PROVE  \A pin \in menu.pins :
                        origin[pin.ref] # 0 => pin.row \in Rows(origin[pin.ref])
    OBVIOUS
  <2>1. Len(commits) + 1 \notin Known
    <3>1. PICK S : commits \in Seq(S)
      BY <1>1 DEF Inv, Chain
    <3>2. QED
      BY <3>1, LenProperties DEF Known
  <2>2. Tip \in Known /\ c \in Anc(Tip) /\ pre_push(cur, Tip) /\ cur \in Branches
    BY <1>1, <2>1, Published DEF Inv, Heads
  <2>3. QED
    BY <1>1, <2>2, HookedPush
<1>2. QED
  BY <1>1, Invariant, PTL DEF Spec, PinDriftStopsPushes
==============================================================================
