------------------------------ MODULE History ------------------------------
(***************************************************************************)
(* What the gates ask git: the commits, what each one reaches, and what    *)
(* one adds to another.                                                    *)
(*                                                                         *)
(* A commit is named by its position in `commits', 0 is the empty tree.    *)
(* Its rows are the lines of its tree, <<file, line>>; anc is what         *)
(* rev-list lists from it; subject and body are the kinds of forbidden     *)
(* shape its message has; base holds the baseline files it carries.  The   *)
(* order of the lines of a file is left out.                               *)
(***************************************************************************)
EXTENDS Naturals, Sequences, FiniteSets

CONSTANTS Files, Lines,
          Shapes,        \* the kinds of forbidden shape each line has
          NamedFiles     \* the files whose path has an infrastructure name

ASSUME ShapesAssumption == Shapes \in [Lines -> SUBSET STRING]
ASSUME NamedAssumption == NamedFiles \subseteq Files

VARIABLE commits

Known      == DOMAIN commits
Parents(c) == commits[c].parents
Anc(c)     == commits[c].anc
Rows(c)    == IF c = 0 THEN {} ELSE commits[c].rows
Base(c)    == commits[c].base
Message(c) == commits[c].subject \cup commits[c].body
Subject(c) == commits[c].subject
Body(c)    == commits[c].body
FirstParent(c) == IF Parents(c) = <<>> THEN 0 ELSE Parents(c)[1]
Ancestor(b, c) == b \in Anc(c)

\* `git diff b c': the lines added.
added_rows(b, c) == Rows(c) \ Rows(b)
\* `git rev-list b..c', and `git rev-list c' when b is 0.
rev_list(b, c) == IF b = 0 THEN Anc(c) ELSE Anc(c) \ Anc(b)

\* Faulty form: a merge is skipped.
commit_introduced_skip(c) ==
  IF Len(Parents(c)) > 1 THEN {}
  ELSE {r \in Rows(c) : \A i \in DOMAIN Parents(c) : r \notin Rows(Parents(c)[i])}
\* The rows a commit introduces: those that no parent has.
commit_introduced(c) ==
  {r \in Rows(c) : \A i \in DOMAIN Parents(c) : r \notin Rows(Parents(c)[i])}

\* A best common ancestor, 0 when there is none.
merge_base(b, c) ==
  LET common == Anc(b) \cap Anc(c)
  IN  IF common = {} THEN 0 ELSE CHOOSE m \in common : \A k \in common : k <= m
\* git's three-way merge of two sets of lines.
Merge(ours, theirs, base) ==
  {r \in ours \cup theirs : r \in ours \cap theirs \/ r \notin base}

\* The files of a commit, and the paths it adds or renames to.
FilesOf(c) == {r[1] : r \in Rows(c)}
added_paths(b, c) == FilesOf(c) \ FilesOf(b)
============================================================================
