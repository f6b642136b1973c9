------------------------------- MODULE Claims -------------------------------
(***************************************************************************)
(* The claim gates of scripts/: check_prose_lean, which wants every claim  *)
(* sentence read against its Lean statement by somebody else or accepted   *)
(* in a baseline that only shrinks, and check_verification_claims, which   *)
(* wants the claims of a README or an abstract to cite a check.            *)
(*                                                                         *)
(* A line of a carrier is a stretch of prose, one block; the kinds of word *)
(* in it are in Shapes.  A sentence is named like a line, and Pieces[l]    *)
(* are those the splitter cuts l into; the splitter as it was before the   *)
(* fix left l whole.  A hash is the thing hashed.  The checker is a file   *)
(* of the tree too: its version is 0 before the fix, then its epoch.  The  *)
(* records are lists of a baseline record B: reads, debt                   *)
(* (.prose-lean-baseline), ledgers, fences and exempt; B.files are the     *)
(* ratcheted ones that exist.  The order of lines is left out.             *)
(***************************************************************************)
EXTENDS Gates

CONSTANTS Kind,      \* of a file: tex, readme, results, md, lean, check, checker, other
          Decl,      \* what a Lean line declares, <<namespace, name>>, or <<>>
          Pieces, Version, Cites

TextOf(rows, f) == {r \in rows : r[1] = f}

\* The version of the checker in a tree, and its LEXICON_EPOCH.
VersionOf(rows) ==
  LET vs == {Version[r[2]] : r \in {q \in rows : Kind[q[1]] = "checker"}}
  IN  IF vs = {} THEN 0 ELSE CHOOSE v \in vs : \A w \in vs : w <= v
has_checker(rows) == \E r \in rows : Kind[r[1]] = "checker"
epoch_of(rows) == IF VersionOf(rows) = 0 THEN 1 ELSE VersionOf(rows)
----------------------------------------------------------------------------
(* Which sentences are claims. *)

split_sentences(l, legacy) == IF legacy THEN {l} ELSE Pieces[l]
is_headline(f, epoch) ==
  Kind[f] \in {"tex", "readme"} \/ (epoch >= 2 /\ Kind[f] = "results")
ClaimWords(s, headline, epoch, docstring) ==
  Shapes[s] \cap ({"word"} \cup (IF headline THEN {"extra"} ELSE {})
                    \cup (IF headline /\ epoch >= 2 /\ ~docstring THEN {"noun"} ELSE {}))
ClaimShapes(s, words, epoch) ==
  Shapes[s] \cap ({"shape1"} \cup (IF epoch >= 2 THEN {"shape2"} ELSE {})
                    \cup (IF words # {} THEN {"vmvt"} ELSE {}))
is_claim(s, headline, epoch, docstring) ==
  LET words == ClaimWords(s, headline, epoch, docstring)
  IN  ClaimShapes(s, words, epoch) # {} \/ (headline /\ words # {})

\* The claim sentences of carriers, and from epoch 3 those of Lean docstrings.
prose_claims(rows, epoch, legacy) ==
  UNION {{<<r[1], s>> : s \in {t \in split_sentences(r[2], legacy) :
                                 is_claim(t, is_headline(r[1], epoch), epoch, FALSE)}} :
         r \in {q \in rows : Kind[q[1]] \in {"tex", "readme", "results", "md"}}}
docstring_claims(rows, epoch) ==
  {r \in rows : /\ epoch >= 3 /\ Kind[r[1]] = "lean" /\ "doc" \in Shapes[r[2]]
                /\ is_claim(r[2], TRUE, epoch, TRUE)}
claims(rows, B) ==
  LET v == VersionOf(rows)
  IN  {k \in prose_claims(rows, epoch_of(rows), v = 0) \cup docstring_claims(rows, epoch_of(rows)) :
         k[1] \notin B.ledgers}
----------------------------------------------------------------------------
(* The Lean statement a record names. *)

\* Declarations in code: one in a comment or a string is none.
lean_decls(rows, f) ==
  {r[2] : r \in {q \in TextOf(rows, f) : Decl[q[2]] # <<>> /\ "commented" \notin Shapes[q[2]]}}
\* By its qualified name, else by its bare one: the statements found.
decl_statement(rows, f, name) ==
  LET found == lean_decls(rows, f)
      exact == {l \in found : Decl[l] = name}
  IN  IF Kind[f] # "lean" THEN {}
      ELSE IF exact # {} THEN exact
      ELSE {l \in found : <<Decl[l][2]>> = name}

\* A name is the sequence of its words: two seats of one person are one.
SelfRead(r) == r.reader = <<>> \/ r.reader[1] = r.author[1]
BadRecord(r) == r.author = <<>>
read_ok(rows, B, r) ==
  /\ ~BadRecord(r) /\ ~SelfRead(r)
  /\ decl_statement(rows, r.lean, r.decl) = {r.stmt}   \* not AMBIGUOUS, NO-STATEMENT, STALE-STATEMENT
  /\ r.claim \in claims(rows, B)                       \* not STALE-CLAIM
read_keys(rows, B) == {r.claim : r \in {q \in B.reads : read_ok(rows, B, q)}}

\* check_prose_lean without --base: TRUE when there is no finding.
prose_scan(rows, B) ==
  /\ \A r \in B.reads : read_ok(rows, B, r)
  /\ B.debt \subseteq claims(rows, B)         \* not STALE-BASELINE
  /\ claims(rows, B) \subseteq read_keys(rows, B) \cup B.debt   \* not UNREAD
----------------------------------------------------------------------------
(* The ratchet against the base (b, Bb) of a pull request. *)

\* The rows a wider lexicon licenses: the file is the same to the byte and the
\* checker of the base did not see the sentence.
widening_moved(b, Bb, rows, B, added) ==   \* Faulty form: the file may change.
  {k \in added : /\ has_checker(b) /\ epoch_of(rows) > epoch_of(b)
                 /\ k \in claims(rows, B) /\ TextOf(b, k[1]) # {}
                 /\ k \notin claims(b, Bb)}
widening(b, Bb, rows, B, added) ==
  {k \in added : /\ has_checker(b) /\ epoch_of(rows) > epoch_of(b)
                 /\ k \in claims(rows, B) /\ TextOf(b, k[1]) # {}
                 /\ TextOf(b, k[1]) = TextOf(rows, k[1])
                 /\ k \notin claims(b, Bb)}
\* The rows that are pieces of a removed one: its span is in the base as the
\* old splitter cut it, it is intact, and the piece is nowhere but in such spans.
split_migration(b, rows, B, added, removed) ==
  LET spans == removed \cap prose_claims(b, epoch_of(rows), TRUE) \cap rows
  IN  {k \in added \cap claims(rows, B) :
         /\ \E span \in spans : span[1] = k[1] /\ k[2] \in Pieces[span[2]]
         /\ \A r \in TextOf(rows, k[1]) : k[2] \in Pieces[r[2]] => r \in spans}
ratchet(b, Bb, rows, B) ==
  LET added   == B.debt \ Bb.debt
      removed == Bb.debt \ B.debt
  IN  /\ "debt" \in Bb.files =>
           added \subseteq split_migration(b, rows, B, added, removed)
                             \cup widening(b, Bb, rows, B, added)
      /\ "ledgers" \in Bb.files => B.ledgers \subseteq Bb.ledgers
----------------------------------------------------------------------------
(* check_verification_claims. *)

\* The population: READMEs, and the abstracts of papers.
population(rows) ==
  {r \in rows : \/ Kind[r[1]] = "readme"
                \/ (Kind[r[1]] \in {"tex", "md"} /\ "abstract" \in Shapes[r[2]])}
\* A citation is a file of the repository that is a check, a theorem some Lean
\* file declares, or a path in another repository, which is taken as it is.
is_check_file(f) == Kind[f] \in {"lean", "check", "checker"}
resolve(rows, f) == \E r \in rows : r[1] = f /\ is_check_file(f)
declared(rows, name) ==
  \E r \in rows : /\ Kind[r[1]] = "lean" /\ Decl[r[2]] # <<>>
                  /\ name = <<Decl[r[2]][2]>>
cited(rows, l) ==
  \E t \in Cites[l] : \/ t.to = "path" /\ resolve(rows, t.file)
                      \/ t.to = "name" /\ declared(rows, t.name)
                      \/ t.to = "cross"
\* A fence is never excused; then a citation, then the author's waiver.
verification_finding(rows, B, r) ==
  /\ r[1] \notin B.exempt /\ "word" \in Shapes[r[2]]
  /\ \/ \E fence \in B.fences : fence.subject \in Shapes[r[2]]
     \/ ~cited(rows, r[2]) /\ "waiver" \notin Shapes[r[2]]
verification_scan(rows, B) ==
  /\ \A fence \in B.fences : TextOf(rows, fence.record) # {}
  /\ \A f \in B.exempt : TextOf(rows, f) # {}
  /\ \A r \in population(rows) : ~verification_finding(rows, B, r)
=============================================================================
