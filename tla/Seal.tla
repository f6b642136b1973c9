-------------------------------- MODULE Seal --------------------------------
(***************************************************************************)
(* sealgate.py: commit to verdicts, publish the commitment, and only then  *)
(* open the reference they are scored against.  Sealers work in clones of  *)
(* one repository; the record of commitments is a file of it, which is     *)
(* only appended to, and a merge keeps the lines of both sides.            *)
(*                                                                         *)
(* A line of the record is what a SEAL line says, and its place in time;   *)
(* a digest of bytes is represented by the bytes.  Lines that say nothing  *)
(* to the tool are left out.                                               *)
(***************************************************************************)
EXTENDS Integers, FiniteSets

CONSTANTS Sealers, Clones, CloneOf, Labels, Texts, Empty, MaxLines

ASSUME SealAssumption == CloneOf \in [Sealers -> Clones] /\ Empty \in Texts /\ MaxLines \in Nat

VARIABLES
  verdicts,  \* each sealer's file
  record,    \* the record in each clone's worktree
  published, \* the record at the remote
  tracking,  \* the remote as each clone last saw it
  lines,     \* how many lines were ever written
  doing,     \* the command each sealer runs: where it is and what it has read
  opened     \* what was ever emitted: for which label, against which bytes, on which record

seal == <<verdicts, record, published, tracking, lines, doing, opened>>

Task(at, label, sha, text) == [at |-> at, label |-> label, sha |-> sha, text |-> text]
AtRest == Task("idle", "none", Empty, {})
SealInit ==
  /\ verdicts \in [Sealers -> Texts]
  /\ record = [c \in Clones |-> {}] /\ published = {} /\ tracking = [c \in Clones |-> {}]
  /\ lines = 0 /\ doing = [s \in Sealers |-> AtRest] /\ opened = {}
----------------------------------------------------------------------------
(* The record. *)

seen(text) == {l.label : l \in text}
no_dupes(text) == {}          \* Faulty form: the last line of a label wins.
dupes(text) == {l.label : l \in {k \in text : \E j \in text \ {k} : j.label = k.label}}
commitment(text, label) ==
  CHOOSE l \in text : l.label = label /\ \A k \in text : k.label = label => k.n <= l.n

\* Where `open' reads the record.
disk_show(c) == record[c]     \* Faulty form: the worktree's.
git_show(c) == tracking[c]
----------------------------------------------------------------------------
(* commit: the record is read, then the verdicts are hashed and the line    *)
(* appended; a peer of the same worktree may append in between.             *)

Command(s, at, new) == doing[s].at = at /\ doing' = [doing EXCEPT ![s] = new]
CheckLabel(s, label) ==
  /\ verdicts[s] # Empty /\ label \notin seen(record[CloneOf[s]])
  /\ Command(s, "idle", Task("checked", label, Empty, {}))
  /\ UNCHANGED <<verdicts, record, published, tracking, lines, opened>>
AppendLine(s) ==
  /\ lines < MaxLines /\ lines' = lines + 1
  /\ Command(s, "checked", AtRest)
  /\ record' = [record EXCEPT ![CloneOf[s]] =
                  @ \cup {[n |-> lines, label |-> doing[s].label, sha |-> verdicts[s]]}]
  /\ UNCHANGED <<verdicts, published, tracking, opened>>

(* open: the published record is read, then the verdicts are hashed. *)

ReadPublished(s, label) ==
  /\ LET text == git_show(CloneOf[s]) IN
       /\ label \in seen(text) \ dupes(text)
       /\ Command(s, "idle", Task("read", label, commitment(text, label).sha, text))
  /\ UNCHANGED <<verdicts, record, published, tracking, lines, opened>>
Emit(s) ==
  /\ verdicts[s] = doing[s].sha
  /\ Command(s, "read", AtRest)
  /\ opened' = opened \cup {[label |-> doing[s].label, sha |-> verdicts[s], text |-> doing[s].text]}
  /\ UNCHANGED <<verdicts, record, published, tracking, lines>>
Mismatch(s) ==
  /\ verdicts[s] # doing[s].sha
  /\ Command(s, "read", AtRest)
  /\ UNCHANGED <<verdicts, record, published, tracking, lines, opened>>

(* A person edits the verdicts; git brings the record to the remote and back. *)

EditVerdicts(s, text) ==
  /\ verdicts' = [verdicts EXCEPT ![s] = text]
  /\ UNCHANGED <<record, published, tracking, lines, doing, opened>>
\* The remote takes a push that has what the remote has.
PushRecord(c) ==
  /\ published \subseteq record[c]
  /\ published' = record[c] /\ tracking' = [tracking EXCEPT ![c] = record[c]]
  /\ UNCHANGED <<verdicts, record, lines, doing, opened>>
FetchRecord(c) ==
  /\ tracking' = [tracking EXCEPT ![c] = published]
  /\ UNCHANGED <<verdicts, record, published, lines, doing, opened>>
MergeRecord(c) ==
  /\ record' = [record EXCEPT ![c] = @ \cup tracking[c]]
  /\ UNCHANGED <<verdicts, published, tracking, lines, doing, opened>>

SealNext ==
  \/ \E s \in Sealers :
       \/ AppendLine(s) \/ Emit(s) \/ Mismatch(s)
       \/ \E label \in Labels : CheckLabel(s, label) \/ ReadPublished(s, label)
       \/ \E text \in Texts : EditVerdicts(s, text)
  \/ \E c \in Clones : PushRecord(c) \/ FetchRecord(c) \/ MergeRecord(c)
SealSpec == SealInit /\ [][SealNext]_seal
----------------------------------------------------------------------------
(* Correctness. *)

\* INVARIANT. Commit, then open: what was emitted under a label was emitted
\* against bytes whose commitment stands at the remote, and all that was ever
\* emitted under the label, in any clone, was emitted against the same bytes,
\* though two sealers commit to it at once, in one worktree or in two, and each
\* reads a copy of the record as old as its last fetch.
OneCommitment ==
  \A o \in opened :
    /\ \E l \in published : l.label = o.label /\ l.sha = o.sha
    /\ \A q \in opened : q.label = o.label => q.sha = o.sha
============================================================================
