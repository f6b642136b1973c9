---------------------------- MODULE MachineState ----------------------------
(***************************************************************************)
(* machine_state and machine_report of docs/ledger-tools/fleet_hygiene.py: *)
(* what an outsider concludes from `ps' and from the lock directory about  *)
(* the wrappers of FleetLock.  It is asked in every state, and may find ps *)
(* failing and a pid-less marker younger or older than five seconds.       *)
(*                                                                         *)
(* A process is <<program, run>>: the wrapper of a run, its lake, the lean *)
(* that this lake started, or a stranger that was given the run's pid.     *)
(***************************************************************************)
EXTENDS FleetLock, FiniteSets

\* A machine runs finitely many wrappers.
ASSUME MachineAssumption == IsFiniteSet(Proc)

\* ps -eo pid,ppid,args: the parent of each process.  The lake of a run that
\* is gone is a child of launchd.
Launchd == <<"launchd", Nobody>>
ps ==
  LET running == {<<"saltbuild.sh", p>> : p \in {q \in Proc : Alive(q)}}
                   \cup ({"lake", "lean"} \X {q \in Proc : lake[q]})
                   \cup {<<"stranger", p>> : p \in reused}
      parent(x) ==
        CASE x[1] = "lean" -> <<"lake", x[2]>>
          [] x[1] = "lake" /\ Alive(x[2]) -> <<"saltbuild.sh", x[2]>>
          [] OTHER -> Launchd
  IN  [x \in running |-> parent(x)]

\* The ancestors of x, itself included, as far as ps lists them.
Ancestors(x, table) ==
  LET chain[n \in Nat] ==
        IF n = 0 THEN {x} \cap DOMAIN table
        ELSE chain[n - 1] \cup ({table[y] : y \in chain[n - 1]} \cap DOMAIN table)
  IN  chain[Cardinality(DOMAIN table)]

\* Faulty form: the lock is held, so whatever runs is its holder's.
under_wrapper_by_lock(x, table) == marker # Absent
under_wrapper(x, table) == \E y \in Ancestors(x, table) : y[1] = "saltbuild.sh"

procs(measured) == IF measured THEN ps ELSE <<>>
lean_procs(table) == {x \in DOMAIN table : x[1] \in {"lake", "lean"}}
bare(table) == {x \in lean_procs(table) : ~under_wrapper(x, table)}

\* The marker's pid is asked for with kill -0 and without its start time; a
\* marker without a pid is an orphan once it is five seconds old.
lock_state(old) ==
  IF marker = Absent THEN "free"
  ELSE IF marker.pid = Nobody THEN (IF old THEN "ORPHANED" ELSE "held")
  ELSE IF Answers(marker.pid) THEN "held" ELSE "ORPHANED"

\* What the report says of ps and of the lock, and its --brief line: an empty
\* list is no measurement when ps failed, and only a line without a violation
\* speaks of the lock.
machine_report(measured, old) ==
  [measured |-> measured,
   procs |-> lean_procs(procs(measured)),
   bare |-> bare(procs(measured)),
   lock |-> lock_state(old)]
brief(r) ==
  IF ~r.measured THEN <<"UNMEASURED">>
  ELSE IF r.bare # {} THEN <<"VIOLATION", Cardinality(r.bare), Cardinality(r.procs)>>
  ELSE <<"machine", Cardinality(r.procs), r.lock>>

---------------------------------------------------------------------------
\* INVARIANT.  A clean line is true: when everything is said to be wrapped,
\* whatever ps did, no two builds run, the one that runs belongs to a live
\* wrapper, the lock is not called free or ORPHANED while it runs, and a line
\* that counts no process is no failed measurement.  So what a killed wrapper
\* left running is listed as bare, although the lock may be held by another
\* (fleet_hygiene.py:158-173).
CleanLineIsTrue ==
  Old = {} => \A measured, old \in BOOLEAN :
    LET line == brief(machine_report(measured, old))
        builds == {p \in New : lake[p]}
    IN  line[1] = "machine" =>
          /\ Cardinality(builds) <= 1
          /\ \A p \in builds : Alive(p) /\ line[2] > 0 /\ (pc[p] \in Holding => line[3] = "held")
=============================================================================
