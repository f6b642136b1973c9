----------------------------- MODULE FleetLock -----------------------------
(***************************************************************************)
(* The acquire / build / release path of tools/saltbuild.sh: the only      *)
(* sanctioned way to run a heavy Lean job on the fleet's machine.          *)
(*                                                                         *)
(* Two mechanisms are held together.  The kernel's flock on LOCK.flk is    *)
(* the authority among the wrappers of this file (New).  The directory     *)
(* LOCK is a marker that peers look at, and the only thing a wrapper that  *)
(* was not yet pulled (Old) knows about.  A crash leaves the marker behind *)
(* and the kernel drops the flock, so a wrapper that finds a marker while  *)
(* holding the flock judges its holder and reaps it by renaming.           *)
(*                                                                         *)
(* One member of New is one run of the script, named by its pid.  A step   *)
(* is one file-system or process operation; a shell handler runs between   *)
(* two commands, which is where Trapped is enabled.                        *)
(***************************************************************************)
EXTENDS Naturals

CONSTANTS
    New,        \* runs of the present wrapper
    Old,        \* runs of the wrapper it replaces (mkdir and a reaper, no flock)
    NoMkdir,    \* runs whose sandbox refuses mkdir of the marker
    NoRename,   \* runs whose sandbox refuses the rename of the marker
    NoWrite,    \* runs whose sandbox refuses files inside the marker
    NoRmdir,    \* runs whose sandbox refuses to remove the marker again
    Mortal,     \* runs that may be killed by SIGKILL
    Signalled,  \* runs that may be sent INT or TERM
    Recycled,   \* runs whose pid the machine may give to another process
    MaxPolls,   \* MAXWAIT in sleeps of 5 s
    Nobody,     \* no process; the content of an empty or absent file
    Absent      \* the marker directory does not exist

Proc == New \cup Old

ASSUME FleetAssumption ==
    /\ New \cap Old = {}
    /\ NoMkdir \subseteq New /\ NoRename \subseteq New
    /\ NoWrite \subseteq New /\ NoRmdir \subseteq New
    /\ Mortal \subseteq New /\ Signalled \subseteq New /\ Recycled \subseteq New
    /\ Nobody \notin Proc
    /\ MaxPolls \in Nat

\* A marker directory: the contents of its files pid and start.  start holds
\* a start time, which only the process that wrote it still has.
Marker == [pid : Proc \cup {Nobody}, start : Proc \cup {Nobody}]

Unwritten == [pid |-> Nobody, start |-> Nobody]

ASSUME AbsentAssumption == Absent \notin Marker

VARIABLES
    pc,      \* where each run is
    sig,     \* INT or TERM: none, pending, or taken by the handler
    flock,   \* the run whose process tree holds fd 9
    marker,  \* the directory LOCK
    claim,   \* the directory LOCK.reaping.<pid> of each run
    polls,   \* sleeps done in the marker loop
    lake,    \* whether the run's lake process group is running
    lakepid, \* whether the shell has stored _lake_pid
    watch,   \* whether the run's watchdog is running
    reused,  \* dead runs whose pid is now another process's
    log      \* the run's last line in the lock log

vars == <<pc, sig, flock, marker, claim, polls, lake, lakepid, watch, reused, log>>

\* Places a wrapper can be while it holds the flock and may still build.
MarkerLoop == {"mkdir", "judge", "rename", "isdir", "rejudge", "putback", "poll"}
Publishing == {"write", "readback", "undo", "stamp", "arm"}
Holding    == {"fork", "record", "spawn", "wait", "unwatch"}
Leaving    == {"killlake", "release", "rmmarker"}
Region     == MarkerLoop \cup Publishing \cup Holding \cup Leaving

NewPlaces == {"queue", "flock", "timedout", "exit", "done", "killed"} \cup Region
OldPlaces == {"otry", "oreap", "owrite", "obuild", "orelease", "done"}

Init ==
    /\ pc = [p \in Proc |-> IF p \in New THEN "queue" ELSE "otry"]
    /\ sig = [p \in New |-> "none"]
    /\ flock = Nobody
    /\ marker = Absent
    /\ claim = [p \in New |-> Absent]
    /\ polls = [p \in New |-> 0]
    /\ lake = [p \in Proc |-> FALSE]
    /\ lakepid = [p \in New |-> FALSE]
    /\ watch = [p \in New |-> FALSE]
    /\ reused = {}
    /\ log = [p \in New |-> "none"]

Alive(p) == pc[p] \notin {"done", "killed"}

\* kill -0: any process of this user answers, a recycled pid included.
Answers(p) == p # Nobody /\ (Alive(p) \/ p \in reused)

\* holder_live: the pid answers and, when the marker is stamped, the process
\* behind the pid still has the stamped start time.
HolderLive(m) ==
    /\ m # Absent
    /\ Answers(m.pid)
    /\ m.start # Nobody => m.start = m.pid /\ Alive(m.pid)

\* A command of the script: none is started while a signal waits for its
\* handler.
At(p, here, there) ==
    /\ pc[p] = here
    /\ sig[p] # "pending"
    /\ pc' = [pc EXCEPT ![p] = there]

---------------------------------------------------------------------------
(* Taking the flock.  The ticket layer stands before "queue" (FleetQueue). *)

OpenLock(p) ==
    /\ At(p, "queue", "flock")
    /\ log' = [log EXCEPT ![p] = "WAIT-START"]
    /\ UNCHANGED <<sig, flock, marker, claim, polls, lake, lakepid, watch, reused>>

\* flock -w runs in the foreground, so a signal waits until it returns.
FlockTaken(p) ==
    /\ pc[p] = "flock"
    /\ flock = Nobody
    /\ flock' = p
    /\ pc' = [pc EXCEPT ![p] = "mkdir"]
    /\ UNCHANGED <<sig, marker, claim, polls, lake, lakepid, watch, reused, log>>

\* Faulty form: the exit status of flock is lost and the script goes on.
FlockTimeoutIgnored(p) ==
    /\ pc[p] = "flock"
    /\ flock # Nobody
    /\ pc' = [pc EXCEPT ![p] = "mkdir"]
    /\ UNCHANGED <<sig, flock, marker, claim, polls, lake, lakepid, watch, reused, log>>

FlockTimeout(p) ==
    /\ pc[p] = "flock"
    /\ flock # Nobody
    /\ pc' = [pc EXCEPT ![p] = "timedout"]
    /\ UNCHANGED <<sig, flock, marker, claim, polls, lake, lakepid, watch, reused, log>>

\* Faulty form: only the builds that won are logged.
FlockAbortSilent(p) ==
    /\ At(p, "timedout", "exit")
    /\ UNCHANGED <<sig, flock, marker, claim, polls, lake, lakepid, watch, reused, log>>

FlockAbort(p) ==
    /\ At(p, "timedout", "exit")
    /\ log' = [log EXCEPT ![p] = "WAIT-ABORT"]
    /\ UNCHANGED <<sig, flock, marker, claim, polls, lake, lakepid, watch, reused>>

---------------------------------------------------------------------------
(* The marker loop: make the directory, or judge and reap the one there.   *)

MakeMarker(p) ==
    /\ marker = Absent
    /\ p \notin NoMkdir
    /\ At(p, "mkdir", "write")
    /\ marker' = Unwritten
    /\ UNCHANGED <<sig, flock, claim, polls, lake, lakepid, watch, reused, log>>

MkdirFails(p) ==
    /\ marker # Absent \/ p \in NoMkdir
    /\ At(p, "mkdir", "judge")
    /\ UNCHANGED <<sig, flock, marker, claim, polls, lake, lakepid, watch, reused, log>>

Judge(p) ==
    /\ At(p, "judge", IF HolderLive(marker) THEN "poll" ELSE "rename")
    /\ UNCHANGED <<sig, flock, marker, claim, polls, lake, lakepid, watch, reused, log>>

ClaimMarker(p) ==
    /\ marker # Absent
    /\ p \notin NoRename
    /\ At(p, "rename", "rejudge")
    /\ claim' = [claim EXCEPT ![p] = marker]
    /\ marker' = Absent
    /\ UNCHANGED <<sig, flock, polls, lake, lakepid, watch, reused, log>>

\* Faulty form: mv ... || return 1, which is what "released" returns too.
RenameFailsQuietly(p) ==
    /\ marker = Absent \/ p \in NoRename
    /\ At(p, "rename", "poll")
    /\ UNCHANGED <<sig, flock, marker, claim, polls, lake, lakepid, watch, reused, log>>

RenameFails(p) ==
    /\ marker = Absent \/ p \in NoRename
    /\ At(p, "rename", "isdir")
    /\ UNCHANGED <<sig, flock, marker, claim, polls, lake, lakepid, watch, reused, log>>

\* The rename failed.  A marker that is gone was released by its holder:
\* retry.  One still there was refused: leave, which drops the flock.
MarkerGone(p) ==
    /\ marker = Absent
    /\ At(p, "isdir", "poll")
    /\ UNCHANGED <<sig, flock, marker, claim, polls, lake, lakepid, watch, reused, log>>

ReapRefused(p) ==
    /\ marker # Absent
    /\ At(p, "isdir", "exit")
    /\ log' = [log EXCEPT ![p] = "WAIT-ABORT"]
    /\ UNCHANGED <<sig, flock, marker, claim, polls, lake, lakepid, watch, reused>>

\* The directory is ours alone now, so the second judgement is final.
Reap(p) ==
    /\ ~HolderLive(claim[p])
    /\ At(p, "rejudge", "mkdir")
    /\ claim' = [claim EXCEPT ![p] = Absent]
    /\ UNCHANGED <<sig, flock, marker, polls, lake, lakepid, watch, reused, log>>

SparedInClaim(p) ==
    /\ HolderLive(claim[p])
    /\ At(p, "rejudge", "putback")
    /\ UNCHANGED <<sig, flock, marker, claim, polls, lake, lakepid, watch, reused, log>>

\* mv of the claim onto a LOCK made meanwhile moves it inside that directory,
\* where nobody looks.
PutBack(p) ==
    /\ At(p, "putback", "poll")
    /\ marker' = IF marker = Absent THEN claim[p] ELSE marker
    /\ claim' = [claim EXCEPT ![p] = Absent]
    /\ UNCHANGED <<sig, flock, polls, lake, lakepid, watch, reused, log>>

\* Faulty form: WAITED is never advanced.
SleepUncounted(p) ==
    /\ polls[p] < MaxPolls
    /\ At(p, "poll", "mkdir")
    /\ UNCHANGED <<sig, flock, marker, claim, polls, lake, lakepid, watch, reused, log>>

Sleep(p) ==
    /\ polls[p] < MaxPolls
    /\ At(p, "poll", "mkdir")
    /\ polls' = [polls EXCEPT ![p] = @ + 1]
    /\ UNCHANGED <<sig, flock, marker, claim, lake, lakepid, watch, reused, log>>

MarkerTimeout(p) ==
    /\ polls[p] >= MaxPolls
    /\ At(p, "poll", "exit")
    /\ log' = [log EXCEPT ![p] = "WAIT-ABORT"]
    /\ UNCHANGED <<sig, flock, marker, claim, polls, lake, lakepid, watch, reused>>

---------------------------------------------------------------------------
(* Publishing the marker: pid, read-back, start stamp, then the EXIT trap. *)

WriteMarker(p) ==
    /\ marker # Absent
    /\ p \notin NoWrite
    /\ At(p, "write", "readback")
    /\ marker' = [marker EXCEPT !.pid = p]
    /\ UNCHANGED <<sig, flock, claim, polls, lake, lakepid, watch, reused, log>>

\* Faulty form: a bare echo $$ > pid, whose failure nobody looks at.
WriteRefusedIgnored(p) ==
    /\ marker = Absent \/ p \in NoWrite
    /\ At(p, "write", "stamp")
    /\ UNCHANGED <<sig, flock, marker, claim, polls, lake, lakepid, watch, reused, log>>

WriteRefused(p) ==
    /\ marker = Absent \/ p \in NoWrite
    /\ At(p, "write", "undo")
    /\ UNCHANGED <<sig, flock, marker, claim, polls, lake, lakepid, watch, reused, log>>

ReadBack(p) ==
    /\ At(p, "readback",
          IF marker # Absent /\ marker.pid = p THEN "stamp" ELSE "undo")
    /\ UNCHANGED <<sig, flock, marker, claim, polls, lake, lakepid, watch, reused, log>>

\* Only files that are ours go, and then the directory if rmdir may.
Undo(p) ==
    /\ At(p, "undo", "exit")
    /\ marker' = IF marker = Absent \/ marker.pid \notin {Nobody, p} THEN marker
                 ELSE IF p \in NoRmdir THEN Unwritten ELSE Absent
    /\ log' = [log EXCEPT ![p] = "WAIT-ABORT"]
    /\ UNCHANGED <<sig, flock, claim, polls, lake, lakepid, watch, reused>>

\* The stamp is best effort: ps, or the write, may fail.
Stamp(p) ==
    /\ At(p, "stamp", "arm")
    /\ \/ marker # Absent /\ marker' = [marker EXCEPT !.start = p]
       \/ UNCHANGED marker
    /\ log' = [log EXCEPT ![p] = "ACQUIRED"]
    /\ UNCHANGED <<sig, flock, claim, polls, lake, lakepid, watch, reused>>

ArmRelease(p) ==
    /\ At(p, "arm", "fork")
    /\ UNCHANGED <<sig, flock, marker, claim, polls, lake, lakepid, watch, reused, log>>

---------------------------------------------------------------------------
(* run_lake: lake in a process group of its own with fd 9 closed, the      *)
(* watchdog in another, and the shell waiting for lake.                    *)

\* Faulty form: fd 9 closed in the shell instead of in lake.
ForkUnlocked(p) ==
    /\ At(p, "fork", "record")
    /\ lake' = [lake EXCEPT ![p] = TRUE]
    /\ flock' = Nobody
    /\ UNCHANGED <<sig, marker, claim, polls, lakepid, watch, reused, log>>

Fork(p) ==
    /\ At(p, "fork", "record")
    /\ lake' = [lake EXCEPT ![p] = TRUE]
    /\ UNCHANGED <<sig, flock, marker, claim, polls, lakepid, watch, reused, log>>

RecordLake(p) ==
    /\ At(p, "record", "spawn")
    /\ lakepid' = [lakepid EXCEPT ![p] = TRUE]
    /\ UNCHANGED <<sig, flock, marker, claim, polls, lake, watch, reused, log>>

SpawnWatchdog(p) ==
    /\ At(p, "spawn", "wait")
    /\ watch' = [watch EXCEPT ![p] = TRUE]
    /\ UNCHANGED <<sig, flock, marker, claim, polls, lake, lakepid, reused, log>>

\* lake ends by itself; nothing says that it ever does.
LakeEnds(p) ==
    /\ lake[p]
    /\ lake' = [lake EXCEPT ![p] = FALSE]
    /\ UNCHANGED <<pc, sig, flock, marker, claim, polls, lakepid, watch, reused, log>>

Waited(p) ==
    /\ ~lake[p]
    /\ At(p, "wait", "unwatch")
    /\ UNCHANGED <<sig, flock, marker, claim, polls, lake, lakepid, watch, reused, log>>

Unwatch(p) ==
    /\ At(p, "unwatch", "release")
    /\ watch' = [watch EXCEPT ![p] = FALSE]
    /\ lakepid' = [lakepid EXCEPT ![p] = FALSE]
    /\ UNCHANGED <<sig, flock, marker, claim, polls, lake, reused, log>>

\* The watchdog asks kill -0 of the wrapper's pid, without its start time.
WatchdogKills(p) ==
    /\ watch[p]
    /\ ~Answers(p)
    /\ lake' = [lake EXCEPT ![p] = FALSE]
    /\ watch' = [watch EXCEPT ![p] = FALSE]
    /\ UNCHANGED <<pc, sig, flock, marker, claim, polls, lakepid, reused, log>>

---------------------------------------------------------------------------
(* Leaving: the EXIT trap, the INT and TERM traps, SIGKILL.                *)

Release(p) ==
    /\ At(p, "release",
          IF marker # Absent /\ marker.pid = p THEN "rmmarker" ELSE "exit")
    /\ UNCHANGED <<sig, flock, marker, claim, polls, lake, lakepid, watch, reused, log>>

RemoveMarker(p) ==
    /\ At(p, "rmmarker", "exit")
    /\ marker' = Absent
    /\ log' = [log EXCEPT ![p] = "RELEASED"]
    /\ UNCHANGED <<sig, flock, claim, polls, lake, lakepid, watch, reused>>

\* The shell ends; the kernel closes its fd 9.
Exit(p) ==
    /\ At(p, "exit", "done")
    /\ flock' = IF flock = p THEN Nobody ELSE flock
    /\ UNCHANGED <<sig, marker, claim, polls, lake, lakepid, watch, reused, log>>

Interruptible == NewPlaces \ (Leaving \cup {"exit", "done", "killed"})

Signal(p) ==
    /\ p \in Signalled
    /\ sig[p] = "none"
    /\ pc[p] \in Interruptible
    /\ sig' = [sig EXCEPT ![p] = "pending"]
    /\ UNCHANGED <<pc, flock, marker, claim, polls, lake, lakepid, watch, reused, log>>

\* Faulty form: the handler returns and bash resumes the script.
TrappedResumes(p) ==
    /\ sig[p] = "pending"
    /\ pc[p] \in Interruptible \ {"flock"}
    /\ sig' = [sig EXCEPT ![p] = "taken"]
    /\ UNCHANGED <<pc, flock, marker, claim, polls, lake, lakepid, watch, reused, log>>

\* The handler exits.  From line 426 on the EXIT trap is release, and while
\* lake may run the handler first kills lake's group and the watchdog.
Trapped(p) ==
    /\ sig[p] = "pending"
    /\ pc[p] \in Interruptible \ {"flock"}
    /\ sig' = [sig EXCEPT ![p] = "taken"]
    /\ pc' = [pc EXCEPT ![p] = IF @ \in Holding THEN "killlake" ELSE "exit"]
    /\ UNCHANGED <<flock, marker, claim, polls, lake, lakepid, watch, reused, log>>

KillLake(p) ==
    /\ At(p, "killlake", "release")
    /\ lake' = [lake EXCEPT ![p] = @ /\ ~lakepid[p]]
    /\ watch' = [watch EXCEPT ![p] = FALSE]
    /\ UNCHANGED <<sig, flock, marker, claim, polls, lakepid, reused, log>>

\* Faulty form: the watchdog shares the wrapper's process group and dies with it.
KillGroup(p) ==
    /\ p \in Mortal
    /\ Alive(p)
    /\ pc' = [pc EXCEPT ![p] = "killed"]
    /\ watch' = [watch EXCEPT ![p] = FALSE]
    /\ UNCHANGED <<sig, flock, marker, claim, polls, lake, lakepid, reused, log>>

\* SIGKILL: no trap runs.  The kernel drops the flock when the last child
\* that inherited fd 9 is gone too.
Kill(p) ==
    /\ p \in Mortal
    /\ Alive(p)
    /\ pc' = [pc EXCEPT ![p] = "killed"]
    /\ UNCHANGED <<sig, flock, marker, claim, polls, lake, lakepid, watch, reused, log>>

KernelDropsFlock(p) ==
    /\ pc[p] = "killed"
    /\ flock = p
    /\ flock' = Nobody
    /\ UNCHANGED <<pc, sig, marker, claim, polls, lake, lakepid, watch, reused, log>>

Recycle(p) ==
    /\ p \in Recycled \ reused
    /\ ~Alive(p)
    /\ reused' = reused \cup {p}
    /\ UNCHANGED <<pc, sig, flock, marker, claim, polls, lake, lakepid, watch, log>>

---------------------------------------------------------------------------
(* The wrapper this one replaces: mkdir, a check-then-act reaper, no flock *)
(* (its text survives in docs/EVIDENCE-saltbuild-reap-race-2026-08-25.md). *)

OldAt(p, here, there) ==
    /\ pc[p] = here
    /\ pc' = [pc EXCEPT ![p] = there]

OldMkdir(p) ==
    /\ OldAt(p, "otry", "owrite")
    /\ marker = Absent
    /\ marker' = Unwritten
    /\ UNCHANGED <<sig, flock, claim, polls, lake, lakepid, watch, reused, log>>

OldJudge(p) ==
    /\ OldAt(p, "otry", "oreap")
    /\ marker # Absent
    /\ marker.pid # Nobody /\ ~Answers(marker.pid)
    /\ UNCHANGED <<sig, flock, marker, claim, polls, lake, lakepid, watch, reused, log>>

OldReap(p) ==
    /\ OldAt(p, "oreap", "otry")
    /\ marker' = Absent
    /\ UNCHANGED <<sig, flock, claim, polls, lake, lakepid, watch, reused, log>>

OldGivesUp(p) ==
    /\ OldAt(p, "otry", "done")
    /\ marker # Absent
    /\ UNCHANGED <<sig, flock, marker, claim, polls, lake, lakepid, watch, reused, log>>

OldWrite(p) ==
    /\ OldAt(p, "owrite", "obuild")
    /\ marker' = IF marker = Absent THEN Absent ELSE [marker EXCEPT !.pid = p]
    /\ lake' = [lake EXCEPT ![p] = TRUE]
    /\ UNCHANGED <<sig, flock, claim, polls, lakepid, watch, reused, log>>

OldBuilt(p) ==
    /\ OldAt(p, "obuild", "orelease")
    /\ ~lake[p]
    /\ UNCHANGED <<sig, flock, marker, claim, polls, lake, lakepid, watch, reused, log>>

OldRelease(p) ==
    /\ OldAt(p, "orelease", "done")
    /\ marker' = IF marker # Absent /\ marker.pid = p THEN Absent ELSE marker
    /\ UNCHANGED <<sig, flock, claim, polls, lake, lakepid, watch, reused, log>>

---------------------------------------------------------------------------

Acquire(p) ==
    \/ OpenLock(p) \/ FlockTaken(p) \/ FlockTimeout(p) \/ FlockAbort(p)

Contend(p) ==
    \/ MakeMarker(p) \/ MkdirFails(p) \/ Judge(p)
    \/ ClaimMarker(p) \/ RenameFails(p) \/ MarkerGone(p) \/ ReapRefused(p)
    \/ Reap(p) \/ SparedInClaim(p) \/ PutBack(p) \/ Sleep(p) \/ MarkerTimeout(p)

Publish(p) ==
    \/ WriteMarker(p) \/ WriteRefused(p) \/ ReadBack(p) \/ Undo(p)
    \/ Stamp(p) \/ ArmRelease(p)

RunLake(p) ==
    \/ Fork(p) \/ RecordLake(p) \/ SpawnWatchdog(p) \/ Waited(p) \/ Unwatch(p)

Leave(p) ==
    \/ Release(p) \/ RemoveMarker(p) \/ Exit(p) \/ Trapped(p) \/ KillLake(p)

\* What the machine does to a run of its own accord.
Environment(p) ==
    \/ LakeEnds(p) \/ WatchdogKills(p)
    \/ Signal(p) \/ Kill(p) \/ KernelDropsFlock(p) \/ Recycle(p)

Script(p) == Acquire(p) \/ Contend(p) \/ Publish(p) \/ RunLake(p) \/ Leave(p)

OldScript(p) ==
    \/ OldMkdir(p) \/ OldJudge(p) \/ OldReap(p) \/ OldGivesUp(p)
    \/ OldWrite(p) \/ OldBuilt(p) \/ OldRelease(p)

Next ==
    \/ \E p \in New : Script(p) \/ Environment(p)
    \/ \E p \in Old : OldScript(p) \/ LakeEnds(p)
    \/ (\A p \in Proc : ~Alive(p)) /\ UNCHANGED vars

Spec == Init /\ [][Next]_vars

\* The scheduler runs every live shell, the kernel closes a dead process's
\* descriptors and a live watchdog polls.  lake owes nobody an end.
FairSpec ==
    /\ Spec
    /\ \A p \in New : /\ WF_vars(Script(p))
                      /\ WF_vars(KernelDropsFlock(p))
                      /\ WF_vars(WatchdogKills(p))

---------------------------------------------------------------------------
(* Properties.                                                             *)

\* Every variable holds a value of its kind, whatever the fences, signals
\* and kills.
TypeOK ==
    /\ pc \in [Proc -> NewPlaces \cup OldPlaces]
    /\ sig \in [New -> {"none", "pending", "taken"}]
    /\ flock \in New \cup {Nobody}
    /\ marker \in Marker \cup {Absent}
    /\ claim \in [New -> Marker \cup {Absent}]
    /\ polls \in [New -> 0..MaxPolls]
    /\ lake \in [Proc -> BOOLEAN]
    /\ lakepid \in [New -> BOOLEAN]
    /\ watch \in [New -> BOOLEAN]
    /\ reused \subseteq Recycled
    /\ log \in [New -> {"none", "WAIT-START", "ACQUIRED", "RELEASED", "WAIT-ABORT"}]

\* "One heavy job fleet-wide" among the wrappers of this file: two live
\* wrappers never have lake running at once.  Only a run that is gone can have
\* left a lake behind (saltbuild.sh:437-441).
OneGuardedBuild ==
    \A p, q \in New :
        lake[p] /\ Alive(p) /\ lake[q] /\ Alive(q) => p = q

\* While a wrapper builds, the marker exists and names it: what peers probe
\* with [ -d LOCK ] is true, and the marker was never reaped from under a live
\* holder, nor is a build run whose marker could not be published
\* (saltbuild.sh:357-367).
MarkerNamesBuild ==
    Old = {} => \A p \in New :
        pc[p] \in Holding \cup {"killlake"} => marker # Absent /\ marker.pid = p

\* Row LK, "a refused claim must not hold the flock": a wrapper goes to sleep
\* with the flock in its hand only for a marker whose unstamped pid answers
\* again, never for a corpse it could not remove.
NoSleepOnCorpse ==
    Old = {} => \A p \in New \ NoMkdir :
        pc[p] = "poll" =>
            marker # Absent /\ marker.pid \in reused /\ marker.start = Nobody

\* A wrapper that was sent INT or TERM before lake started never starts it: no
\* "cancelled build that happens anyway, later" (saltbuild.sh:231-239).
SignalledNeverBuilds ==
    [][\A p \in New : lake'[p] /\ ~lake[p] => sig[p] = "none"]_vars

\* Row CK: a run that ends by itself leaves RELEASED or WAIT-ABORT as its last
\* line in the lock log, so the log shows the builds that gave up as well.
EveryEndIsLogged ==
    Old = {} => \A p \in New :
        pc[p] = "done" /\ sig[p] = "none" => log[p] \in {"RELEASED", "WAIT-ABORT"}

\* Whatever dead holders, fences and unending lakes there are, a wrapper that
\* waits for the flock or the marker stops waiting: it builds or it leaves.
EveryWaitEnds ==
    \A p \in New : pc[p] = "flock" ~> pc[p] \notin {"flock"} \cup MarkerLoop

\* Seen from outside: the flock is the lock, the running lakes are the builds.
Abs == INSTANCE BuildLock WITH
    Job <- New,
    holder <- flock,
    building <- {p \in New : lake[p]},
    gone <- {p \in New : ~Alive(p)}

\* The wrapper implements the lock of BuildLock: one holder at a time, only
\* the holder starts a build, and a build outlives its holder's lock only when
\* the holder is gone.
AbsSpec == Abs!Spec

\* Once the shell waits for lake, a SIGKILL to it, or to its process group,
\* does not leave lake running for ever (saltbuild.sh:437-441, 455-457).
WatchedOrphanStops ==
    \A p \in New :
        [](pc[p] = "wait" => [](pc[p] = "killed" => <>~lake[p]))

---------------------------------------------------------------------------
(* What comments of the script say and the code does not do.               *)

\* saltbuild.sh:435-436: INT and TERM "reach the trap at once and the trap
\* kills the whole group".
HandlerStopsLake == \A p \in New : pc[p] = "done" => ~lake[p]

\* saltbuild.sh:437-438: "a WATCHDOG ... kills lake's group within ~1 s of
\* this shell vanishing".
EveryOrphanStops == \A p \in New : pc[p] = "killed" ~> ~lake[p]

\* saltbuild.sh:7, "One heavy job fleet-wide", and 270-271, where holding both
\* mechanisms is what keeps a build from running through a live old one.
OneHeavyJob ==
    \A p, q \in Proc :
        lake[p] /\ Alive(p) /\ lake[q] /\ Alive(q) => p = q
=============================================================================
