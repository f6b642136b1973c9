---------------------------- MODULE FleetQueue ----------------------------
(***************************************************************************)
(* The ticket layer of tools/saltqueue.sh, above the flock of              *)
(* tools/saltbuild.sh.  A build writes a ticket file named by its class,   *)
(* the time and its pid, waits until no live ticket sorts before its own,  *)
(* and only then tries for the flock.  It keeps the ticket until it ends.  *)
(* A ticket is live iff its pid answers and still has the start time that  *)
(* is written in the file; anyone who meets a ticket that is not, removes  *)
(* it.                                                                     *)
(*                                                                         *)
(* A job is one run of the wrapper, and is its own pid.  The lock is the   *)
(* flock, seen from here as one variable; what happens between the flock   *)
(* and the build is FleetLock's subject.                                   *)
(***************************************************************************)
EXTENDS Naturals, FiniteSets

CONSTANTS
    Job,      \* pids of the runs: natural numbers
    Rank,     \* the sort rank of each job's class: P1 1, P2 2, P3 3, others 9
    NoTicket, \* jobs that cannot write a ticket file
    Mortal,   \* jobs that may be killed by SIGKILL
    Signalled,\* jobs that may be sent INT or TERM
    Recycled, \* jobs whose pid may be given to another process
    MaxClock, \* the clock stands still here: later jobs read the same time
    Nobody    \* no job

ASSUME JobAssumption == Job \subseteq Nat /\ IsFiniteSet(Job) /\ Nobody \notin Job
ASSUME RankAssumption == Rank \in [Job -> {1, 2, 3, 9}]
ASSUME SubsetAssumption ==
    /\ NoTicket \subseteq Job /\ Mortal \subseteq Job
    /\ Signalled \subseteq Job /\ Recycled \subseteq Job
    /\ MaxClock \in Nat

VARIABLES
    pc,      \* where each job is
    clock,   \* date +%s%N
    ns,      \* the time each job read for its ticket
    ticket,  \* each job's ticket file: none, empty (created), stamped
    queued,  \* whether the job's Q_TICKET is set
    todo,    \* the tickets a scan of the directory has still to look at
    doomed,  \* the ticket a scan has judged dead and is about to remove
    flock,   \* the job that holds the flock
    reused,  \* dead jobs whose pid is another process's
    saw,     \* history: the jobs ahead that were queued when this one joined
    reaped   \* history: live jobs whose ticket a peer removed

vars == <<pc, clock, ns, ticket, queued, todo, doomed, flock, reused, saw, reaped>>
history == <<saw, reaped>>

Waiting == {"stamp", "reap", "reaping", "scan", "scanning", "sleep", "flock"}
Places == {"take", "create", "locked", "hold", "leave", "exit", "done", "killed"}
            \cup Waiting

Init ==
    /\ pc = [p \in Job |-> "take"]
    /\ clock = 0
    /\ ns = [p \in Job |-> 0]
    /\ ticket = [p \in Job |-> "none"]
    /\ queued = [p \in Job |-> FALSE]
    /\ todo = [p \in Job |-> {}]
    /\ doomed = [p \in Job |-> Nobody]
    /\ flock = Nobody
    /\ reused = {}
    /\ saw = [p \in Job |-> {}]
    /\ reaped = {}

Alive(p) == pc[p] \notin {"done", "killed"}

Go(p, here, there) ==
    /\ pc[p] = here
    /\ pc' = [pc EXCEPT ![p] = there]

\* q__key: class rank, then time, then pid, zero-padded so that sort(1)
\* compares numbers.  It is read off the file name, so it needs no file.
Before(p, q) ==
    \/ Rank[p] < Rank[q]
    \/ Rank[p] = Rank[q] /\ ns[p] < ns[q]
    \/ Rank[p] = Rank[q] /\ ns[p] = ns[q] /\ p < q

\* Faulty form: kill -0 alone, which a recycled pid answers.
LiveByPid(p) == Alive(p) \/ p \in reused

\* Faulty form: the stamp is written untrimmed and never equals what is read.
LiveUntrimmed(p) == FALSE

\* q__live: the pid answers and has the start time the file holds.  A file
\* that is still empty has none and is dead; so is a recycled pid's.
Live(p) == ticket[p] = "stamped" /\ Alive(p)

Tickets == {p \in Job : ticket[p] # "none"}

---------------------------------------------------------------------------
(* q_take: read the time, create the file, write the stamp into it.        *)

\* Two jobs may read the same nanosecond.
ReadClock(p) ==
    /\ Go(p, "take", "create")
    /\ ns' = [ns EXCEPT ![p] = clock]
    /\ clock' = IF clock < MaxClock THEN clock + 1 ELSE clock
    /\ UNCHANGED <<ticket, queued, todo, doomed, flock, reused, history>>

CreateTicket(p) ==
    /\ p \notin NoTicket
    /\ Go(p, "create", "stamp")
    /\ ticket' = [ticket EXCEPT ![p] = "empty"]
    /\ queued' = [queued EXCEPT ![p] = TRUE]
    /\ UNCHANGED <<clock, ns, todo, doomed, flock, reused, history>>

\* "A queue we cannot join must never block the build."
Unqueued(p) ==
    /\ p \in NoTicket
    /\ Go(p, "create", "flock")
    /\ UNCHANGED <<clock, ns, ticket, queued, todo, doomed, flock, reused, history>>

\* The start time goes through ps, tr and sed into the file opened before.
\* If a peer has removed the file meanwhile, the write reaches no name.
StampTicket(p) ==
    /\ Go(p, "stamp", "reap")
    /\ ticket' = [ticket EXCEPT ![p] = IF @ = "empty" THEN "stamped" ELSE @]
    /\ saw' = [saw EXCEPT ![p] = {q \in Job : /\ queued[q] /\ Before(q, p)
                                              /\ pc[q] \in Waiting \cup {"locked", "hold"}}]
    /\ UNCHANGED <<clock, ns, queued, todo, doomed, flock, reused, reaped>>

---------------------------------------------------------------------------
(* q_wait: reap once, then scan until nothing live is ahead.               *)

\* The two loops expand the file names, sorted, and look at one file at a
\* time.  (The names sort as the keys do, but for the width of the pids.)
LooksAt(p, q) ==
    /\ doomed[p] = Nobody
    /\ q \in todo[p]
    /\ \A r \in todo[p] : ~Before(r, q)

BeginReap(p) ==
    /\ Go(p, "reap", "reaping")
    /\ todo' = [todo EXCEPT ![p] = Tickets]
    /\ UNCHANGED <<clock, ns, ticket, queued, doomed, flock, reused, history>>

Passes(p, q) == todo' = [todo EXCEPT ![p] = @ \ {q}]

\* q__live answers no; the rm -f that follows is a command of its own, and
\* the file may have been stamped in between.
JudgeDead(p, q) ==
    /\ pc[p] \in {"reaping", "scanning"}
    /\ LooksAt(p, q)
    /\ ~Live(q)
    /\ Passes(p, q)
    /\ doomed' = [doomed EXCEPT ![p] = q]
    /\ UNCHANGED <<pc, clock, ns, ticket, queued, flock, reused, history>>

\* rm -f, which does not mind a ticket that is gone.
RemoveDead(p) ==
    /\ doomed[p] # Nobody
    /\ doomed' = [doomed EXCEPT ![p] = Nobody]
    /\ ticket' = [ticket EXCEPT ![doomed[p]] = "none"]
    /\ reaped' = IF Alive(doomed[p]) /\ ticket[doomed[p]] # "none"
                    THEN reaped \cup {doomed[p]} ELSE reaped
    /\ UNCHANGED <<pc, clock, ns, queued, todo, flock, reused, saw>>

ReapSpares(p, q) ==
    /\ pc[p] = "reaping"
    /\ LooksAt(p, q)
    /\ Live(q)
    /\ Passes(p, q)
    /\ UNCHANGED <<pc, clock, ns, ticket, queued, doomed, flock, reused, history>>

LoopDone(p) == todo[p] = {} /\ doomed[p] = Nobody

ReapDone(p) ==
    /\ LoopDone(p)
    /\ Go(p, "reaping", "scan")
    /\ UNCHANGED <<clock, ns, ticket, queued, todo, doomed, flock, reused, history>>

BeginScan(p) ==
    /\ Go(p, "scan", "scanning")
    /\ todo' = [todo EXCEPT ![p] = Tickets \ {p}]
    /\ UNCHANGED <<clock, ns, ticket, queued, doomed, flock, reused, history>>

ScanBehind(p, q) ==
    /\ pc[p] = "scanning"
    /\ LooksAt(p, q)
    /\ Live(q) /\ ~Before(q, p)
    /\ Passes(p, q)
    /\ UNCHANGED <<pc, clock, ns, ticket, queued, doomed, flock, reused, history>>

ScanAhead(p, q) ==
    /\ LooksAt(p, q)
    /\ Live(q) /\ Before(q, p)
    /\ Go(p, "scanning", "sleep")
    /\ todo' = [todo EXCEPT ![p] = {}]
    /\ UNCHANGED <<clock, ns, ticket, queued, doomed, flock, reused, history>>

\* After a sleep: another look or, every five minutes, a census first, which
\* reaps as it lists.
Rescan(p) ==
    /\ \E there \in {"scan", "reap"} : Go(p, "sleep", there)
    /\ UNCHANGED <<clock, ns, ticket, queued, todo, doomed, flock, reused, history>>

\* Faulty form: the head of the queue takes itself for the holder.
HeadHolds(p) ==
    /\ LoopDone(p)
    /\ Go(p, "scanning", "locked")
    /\ flock' = p
    /\ UNCHANGED <<clock, ns, ticket, queued, todo, doomed, reused, history>>

\* Head of the queue: try for the flock, whose waiters have no order.
Head(p) ==
    /\ LoopDone(p)
    /\ Go(p, "scanning", "flock")
    /\ UNCHANGED <<clock, ns, ticket, queued, todo, doomed, flock, reused, history>>

---------------------------------------------------------------------------
(* The flock, the build and the ends.                                      *)

\* Faulty form: the holder drops its ticket when it acquires.
TakeFlockDropTicket(p) ==
    /\ flock = Nobody
    /\ Go(p, "flock", "locked")
    /\ flock' = p
    /\ ticket' = [ticket EXCEPT ![p] = "none"]
    /\ UNCHANGED <<clock, ns, queued, todo, doomed, reused, history>>

TakeFlock(p) ==
    /\ flock = Nobody
    /\ Go(p, "flock", "locked")
    /\ flock' = p
    /\ UNCHANGED <<clock, ns, ticket, queued, todo, doomed, reused, history>>

FlockTimeout(p) ==
    /\ flock # Nobody
    /\ Go(p, "flock", "leave")
    /\ UNCHANGED <<clock, ns, ticket, queued, todo, doomed, flock, reused, history>>

\* From the flock to lake is FleetLock's subject; it may end in exit 75.
Acquired(p) ==
    /\ \/ Go(p, "locked", "hold")
       \/ Go(p, "locked", "leave")
    /\ UNCHANGED <<clock, ns, ticket, queued, todo, doomed, flock, reused, history>>

Built(p) ==
    /\ Go(p, "hold", "leave")
    /\ UNCHANGED <<clock, ns, ticket, queued, todo, doomed, flock, reused, history>>

StopsScan(p) ==
    /\ todo' = [todo EXCEPT ![p] = {}]
    /\ doomed' = [doomed EXCEPT ![p] = Nobody]

\* INT or TERM.  The handlers are set after q_take: a signal before that ends
\* the shell and leaves the ticket.  While flock(1) runs it is deferred.
Interrupt(p) ==
    /\ p \in Signalled
    /\ pc[p] \notin {"flock", "leave", "exit", "done", "killed"}
    /\ Go(p, pc[p], IF pc[p] \in {"take", "create", "stamp"} THEN "killed" ELSE "leave")
    /\ StopsScan(p)
    /\ UNCHANGED <<clock, ns, ticket, queued, flock, reused, history>>

\* q_release, from release() or from the handler; then the shell exits.
DropTicket(p) ==
    /\ Go(p, "leave", "exit")
    /\ ticket' = [ticket EXCEPT ![p] = "none"]
    /\ queued' = [queued EXCEPT ![p] = FALSE]
    /\ UNCHANGED <<clock, ns, todo, doomed, flock, reused, history>>

Exit(p) ==
    /\ Go(p, "exit", "done")
    /\ flock' = IF flock = p THEN Nobody ELSE flock
    /\ UNCHANGED <<clock, ns, ticket, queued, todo, doomed, reused, history>>

\* SIGKILL leaves the ticket behind; the kernel frees the flock.
Kill(p) ==
    /\ p \in Mortal
    /\ Alive(p)
    /\ Go(p, pc[p], "killed")
    /\ flock' = IF flock = p THEN Nobody ELSE flock
    /\ StopsScan(p)
    /\ UNCHANGED <<clock, ns, ticket, queued, reused, history>>

Recycle(p) ==
    /\ p \in Recycled \ reused
    /\ ~Alive(p)
    /\ reused' = reused \cup {p}
    /\ UNCHANGED <<pc, clock, ns, ticket, queued, todo, doomed, flock, history>>

Take(p) == ReadClock(p) \/ CreateTicket(p) \/ Unqueued(p) \/ StampTicket(p)

Wait(p) ==
    \/ BeginReap(p) \/ ReapDone(p) \/ BeginScan(p) \/ Rescan(p) \/ Head(p)
    \/ RemoveDead(p)
    \/ \E q \in Job :
         JudgeDead(p, q) \/ ReapSpares(p, q) \/ ScanBehind(p, q) \/ ScanAhead(p, q)

Lock(p) ==
    \/ TakeFlock(p) \/ FlockTimeout(p) \/ Acquired(p) \/ Built(p)
    \/ DropTicket(p) \/ Exit(p)

Script(p) == Take(p) \/ Wait(p) \/ Lock(p)

Next ==
    \/ \E p \in Job : Script(p) \/ Interrupt(p) \/ Kill(p) \/ Recycle(p)
    \/ (\A p \in Job : ~Alive(p)) /\ UNCHANGED vars

Spec == Init /\ [][Next]_vars

\* Every live shell runs, and here builds end: a build that never ends keeps
\* the queue by ruling (no timeout, no preemption).
FairSpec == Spec /\ \A p \in Job : WF_vars(Script(p))

---------------------------------------------------------------------------

\* Every variable holds a value of its kind.
TypeOK ==
    /\ pc \in [Job -> Places]
    /\ clock \in 0..MaxClock
    /\ ns \in [Job -> 0..clock]
    /\ ticket \in [Job -> {"none", "empty", "stamped"}]
    /\ queued \in [Job -> BOOLEAN]
    /\ todo \in [Job -> SUBSET Job]
    /\ doomed \in [Job -> Job \cup {Nobody}]
    /\ flock \in Job \cup {Nobody}
    /\ reused \subseteq Recycled
    /\ saw \in [Job -> SUBSET Job]
    /\ reaped \subseteq Job

\* Class order and FIFO within a class: a queued job that has left q_wait has
\* behind it every job that was queued or building when it took its ticket
\* and sorts before it, unless a peer removed that job's ticket.  The holder
\* counts, so later jobs wait where the order still reaches them.
InOrder ==
    \A q \in Job : pc[q] \in {"flock", "locked", "hold"} /\ queued[q] =>
        \A p \in saw[q] :
            p \in reaped \/ ~Alive(p) \/ pc[p] \in {"leave", "exit"}

\* Once a live job's ticket is stamped and no peer is past judging it, no peer
\* judges it dead any more and only its owner removes it: a spurious reap is
\* possible only in the moment between the file's creation and its stamp.
SettledTicketStays ==
    [][\A p \in Job :
           /\ ticket[p] = "stamped" /\ Alive(p)
           /\ \A q \in Job : doomed[q] # p
           => /\ Alive(p)' => \A q \in Job : doomed'[q] # p
              /\ ticket'[p] = "none" => pc[p] = "leave"]_vars

\* Nobody waits for ever: no two jobs each wait for the other, and a ticket
\* left by a killed job, recycled pid or not, does not hold the queue.
EveryTicketIsServed ==
    \A p \in Job : pc[p] \in Waiting ~> pc[p] \notin Waiting

\* Seen from outside: whatever the tickets do, exclusion is the flock's.
Abs == INSTANCE BuildLock WITH
    holder <- flock,
    building <- {p \in Job : pc[p] = "hold"},
    gone <- {p \in Job : ~Alive(p)}

\* "Tickets decide who may attempt acquisition; the primitives still guarantee
\* exclusion" (saltqueue.sh:13-14): with the queue above it, the lock is still
\* BuildLock.
AbsSpec == Abs!Spec
=============================================================================
