----------------------------- MODULE BuildLock -----------------------------
(***************************************************************************)
(* What the fleet's build lock promises, without saying how: one job holds *)
(* the lock at a time and only the holder starts a build.  A job that      *)
(* vanishes (killed, or stopped by a signal at a bad moment) loses the     *)
(* lock and may leave its build running for a while; that build is the     *)
(* only kind that can overlap the next holder's.                           *)
(***************************************************************************)
CONSTANTS
    Job,    \* the jobs
    Nobody  \* no job

VARIABLES
    holder,   \* the job that has the lock
    building, \* the jobs whose build is running
    gone      \* the jobs that have ended

vars == <<holder, building, gone>>

Init == holder = Nobody /\ building = {} /\ gone = {}

Take(j) ==
    /\ holder = Nobody
    /\ j \notin gone
    /\ holder' = j
    /\ UNCHANGED <<building, gone>>

Start(j) ==
    /\ holder = j
    /\ j \notin gone
    /\ building' = building \cup {j}
    /\ UNCHANGED <<holder, gone>>

Stop(j) ==
    /\ building' = building \ {j}
    /\ UNCHANGED <<holder, gone>>

\* The job ends; the lock and the build go with it, at once or when the
\* system notices.
End(j) ==
    /\ j \notin gone
    /\ gone' = gone \cup {j}
    /\ holder' \in {holder, IF holder = j THEN Nobody ELSE holder}
    /\ building' \in {building, building \ {j}}

Reclaim(j) ==
    /\ holder = j
    /\ j \in gone
    /\ holder' = Nobody
    /\ UNCHANGED <<building, gone>>

Next == \E j \in Job : Take(j) \/ Start(j) \/ Stop(j) \/ End(j) \/ Reclaim(j)

Spec == Init /\ [][Next]_vars
=============================================================================
