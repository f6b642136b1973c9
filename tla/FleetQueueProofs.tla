-------------------------- MODULE FleetQueueProofs --------------------------
(***************************************************************************)
(* Proofs about FleetQueue, for every set of jobs and classes, every clock *)
(* and every pattern of signals, kills and recycled pids.                  *)
(***************************************************************************)
EXTENDS FleetQueue, TLAPS

---------------------------------------------------------------------------
(* Type correctness.                                                       *)

\* Every step keeps the type invariant.
LEMMA TypeStep == TypeOK /\ [Next]_vars => TypeOK'
<1> SUFFICES ASSUME TypeOK, [Next]_vars
             PROVE  TypeOK'
  OBVIOUS
<1> USE JobAssumption, RankAssumption, SubsetAssumption
    DEF TypeOK, Go, Places, Waiting, history
<1>1. ASSUME NEW p \in Job, ReadClock(p)
      PROVE  TypeOK'
  BY <1>1 DEF ReadClock
<1>2. ASSUME NEW p \in Job, CreateTicket(p)
      PROVE  TypeOK'
  BY <1>2 DEF CreateTicket
<1>3. ASSUME NEW p \in Job, Unqueued(p)
      PROVE  TypeOK'
  BY <1>3 DEF Unqueued
<1>4. ASSUME NEW p \in Job, StampTicket(p)
      PROVE  TypeOK'
  BY <1>4 DEF StampTicket
<1>5. ASSUME NEW p \in Job, BeginReap(p)
      PROVE  TypeOK'
  BY <1>5 DEF BeginReap, Tickets
<1>6. ASSUME NEW p \in Job, ReapDone(p)
      PROVE  TypeOK'
  BY <1>6 DEF ReapDone
<1>7. ASSUME NEW p \in Job, BeginScan(p)
      PROVE  TypeOK'
  BY <1>7 DEF BeginScan, Tickets
<1>8. ASSUME NEW p \in Job, Rescan(p)
      PROVE  TypeOK'
  BY <1>8 DEF Rescan
<1>9. ASSUME NEW p \in Job, Head(p)
      PROVE  TypeOK'
  BY <1>9 DEF Head
<1>10. ASSUME NEW p \in Job, RemoveDead(p)
       PROVE  TypeOK'
  BY <1>10 DEF RemoveDead
<1>11. ASSUME NEW p \in Job, TakeFlock(p)
       PROVE  TypeOK'
  BY <1>11 DEF TakeFlock
<1>12. ASSUME NEW p \in Job, FlockTimeout(p)
       PROVE  TypeOK'
  BY <1>12 DEF FlockTimeout
<1>13. ASSUME NEW p \in Job, Acquired(p)
       PROVE  TypeOK'
  BY <1>13 DEF Acquired
<1>14. ASSUME NEW p \in Job, Built(p)
       PROVE  TypeOK'
  BY <1>14 DEF Built
<1>15. ASSUME NEW p \in Job, DropTicket(p)
       PROVE  TypeOK'
  BY <1>15 DEF DropTicket
<1>16. ASSUME NEW p \in Job, Exit(p)
       PROVE  TypeOK'
  BY <1>16 DEF Exit
<1>17. ASSUME NEW p \in Job, Interrupt(p)
       PROVE  TypeOK'
  BY <1>17 DEF Interrupt, StopsScan
<1>18. ASSUME NEW p \in Job, Kill(p)
       PROVE  TypeOK'
  BY <1>18 DEF Kill, StopsScan
<1>19. ASSUME NEW p \in Job, Recycle(p)
       PROVE  TypeOK'
  BY <1>19 DEF Recycle
<1>20. ASSUME NEW p \in Job, NEW q \in Job, JudgeDead(p, q)
       PROVE  TypeOK'
  BY <1>20 DEF JudgeDead, Passes
<1>21. ASSUME NEW p \in Job, NEW q \in Job, ReapSpares(p, q)
       PROVE  TypeOK'
  BY <1>21 DEF ReapSpares, Passes
<1>22. ASSUME NEW p \in Job, NEW q \in Job, ScanBehind(p, q)
       PROVE  TypeOK'
  BY <1>22 DEF ScanBehind, Passes
<1>23. ASSUME NEW p \in Job, NEW q \in Job, ScanAhead(p, q)
       PROVE  TypeOK'
  BY <1>23 DEF ScanAhead
<1>24. CASE UNCHANGED vars
  BY <1>24 DEF vars
<1> QED
  BY <1>1, <1>2, <1>3, <1>4, <1>5, <1>6, <1>7, <1>8, <1>9, <1>10, <1>11,
   <1>12, <1>13, <1>14, <1>15, <1>16, <1>17, <1>18, <1>19, <1>20,
   <1>21, <1>22, <1>23, <1>24
     DEF Next, Script, Take, Wait, Lock

\* Every variable keeps a value of its kind: the type invariant of FleetQueue.
THEOREM TypeCorrect == Spec => []TypeOK
<1>1. Init => TypeOK
  BY JobAssumption, SubsetAssumption DEF Init, TypeOK, Places, Waiting
<1> QED
  BY <1>1, TypeStep, PTL DEF Spec

---------------------------------------------------------------------------
(* A settled ticket: stamped, its owner alive, and no peer past judging it.*)

\* What a step may do to the ticket of p.
StaysSettled(p) ==
    /\ ticket[p] = "stamped" /\ Alive(p)
    /\ \A q \in Job : doomed[q] # p
    => /\ Alive(p)' => \A q \in Job : doomed'[q] # p
       /\ ticket'[p] = "none" => pc[p] = "leave"

\* No step lets a peer judge a settled ticket or remove it.
LEMMA SettledStep == TypeOK /\ [Next]_vars => \A r \in Job : StaysSettled(r)
<1> SUFFICES ASSUME TypeOK, [Next]_vars, NEW r \in Job
             PROVE  StaysSettled(r)
  OBVIOUS
<1> USE JobAssumption DEF StaysSettled, TypeOK, Alive, Go, history
<1>1. ASSUME NEW p \in Job, ReadClock(p)
      PROVE  StaysSettled(r)
  BY <1>1 DEF ReadClock
<1>2. ASSUME NEW p \in Job, CreateTicket(p)
      PROVE  StaysSettled(r)
  BY <1>2 DEF CreateTicket
<1>3. ASSUME NEW p \in Job, Unqueued(p)
      PROVE  StaysSettled(r)
  BY <1>3 DEF Unqueued
<1>4. ASSUME NEW p \in Job, StampTicket(p)
      PROVE  StaysSettled(r)
  BY <1>4 DEF StampTicket
<1>5. ASSUME NEW p \in Job, BeginReap(p)
      PROVE  StaysSettled(r)
  BY <1>5 DEF BeginReap, Tickets
<1>6. ASSUME NEW p \in Job, ReapDone(p)
      PROVE  StaysSettled(r)
  BY <1>6 DEF ReapDone
<1>7. ASSUME NEW p \in Job, BeginScan(p)
      PROVE  StaysSettled(r)
  BY <1>7 DEF BeginScan, Tickets
<1>8. ASSUME NEW p \in Job, Rescan(p)
      PROVE  StaysSettled(r)
  BY <1>8 DEF Rescan
<1>9. ASSUME NEW p \in Job, Head(p)
      PROVE  StaysSettled(r)
  BY <1>9 DEF Head
<1>10. ASSUME NEW p \in Job, RemoveDead(p)
       PROVE  StaysSettled(r)
  BY <1>10 DEF RemoveDead
<1>11. ASSUME NEW p \in Job, TakeFlock(p)
       PROVE  StaysSettled(r)
  BY <1>11 DEF TakeFlock
<1>12. ASSUME NEW p \in Job, FlockTimeout(p)
       PROVE  StaysSettled(r)
  BY <1>12 DEF FlockTimeout
<1>13. ASSUME NEW p \in Job, Acquired(p)
       PROVE  StaysSettled(r)
  BY <1>13 DEF Acquired
<1>14. ASSUME NEW p \in Job, Built(p)
       PROVE  StaysSettled(r)
  BY <1>14 DEF Built
<1>15. ASSUME NEW p \in Job, DropTicket(p)
       PROVE  StaysSettled(r)
  BY <1>15 DEF DropTicket
<1>16. ASSUME NEW p \in Job, Exit(p)
       PROVE  StaysSettled(r)
  BY <1>16 DEF Exit
<1>17. ASSUME NEW p \in Job, Interrupt(p)
       PROVE  StaysSettled(r)
  BY <1>17 DEF Interrupt, StopsScan
<1>18. ASSUME NEW p \in Job, Kill(p)
       PROVE  StaysSettled(r)
  BY <1>18 DEF Kill, StopsScan
<1>19. ASSUME NEW p \in Job, Recycle(p)
       PROVE  StaysSettled(r)
  BY <1>19 DEF Recycle
<1>20. ASSUME NEW p \in Job, NEW q \in Job, JudgeDead(p, q)
       PROVE  StaysSettled(r)
  BY <1>20 DEF JudgeDead, Passes, Live
<1>21. ASSUME NEW p \in Job, NEW q \in Job, ReapSpares(p, q)
       PROVE  StaysSettled(r)
  BY <1>21 DEF ReapSpares, Passes
<1>22. ASSUME NEW p \in Job, NEW q \in Job, ScanBehind(p, q)
       PROVE  StaysSettled(r)
  BY <1>22 DEF ScanBehind, Passes
<1>23. ASSUME NEW p \in Job, NEW q \in Job, ScanAhead(p, q)
       PROVE  StaysSettled(r)
  BY <1>23 DEF ScanAhead
<1>24. CASE UNCHANGED vars
  BY <1>24 DEF vars
<1> QED
  BY <1>1, <1>2, <1>3, <1>4, <1>5, <1>6, <1>7, <1>8, <1>9, <1>10, <1>11,
   <1>12, <1>13, <1>14, <1>15, <1>16, <1>17, <1>18, <1>19, <1>20,
   <1>21, <1>22, <1>23, <1>24
     DEF Next, Script, Take, Wait, Lock

\* Once a live job's ticket is stamped and nobody is past judging it, only its
\* owner removes it: SettledTicketStays of FleetQueue.
THEOREM SettledStays == Spec => SettledTicketStays
<1>1. TypeOK /\ [Next]_vars =>
        [\A p \in Job :
           /\ ticket[p] = "stamped" /\ Alive(p)
           /\ \A q \in Job : doomed[q] # p
           => /\ Alive(p)' => \A q \in Job : doomed'[q] # p
              /\ ticket'[p] = "none" => pc[p] = "leave"]_vars
  BY SettledStep DEF StaysSettled
<1> QED
  BY <1>1, TypeCorrect, PTL DEF Spec, SettledTicketStays

---------------------------------------------------------------------------
(* The order of the queue.  InOrder speaks of the jobs that have left      *)
(* q_wait; what every step keeps is what the scan before it relies on: a   *)
(* job seen ahead is either past (its ticket reaped, or gone) or it still  *)
(* waits or builds, has a ticket file, and sorts before; and a scan has it *)
(* still to come, or under its hand.                                       *)

Past(p) == p \in reaped \/ ~Alive(p) \/ pc[p] \in {"leave", "exit"}

Ahead(p, q) ==
    /\ pc[p] \in Waiting \cup {"locked", "hold"}
    /\ queued[p]
    /\ Before(p, q)

Joined == \A q \in Job : \A p \in saw[q] : Past(p) \/ Ahead(p, q)

Early == \A q \in Job : pc[q] \in {"take", "create", "stamp"} => saw[q] = {}

TicketKept == \A p \in Job : queued[p] /\ ~Past(p) => ticket[p] # "none"

Scanned ==
    \A q \in Job : pc[q] = "scanning" =>
        \A p \in saw[q] : Past(p) \/ p \in todo[q] \/ p = doomed[q]

OrderInv == TypeOK /\ Joined /\ Early /\ TicketKept /\ Scanned /\ InOrder

\* A job that is past stays past.
LEMMA PastStays == TypeOK /\ [Next]_vars => \A r \in Job : Past(r) => Past(r)'
<1> SUFFICES ASSUME TypeOK, [Next]_vars, NEW r \in Job, Past(r)
             PROVE  Past(r)'
  OBVIOUS
<1> USE JobAssumption DEF Past, TypeOK, Alive, Go, history
<1>1. ASSUME NEW p \in Job, ReadClock(p)
      PROVE  Past(r)'
  BY <1>1 DEF ReadClock
<1>2. ASSUME NEW p \in Job, CreateTicket(p)
      PROVE  Past(r)'
  BY <1>2 DEF CreateTicket
<1>3. ASSUME NEW p \in Job, Unqueued(p)
      PROVE  Past(r)'
  BY <1>3 DEF Unqueued
<1>4. ASSUME NEW p \in Job, StampTicket(p)
      PROVE  Past(r)'
  BY <1>4 DEF StampTicket
<1>5. ASSUME NEW p \in Job, BeginReap(p)
      PROVE  Past(r)'
  BY <1>5 DEF BeginReap, Tickets
<1>6. ASSUME NEW p \in Job, ReapDone(p)
      PROVE  Past(r)'
  BY <1>6 DEF ReapDone
<1>7. ASSUME NEW p \in Job, BeginScan(p)
      PROVE  Past(r)'
  BY <1>7 DEF BeginScan, Tickets
<1>8. ASSUME NEW p \in Job, Rescan(p)
      PROVE  Past(r)'
  BY <1>8 DEF Rescan
<1>9. ASSUME NEW p \in Job, Head(p)
      PROVE  Past(r)'
  BY <1>9 DEF Head
<1>10. ASSUME NEW p \in Job, RemoveDead(p)
       PROVE  Past(r)'
  BY <1>10 DEF RemoveDead
<1>11. ASSUME NEW p \in Job, TakeFlock(p)
       PROVE  Past(r)'
  BY <1>11 DEF TakeFlock
<1>12. ASSUME NEW p \in Job, FlockTimeout(p)
       PROVE  Past(r)'
  BY <1>12 DEF FlockTimeout
<1>13. ASSUME NEW p \in Job, Acquired(p)
       PROVE  Past(r)'
  BY <1>13 DEF Acquired
<1>14. ASSUME NEW p \in Job, Built(p)
       PROVE  Past(r)'
  BY <1>14 DEF Built
<1>15. ASSUME NEW p \in Job, DropTicket(p)
       PROVE  Past(r)'
  BY <1>15 DEF DropTicket
<1>16. ASSUME NEW p \in Job, Exit(p)
       PROVE  Past(r)'
  BY <1>16 DEF Exit
<1>17. ASSUME NEW p \in Job, Interrupt(p)
       PROVE  Past(r)'
  BY <1>17 DEF Interrupt, StopsScan
<1>18. ASSUME NEW p \in Job, Kill(p)
       PROVE  Past(r)'
  BY <1>18 DEF Kill, StopsScan
<1>19. ASSUME NEW p \in Job, Recycle(p)
       PROVE  Past(r)'
  BY <1>19 DEF Recycle
<1>20. ASSUME NEW p \in Job, NEW q \in Job, JudgeDead(p, q)
       PROVE  Past(r)'
  BY <1>20 DEF JudgeDead, Passes
<1>21. ASSUME NEW p \in Job, NEW q \in Job, ReapSpares(p, q)
       PROVE  Past(r)'
  BY <1>21 DEF ReapSpares, Passes
<1>22. ASSUME NEW p \in Job, NEW q \in Job, ScanBehind(p, q)
       PROVE  Past(r)'
  BY <1>22 DEF ScanBehind, Passes
<1>23. ASSUME NEW p \in Job, NEW q \in Job, ScanAhead(p, q)
       PROVE  Past(r)'
  BY <1>23 DEF ScanAhead
<1>24. CASE UNCHANGED vars
  BY <1>24 DEF vars
<1> QED
  BY <1>1, <1>2, <1>3, <1>4, <1>5, <1>6, <1>7, <1>8, <1>9, <1>10, <1>11,
   <1>12, <1>13, <1>14, <1>15, <1>16, <1>17, <1>18, <1>19, <1>20,
   <1>21, <1>22, <1>23, <1>24
     DEF Next, Script, Take, Wait, Lock

\* A job never sorts before itself.
LEMMA NotBeforeItself == TypeOK => \A p \in Job : ~Before(p, p)
  BY JobAssumption, RankAssumption, SubsetAssumption DEF TypeOK, Before

\* Every step keeps the jobs seen ahead ahead, or past.
LEMMA JoinedStep == OrderInv /\ [Next]_vars => Joined'
<1> SUFFICES ASSUME OrderInv, [Next]_vars,
                    NEW t \in Job, NEW s \in saw'[t]
             PROVE  (Past(s) \/ Ahead(s, t))'
  BY DEF Joined
<1>a. \A r \in Job : Past(r) => Past(r)'
  BY PastStays DEF OrderInv
<1> USE JobAssumption, <1>a
    DEF OrderInv, TypeOK, Joined, Early, Ahead, Before, Waiting, Alive, Go, history
<1>1. ASSUME NEW p \in Job, ReadClock(p)
      PROVE  (Past(s) \/ Ahead(s, t))'
  BY <1>1 DEF ReadClock
<1>2. ASSUME NEW p \in Job, CreateTicket(p)
      PROVE  (Past(s) \/ Ahead(s, t))'
  BY <1>2 DEF CreateTicket
<1>3. ASSUME NEW p \in Job, Unqueued(p)
      PROVE  (Past(s) \/ Ahead(s, t))'
  BY <1>3 DEF Unqueued
<1>4. ASSUME NEW p \in Job, StampTicket(p)
      PROVE  (Past(s) \/ Ahead(s, t))'
  BY <1>4 DEF StampTicket
<1>5. ASSUME NEW p \in Job, BeginReap(p)
      PROVE  (Past(s) \/ Ahead(s, t))'
  BY <1>5 DEF BeginReap, Tickets
<1>6. ASSUME NEW p \in Job, ReapDone(p)
      PROVE  (Past(s) \/ Ahead(s, t))'
  BY <1>6 DEF ReapDone
<1>7. ASSUME NEW p \in Job, BeginScan(p)
      PROVE  (Past(s) \/ Ahead(s, t))'
  BY <1>7 DEF BeginScan, Tickets
<1>8. ASSUME NEW p \in Job, Rescan(p)
      PROVE  (Past(s) \/ Ahead(s, t))'
  BY <1>8 DEF Rescan
<1>9. ASSUME NEW p \in Job, Head(p)
      PROVE  (Past(s) \/ Ahead(s, t))'
  BY <1>9 DEF Head
<1>10. ASSUME NEW p \in Job, RemoveDead(p)
       PROVE  (Past(s) \/ Ahead(s, t))'
  BY <1>10 DEF RemoveDead
<1>11. ASSUME NEW p \in Job, TakeFlock(p)
       PROVE  (Past(s) \/ Ahead(s, t))'
  BY <1>11 DEF TakeFlock
<1>12. ASSUME NEW p \in Job, FlockTimeout(p)
       PROVE  (Past(s) \/ Ahead(s, t))'
  BY <1>12 DEF FlockTimeout, Past
<1>13. ASSUME NEW p \in Job, Acquired(p)
       PROVE  (Past(s) \/ Ahead(s, t))'
  BY <1>13 DEF Acquired, Past
<1>14. ASSUME NEW p \in Job, Built(p)
       PROVE  (Past(s) \/ Ahead(s, t))'
  BY <1>14 DEF Built, Past
<1>15. ASSUME NEW p \in Job, DropTicket(p)
       PROVE  (Past(s) \/ Ahead(s, t))'
  BY <1>15 DEF DropTicket
<1>16. ASSUME NEW p \in Job, Exit(p)
       PROVE  (Past(s) \/ Ahead(s, t))'
  BY <1>16 DEF Exit
<1>17. ASSUME NEW p \in Job, Interrupt(p)
       PROVE  (Past(s) \/ Ahead(s, t))'
  BY <1>17 DEF Interrupt, StopsScan, Past
<1>18. ASSUME NEW p \in Job, Kill(p)
       PROVE  (Past(s) \/ Ahead(s, t))'
  BY <1>18 DEF Kill, StopsScan, Past
<1>19. ASSUME NEW p \in Job, Recycle(p)
       PROVE  (Past(s) \/ Ahead(s, t))'
  BY <1>19 DEF Recycle
<1>20. ASSUME NEW p \in Job, NEW q \in Job, JudgeDead(p, q)
       PROVE  (Past(s) \/ Ahead(s, t))'
  BY <1>20 DEF JudgeDead, Passes
<1>21. ASSUME NEW p \in Job, NEW q \in Job, ReapSpares(p, q)
       PROVE  (Past(s) \/ Ahead(s, t))'
  BY <1>21 DEF ReapSpares, Passes
<1>22. ASSUME NEW p \in Job, NEW q \in Job, ScanBehind(p, q)
       PROVE  (Past(s) \/ Ahead(s, t))'
  BY <1>22 DEF ScanBehind, Passes
<1>23. ASSUME NEW p \in Job, NEW q \in Job, ScanAhead(p, q)
       PROVE  (Past(s) \/ Ahead(s, t))'
  BY <1>23 DEF ScanAhead
<1>24. CASE UNCHANGED vars
  BY <1>24 DEF vars
<1> QED
  BY <1>1, <1>2, <1>3, <1>4, <1>5, <1>6, <1>7, <1>8, <1>9, <1>10, <1>11,
   <1>12, <1>13, <1>14, <1>15, <1>16, <1>17, <1>18, <1>19, <1>20,
   <1>21, <1>22, <1>23, <1>24
     DEF Next, Script, Take, Wait, Lock

\* No step gives a job anyone ahead before its ticket is stamped.
LEMMA EarlyStep == OrderInv /\ [Next]_vars => Early'
<1> SUFFICES ASSUME OrderInv, [Next]_vars, NEW t \in Job,
                    pc'[t] \in {"take", "create", "stamp"}
             PROVE  saw'[t] = {}
  BY DEF Early
<1> USE DEF OrderInv, TypeOK, Early, Waiting, Go, history
<1>1. ASSUME NEW p \in Job, ReadClock(p)
      PROVE  saw'[t] = {}
  BY <1>1 DEF ReadClock
<1>2. ASSUME NEW p \in Job, CreateTicket(p)
      PROVE  saw'[t] = {}
  BY <1>2 DEF CreateTicket
<1>3. ASSUME NEW p \in Job, Unqueued(p)
      PROVE  saw'[t] = {}
  BY <1>3 DEF Unqueued
<1>4. ASSUME NEW p \in Job, StampTicket(p)
      PROVE  saw'[t] = {}
  BY <1>4 DEF StampTicket
<1>5. ASSUME NEW p \in Job, BeginReap(p)
      PROVE  saw'[t] = {}
  BY <1>5 DEF BeginReap, Tickets
<1>6. ASSUME NEW p \in Job, ReapDone(p)
      PROVE  saw'[t] = {}
  BY <1>6 DEF ReapDone
<1>7. ASSUME NEW p \in Job, BeginScan(p)
      PROVE  saw'[t] = {}
  BY <1>7 DEF BeginScan, Tickets
<1>8. ASSUME NEW p \in Job, Rescan(p)
      PROVE  saw'[t] = {}
  BY <1>8 DEF Rescan
<1>9. ASSUME NEW p \in Job, Head(p)
      PROVE  saw'[t] = {}
  BY <1>9 DEF Head
<1>10. ASSUME NEW p \in Job, RemoveDead(p)
       PROVE  saw'[t] = {}
  BY <1>10 DEF RemoveDead
<1>11. ASSUME NEW p \in Job, TakeFlock(p)
       PROVE  saw'[t] = {}
  BY <1>11 DEF TakeFlock
<1>12. ASSUME NEW p \in Job, FlockTimeout(p)
       PROVE  saw'[t] = {}
  BY <1>12 DEF FlockTimeout
<1>13. ASSUME NEW p \in Job, Acquired(p)
       PROVE  saw'[t] = {}
  BY <1>13 DEF Acquired
<1>14. ASSUME NEW p \in Job, Built(p)
       PROVE  saw'[t] = {}
  BY <1>14 DEF Built
<1>15. ASSUME NEW p \in Job, DropTicket(p)
       PROVE  saw'[t] = {}
  BY <1>15 DEF DropTicket
<1>16. ASSUME NEW p \in Job, Exit(p)
       PROVE  saw'[t] = {}
  BY <1>16 DEF Exit
<1>17. ASSUME NEW p \in Job, Interrupt(p)
       PROVE  saw'[t] = {}
  BY <1>17 DEF Interrupt, StopsScan
<1>18. ASSUME NEW p \in Job, Kill(p)
       PROVE  saw'[t] = {}
  BY <1>18 DEF Kill, StopsScan
<1>19. ASSUME NEW p \in Job, Recycle(p)
       PROVE  saw'[t] = {}
  BY <1>19 DEF Recycle
<1>20. ASSUME NEW p \in Job, NEW q \in Job, JudgeDead(p, q)
       PROVE  saw'[t] = {}
  BY <1>20 DEF JudgeDead, Passes
<1>21. ASSUME NEW p \in Job, NEW q \in Job, ReapSpares(p, q)
       PROVE  saw'[t] = {}
  BY <1>21 DEF ReapSpares, Passes
<1>22. ASSUME NEW p \in Job, NEW q \in Job, ScanBehind(p, q)
       PROVE  saw'[t] = {}
  BY <1>22 DEF ScanBehind, Passes
<1>23. ASSUME NEW p \in Job, NEW q \in Job, ScanAhead(p, q)
       PROVE  saw'[t] = {}
  BY <1>23 DEF ScanAhead
<1>24. CASE UNCHANGED vars
  BY <1>24 DEF vars
<1> QED
  BY <1>1, <1>2, <1>3, <1>4, <1>5, <1>6, <1>7, <1>8, <1>9, <1>10, <1>11,
   <1>12, <1>13, <1>14, <1>15, <1>16, <1>17, <1>18, <1>19, <1>20,
   <1>21, <1>22, <1>23, <1>24
     DEF Next, Script, Take, Wait, Lock

\* Every step leaves a queued job its ticket, or makes it past.
LEMMA TicketKeptStep == OrderInv /\ [Next]_vars => TicketKept'
<1> SUFFICES ASSUME OrderInv, [Next]_vars, NEW t \in Job,
                    queued'[t], ~Past(t)'
             PROVE  ticket'[t] # "none"
  BY DEF TicketKept
<1> USE PastStays DEF OrderInv, TypeOK, TicketKept, Past, Alive, Go, history
<1>1. ASSUME NEW p \in Job, ReadClock(p)
      PROVE  ticket'[t] # "none"
  BY <1>1 DEF ReadClock
<1>2. ASSUME NEW p \in Job, CreateTicket(p)
      PROVE  ticket'[t] # "none"
  BY <1>2 DEF CreateTicket
<1>3. ASSUME NEW p \in Job, Unqueued(p)
      PROVE  ticket'[t] # "none"
  BY <1>3 DEF Unqueued
<1>4. ASSUME NEW p \in Job, StampTicket(p)
      PROVE  ticket'[t] # "none"
  BY <1>4 DEF StampTicket
<1>5. ASSUME NEW p \in Job, BeginReap(p)
      PROVE  ticket'[t] # "none"
  BY <1>5 DEF BeginReap, Tickets
<1>6. ASSUME NEW p \in Job, ReapDone(p)
      PROVE  ticket'[t] # "none"
  BY <1>6 DEF ReapDone
<1>7. ASSUME NEW p \in Job, BeginScan(p)
      PROVE  ticket'[t] # "none"
  BY <1>7 DEF BeginScan, Tickets
<1>8. ASSUME NEW p \in Job, Rescan(p)
      PROVE  ticket'[t] # "none"
  BY <1>8 DEF Rescan
<1>9. ASSUME NEW p \in Job, Head(p)
      PROVE  ticket'[t] # "none"
  BY <1>9 DEF Head
<1>10. ASSUME NEW p \in Job, RemoveDead(p)
       PROVE  ticket'[t] # "none"
  BY <1>10 DEF RemoveDead
<1>11. ASSUME NEW p \in Job, TakeFlock(p)
       PROVE  ticket'[t] # "none"
  BY <1>11 DEF TakeFlock
<1>12. ASSUME NEW p \in Job, FlockTimeout(p)
       PROVE  ticket'[t] # "none"
  BY <1>12 DEF FlockTimeout
<1>13. ASSUME NEW p \in Job, Acquired(p)
       PROVE  ticket'[t] # "none"
  BY <1>13 DEF Acquired
<1>14. ASSUME NEW p \in Job, Built(p)
       PROVE  ticket'[t] # "none"
  BY <1>14 DEF Built
<1>15. ASSUME NEW p \in Job, DropTicket(p)
       PROVE  ticket'[t] # "none"
  BY <1>15 DEF DropTicket
<1>16. ASSUME NEW p \in Job, Exit(p)
       PROVE  ticket'[t] # "none"
  BY <1>16 DEF Exit
<1>17. ASSUME NEW p \in Job, Interrupt(p)
       PROVE  ticket'[t] # "none"
  BY <1>17 DEF Interrupt, StopsScan
<1>18. ASSUME NEW p \in Job, Kill(p)
       PROVE  ticket'[t] # "none"
  BY <1>18 DEF Kill, StopsScan
<1>19. ASSUME NEW p \in Job, Recycle(p)
       PROVE  ticket'[t] # "none"
  BY <1>19 DEF Recycle
<1>20. ASSUME NEW p \in Job, NEW q \in Job, JudgeDead(p, q)
       PROVE  ticket'[t] # "none"
  BY <1>20 DEF JudgeDead, Passes
<1>21. ASSUME NEW p \in Job, NEW q \in Job, ReapSpares(p, q)
       PROVE  ticket'[t] # "none"
  BY <1>21 DEF ReapSpares, Passes
<1>22. ASSUME NEW p \in Job, NEW q \in Job, ScanBehind(p, q)
       PROVE  ticket'[t] # "none"
  BY <1>22 DEF ScanBehind, Passes
<1>23. ASSUME NEW p \in Job, NEW q \in Job, ScanAhead(p, q)
       PROVE  ticket'[t] # "none"
  BY <1>23 DEF ScanAhead
<1>24. CASE UNCHANGED vars
  BY <1>24 DEF vars
<1> QED
  BY <1>1, <1>2, <1>3, <1>4, <1>5, <1>6, <1>7, <1>8, <1>9, <1>10, <1>11,
   <1>12, <1>13, <1>14, <1>15, <1>16, <1>17, <1>18, <1>19, <1>20,
   <1>21, <1>22, <1>23, <1>24
     DEF Next, Script, Take, Wait, Lock

\* Every step keeps the jobs seen ahead within the reach of the scan.
LEMMA ScannedStep == OrderInv /\ [Next]_vars => Scanned'
<1> SUFFICES ASSUME OrderInv, [Next]_vars, NEW t \in Job,
                    pc'[t] = "scanning", NEW s \in saw'[t], ~Past(s)'
             PROVE  s \in todo'[t] \/ s = doomed'[t]
  BY DEF Scanned
<1>a. ~Past(s) /\ s \in Job
  BY PastStays, TypeStep DEF OrderInv, TypeOK
<1>b. ~Before(t, t)
  BY NotBeforeItself DEF OrderInv
<1> USE JobAssumption, <1>a, <1>b DEF OrderInv, TypeOK, Scanned, Go, history
<1>1. ASSUME NEW p \in Job, ReadClock(p)
      PROVE  s \in todo'[t] \/ s = doomed'[t]
  BY <1>1 DEF ReadClock
<1>2. ASSUME NEW p \in Job, CreateTicket(p)
      PROVE  s \in todo'[t] \/ s = doomed'[t]
  BY <1>2 DEF CreateTicket
<1>3. ASSUME NEW p \in Job, Unqueued(p)
      PROVE  s \in todo'[t] \/ s = doomed'[t]
  BY <1>3 DEF Unqueued
<1>4. ASSUME NEW p \in Job, StampTicket(p)
      PROVE  s \in todo'[t] \/ s = doomed'[t]
  BY <1>4 DEF StampTicket
<1>5. ASSUME NEW p \in Job, BeginReap(p)
      PROVE  s \in todo'[t] \/ s = doomed'[t]
  BY <1>5 DEF BeginReap, Tickets
<1>6. ASSUME NEW p \in Job, ReapDone(p)
      PROVE  s \in todo'[t] \/ s = doomed'[t]
  BY <1>6 DEF ReapDone
<1>7. ASSUME NEW p \in Job, BeginScan(p)
      PROVE  s \in todo'[t] \/ s = doomed'[t]
  BY <1>7 DEF BeginScan, Tickets, Joined, Ahead, TicketKept
<1>8. ASSUME NEW p \in Job, Rescan(p)
      PROVE  s \in todo'[t] \/ s = doomed'[t]
  BY <1>8 DEF Rescan
<1>9. ASSUME NEW p \in Job, Head(p)
      PROVE  s \in todo'[t] \/ s = doomed'[t]
  BY <1>9 DEF Head
<1>10. ASSUME NEW p \in Job, RemoveDead(p)
       PROVE  s \in todo'[t] \/ s = doomed'[t]
  BY <1>10 DEF RemoveDead, Past, TicketKept, Joined, Ahead
<1>11. ASSUME NEW p \in Job, TakeFlock(p)
       PROVE  s \in todo'[t] \/ s = doomed'[t]
  BY <1>11 DEF TakeFlock
<1>12. ASSUME NEW p \in Job, FlockTimeout(p)
       PROVE  s \in todo'[t] \/ s = doomed'[t]
  BY <1>12 DEF FlockTimeout
<1>13. ASSUME NEW p \in Job, Acquired(p)
       PROVE  s \in todo'[t] \/ s = doomed'[t]
  BY <1>13 DEF Acquired
<1>14. ASSUME NEW p \in Job, Built(p)
       PROVE  s \in todo'[t] \/ s = doomed'[t]
  BY <1>14 DEF Built
<1>15. ASSUME NEW p \in Job, DropTicket(p)
       PROVE  s \in todo'[t] \/ s = doomed'[t]
  BY <1>15 DEF DropTicket
<1>16. ASSUME NEW p \in Job, Exit(p)
       PROVE  s \in todo'[t] \/ s = doomed'[t]
  BY <1>16 DEF Exit
<1>17. ASSUME NEW p \in Job, Interrupt(p)
       PROVE  s \in todo'[t] \/ s = doomed'[t]
  BY <1>17 DEF Interrupt, StopsScan
<1>18. ASSUME NEW p \in Job, Kill(p)
       PROVE  s \in todo'[t] \/ s = doomed'[t]
  BY <1>18 DEF Kill, StopsScan
<1>19. ASSUME NEW p \in Job, Recycle(p)
       PROVE  s \in todo'[t] \/ s = doomed'[t]
  BY <1>19 DEF Recycle
<1>20. ASSUME NEW p \in Job, NEW q \in Job, JudgeDead(p, q)
       PROVE  s \in todo'[t] \/ s = doomed'[t]
  BY <1>20 DEF JudgeDead, Passes, LooksAt
<1>21. ASSUME NEW p \in Job, NEW q \in Job, ReapSpares(p, q)
       PROVE  s \in todo'[t] \/ s = doomed'[t]
  BY <1>21 DEF ReapSpares, Passes
<1>22. ASSUME NEW p \in Job, NEW q \in Job, ScanBehind(p, q)
       PROVE  s \in todo'[t] \/ s = doomed'[t]
  BY <1>22 DEF ScanBehind, Passes, Joined, Ahead
<1>23. ASSUME NEW p \in Job, NEW q \in Job, ScanAhead(p, q)
       PROVE  s \in todo'[t] \/ s = doomed'[t]
  BY <1>23 DEF ScanAhead
<1>24. CASE UNCHANGED vars
  BY <1>24 DEF vars
<1> QED
  BY <1>1, <1>2, <1>3, <1>4, <1>5, <1>6, <1>7, <1>8, <1>9, <1>10, <1>11,
   <1>12, <1>13, <1>14, <1>15, <1>16, <1>17, <1>18, <1>19, <1>20,
   <1>21, <1>22, <1>23, <1>24
     DEF Next, Script, Take, Wait, Lock

\* Every step keeps those that left the queue behind all they saw ahead.
LEMMA InOrderStep == OrderInv /\ [Next]_vars => InOrder'
<1> SUFFICES ASSUME OrderInv, [Next]_vars, NEW t \in Job,
                    pc'[t] \in {"flock", "locked", "hold"}, queued'[t],
                    NEW s \in saw'[t]
             PROVE  Past(s)'
  BY DEF InOrder, Past
<1>a. s \in Job /\ (Past(s) => Past(s)')
  BY PastStays, TypeStep DEF OrderInv, TypeOK
<1>b. pc[t] \in {"flock", "locked", "hold"} /\ queued[t] /\ s \in saw[t] => Past(s)
  BY DEF OrderInv, InOrder, Past
<1> USE JobAssumption, <1>a, <1>b DEF OrderInv, TypeOK, Go, history
<1>1. ASSUME NEW p \in Job, ReadClock(p)
      PROVE  Past(s)'
  BY <1>1 DEF ReadClock
<1>2. ASSUME NEW p \in Job, CreateTicket(p)
      PROVE  Past(s)'
  BY <1>2 DEF CreateTicket
<1>3. ASSUME NEW p \in Job, Unqueued(p)
      PROVE  Past(s)'
  BY <1>3 DEF Unqueued, Early
<1>4. ASSUME NEW p \in Job, StampTicket(p)
      PROVE  Past(s)'
  BY <1>4 DEF StampTicket
<1>5. ASSUME NEW p \in Job, BeginReap(p)
      PROVE  Past(s)'
  BY <1>5 DEF BeginReap, Tickets
<1>6. ASSUME NEW p \in Job, ReapDone(p)
      PROVE  Past(s)'
  BY <1>6 DEF ReapDone
<1>7. ASSUME NEW p \in Job, BeginScan(p)
      PROVE  Past(s)'
  BY <1>7 DEF BeginScan, Tickets
<1>8. ASSUME NEW p \in Job, Rescan(p)
      PROVE  Past(s)'
  BY <1>8 DEF Rescan
<1>9. ASSUME NEW p \in Job, Head(p)
      PROVE  Past(s)'
  BY <1>9 DEF Head, Scanned, LoopDone
<1>10. ASSUME NEW p \in Job, RemoveDead(p)
       PROVE  Past(s)'
  BY <1>10 DEF RemoveDead
<1>11. ASSUME NEW p \in Job, TakeFlock(p)
       PROVE  Past(s)'
  BY <1>11 DEF TakeFlock
<1>12. ASSUME NEW p \in Job, FlockTimeout(p)
       PROVE  Past(s)'
  BY <1>12 DEF FlockTimeout
<1>13. ASSUME NEW p \in Job, Acquired(p)
       PROVE  Past(s)'
  BY <1>13 DEF Acquired
<1>14. ASSUME NEW p \in Job, Built(p)
       PROVE  Past(s)'
  BY <1>14 DEF Built
<1>15. ASSUME NEW p \in Job, DropTicket(p)
       PROVE  Past(s)'
  BY <1>15 DEF DropTicket
<1>16. ASSUME NEW p \in Job, Exit(p)
       PROVE  Past(s)'
  BY <1>16 DEF Exit
<1>17. ASSUME NEW p \in Job, Interrupt(p)
       PROVE  Past(s)'
  BY <1>17 DEF Interrupt, StopsScan
<1>18. ASSUME NEW p \in Job, Kill(p)
       PROVE  Past(s)'
  BY <1>18 DEF Kill, StopsScan
<1>19. ASSUME NEW p \in Job, Recycle(p)
       PROVE  Past(s)'
  BY <1>19 DEF Recycle
<1>20. ASSUME NEW p \in Job, NEW q \in Job, JudgeDead(p, q)
       PROVE  Past(s)'
  BY <1>20 DEF JudgeDead, Passes
<1>21. ASSUME NEW p \in Job, NEW q \in Job, ReapSpares(p, q)
       PROVE  Past(s)'
  BY <1>21 DEF ReapSpares, Passes
<1>22. ASSUME NEW p \in Job, NEW q \in Job, ScanBehind(p, q)
       PROVE  Past(s)'
  BY <1>22 DEF ScanBehind, Passes
<1>23. ASSUME NEW p \in Job, NEW q \in Job, ScanAhead(p, q)
       PROVE  Past(s)'
  BY <1>23 DEF ScanAhead
<1>24. CASE UNCHANGED vars
  BY <1>24 DEF vars
<1> QED
  BY <1>1, <1>2, <1>3, <1>4, <1>5, <1>6, <1>7, <1>8, <1>9, <1>10, <1>11,
   <1>12, <1>13, <1>14, <1>15, <1>16, <1>17, <1>18, <1>19, <1>20,
   <1>21, <1>22, <1>23, <1>24
     DEF Next, Script, Take, Wait, Lock

\* A queued job that goes for the flock has nobody ahead of it that it saw
\* when it joined: InOrder of FleetQueue, for every class and every clock.
THEOREM ServedInOrder == Spec => []InOrder
<1>1. Init => OrderInv
  BY JobAssumption, SubsetAssumption
     DEF Init, OrderInv, TypeOK, Places, Waiting, Joined, Early, TicketKept,
         Scanned, InOrder
<1>2. OrderInv /\ [Next]_vars => OrderInv'
  BY TypeStep, JoinedStep, EarlyStep, TicketKeptStep, ScannedStep, InOrderStep
     DEF OrderInv
<1>3. OrderInv => InOrder
  BY DEF OrderInv
<1> QED
  BY <1>1, <1>2, <1>3, PTL DEF Spec

---------------------------------------------------------------------------
(* The queue above the lock is still the lock.                             *)

BuilderHolds == \A p \in Job : pc[p] \in {"locked", "hold"} => flock = p

\* Every step keeps the builder the holder of the flock.
LEMMA BuilderStep ==
    TypeOK /\ BuilderHolds /\ [Next]_vars => BuilderHolds'
<1> SUFFICES ASSUME TypeOK, BuilderHolds, [Next]_vars,
                    NEW r \in Job, pc'[r] \in {"locked", "hold"}
             PROVE  flock' = r
  BY DEF BuilderHolds
<1> USE JobAssumption DEF TypeOK, BuilderHolds, Go, history
<1>1. ASSUME NEW p \in Job, ReadClock(p)
      PROVE  flock' = r
  BY <1>1 DEF ReadClock
<1>2. ASSUME NEW p \in Job, CreateTicket(p)
      PROVE  flock' = r
  BY <1>2 DEF CreateTicket
<1>3. ASSUME NEW p \in Job, Unqueued(p)
      PROVE  flock' = r
  BY <1>3 DEF Unqueued
<1>4. ASSUME NEW p \in Job, StampTicket(p)
      PROVE  flock' = r
  BY <1>4 DEF StampTicket
<1>5. ASSUME NEW p \in Job, BeginReap(p)
      PROVE  flock' = r
  BY <1>5 DEF BeginReap, Tickets
<1>6. ASSUME NEW p \in Job, ReapDone(p)
      PROVE  flock' = r
  BY <1>6 DEF ReapDone
<1>7. ASSUME NEW p \in Job, BeginScan(p)
      PROVE  flock' = r
  BY <1>7 DEF BeginScan, Tickets
<1>8. ASSUME NEW p \in Job, Rescan(p)
      PROVE  flock' = r
  BY <1>8 DEF Rescan
<1>9. ASSUME NEW p \in Job, Head(p)
      PROVE  flock' = r
  BY <1>9 DEF Head
<1>10. ASSUME NEW p \in Job, RemoveDead(p)
       PROVE  flock' = r
  BY <1>10 DEF RemoveDead
<1>11. ASSUME NEW p \in Job, TakeFlock(p)
       PROVE  flock' = r
  BY <1>11 DEF TakeFlock
<1>12. ASSUME NEW p \in Job, FlockTimeout(p)
       PROVE  flock' = r
  BY <1>12 DEF FlockTimeout
<1>13. ASSUME NEW p \in Job, Acquired(p)
       PROVE  flock' = r
  BY <1>13 DEF Acquired
<1>14. ASSUME NEW p \in Job, Built(p)
       PROVE  flock' = r
  BY <1>14 DEF Built
<1>15. ASSUME NEW p \in Job, DropTicket(p)
       PROVE  flock' = r
  BY <1>15 DEF DropTicket
<1>16. ASSUME NEW p \in Job, Exit(p)
       PROVE  flock' = r
  BY <1>16 DEF Exit
<1>17. ASSUME NEW p \in Job, Interrupt(p)
       PROVE  flock' = r
  BY <1>17 DEF Interrupt, StopsScan
<1>18. ASSUME NEW p \in Job, Kill(p)
       PROVE  flock' = r
  BY <1>18 DEF Kill, StopsScan
<1>19. ASSUME NEW p \in Job, Recycle(p)
       PROVE  flock' = r
  BY <1>19 DEF Recycle
<1>20. ASSUME NEW p \in Job, NEW q \in Job, JudgeDead(p, q)
       PROVE  flock' = r
  BY <1>20 DEF JudgeDead, Passes
<1>21. ASSUME NEW p \in Job, NEW q \in Job, ReapSpares(p, q)
       PROVE  flock' = r
  BY <1>21 DEF ReapSpares, Passes
<1>22. ASSUME NEW p \in Job, NEW q \in Job, ScanBehind(p, q)
       PROVE  flock' = r
  BY <1>22 DEF ScanBehind, Passes
<1>23. ASSUME NEW p \in Job, NEW q \in Job, ScanAhead(p, q)
       PROVE  flock' = r
  BY <1>23 DEF ScanAhead
<1>24. CASE UNCHANGED vars
  BY <1>24 DEF vars
<1> QED
  BY <1>1, <1>2, <1>3, <1>4, <1>5, <1>6, <1>7, <1>8, <1>9, <1>10, <1>11,
   <1>12, <1>13, <1>14, <1>15, <1>16, <1>17, <1>18, <1>19, <1>20,
   <1>21, <1>22, <1>23, <1>24
     DEF Next, Script, Take, Wait, Lock

\* Every step of the queue is a step of BuildLock, or none.
LEMMA ImplementationStep ==
    TypeOK /\ BuilderHolds /\ [Next]_vars => [Abs!Next]_(Abs!vars)
<1> SUFFICES ASSUME TypeOK, BuilderHolds, [Next]_vars
             PROVE  [Abs!Next]_(Abs!vars)
  OBVIOUS
<1> USE JobAssumption DEF TypeOK, BuilderHolds, Abs!vars, Alive, Go, history
<1>1. ASSUME NEW p \in Job, ReadClock(p)
      PROVE  [Abs!Next]_(Abs!vars)
  BY <1>1 DEF ReadClock
<1>2. ASSUME NEW p \in Job, CreateTicket(p)
      PROVE  [Abs!Next]_(Abs!vars)
  BY <1>2 DEF CreateTicket
<1>3. ASSUME NEW p \in Job, Unqueued(p)
      PROVE  [Abs!Next]_(Abs!vars)
  BY <1>3 DEF Unqueued
<1>4. ASSUME NEW p \in Job, StampTicket(p)
      PROVE  [Abs!Next]_(Abs!vars)
  BY <1>4 DEF StampTicket
<1>5. ASSUME NEW p \in Job, BeginReap(p)
      PROVE  [Abs!Next]_(Abs!vars)
  BY <1>5 DEF BeginReap, Tickets
<1>6. ASSUME NEW p \in Job, ReapDone(p)
      PROVE  [Abs!Next]_(Abs!vars)
  BY <1>6 DEF ReapDone
<1>7. ASSUME NEW p \in Job, BeginScan(p)
      PROVE  [Abs!Next]_(Abs!vars)
  BY <1>7 DEF BeginScan, Tickets
<1>8. ASSUME NEW p \in Job, Rescan(p)
      PROVE  [Abs!Next]_(Abs!vars)
  BY <1>8 DEF Rescan
<1>9. ASSUME NEW p \in Job, Head(p)
      PROVE  [Abs!Next]_(Abs!vars)
  BY <1>9 DEF Head
<1>10. ASSUME NEW p \in Job, RemoveDead(p)
       PROVE  [Abs!Next]_(Abs!vars)
  BY <1>10 DEF RemoveDead
<1>11. ASSUME NEW p \in Job, TakeFlock(p)
       PROVE  [Abs!Next]_(Abs!vars)
  BY <1>11 DEF TakeFlock, Abs!Next, Abs!Take
<1>12. ASSUME NEW p \in Job, FlockTimeout(p)
       PROVE  [Abs!Next]_(Abs!vars)
  BY <1>12 DEF FlockTimeout
<1>13. ASSUME NEW p \in Job, Acquired(p)
       PROVE  [Abs!Next]_(Abs!vars)
  <2>1. CASE Go(p, "locked", "hold")
    BY <1>13, <2>1 DEF Acquired, Abs!Next, Abs!Start
  <2>2. CASE Go(p, "locked", "leave")
    BY <1>13, <2>2 DEF Acquired
  <2> QED
    BY <1>13, <2>1, <2>2 DEF Acquired
<1>14. ASSUME NEW p \in Job, Built(p)
       PROVE  [Abs!Next]_(Abs!vars)
  BY <1>14 DEF Built, Abs!Next, Abs!Stop
<1>15. ASSUME NEW p \in Job, DropTicket(p)
       PROVE  [Abs!Next]_(Abs!vars)
  BY <1>15 DEF DropTicket
<1>16. ASSUME NEW p \in Job, Exit(p)
       PROVE  [Abs!Next]_(Abs!vars)
  BY <1>16 DEF Exit, Abs!Next, Abs!End
<1>17. ASSUME NEW p \in Job, Interrupt(p)
       PROVE  [Abs!Next]_(Abs!vars)
  BY <1>17 DEF Interrupt, StopsScan, Abs!Next, Abs!Stop, Abs!End
<1>18. ASSUME NEW p \in Job, Kill(p)
       PROVE  [Abs!Next]_(Abs!vars)
  BY <1>18 DEF Kill, StopsScan, Abs!Next, Abs!End
<1>19. ASSUME NEW p \in Job, Recycle(p)
       PROVE  [Abs!Next]_(Abs!vars)
  BY <1>19 DEF Recycle
<1>20. ASSUME NEW p \in Job, NEW q \in Job, JudgeDead(p, q)
       PROVE  [Abs!Next]_(Abs!vars)
  BY <1>20 DEF JudgeDead, Passes
<1>21. ASSUME NEW p \in Job, NEW q \in Job, ReapSpares(p, q)
       PROVE  [Abs!Next]_(Abs!vars)
  BY <1>21 DEF ReapSpares, Passes
<1>22. ASSUME NEW p \in Job, NEW q \in Job, ScanBehind(p, q)
       PROVE  [Abs!Next]_(Abs!vars)
  BY <1>22 DEF ScanBehind, Passes
<1>23. ASSUME NEW p \in Job, NEW q \in Job, ScanAhead(p, q)
       PROVE  [Abs!Next]_(Abs!vars)
  BY <1>23 DEF ScanAhead
<1>24. CASE UNCHANGED vars
  BY <1>24 DEF vars
<1> QED
  BY <1>1, <1>2, <1>3, <1>4, <1>5, <1>6, <1>7, <1>8, <1>9, <1>10, <1>11,
   <1>12, <1>13, <1>14, <1>15, <1>16, <1>17, <1>18, <1>19, <1>20,
   <1>21, <1>22, <1>23, <1>24
     DEF Next, Script, Take, Wait, Lock

\* Whatever the tickets do, exclusion is the flock's: the queue implements
\* BuildLock.
THEOREM Implementation == Spec => AbsSpec
<1>1. Init => TypeOK /\ BuilderHolds
  BY JobAssumption, SubsetAssumption
     DEF Init, TypeOK, Places, Waiting, BuilderHolds
<1>2. Init => Abs!Init
  BY DEF Init, Abs!Init, Alive
<1> QED
  BY <1>1, <1>2, TypeStep, BuilderStep, ImplementationStep, PTL
     DEF Spec, AbsSpec, Abs!Spec
=============================================================================
