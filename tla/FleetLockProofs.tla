-------------------------- MODULE FleetLockProofs --------------------------
(***************************************************************************)
(* Proofs about FleetLock, for every number of wrappers old and new, every *)
(* set of fences and every pattern of signals, kills and recycled pids,    *)
(* and about what MachineState reads of it, for finitely many wrappers.    *)
(***************************************************************************)
EXTENDS MachineState, FiniteSetTheorems, WellFoundedInduction, TLAPS

---------------------------------------------------------------------------
(* Type correctness.                                                       *)

\* Every step keeps the type invariant.
LEMMA TypeStep == TypeOK /\ [Next]_vars => TypeOK'
<1> SUFFICES ASSUME TypeOK, [Next]_vars
             PROVE  TypeOK'
  OBVIOUS
<1> USE FleetAssumption, AbsentAssumption
    DEF TypeOK, At, OldAt, Proc, NewPlaces, OldPlaces, Region, MarkerLoop,
        Publishing, Holding, Leaving
<1>1. ASSUME NEW p \in New, FlockTaken(p)
      PROVE  TypeOK'
  BY <1>1 DEF FlockTaken
<1>2. ASSUME NEW p \in New,
             OpenLock(p) \/ FlockTimeout(p) \/ FlockAbort(p)
      PROVE  TypeOK'
  BY <1>2 DEF OpenLock, FlockTimeout, FlockAbort
<1>3. ASSUME NEW p \in New, MakeMarker(p)
      PROVE  TypeOK'
  BY <1>3 DEF MakeMarker, Unwritten, Marker
<1>4. ASSUME NEW p \in New, ClaimMarker(p)
      PROVE  TypeOK'
  BY <1>4 DEF ClaimMarker
<1>5. ASSUME NEW p \in New, Reap(p)
      PROVE  TypeOK'
  BY <1>5 DEF Reap
<1>6. ASSUME NEW p \in New, PutBack(p)
      PROVE  TypeOK'
  BY <1>6 DEF PutBack, Marker
<1>7. ASSUME NEW p \in New, Sleep(p)
      PROVE  TypeOK'
  BY <1>7 DEF Sleep
<1>8. ASSUME NEW p \in New,
             MkdirFails(p) \/ Judge(p) \/ RenameFails(p) \/
             MarkerGone(p) \/ ReapRefused(p) \/ SparedInClaim(p) \/
             MarkerTimeout(p)
      PROVE  TypeOK'
  BY <1>8 DEF MkdirFails, Judge, RenameFails, MarkerGone, ReapRefused,
              SparedInClaim, MarkerTimeout
<1>9. ASSUME NEW p \in New, WriteMarker(p)
      PROVE  TypeOK'
  BY <1>9 DEF WriteMarker, Marker
<1>10. ASSUME NEW p \in New, Undo(p)
       PROVE  TypeOK'
  BY <1>10 DEF Undo, Unwritten, Marker
<1>11. ASSUME NEW p \in New, Stamp(p)
       PROVE  TypeOK'
  BY <1>11 DEF Stamp, Marker
<1>12. ASSUME NEW p \in New,
              WriteRefused(p) \/ ReadBack(p) \/ ArmRelease(p)
       PROVE  TypeOK'
  BY <1>12 DEF WriteRefused, ReadBack, ArmRelease
<1>13. ASSUME NEW p \in New, Fork(p)
       PROVE  TypeOK'
  BY <1>13 DEF Fork
<1>14. ASSUME NEW p \in New, RecordLake(p)
       PROVE  TypeOK'
  BY <1>14 DEF RecordLake
<1>15. ASSUME NEW p \in New, SpawnWatchdog(p)
       PROVE  TypeOK'
  BY <1>15 DEF SpawnWatchdog
<1>16. ASSUME NEW p \in New, Unwatch(p)
       PROVE  TypeOK'
  BY <1>16 DEF Unwatch
<1>17. ASSUME NEW p \in New, Waited(p)
       PROVE  TypeOK'
  BY <1>17 DEF Waited
<1>18. ASSUME NEW p \in New, RemoveMarker(p)
       PROVE  TypeOK'
  BY <1>18 DEF RemoveMarker
<1>19. ASSUME NEW p \in New, Exit(p)
       PROVE  TypeOK'
  BY <1>19 DEF Exit
<1>20. ASSUME NEW p \in New, Trapped(p)
       PROVE  TypeOK'
  BY <1>20 DEF Trapped
<1>21. ASSUME NEW p \in New, KillLake(p)
       PROVE  TypeOK'
  BY <1>21 DEF KillLake
<1>22. ASSUME NEW p \in New, Release(p)
       PROVE  TypeOK'
  BY <1>22 DEF Release
<1>23. ASSUME NEW p \in New, WatchdogKills(p)
       PROVE  TypeOK'
  BY <1>23 DEF WatchdogKills
<1>24. ASSUME NEW p \in New, Signal(p)
       PROVE  TypeOK'
  BY <1>24 DEF Signal
<1>25. ASSUME NEW p \in New, KernelDropsFlock(p)
       PROVE  TypeOK'
  BY <1>25 DEF KernelDropsFlock
<1>26. ASSUME NEW p \in New, Recycle(p)
       PROVE  TypeOK'
  BY <1>26 DEF Recycle
<1>27. ASSUME NEW p \in New, Kill(p)
       PROVE  TypeOK'
  BY <1>27 DEF Kill
<1>28. ASSUME NEW p \in Proc, LakeEnds(p)
       PROVE  TypeOK'
  BY <1>28 DEF LakeEnds
<1>29. ASSUME NEW p \in Old, OldMkdir(p)
       PROVE  TypeOK'
  BY <1>29 DEF OldMkdir, Unwritten, Marker
<1>30. ASSUME NEW p \in Old, OldWrite(p)
       PROVE  TypeOK'
  BY <1>30 DEF OldWrite, Marker
<1>31. ASSUME NEW p \in Old,
              OldJudge(p) \/ OldReap(p) \/ OldGivesUp(p) \/ OldBuilt(p)
              \/ OldRelease(p)
       PROVE  TypeOK'
  BY <1>31 DEF OldJudge, OldReap, OldGivesUp, OldBuilt, OldRelease
<1>32. CASE UNCHANGED vars
  BY <1>32 DEF vars
<1> QED
  BY <1>1, <1>2, <1>3, <1>4, <1>5, <1>6, <1>7, <1>8, <1>9, <1>10, <1>11,
   <1>12, <1>13, <1>14, <1>15, <1>16, <1>17, <1>18, <1>19, <1>20, <1>21,
   <1>22, <1>23, <1>24, <1>25, <1>26, <1>27, <1>28, <1>29, <1>30, <1>31,
   <1>32
     DEF Next, Script, Acquire, Contend, Publish, RunLake, Leave, Environment,
         OldScript

\* Every variable keeps a value of its kind: the type invariant of FleetLock.
THEOREM TypeCorrect == Spec => []TypeOK
<1>1. Init => TypeOK
  BY FleetAssumption DEF Init, TypeOK, Proc, NewPlaces, OldPlaces, Marker
<1> QED
  BY <1>1, TypeStep, PTL DEF Spec

---------------------------------------------------------------------------
(* Exclusion.  OneGuardedBuild is not inductive: that lake runs says       *)
(* nothing of the flock.  What every step keeps is that whoever is between *)
(* the flock and its release has it, and that the lake of a live run does. *)

RegionHolds == \A p \in New : pc[p] \in Region => flock = p

LakeHolds == \A p \in New : lake[p] /\ Alive(p) => flock = p

ExclusionInv == TypeOK /\ RegionHolds /\ LakeHolds

\* Every step keeps the holder of the flock the only one in the region.
LEMMA ExclusionStep == ExclusionInv /\ [Next]_vars => ExclusionInv'
<1> SUFFICES ASSUME ExclusionInv, [Next]_vars
             PROVE  RegionHolds' /\ LakeHolds'
  BY TypeStep DEF ExclusionInv
<1> USE FleetAssumption
    DEF ExclusionInv, RegionHolds, LakeHolds, TypeOK, Alive, At, OldAt, Proc,
        NewPlaces, OldPlaces, Region, MarkerLoop, Publishing, Holding, Leaving
<1>1. ASSUME NEW p \in New, FlockTaken(p)
      PROVE  RegionHolds' /\ LakeHolds'
  BY <1>1 DEF FlockTaken
<1>2. ASSUME NEW p \in New,
             OpenLock(p) \/ FlockTimeout(p) \/ FlockAbort(p)
      PROVE  RegionHolds' /\ LakeHolds'
  BY <1>2 DEF OpenLock, FlockTimeout, FlockAbort
<1>3. ASSUME NEW p \in New,
             MakeMarker(p) \/ MkdirFails(p) \/ Judge(p) \/
             ClaimMarker(p) \/ RenameFails(p) \/ MarkerGone(p) \/
             ReapRefused(p) \/ Reap(p) \/ SparedInClaim(p) \/
             PutBack(p) \/ Sleep(p) \/ MarkerTimeout(p)
      PROVE  RegionHolds' /\ LakeHolds'
  BY <1>3 DEF MakeMarker, MkdirFails, Judge, ClaimMarker, RenameFails,
              MarkerGone, ReapRefused, Reap, SparedInClaim, PutBack,
              Sleep, MarkerTimeout
<1>4. ASSUME NEW p \in New,
             WriteMarker(p) \/ WriteRefused(p) \/ ReadBack(p) \/
             Undo(p) \/ Stamp(p) \/ ArmRelease(p)
      PROVE  RegionHolds' /\ LakeHolds'
  BY <1>4 DEF WriteMarker, WriteRefused, ReadBack, Undo, Stamp, ArmRelease
<1>5. ASSUME NEW p \in New, Fork(p)
      PROVE  RegionHolds' /\ LakeHolds'
  BY <1>5 DEF Fork
<1>6. ASSUME NEW p \in New,
             RecordLake(p) \/ SpawnWatchdog(p) \/ Waited(p) \/
             Unwatch(p)
      PROVE  RegionHolds' /\ LakeHolds'
  BY <1>6 DEF RecordLake, SpawnWatchdog, Waited, Unwatch
<1>7. ASSUME NEW p \in New, Exit(p)
      PROVE  RegionHolds' /\ LakeHolds'
  BY <1>7 DEF Exit
<1>8. ASSUME NEW p \in New, Trapped(p)
      PROVE  RegionHolds' /\ LakeHolds'
  BY <1>8 DEF Trapped, Interruptible
<1>9. ASSUME NEW p \in New, KillLake(p)
      PROVE  RegionHolds' /\ LakeHolds'
  BY <1>9 DEF KillLake
<1>10. ASSUME NEW p \in New,
              Release(p) \/ RemoveMarker(p)
       PROVE  RegionHolds' /\ LakeHolds'
  BY <1>10 DEF Release, RemoveMarker
<1>11. ASSUME NEW p \in New, Signal(p)
       PROVE  RegionHolds' /\ LakeHolds'
  BY <1>11 DEF Signal, Interruptible
<1>12. ASSUME NEW p \in New, Kill(p)
       PROVE  RegionHolds' /\ LakeHolds'
  BY <1>12 DEF Kill
<1>13. ASSUME NEW p \in New, KernelDropsFlock(p)
       PROVE  RegionHolds' /\ LakeHolds'
  BY <1>13 DEF KernelDropsFlock
<1>14. ASSUME NEW p \in New,
              WatchdogKills(p) \/ Recycle(p)
       PROVE  RegionHolds' /\ LakeHolds'
  BY <1>14 DEF WatchdogKills, Recycle
<1>15. ASSUME NEW p \in Proc, LakeEnds(p)
       PROVE  RegionHolds' /\ LakeHolds'
  BY <1>15 DEF LakeEnds
<1>16. ASSUME NEW p \in Old,
              OldMkdir(p) \/ OldJudge(p) \/ OldReap(p) \/ OldGivesUp(p)
              \/ OldWrite(p) \/ OldBuilt(p) \/ OldRelease(p)
       PROVE  RegionHolds' /\ LakeHolds'
  BY <1>16 DEF OldMkdir, OldJudge, OldReap, OldGivesUp, OldWrite,
               OldBuilt, OldRelease
<1>17. CASE UNCHANGED vars
  BY <1>17 DEF vars
<1> QED
  BY <1>1, <1>2, <1>3, <1>4, <1>5, <1>6, <1>7, <1>8, <1>9, <1>10, <1>11,
   <1>12, <1>13, <1>14, <1>15, <1>16, <1>17
     DEF Next, Script, Acquire, Contend, Publish, RunLake, Leave, Environment,
         OldScript

\* One heavy job at a time among the wrappers of this file, however many
\* runs, fences, kills and old wrappers there are: the kernel's flock alone
\* carries the exclusion, the marker and the tickets are not needed for it.
THEOREM Exclusion == Spec => []OneGuardedBuild
<1>1. Init => ExclusionInv
  BY FleetAssumption
     DEF Init, ExclusionInv, TypeOK, RegionHolds, LakeHolds, Proc, NewPlaces,
         OldPlaces, Marker, Region, MarkerLoop, Publishing, Holding, Leaving
<1>2. ExclusionInv => OneGuardedBuild
  BY DEF ExclusionInv, LakeHolds, OneGuardedBuild
<1> QED
  BY <1>1, <1>2, ExclusionStep, PTL DEF Spec

---------------------------------------------------------------------------
(* The marker, when every wrapper is of this file.  Whoever has the flock  *)
(* is then the only one who can touch the marker, and the directory names  *)
(* it from the write on.  A marker or a claim that names a live wrapper    *)
(* names the holder, so a wrapper in the marker loop only ever judges the  *)
(* dead, and judges one live only when its pid was recycled.               *)

Named == {"readback", "stamp", "arm", "killlake"} \cup Holding

Unnamed == {"queue", "flock", "timedout", "write"} \cup MarkerLoop

HolderNamed ==
    \A p \in New :
        /\ pc[p] \in Named \cup {"write"} => marker # Absent
        /\ pc[p] \in Named => marker.pid = p

OwnerHolds ==
    /\ marker # Absent =>
         \A q \in New : marker.pid = q /\ Alive(q) => flock = q
    /\ \A p, q \in New :
         claim[p] # Absent /\ claim[p].pid = q /\ Alive(q) => flock = q

WaiterUnnamed ==
    \A p \in New : pc[p] \in Unnamed =>
        /\ marker # Absent => marker.pid # p
        /\ \A r \in New : claim[r] # Absent => claim[r].pid # p

Ghost(m) == m # Absent /\ m.pid \in reused /\ m.start = Nobody

LoopState ==
    \A p \in New :
        /\ pc[p] \in {"judge", "rename", "isdir"} /\ p \notin NoMkdir => marker # Absent
        /\ pc[p] \in {"rejudge", "putback"} => marker = Absent /\ claim[p] # Absent
        /\ pc[p] = "putback" => Ghost(claim[p])
        /\ pc[p] = "poll" /\ p \notin NoMkdir => Ghost(marker)

MarkerInv == HolderNamed /\ OwnerHolds /\ WaiterUnnamed /\ LoopState

\* The flock's holder keeps its marker.
LEMMA HolderNamedStep ==
    Old = {} /\ ExclusionInv /\ MarkerInv /\ [Next]_vars => HolderNamed'
<1> SUFFICES ASSUME Old = {}, ExclusionInv, MarkerInv, [Next]_vars
             PROVE  HolderNamed'
  OBVIOUS
<1> USE FleetAssumption, AbsentAssumption
    DEF ExclusionInv, RegionHolds, TypeOK, At, Proc, NewPlaces, Region, MarkerLoop,
        Publishing, Holding, Leaving, Named, Unnamed, Marker, Alive, MarkerInv, HolderNamed, LoopState
<1>1. ASSUME NEW p \in New,
             OpenLock(p) \/ FlockTaken(p) \/ FlockTimeout(p) \/
             FlockAbort(p)
      PROVE  HolderNamed'
  BY <1>1 DEF OpenLock, FlockTaken, FlockTimeout, FlockAbort
<1>2. ASSUME NEW p \in New, MakeMarker(p)
      PROVE  HolderNamed'
  BY <1>2 DEF MakeMarker, Unwritten
<1>3. ASSUME NEW p \in New, ClaimMarker(p)
      PROVE  HolderNamed'
  BY <1>3 DEF ClaimMarker
<1>4. ASSUME NEW p \in New, PutBack(p)
      PROVE  HolderNamed'
  BY <1>4 DEF PutBack
<1>5. ASSUME NEW p \in New,
             MkdirFails(p) \/ Judge(p) \/ RenameFails(p) \/
             MarkerGone(p) \/ ReapRefused(p) \/ Reap(p) \/
             SparedInClaim(p) \/ Sleep(p) \/ MarkerTimeout(p)
      PROVE  HolderNamed'
  BY <1>5 DEF MkdirFails, Judge, RenameFails, MarkerGone, ReapRefused,
              Reap, SparedInClaim, Sleep, MarkerTimeout
<1>6. ASSUME NEW p \in New, WriteMarker(p)
      PROVE  HolderNamed'
  BY <1>6 DEF WriteMarker
<1>7. ASSUME NEW p \in New, ReadBack(p)
      PROVE  HolderNamed'
  BY <1>7 DEF ReadBack
<1>8. ASSUME NEW p \in New, Undo(p)
      PROVE  HolderNamed'
  BY <1>8 DEF Undo, Unwritten
<1>9. ASSUME NEW p \in New, Stamp(p)
      PROVE  HolderNamed'
  BY <1>9 DEF Stamp
<1>10. ASSUME NEW p \in New,
              WriteRefused(p) \/ ArmRelease(p)
       PROVE  HolderNamed'
  BY <1>10 DEF WriteRefused, ArmRelease
<1>11. ASSUME NEW p \in New,
              Fork(p) \/ RecordLake(p) \/ SpawnWatchdog(p) \/ Waited(p)
              \/ Unwatch(p)
       PROVE  HolderNamed'
  BY <1>11 DEF Fork, RecordLake, SpawnWatchdog, Waited, Unwatch
<1>12. ASSUME NEW p \in New, RemoveMarker(p)
       PROVE  HolderNamed'
  BY <1>12 DEF RemoveMarker
<1>13. ASSUME NEW p \in New, Trapped(p)
       PROVE  HolderNamed'
  BY <1>13 DEF Trapped, Interruptible
<1>14. ASSUME NEW p \in New,
              Release(p) \/ Exit(p) \/ KillLake(p)
       PROVE  HolderNamed'
  BY <1>14 DEF Release, Exit, KillLake
<1>15. ASSUME NEW p \in New, Signal(p)
       PROVE  HolderNamed'
  BY <1>15 DEF Signal, Interruptible
<1>16. ASSUME NEW p \in New,
              WatchdogKills(p) \/ Kill(p) \/ KernelDropsFlock(p) \/
              Recycle(p)
       PROVE  HolderNamed'
  BY <1>16 DEF WatchdogKills, Kill, KernelDropsFlock, Recycle
<1>17. ASSUME NEW p \in Proc, LakeEnds(p)
       PROVE  HolderNamed'
  BY <1>17 DEF LakeEnds
<1>18. CASE UNCHANGED vars
  BY <1>18 DEF vars
<1> QED
  BY <1>1, <1>2, <1>3, <1>4, <1>5, <1>6, <1>7, <1>8, <1>9, <1>10, <1>11,
   <1>12, <1>13, <1>14, <1>15, <1>16, <1>17, <1>18
     DEF Next, Script, Acquire, Contend, Publish, RunLake, Leave, Environment

\* A live wrapper that is named holds the flock.
LEMMA OwnerHoldsStep ==
    Old = {} /\ ExclusionInv /\ MarkerInv /\ [Next]_vars => OwnerHolds'
<1> SUFFICES ASSUME Old = {}, ExclusionInv, MarkerInv, [Next]_vars
             PROVE  OwnerHolds'
  OBVIOUS
<1> USE FleetAssumption, AbsentAssumption
    DEF ExclusionInv, RegionHolds, TypeOK, At, Proc, NewPlaces, Region, MarkerLoop,
        Publishing, Holding, Leaving, Named, Unnamed, Marker, Alive, MarkerInv, OwnerHolds, HolderNamed
<1>1. ASSUME NEW p \in New, FlockTaken(p)
      PROVE  OwnerHolds'
  BY <1>1 DEF FlockTaken
<1>2. ASSUME NEW p \in New,
             OpenLock(p) \/ FlockTimeout(p) \/ FlockAbort(p)
      PROVE  OwnerHolds'
  BY <1>2 DEF OpenLock, FlockTimeout, FlockAbort
<1>3. ASSUME NEW p \in New, MakeMarker(p)
      PROVE  OwnerHolds'
  BY <1>3 DEF MakeMarker, Unwritten
<1>4. ASSUME NEW p \in New, ClaimMarker(p)
      PROVE  OwnerHolds'
  BY <1>4 DEF ClaimMarker
<1>5. ASSUME NEW p \in New, PutBack(p)
      PROVE  OwnerHolds'
  BY <1>5 DEF PutBack
<1>6. ASSUME NEW p \in New,
             MkdirFails(p) \/ Judge(p) \/ RenameFails(p) \/
             MarkerGone(p) \/ ReapRefused(p) \/ Reap(p) \/
             SparedInClaim(p) \/ Sleep(p) \/ MarkerTimeout(p)
      PROVE  OwnerHolds'
  BY <1>6 DEF MkdirFails, Judge, RenameFails, MarkerGone, ReapRefused,
              Reap, SparedInClaim, Sleep, MarkerTimeout
<1>7. ASSUME NEW p \in New, WriteMarker(p)
      PROVE  OwnerHolds'
  BY <1>7 DEF WriteMarker
<1>8. ASSUME NEW p \in New, Undo(p)
      PROVE  OwnerHolds'
  BY <1>8 DEF Undo, Unwritten
<1>9. ASSUME NEW p \in New, Stamp(p)
      PROVE  OwnerHolds'
  BY <1>9 DEF Stamp
<1>10. ASSUME NEW p \in New,
              WriteRefused(p) \/ ReadBack(p) \/ ArmRelease(p)
       PROVE  OwnerHolds'
  BY <1>10 DEF WriteRefused, ReadBack, ArmRelease
<1>11. ASSUME NEW p \in New,
              Fork(p) \/ RecordLake(p) \/ SpawnWatchdog(p) \/ Waited(p)
              \/ Unwatch(p)
       PROVE  OwnerHolds'
  BY <1>11 DEF Fork, RecordLake, SpawnWatchdog, Waited, Unwatch
<1>12. ASSUME NEW p \in New, Exit(p)
       PROVE  OwnerHolds'
  BY <1>12 DEF Exit
<1>13. ASSUME NEW p \in New, Trapped(p)
       PROVE  OwnerHolds'
  BY <1>13 DEF Trapped, Interruptible
<1>14. ASSUME NEW p \in New,
              Release(p) \/ RemoveMarker(p) \/ KillLake(p)
       PROVE  OwnerHolds'
  BY <1>14 DEF Release, RemoveMarker, KillLake
<1>15. ASSUME NEW p \in New, Signal(p)
       PROVE  OwnerHolds'
  BY <1>15 DEF Signal, Interruptible
<1>16. ASSUME NEW p \in New, KernelDropsFlock(p)
       PROVE  OwnerHolds'
  BY <1>16 DEF KernelDropsFlock
<1>17. ASSUME NEW p \in New,
              WatchdogKills(p) \/ Kill(p) \/ Recycle(p)
       PROVE  OwnerHolds'
  BY <1>17 DEF WatchdogKills, Kill, Recycle
<1>18. ASSUME NEW p \in Proc, LakeEnds(p)
       PROVE  OwnerHolds'
  BY <1>18 DEF LakeEnds
<1>19. CASE UNCHANGED vars
  BY <1>19 DEF vars
<1> QED
  BY <1>1, <1>2, <1>3, <1>4, <1>5, <1>6, <1>7, <1>8, <1>9, <1>10, <1>11,
   <1>12, <1>13, <1>14, <1>15, <1>16, <1>17, <1>18, <1>19
     DEF Next, Script, Acquire, Contend, Publish, RunLake, Leave, Environment

\* A wrapper is named only once it has written the marker.
LEMMA WaiterUnnamedStep ==
    Old = {} /\ ExclusionInv /\ MarkerInv /\ [Next]_vars => WaiterUnnamed'
<1> SUFFICES ASSUME Old = {}, ExclusionInv, MarkerInv, [Next]_vars
             PROVE  WaiterUnnamed'
  OBVIOUS
<1> USE FleetAssumption, AbsentAssumption
    DEF ExclusionInv, RegionHolds, TypeOK, At, Proc, NewPlaces, Region, MarkerLoop,
        Publishing, Holding, Leaving, Named, Unnamed, Marker, Alive, MarkerInv, WaiterUnnamed
<1>1. ASSUME NEW p \in New,
             OpenLock(p) \/ FlockTaken(p) \/ FlockTimeout(p) \/
             FlockAbort(p)
      PROVE  WaiterUnnamed'
  BY <1>1 DEF OpenLock, FlockTaken, FlockTimeout, FlockAbort
<1>2. ASSUME NEW p \in New, MakeMarker(p)
      PROVE  WaiterUnnamed'
  BY <1>2 DEF MakeMarker, Unwritten
<1>3. ASSUME NEW p \in New, ClaimMarker(p)
      PROVE  WaiterUnnamed'
  BY <1>3 DEF ClaimMarker
<1>4. ASSUME NEW p \in New, PutBack(p)
      PROVE  WaiterUnnamed'
  BY <1>4 DEF PutBack
<1>5. ASSUME NEW p \in New,
             MkdirFails(p) \/ Judge(p) \/ RenameFails(p) \/
             MarkerGone(p) \/ ReapRefused(p) \/ Reap(p) \/
             SparedInClaim(p) \/ Sleep(p) \/ MarkerTimeout(p)
      PROVE  WaiterUnnamed'
  BY <1>5 DEF MkdirFails, Judge, RenameFails, MarkerGone, ReapRefused,
              Reap, SparedInClaim, Sleep, MarkerTimeout
<1>6. ASSUME NEW p \in New, WriteMarker(p)
      PROVE  WaiterUnnamed'
  BY <1>6 DEF WriteMarker
<1>7. ASSUME NEW p \in New, Undo(p)
      PROVE  WaiterUnnamed'
  BY <1>7 DEF Undo, Unwritten
<1>8. ASSUME NEW p \in New, Stamp(p)
      PROVE  WaiterUnnamed'
  BY <1>8 DEF Stamp
<1>9. ASSUME NEW p \in New,
             WriteRefused(p) \/ ReadBack(p) \/ ArmRelease(p)
      PROVE  WaiterUnnamed'
  BY <1>9 DEF WriteRefused, ReadBack, ArmRelease
<1>10. ASSUME NEW p \in New,
              Fork(p) \/ RecordLake(p) \/ SpawnWatchdog(p) \/ Waited(p)
              \/ Unwatch(p)
       PROVE  WaiterUnnamed'
  BY <1>10 DEF Fork, RecordLake, SpawnWatchdog, Waited, Unwatch
<1>11. ASSUME NEW p \in New, Trapped(p)
       PROVE  WaiterUnnamed'
  BY <1>11 DEF Trapped, Interruptible
<1>12. ASSUME NEW p \in New,
              Release(p) \/ RemoveMarker(p) \/ Exit(p) \/ KillLake(p)
       PROVE  WaiterUnnamed'
  BY <1>12 DEF Release, RemoveMarker, Exit, KillLake
<1>13. ASSUME NEW p \in New, Signal(p)
       PROVE  WaiterUnnamed'
  BY <1>13 DEF Signal, Interruptible
<1>14. ASSUME NEW p \in New,
              WatchdogKills(p) \/ Kill(p) \/ KernelDropsFlock(p) \/
              Recycle(p)
       PROVE  WaiterUnnamed'
  BY <1>14 DEF WatchdogKills, Kill, KernelDropsFlock, Recycle
<1>15. ASSUME NEW p \in Proc, LakeEnds(p)
       PROVE  WaiterUnnamed'
  BY <1>15 DEF LakeEnds
<1>16. CASE UNCHANGED vars
  BY <1>16 DEF vars
<1> QED
  BY <1>1, <1>2, <1>3, <1>4, <1>5, <1>6, <1>7, <1>8, <1>9, <1>10, <1>11,
   <1>12, <1>13, <1>14, <1>15, <1>16
     DEF Next, Script, Acquire, Contend, Publish, RunLake, Leave, Environment

\* The marker loop meets only the dead.
LEMMA LoopStateStep ==
    Old = {} /\ ExclusionInv /\ MarkerInv /\ [Next]_vars => LoopState'
<1> SUFFICES ASSUME Old = {}, ExclusionInv, MarkerInv, [Next]_vars
             PROVE  LoopState'
  OBVIOUS
<1> USE FleetAssumption, AbsentAssumption
    DEF ExclusionInv, RegionHolds, TypeOK, At, Proc, NewPlaces, Region, MarkerLoop,
        Publishing, Holding, Leaving, Named, Unnamed, Marker, Alive, MarkerInv, LoopState, OwnerHolds, WaiterUnnamed, Ghost
<1>1. ASSUME NEW p \in New,
             OpenLock(p) \/ FlockTaken(p) \/ FlockTimeout(p) \/
             FlockAbort(p)
      PROVE  LoopState'
  BY <1>1 DEF OpenLock, FlockTaken, FlockTimeout, FlockAbort
<1>2. ASSUME NEW p \in New, MakeMarker(p)
      PROVE  LoopState'
  BY <1>2 DEF MakeMarker, Unwritten
<1>3. ASSUME NEW p \in New, MkdirFails(p)
      PROVE  LoopState'
  BY <1>3 DEF MkdirFails
<1>4. ASSUME NEW p \in New, Judge(p)
      PROVE  LoopState'
  BY <1>4 DEF Judge, HolderLive, Answers
<1>5. ASSUME NEW p \in New, ClaimMarker(p)
      PROVE  LoopState'
  BY <1>5 DEF ClaimMarker
<1>6. ASSUME NEW p \in New, RenameFails(p)
      PROVE  LoopState'
  BY <1>6 DEF RenameFails
<1>7. ASSUME NEW p \in New, MarkerGone(p)
      PROVE  LoopState'
  BY <1>7 DEF MarkerGone
<1>8. ASSUME NEW p \in New, Reap(p)
      PROVE  LoopState'
  BY <1>8 DEF Reap
<1>9. ASSUME NEW p \in New, SparedInClaim(p)
      PROVE  LoopState'
  BY <1>9 DEF SparedInClaim, HolderLive, Answers
<1>10. ASSUME NEW p \in New, PutBack(p)
       PROVE  LoopState'
  BY <1>10 DEF PutBack
<1>11. ASSUME NEW p \in New,
              ReapRefused(p) \/ Sleep(p) \/ MarkerTimeout(p)
       PROVE  LoopState'
  BY <1>11 DEF ReapRefused, Sleep, MarkerTimeout
<1>12. ASSUME NEW p \in New, WriteMarker(p)
       PROVE  LoopState'
  BY <1>12 DEF WriteMarker
<1>13. ASSUME NEW p \in New, Undo(p)
       PROVE  LoopState'
  BY <1>13 DEF Undo, Unwritten
<1>14. ASSUME NEW p \in New, Stamp(p)
       PROVE  LoopState'
  BY <1>14 DEF Stamp
<1>15. ASSUME NEW p \in New,
              WriteRefused(p) \/ ReadBack(p) \/ ArmRelease(p)
       PROVE  LoopState'
  BY <1>15 DEF WriteRefused, ReadBack, ArmRelease
<1>16. ASSUME NEW p \in New,
              Fork(p) \/ RecordLake(p) \/ SpawnWatchdog(p) \/ Waited(p)
              \/ Unwatch(p)
       PROVE  LoopState'
  BY <1>16 DEF Fork, RecordLake, SpawnWatchdog, Waited, Unwatch
<1>17. ASSUME NEW p \in New, RemoveMarker(p)
       PROVE  LoopState'
  BY <1>17 DEF RemoveMarker
<1>18. ASSUME NEW p \in New, Trapped(p)
       PROVE  LoopState'
  BY <1>18 DEF Trapped, Interruptible
<1>19. ASSUME NEW p \in New,
              Release(p) \/ Exit(p) \/ KillLake(p)
       PROVE  LoopState'
  BY <1>19 DEF Release, Exit, KillLake
<1>20. ASSUME NEW p \in New, Signal(p)
       PROVE  LoopState'
  BY <1>20 DEF Signal, Interruptible
<1>21. ASSUME NEW p \in New, Recycle(p)
       PROVE  LoopState'
  BY <1>21 DEF Recycle
<1>22. ASSUME NEW p \in New,
              WatchdogKills(p) \/ Kill(p) \/ KernelDropsFlock(p)
       PROVE  LoopState'
  BY <1>22 DEF WatchdogKills, Kill, KernelDropsFlock
<1>23. ASSUME NEW p \in Proc, LakeEnds(p)
       PROVE  LoopState'
  BY <1>23 DEF LakeEnds
<1>24. CASE UNCHANGED vars
  BY <1>24 DEF vars
<1> QED
  BY <1>1, <1>2, <1>3, <1>4, <1>5, <1>6, <1>7, <1>8, <1>9, <1>10, <1>11,
   <1>12, <1>13, <1>14, <1>15, <1>16, <1>17, <1>18, <1>19, <1>20, <1>21,
   <1>22, <1>23, <1>24
     DEF Next, Script, Acquire, Contend, Publish, RunLake, Leave, Environment

\* The three invariants together.
FullInv == ExclusionInv /\ (Old = {} => MarkerInv)

\* The invariants hold at the start.
LEMMA FullInvInit == Init => FullInv
<1> SUFFICES ASSUME Init PROVE FullInv
  OBVIOUS
<1>1. ExclusionInv
  BY FleetAssumption
     DEF Init, ExclusionInv, TypeOK, RegionHolds, LakeHolds, Proc, NewPlaces,
         OldPlaces, Marker, Region, MarkerLoop, Publishing, Holding, Leaving
<1>2. MarkerInv
  BY FleetAssumption
     DEF Init, MarkerInv, HolderNamed, OwnerHolds, WaiterUnnamed, LoopState, Proc,
         Named, Unnamed, Holding, MarkerLoop
<1> QED
  BY <1>1, <1>2 DEF FullInv

\* Every step keeps them.
LEMMA FullInvStep == FullInv /\ [Next]_vars => FullInv'
<1> SUFFICES ASSUME FullInv, [Next]_vars
             PROVE  FullInv'
  OBVIOUS
<1>1. ExclusionInv'
  BY ExclusionStep DEF FullInv
<1>2. ASSUME Old = {}
      PROVE  MarkerInv'
  <2>1. ExclusionInv /\ MarkerInv
    BY <1>2 DEF FullInv
  <2>2. HolderNamed'
    BY <1>2, <2>1, HolderNamedStep
  <2>3. OwnerHolds'
    BY <1>2, <2>1, OwnerHoldsStep
  <2>4. WaiterUnnamed'
    BY <1>2, <2>1, WaiterUnnamedStep
  <2>5. LoopState'
    BY <1>2, <2>1, LoopStateStep
  <2> QED
    BY <2>2, <2>3, <2>4, <2>5 DEF MarkerInv
<1> QED
  BY <1>1, <1>2 DEF FullInv

\* With every wrapper of this file, a build's marker is there and names it.
THEOREM MarkerIsTrue == Spec => []MarkerNamesBuild
<1>1. FullInv => MarkerNamesBuild
  BY DEF FullInv, MarkerInv, HolderNamed, MarkerNamesBuild, Named
<1> QED
  BY <1>1, FullInvInit, FullInvStep, PTL DEF Spec

\* With every wrapper of this file, nobody sleeps on a corpse with the flock
\* in hand, unless its sandbox refuses even the mkdir.
THEOREM CorpseNeverHoldsFleet == Spec => []NoSleepOnCorpse
<1>1. FullInv => NoSleepOnCorpse
  BY DEF FullInv, MarkerInv, LoopState, Ghost, NoSleepOnCorpse
<1> QED
  BY <1>1, FullInvInit, FullInvStep, PTL DEF Spec

---------------------------------------------------------------------------
(* The log.  A run that no signal cut short leaves by RemoveMarker, which  *)
(* logs, or by a refusal or time-out, which do.  That Release finds the    *)
(* marker still naming the run is what HolderNamed says of the step before *)
(* and the flock keeps until then.                                         *)

LogKept ==
    \A p \in New :
        /\ pc[p] \in {"exit", "done"} /\ sig[p] = "none" => log[p] \in {"RELEASED", "WAIT-ABORT"}
        /\ pc[p] = "killlake" => sig[p] = "taken"
        /\ pc[p] = "release" /\ sig[p] = "none" => marker # Absent /\ marker.pid = p

\* Every step keeps the log true of those that have left or are leaving.
LEMMA LogKeptStep ==
    ASSUME Old = {}, ExclusionInv, HolderNamed, LogKept, [Next]_vars
    PROVE  LogKept'
<1> USE FleetAssumption, AbsentAssumption
    DEF ExclusionInv, RegionHolds, LogKept, TypeOK, At, Proc, NewPlaces, OldPlaces,
        Region, MarkerLoop, Publishing, Holding, Leaving
<1>1. ASSUME NEW p \in New, OpenLock(p) \/ FlockTaken(p) \/ FlockTimeout(p)
      PROVE  LogKept'
  BY <1>1 DEF OpenLock, FlockTaken, FlockTimeout
<1>2. ASSUME NEW p \in New, FlockAbort(p) \/ ReapRefused(p) \/ MarkerTimeout(p)
      PROVE  LogKept'
  BY <1>2 DEF FlockAbort, ReapRefused, MarkerTimeout
<1>3. ASSUME NEW p \in New, MakeMarker(p)
      PROVE  LogKept'
  BY <1>3 DEF MakeMarker
<1>4. ASSUME NEW p \in New, ClaimMarker(p)
      PROVE  LogKept'
  BY <1>4 DEF ClaimMarker
<1>5. ASSUME NEW p \in New, PutBack(p)
      PROVE  LogKept'
  BY <1>5 DEF PutBack
<1>6. ASSUME NEW p \in New,
             MkdirFails(p) \/ Judge(p) \/ RenameFails(p) \/ MarkerGone(p) \/
             Reap(p) \/ SparedInClaim(p) \/ Sleep(p)
      PROVE  LogKept'
  BY <1>6 DEF MkdirFails, Judge, RenameFails, MarkerGone, Reap, SparedInClaim, Sleep
<1>7. ASSUME NEW p \in New, WriteMarker(p)
      PROVE  LogKept'
  BY <1>7 DEF WriteMarker
<1>8. ASSUME NEW p \in New, Undo(p)
      PROVE  LogKept'
  BY <1>8 DEF Undo
<1>9. ASSUME NEW p \in New, Stamp(p)
      PROVE  LogKept'
  BY <1>9 DEF Stamp
<1>10. ASSUME NEW p \in New, WriteRefused(p) \/ ReadBack(p) \/ ArmRelease(p)
       PROVE  LogKept'
  BY <1>10 DEF WriteRefused, ReadBack, ArmRelease
<1>11. ASSUME NEW p \in New, Fork(p) \/ RecordLake(p) \/ SpawnWatchdog(p) \/ Waited(p)
       PROVE  LogKept'
  BY <1>11 DEF Fork, RecordLake, SpawnWatchdog, Waited
<1>12. ASSUME NEW p \in New, Unwatch(p)
       PROVE  LogKept'
  <2>1. marker # Absent /\ marker.pid = p
    BY <1>12 DEF Unwatch, HolderNamed, Named
  <2> QED
    BY <1>12, <2>1 DEF Unwatch
<1>13. ASSUME NEW p \in New, Release(p)
       PROVE  LogKept'
  BY <1>13 DEF Release
<1>14. ASSUME NEW p \in New, RemoveMarker(p)
       PROVE  LogKept'
  BY <1>14 DEF RemoveMarker
<1>15. ASSUME NEW p \in New, Exit(p)
       PROVE  LogKept'
  BY <1>15 DEF Exit
<1>16. ASSUME NEW p \in New, Trapped(p)
       PROVE  LogKept'
  BY <1>16 DEF Trapped, Interruptible
<1>17. ASSUME NEW p \in New, KillLake(p)
       PROVE  LogKept'
  BY <1>17 DEF KillLake
<1>18. ASSUME NEW p \in New, Signal(p)
       PROVE  LogKept'
  BY <1>18 DEF Signal, Interruptible
<1>19. ASSUME NEW p \in New,
              LakeEnds(p) \/ WatchdogKills(p) \/ Kill(p) \/ KernelDropsFlock(p) \/ Recycle(p)
       PROVE  LogKept'
  BY <1>19 DEF LakeEnds, WatchdogKills, Kill, KernelDropsFlock, Recycle
<1>20. CASE UNCHANGED vars
  BY <1>20 DEF vars
<1> QED
  BY <1>1, <1>2, <1>3, <1>4, <1>5, <1>6, <1>7, <1>8, <1>9, <1>10, <1>11, <1>12,
     <1>13, <1>14, <1>15, <1>16, <1>17, <1>18, <1>19, <1>20
     DEF Next, Script, Acquire, Contend, Publish, RunLake, Leave, Environment

\* With every wrapper of this file, a run that ends by itself has logged how:
\* RELEASED or WAIT-ABORT, whatever fence or time-out made it leave.
THEOREM EndsAreLogged == Spec => []EveryEndIsLogged
<1> DEFINE LogInv == FullInv /\ (Old = {} => LogKept)
<1>1. Init => LogInv
  <2>1. Init => LogKept
    BY FleetAssumption DEF Init, LogKept, Proc
  <2> QED
    BY <2>1, FullInvInit
<1>2. LogInv /\ [Next]_vars => LogInv'
  <2> SUFFICES ASSUME LogInv, [Next]_vars
               PROVE  FullInv' /\ (Old = {} => LogKept')
    OBVIOUS
  <2>1. FullInv'
    BY FullInvStep
  <2>2. ASSUME Old = {}
        PROVE  LogKept'
    BY <2>2, LogKeptStep DEF FullInv, MarkerInv
  <2> QED
    BY <2>1, <2>2
<1>3. LogInv => EveryEndIsLogged
  BY DEF LogKept, EveryEndIsLogged
<1> QED
  BY <1>1, <1>2, <1>3, PTL DEF Spec

---------------------------------------------------------------------------
(* Signals and the abstract lock.                                          *)

\* No wrapper starts lake after it was sent INT or TERM, whenever the signal
\* arrived and whatever it interrupted.
THEOREM CancelledStaysCancelled == Spec => SignalledNeverBuilds
<1> DEFINE Unsignalled == \A p \in New : sig[p] = "taken" =>
               pc[p] \in {"killlake", "release", "rmmarker", "exit", "done", "killed"}
<1> DEFINE Inv == TypeOK /\ Unsignalled
<1>1. Init => Inv
  BY FleetAssumption
     DEF Init, TypeOK, Proc, NewPlaces, OldPlaces, Marker
<1>2. Inv /\ [Next]_vars => Inv'
  <2> SUFFICES ASSUME Inv, [Next]_vars
               PROVE  Unsignalled'
    BY TypeStep
  <2> USE FleetAssumption DEF TypeOK, At, OldAt, Proc
  <2>1. ASSUME NEW p \in New, OpenLock(p)
        PROVE  Unsignalled'
    BY <2>1 DEF OpenLock
  <2>2. ASSUME NEW p \in New,
               FlockTaken(p) \/ FlockTimeout(p) \/ FlockAbort(p)
        PROVE  Unsignalled'
    BY <2>2 DEF FlockTaken, FlockTimeout, FlockAbort
  <2>3. ASSUME NEW p \in New,
               MakeMarker(p) \/ MkdirFails(p) \/ Judge(p) \/
               ClaimMarker(p) \/ RenameFails(p) \/ MarkerGone(p) \/
               ReapRefused(p) \/ Reap(p) \/ SparedInClaim(p) \/
               PutBack(p) \/ Sleep(p) \/ MarkerTimeout(p)
        PROVE  Unsignalled'
    BY <2>3 DEF MakeMarker, MkdirFails, Judge, ClaimMarker, RenameFails,
                MarkerGone, ReapRefused, Reap, SparedInClaim, PutBack,
                Sleep, MarkerTimeout
  <2>4. ASSUME NEW p \in New,
               WriteMarker(p) \/ WriteRefused(p) \/ ReadBack(p) \/
               Undo(p) \/ Stamp(p) \/ ArmRelease(p)
        PROVE  Unsignalled'
    BY <2>4 DEF WriteMarker, WriteRefused, ReadBack, Undo, Stamp, ArmRelease
  <2>5. ASSUME NEW p \in New, Fork(p)
        PROVE  Unsignalled'
    BY <2>5 DEF Fork
  <2>6. ASSUME NEW p \in New,
               RecordLake(p) \/ SpawnWatchdog(p) \/ Waited(p) \/
               Unwatch(p)
        PROVE  Unsignalled'
    BY <2>6 DEF RecordLake, SpawnWatchdog, Waited, Unwatch
  <2>7. ASSUME NEW p \in New, Trapped(p)
        PROVE  Unsignalled'
    BY <2>7 DEF Trapped, Interruptible, NewPlaces, Holding, Leaving
  <2>8. ASSUME NEW p \in New,
               Release(p) \/ RemoveMarker(p) \/ Exit(p) \/ KillLake(p)
        PROVE  Unsignalled'
    BY <2>8 DEF Release, RemoveMarker, Exit, KillLake
  <2>9. ASSUME NEW p \in New, Signal(p)
        PROVE  Unsignalled'
    BY <2>9 DEF Signal, Interruptible, NewPlaces, Leaving
  <2>10. ASSUME NEW p \in New,
                WatchdogKills(p) \/ Kill(p) \/ KernelDropsFlock(p) \/
                Recycle(p)
         PROVE  Unsignalled'
    BY <2>10 DEF WatchdogKills, Kill, KernelDropsFlock, Recycle
  <2>11. ASSUME NEW p \in Proc, LakeEnds(p)
         PROVE  Unsignalled'
    BY <2>11 DEF LakeEnds
  <2>12. ASSUME NEW p \in Old,
                OldMkdir(p) \/ OldJudge(p) \/ OldReap(p) \/ OldGivesUp(p)
                \/ OldWrite(p) \/ OldBuilt(p) \/ OldRelease(p)
         PROVE  Unsignalled'
    BY <2>12 DEF OldMkdir, OldJudge, OldReap, OldGivesUp, OldWrite,
                 OldBuilt, OldRelease
  <2>13. CASE UNCHANGED vars
    BY <2>13 DEF vars
  <2> QED
    BY <2>1, <2>2, <2>3, <2>4, <2>5, <2>6, <2>7, <2>8, <2>9, <2>10, <2>11,
       <2>12, <2>13
       DEF Next, Script, Acquire, Contend, Publish, RunLake, Leave, Environment,
           OldScript
<1>3. Inv /\ [Next]_vars =>
        [\A p \in New : lake'[p] /\ ~lake[p] => sig[p] = "none"]_vars
  <2> SUFFICES ASSUME Inv, [Next]_vars, NEW q \in New, lake'[q], ~lake[q]
               PROVE  sig[q] = "none"
    OBVIOUS
  <2> USE FleetAssumption DEF TypeOK, At, OldAt, Proc
  <2>1. ASSUME NEW p \in New,
               OpenLock(p) \/ FlockTaken(p) \/ FlockTimeout(p) \/
               FlockAbort(p)
        PROVE  sig[q] = "none"
    BY <2>1 DEF OpenLock, FlockTaken, FlockTimeout, FlockAbort
  <2>2. ASSUME NEW p \in New,
               MakeMarker(p) \/ MkdirFails(p) \/ Judge(p) \/
               ClaimMarker(p) \/ RenameFails(p) \/ MarkerGone(p) \/
               ReapRefused(p) \/ Reap(p) \/ SparedInClaim(p) \/
               PutBack(p) \/ Sleep(p) \/ MarkerTimeout(p)
        PROVE  sig[q] = "none"
    BY <2>2 DEF MakeMarker, MkdirFails, Judge, ClaimMarker, RenameFails,
                MarkerGone, ReapRefused, Reap, SparedInClaim, PutBack,
                Sleep, MarkerTimeout
  <2>3. ASSUME NEW p \in New,
               WriteMarker(p) \/ WriteRefused(p) \/ ReadBack(p) \/
               Undo(p) \/ Stamp(p) \/ ArmRelease(p)
        PROVE  sig[q] = "none"
    BY <2>3 DEF WriteMarker, WriteRefused, ReadBack, Undo, Stamp, ArmRelease
  <2>4. ASSUME NEW p \in New, Fork(p)
        PROVE  sig[q] = "none"
    BY <2>4 DEF Fork
  <2>5. ASSUME NEW p \in New,
               RecordLake(p) \/ SpawnWatchdog(p) \/ Waited(p) \/
               Unwatch(p)
        PROVE  sig[q] = "none"
    BY <2>5 DEF RecordLake, SpawnWatchdog, Waited, Unwatch
  <2>6. ASSUME NEW p \in New,
               Release(p) \/ RemoveMarker(p) \/ Exit(p) \/ Trapped(p) \/
               KillLake(p)
        PROVE  sig[q] = "none"
    BY <2>6 DEF Release, RemoveMarker, Exit, Trapped, KillLake
  <2>7. ASSUME NEW p \in New,
               WatchdogKills(p) \/ Signal(p) \/ Kill(p) \/
               KernelDropsFlock(p) \/ Recycle(p)
        PROVE  sig[q] = "none"
    BY <2>7 DEF WatchdogKills, Signal, Kill, KernelDropsFlock, Recycle
  <2>8. ASSUME NEW p \in Proc, LakeEnds(p)
        PROVE  sig[q] = "none"
    BY <2>8 DEF LakeEnds
  <2>9. ASSUME NEW p \in Old, OldWrite(p)
        PROVE  sig[q] = "none"
    BY <2>9 DEF OldWrite
  <2>10. ASSUME NEW p \in Old,
                OldMkdir(p) \/ OldJudge(p) \/ OldReap(p) \/ OldGivesUp(p)
                \/ OldBuilt(p) \/ OldRelease(p)
         PROVE  sig[q] = "none"
    BY <2>10 DEF OldMkdir, OldJudge, OldReap, OldGivesUp, OldBuilt,
                 OldRelease
  <2>11. CASE UNCHANGED vars
    BY <2>11 DEF vars
  <2> QED
    BY <2>1, <2>2, <2>3, <2>4, <2>5, <2>6, <2>7, <2>8, <2>9, <2>10, <2>11
       DEF Next, Script, Acquire, Contend, Publish, RunLake, Leave, Environment,
           OldScript
<1> QED
  BY <1>1, <1>2, <1>3, PTL DEF Spec, SignalledNeverBuilds

\* A step of the wrapper is a step of the abstract lock or leaves it alone.
LEMMA ImplementationStep == ExclusionInv /\ [Next]_vars => [Abs!Next]_(Abs!vars)
<1> SUFFICES ASSUME ExclusionInv, [Next]_vars
             PROVE  [Abs!Next]_(Abs!vars)
  OBVIOUS
<1> USE FleetAssumption
    DEF ExclusionInv, RegionHolds, LakeHolds, TypeOK, Alive, At, OldAt, Proc,
        NewPlaces, OldPlaces, Region, MarkerLoop, Publishing, Holding, Leaving,
        Abs!vars
<1>1. ASSUME NEW p \in New, FlockTaken(p)
      PROVE  [Abs!Next]_(Abs!vars)
  BY <1>1 DEF FlockTaken, Abs!Next, Abs!Take
<1>2. ASSUME NEW p \in New,
             OpenLock(p) \/ FlockTimeout(p) \/ FlockAbort(p)
      PROVE  [Abs!Next]_(Abs!vars)
  BY <1>2 DEF OpenLock, FlockTimeout, FlockAbort
<1>3. ASSUME NEW p \in New,
             MakeMarker(p) \/ MkdirFails(p) \/ Judge(p) \/
             ClaimMarker(p) \/ RenameFails(p) \/ MarkerGone(p) \/
             ReapRefused(p) \/ Reap(p) \/ SparedInClaim(p) \/
             PutBack(p) \/ Sleep(p) \/ MarkerTimeout(p)
      PROVE  [Abs!Next]_(Abs!vars)
  BY <1>3 DEF MakeMarker, MkdirFails, Judge, ClaimMarker, RenameFails,
              MarkerGone, ReapRefused, Reap, SparedInClaim, PutBack,
              Sleep, MarkerTimeout
<1>4. ASSUME NEW p \in New,
             WriteMarker(p) \/ WriteRefused(p) \/ ReadBack(p) \/
             Undo(p) \/ Stamp(p) \/ ArmRelease(p)
      PROVE  [Abs!Next]_(Abs!vars)
  BY <1>4 DEF WriteMarker, WriteRefused, ReadBack, Undo, Stamp, ArmRelease
<1>5. ASSUME NEW p \in New, Fork(p)
      PROVE  [Abs!Next]_(Abs!vars)
  BY <1>5 DEF Fork, Abs!Next, Abs!Start
<1>6. ASSUME NEW p \in New,
             RecordLake(p) \/ SpawnWatchdog(p) \/ Waited(p) \/
             Unwatch(p)
      PROVE  [Abs!Next]_(Abs!vars)
  BY <1>6 DEF RecordLake, SpawnWatchdog, Waited, Unwatch
<1>7. ASSUME NEW p \in New, Exit(p)
      PROVE  [Abs!Next]_(Abs!vars)
  BY <1>7 DEF Exit, Abs!Next, Abs!End
<1>8. ASSUME NEW p \in New, Trapped(p)
      PROVE  [Abs!Next]_(Abs!vars)
  BY <1>8 DEF Trapped, Interruptible
<1>9. ASSUME NEW p \in New, KillLake(p)
      PROVE  [Abs!Next]_(Abs!vars)
  BY <1>9 DEF KillLake, Abs!Next, Abs!Stop
<1>10. ASSUME NEW p \in New,
              Release(p) \/ RemoveMarker(p)
       PROVE  [Abs!Next]_(Abs!vars)
  BY <1>10 DEF Release, RemoveMarker
<1>11. ASSUME NEW p \in New, WatchdogKills(p)
       PROVE  [Abs!Next]_(Abs!vars)
  BY <1>11 DEF WatchdogKills, Abs!Next, Abs!Stop
<1>12. ASSUME NEW p \in New, Signal(p)
       PROVE  [Abs!Next]_(Abs!vars)
  BY <1>12 DEF Signal, Interruptible
<1>13. ASSUME NEW p \in New, Kill(p)
       PROVE  [Abs!Next]_(Abs!vars)
  BY <1>13 DEF Kill, Abs!Next, Abs!End
<1>14. ASSUME NEW p \in New, KernelDropsFlock(p)
       PROVE  [Abs!Next]_(Abs!vars)
  BY <1>14 DEF KernelDropsFlock, Abs!Next, Abs!Reclaim
<1>15. ASSUME NEW p \in New, Recycle(p)
       PROVE  [Abs!Next]_(Abs!vars)
  BY <1>15 DEF Recycle
<1>16. ASSUME NEW p \in Proc, LakeEnds(p)
       PROVE  [Abs!Next]_(Abs!vars)
  BY <1>16 DEF LakeEnds, Abs!Next, Abs!Stop
<1>17. ASSUME NEW p \in Old,
              OldMkdir(p) \/ OldJudge(p) \/ OldReap(p) \/ OldGivesUp(p)
              \/ OldWrite(p) \/ OldBuilt(p) \/ OldRelease(p)
       PROVE  [Abs!Next]_(Abs!vars)
  BY <1>17 DEF OldMkdir, OldJudge, OldReap, OldGivesUp, OldWrite,
               OldBuilt, OldRelease
<1>18. CASE UNCHANGED vars
  BY <1>18 DEF vars
<1> QED
  BY <1>1, <1>2, <1>3, <1>4, <1>5, <1>6, <1>7, <1>8, <1>9, <1>10, <1>11,
   <1>12, <1>13, <1>14, <1>15, <1>16, <1>17, <1>18
     DEF Next, Script, Acquire, Contend, Publish, RunLake, Leave, Environment,
         OldScript

\* The wrapper implements BuildLock, for every constant.
THEOREM Implementation == Spec => AbsSpec
<1>1. Init => ExclusionInv
  BY FullInvInit DEF FullInv
<1>2. Init => Abs!Init
  BY FleetAssumption DEF Init, Abs!Init, Alive, Proc
<1> QED
  BY <1>1, <1>2, ExclusionStep, ImplementationStep, PTL DEF Spec, AbsSpec, Abs!Spec

---------------------------------------------------------------------------
(* What hygiene reads: the clean line of a brief, with no old wrapper.     *)

\* A set of numbers has a least one.
LEMMA LeastOf ==
  ASSUME NEW T \in SUBSET Nat, T # {}
  PROVE  \E x \in T : \A y \in T : x <= y
<1> DEFINE R == {ss \in Nat \X Nat : ss[1] < ss[2]}
<1>1. IsWellFoundedOn(R, Nat)
  BY NatLessThanWellFounded DEF OpToRel
<1>2. \E x \in T : \A y \in T : ~ (<<y, x>> \in R)
  <2> HIDE DEF R
  <2> QED
    BY <1>1, WFMin
<1>3. PICK x \in T : \A y \in T : ~ (<<y, x>> \in R)
  BY <1>2
<1>4. ASSUME NEW y \in T
      PROVE  x <= y
  <2>1. x \in Nat /\ y \in Nat /\ <<y, x>> \in Nat \X Nat /\ <<y, x>>[1] = y /\ <<y, x>>[2] = x
    OBVIOUS
  <2>2. ~ (y < x)
    BY <1>3, <2>1
  <2>3. QED
    BY <2>1, <2>2
<1>5. QED
  BY <1>4

\* A process whose parent ps does not list is its own only ancestor.
LEMMA RootIsAlone ==
  ASSUME NEW table, NEW x \in DOMAIN table, table[x] \notin DOMAIN table,
         IsFiniteSet(DOMAIN table)
  PROVE  Ancestors(x, table) = {x}
<1> DEFINE Body(f, n) ==
             IF n = 0 THEN {x} \cap DOMAIN table
             ELSE f[n - 1] \cup ({table[y] : y \in f[n - 1]} \cap DOMAIN table)
           IsChain(f) == f = [n \in Nat |-> Body(f, n)]
           chain == CHOOSE f : IsChain(f)
           size == Cardinality(DOMAIN table)
           wrong == {n \in Nat : chain[n] # {x}}
<1>1. IsChain([n \in Nat |-> {x}])
  <2> DEFINE f == [n \in Nat |-> {x}]
  <2>1. ASSUME NEW n \in Nat
        PROVE  Body(f, n) = {x}
    <3>1. CASE n = 0
      BY <3>1
    <3>2. CASE n # 0
      <4>1. n - 1 \in Nat
        BY <3>2
      <4>2. f[n - 1] = {x}
        BY <4>1
      <4> HIDE DEF f
      <4>3. {table[y] : y \in f[n - 1]} = {table[x]}
        BY <4>2
      <4> QED
        BY <3>2, <4>2, <4>3
    <3> QED
      BY <3>1, <3>2
  <2> HIDE DEF Body
  <2> QED
    BY <2>1
<1>2. IsChain(chain)
  <2> HIDE DEF IsChain
  <2> QED
    BY <1>1
<1>3. \A n \in Nat : chain[n] = Body(chain, n)
  <2> HIDE DEF chain, Body
  <2> QED
    BY <1>2
<1> HIDE DEF chain
<1>4. wrong = {}
  <2> SUFFICES ASSUME wrong # {}
               PROVE  FALSE
    OBVIOUS
  <2>1. PICK n \in wrong : \A m \in wrong : n <= m
    BY LeastOf, wrong \in SUBSET Nat
  <2>2. n # 0
    BY <1>3, chain[0] = Body(chain, 0)
  <2>3. n - 1 \in Nat /\ n - 1 \notin wrong
    BY <2>1, <2>2
  <2>4. chain[n - 1] = {x}
    BY <2>3
  <2>5. {table[y] : y \in chain[n - 1]} = {table[x]}
    BY <2>4
  <2>6. chain[n] = {x} \cup ({table[x]} \cap DOMAIN table)
    BY <1>3, <2>1, <2>2, <2>4, <2>5
  <2> QED
    BY <2>1, <2>6
<1>5. Ancestors(x, table) = chain[size]
  BY DEF Ancestors, chain
<1>6. size \in Nat
  BY FS_CardinalityType
<1> QED
  BY <1>4, <1>5, <1>6

\* Without an old wrapper and without a bare process, every lake has its wrapper,
\* the one that has the flock.
LEMMA BareIsWhatWasLeft ==
  ASSUME TypeOK, NEW p \in Proc, lake[p], ~Alive(p)
  PROVE  <<"lake", p>> \in bare(ps)
<1> DEFINE x == <<"lake", p>>
<1>1. x \in DOMAIN ps
  BY DEF ps
<1>2. ps[x] = Launchd
  BY <1>1 DEF ps
<1>3. Launchd \notin DOMAIN ps
  BY DEF ps, Launchd
<1>4. IsFiniteSet(DOMAIN ps)
  <2> DEFINE W == {<<"saltbuild.sh", q>> : q \in {r \in Proc : Alive(r)}}
             L == {"lake", "lean"} \X {q \in Proc : lake[q]}
             S == {<<"stranger", q>> : q \in reused}
             Kinds == {"saltbuild.sh", "lake", "lean", "stranger"}
  <2>1. DOMAIN ps = W \cup L \cup S
    BY DEF ps
  <2>2. reused \subseteq Proc
    BY FleetAssumption DEF TypeOK, Proc
  <2>3. W \cup L \cup S \in SUBSET (Kinds \X Proc)
    BY <2>2
  <2>4. IsFiniteSet(Kinds)
    <3>1. Kinds = ((({} \cup {"saltbuild.sh"}) \cup {"lake"}) \cup {"lean"}) \cup {"stranger"}
      OBVIOUS
    <3>2. IsFiniteSet({} \cup {"saltbuild.sh"})
      BY FS_EmptySet, FS_AddElement
    <3>3. IsFiniteSet(({} \cup {"saltbuild.sh"}) \cup {"lake"})
      BY <3>2, FS_AddElement
    <3>4. IsFiniteSet((({} \cup {"saltbuild.sh"}) \cup {"lake"}) \cup {"lean"})
      BY <3>3, FS_AddElement
    <3> QED
      BY <3>1, <3>4, FS_AddElement
  <2>5. IsFiniteSet(Kinds \X Proc)
    BY <2>4, FS_Product, MachineAssumption
  <2> QED
    BY <2>1, <2>3, <2>5, FS_Subset
<1>5. Ancestors(x, ps) = {x}
  BY <1>1, <1>2, <1>3, <1>4, RootIsAlone
<1>6. x[1] = "lake"
  OBVIOUS
<1> QED
  BY <1>1, <1>5, <1>6 DEF bare, lean_procs, under_wrapper

\* Whatever number of wrappers build, and whatever signals and kills they meet: the
\* line in which hygiene calls a machine clean counts one build at most, that build
\* has its wrapper, and while it holds the lock the line says so
\* (docs/ledger-tools/fleet_hygiene.py: lean_procs, under_wrapper, lock_state, brief).
THEOREM HygieneIsTrue == Spec => []CleanLineIsTrue
<1>1. FullInv => CleanLineIsTrue
  <2> SUFFICES ASSUME FullInv, Old = {}, NEW measured \in BOOLEAN, NEW old \in BOOLEAN,
                      brief(machine_report(measured, old))[1] = "machine"
               PROVE  LET line == brief(machine_report(measured, old))
                          builds == {p \in New : lake[p]}
                      IN  /\ Cardinality(builds) <= 1
                          /\ \A p \in builds : Alive(p) /\ line[2] > 0
                                               /\ (pc[p] \in Holding => line[3] = "held")
    BY DEF CleanLineIsTrue
  <2> DEFINE builds == {p \in New : lake[p]}
             mine == lean_procs(ps)
             line == brief(machine_report(measured, old))
  <2>1. ExclusionInv /\ TypeOK /\ LakeHolds /\ MarkerNamesBuild /\ New = Proc
    BY DEF FullInv, ExclusionInv, MarkerInv, HolderNamed, MarkerNamesBuild, Named, Proc
  <2>2. measured /\ bare(ps) = {} /\ line = <<"machine", Cardinality(mine), lock_state(old)>>
    <3>1. measured
      BY DEF brief, machine_report
    <3>2. procs(measured) = ps
      BY <3>1 DEF procs
    <3>3. bare(ps) = {}
      BY <3>1, <3>2 DEF brief, machine_report
    <3> QED
      BY <3>1, <3>2, <3>3 DEF brief, machine_report
  <2>3. \A p \in builds : Alive(p) /\ flock = p
    BY <2>1, <2>2, BareIsWhatWasLeft DEF LakeHolds
  <2>4. IsFiniteSet(builds) /\ Cardinality(builds) <= 1
    <3>1. builds \in SUBSET {flock}
      BY <2>3
    <3>2. IsFiniteSet({flock}) /\ Cardinality({flock}) = 1
      BY FS_Singleton
    <3> QED
      BY <3>1, <3>2, FS_Subset
  <2>5. ASSUME NEW p \in builds
        PROVE  line[2] > 0 /\ (pc[p] \in Holding => line[3] = "held")
    <3>1. mine = ({} \cup {<<"lake", p>>}) \cup {<<"lean", p>>}
      <4>1. {q \in Proc : lake[q]} = {p}
        BY <2>1, <2>3
      <4>2. mine = {"lake", "lean"} \X {q \in Proc : lake[q]}
        BY DEF lean_procs, ps
      <4> QED
        BY <4>1, <4>2
    <3>2. Cardinality(mine) > 0
      <4> HIDE DEF mine
      <4>1. IsFiniteSet({} \cup {<<"lake", p>>})
        BY FS_EmptySet, FS_AddElement
      <4>2. IsFiniteSet(mine)
        BY <3>1, <4>1, FS_AddElement
      <4>3. mine # {}
        BY <3>1
      <4> QED
        BY <4>2, <4>3, FS_EmptySet, FS_CardinalityType
    <3>3. ASSUME pc[p] \in Holding
          PROVE  lock_state(old) = "held"
      <4>1. marker # Absent /\ marker.pid = p
        BY <2>1, <3>3 DEF MarkerNamesBuild
      <4>2. p # Nobody /\ Answers(p)
        BY <2>1, <2>3, FleetAssumption DEF Answers
      <4> QED
        BY <4>1, <4>2 DEF lock_state
    <3> HIDE DEF line, mine
    <3> QED
      BY <2>2, <3>2, <3>3
  <2> QED
    BY <2>3, <2>4, <2>5
<1> QED
  BY <1>1, FullInvInit, FullInvStep, PTL DEF Spec
============================================================================
