------------------------ MODULE TripLifecycleProofs ------------------------
(* Proofs about the life of trip rows, for any number of handlers, buses,  *)
(* drivers, schedules and trips.                                           *)
EXTENDS TripLifecycle, TLAPS

-----------------------------------------------------------------------------
(* The trip-start locks (module TripLock), for any number of requests, buses *)
(* and drivers.                                                              *)

(***************************************************************************)
(* The inductive invariant.  A request that overran nothing holds every    *)
(* key it claims, and a key is only ever held by a request that claims it  *)
(* or that was stopped half way.                                           *)
(***************************************************************************)
ClaimsAreHeld ==
    \A r \in Requests : r \notin overrun => \A k \in Claims(r) : lock[k] = r

KeysAreClaimed ==
    \A k \in LockKeys, r \in Requests :
        lock[k] = r => stage[r] = "lost" \/ k \in Claims(r)

LockInv == LockTypeOK /\ ClaimsAreHeld /\ KeysAreClaimed

LEMMA LockInvInit == LockInit => LockInv
BY LockConstants DEF LockInit, LockInv, LockTypeOK, ClaimsAreHeld,
   KeysAreClaimed, Claims, LockKeys, Wants, Stages

LEMMA LockTypeStep == LockTypeOK /\ [LockNext]_lockVars => LockTypeOK'
<1> SUFFICES ASSUME LockTypeOK, [LockNext]_lockVars PROVE LockTypeOK'
  OBVIOUS
<1> USE DEF LockTypeOK, LockKeys, Wants, Stages
<1>1. ASSUME NEW r \in Requests, LockStep(r) PROVE LockTypeOK'
  BY <1>1 DEF LockStep, LockBus, BusLocked, LockDriver,
     DriverLocked, Rollback, ReleaseBus, ReleaseDriver,
     SetNX, CompareAndDelete, Reach
<1>2. ASSUME NEW r \in Requests, Abandon(r) PROVE LockTypeOK'
  BY <1>2 DEF Abandon, Reach
<1>3. ASSUME NEW k \in LockKeys, KeyExpires(k) PROVE LockTypeOK'
  BY <1>3 DEF KeyExpires
<1>4. CASE UNCHANGED lockVars
  BY <1>4 DEF lockVars
<1> QED
  BY <1>1, <1>2, <1>3, <1>4 DEF LockNext

(* Each action keeps the two halves of the invariant. *)
LEMMA HeldStep == LockInv /\ [LockNext]_lockVars => ClaimsAreHeld' /\ KeysAreClaimed'
<1> SUFFICES ASSUME LockInv, [LockNext]_lockVars
             PROVE  ClaimsAreHeld' /\ KeysAreClaimed'
  OBVIOUS
<1> USE LockConstants DEF LockInv, LockTypeOK, LockKeys, Wants,
   Stages
<1>1. ASSUME NEW r \in Requests, LockBus(r)
      PROVE  ClaimsAreHeld' /\ KeysAreClaimed'
  BY <1>1 DEF LockBus, SetNX, Reach, ClaimsAreHeld, KeysAreClaimed,
     Claims
<1>2. ASSUME NEW r \in Requests, BusLocked(r)
      PROVE  ClaimsAreHeld' /\ KeysAreClaimed'
  BY <1>2 DEF BusLocked, Reach, ClaimsAreHeld, KeysAreClaimed, Claims
<1>3. ASSUME NEW r \in Requests, LockDriver(r)
      PROVE  ClaimsAreHeld' /\ KeysAreClaimed'
  BY <1>3 DEF LockDriver, SetNX, Reach, ClaimsAreHeld, KeysAreClaimed,
     Claims
<1>4. ASSUME NEW r \in Requests, DriverLocked(r)
      PROVE  ClaimsAreHeld' /\ KeysAreClaimed'
  BY <1>4 DEF DriverLocked, Reach, ClaimsAreHeld, KeysAreClaimed,
     Claims
<1>5. ASSUME NEW r \in Requests, Rollback(r)
      PROVE  ClaimsAreHeld' /\ KeysAreClaimed'
  BY <1>5 DEF Rollback, CompareAndDelete, Reach, ClaimsAreHeld,
     KeysAreClaimed, Claims
<1>6. ASSUME NEW r \in Requests, ReleaseBus(r)
      PROVE  ClaimsAreHeld' /\ KeysAreClaimed'
  BY <1>6 DEF ReleaseBus, CompareAndDelete, Reach, ClaimsAreHeld,
     KeysAreClaimed, Claims
<1>7. ASSUME NEW r \in Requests, ReleaseDriver(r)
      PROVE  ClaimsAreHeld' /\ KeysAreClaimed'
  BY <1>7 DEF ReleaseDriver, CompareAndDelete, Reach, ClaimsAreHeld,
     KeysAreClaimed, Claims
<1>8. ASSUME NEW r \in Requests, Abandon(r)
      PROVE  ClaimsAreHeld' /\ KeysAreClaimed'
  BY <1>8 DEF Abandon, Reach, ClaimsAreHeld, KeysAreClaimed, Claims
<1>9. ASSUME NEW k \in LockKeys, KeyExpires(k)
      PROVE  ClaimsAreHeld' /\ KeysAreClaimed'
  BY <1>9 DEF KeyExpires, ClaimsAreHeld, KeysAreClaimed, Claims
<1>10. CASE UNCHANGED lockVars
  BY <1>10 DEF lockVars, ClaimsAreHeld, KeysAreClaimed, Claims
<1> QED
  BY <1>1, <1>2, <1>3, <1>4, <1>5, <1>6, <1>7, <1>8, <1>9, <1>10 DEF LockNext,
     LockStep

(* LockInv holds in every reachable state. *)
THEOREM LockInvariant == LockSpec => []LockInv
<1>1. LockInv /\ [LockNext]_lockVars => LockInv'
  BY LockTypeStep, HeldStep DEF LockInv
<1> QED
  BY LockInvInit, <1>1, PTL DEF LockSpec

-----------------------------------------------------------------------------

(* The lock protocol keeps the types of its state. *)
THEOREM LockTypes == LockSpec => []LockTypeOK
<1>1. LockInv => LockTypeOK
  BY DEF LockInv
<1> QED
  BY LockInvariant, <1>1, PTL

(* Two contending requests are inside together only after a TTL ran out under *)
(* one of them: acquireTripStartLock is a mutual exclusion lock up to its TTL. *)
THEOREM LockExclusion == LockSpec => []MutualExclusion
<1>1. LockInv => MutualExclusion
  <2> SUFFICES ASSUME LockInv, NEW r \in Requests, NEW q \in Requests,
                      stage[r] = "inside", stage[q] = "inside", Contend(r, q),
                      r \notin overrun, q \notin overrun
               PROVE  r = q
    BY DEF MutualExclusion
  <2>1. want[r].bus \in Claims(r) /\ want[q].bus \in Claims(q)
    BY DEF LockInv, LockTypeOK, LockKeys, Wants, Claims
  <2>2. want[r].driver # NoDriver => want[r].driver \in Claims(r)
    BY DEF LockInv, LockTypeOK, LockKeys, Wants, Claims
  <2>3. want[q].driver # NoDriver => want[q].driver \in Claims(q)
    BY DEF LockInv, LockTypeOK, LockKeys, Wants, Claims
  <2>4. CASE want[r].bus = want[q].bus
    BY <2>1, <2>4 DEF LockInv, ClaimsAreHeld
  <2>5. CASE want[r].driver = want[q].driver /\ want[r].driver # NoDriver
    BY <2>2, <2>3, <2>5 DEF LockInv, ClaimsAreHeld
  <2> QED
    BY <2>4, <2>5 DEF Contend
<1> QED
  BY LockInvariant, <1>1, PTL

(* A request that finished normally holds no key: releaseTripStartLock and the *)
(* roll-back of a half-taken lock leave nothing behind.                        *)
THEOREM LockCleanup == LockSpec => []NoKeyLeftBehind
<1>1. LockInv => NoKeyLeftBehind
  BY DEF LockInv, KeysAreClaimed, NoKeyLeftBehind, Claims
<1> QED
  BY LockInvariant, <1>1, PTL

(* Only the holder of a key, or its TTL, takes it away: the release script     *)
(* compares tokens before it deletes.                                          *)
THEOREM LockOwnership == LockSpec => OnlyHolderReleases
<1> DEFINE Owned == \A k \in LockKeys :
                       lock[k] # Nobody /\ lock'[k] # lock[k]
                       => /\ lock'[k] = Nobody
                          /\ stage' = stage \/ stage'[lock[k]] # stage[lock[k]]
<1>1. LockTypeOK /\ [LockNext]_lockVars => [Owned]_lockVars
  <2> SUFFICES ASSUME LockTypeOK, [LockNext]_lockVars PROVE Owned
    OBVIOUS
  <2> USE DEF LockTypeOK, LockKeys
  <2>1. ASSUME NEW r \in Requests, LockStep(r) PROVE Owned
    BY <2>1 DEF LockStep, LockBus, BusLocked, LockDriver,
       DriverLocked, Rollback, ReleaseBus, ReleaseDriver,
       SetNX, CompareAndDelete, Reach
  <2>2. ASSUME NEW r \in Requests, Abandon(r) PROVE Owned
    BY <2>2 DEF Abandon
  <2>3. ASSUME NEW k \in LockKeys, KeyExpires(k) PROVE Owned
    BY <2>3 DEF KeyExpires
  <2>4. CASE UNCHANGED lockVars
    BY <2>4 DEF lockVars
  <2> QED
    BY <2>1, <2>2, <2>3, <2>4 DEF LockNext
<1>2. LockSpec => [][Owned]_lockVars
  BY LockTypes, <1>1, PTL DEF LockSpec
<1> QED
  BY <1>2 DEF OnlyHolderReleases

-----------------------------------------------------------------------------
(* The locks: every step of a handler is a step of TripLock or leaves the   *)
(* locks alone.                                                             *)

LEMMA LockSteps ==
    ASSUME [Next]_vars PROVE [LockNext]_lockVars
<1>1. ASSUME NEW r \in Requests, Step(r) PROVE [LockNext]_lockVars
  <2>1. CASE Acquire(r) \/ Denied(r) \/ Release(r)
    BY <2>1 DEF Acquire, Denied, Release, LockNext, LockStep
  <2>2. CASE UNCHANGED lockVars
    BY <2>2
  <2>3. Acquire(r) \/ Denied(r) \/ Release(r) \/ UNCHANGED lockVars
    BY <1>1 DEF Step, DriverStartDone, DriverStartPromotes, DriverStartCreates,
       AdminStart, DriverLocation, GpsOnTrip, GpsWithoutTrip, GpsReadsTrip,
       GpsReadsNone, CheckFails, CheckPasses, CheckDriver, Create, LogStart,
       StartThrows, PromoteRead, PromoteWrite, AutoEndRead, DriverEnd,
       ForceEnd, FinalizeRead, FinalizeWrite, FinalizeLog
  <2> QED
    BY <2>1, <2>2, <2>3
<1>2. ASSUME NEW r \in Requests, Crash(r) PROVE [LockNext]_lockVars
  BY <1>2 DEF Crash, LockNext
<1>3. ASSUME JobStep PROVE [LockNext]_lockVars
  BY <1>3 DEF JobStep, JobTick, JobSkips, JobChooses, JobCreates,
     JobCreateFails, JobRests
<1>4. ASSUME NEW k \in LockKeys, Expire(k) PROVE [LockNext]_lockVars
  BY <1>4 DEF Expire, LockNext
<1>5. CASE UNCHANGED vars
  BY <1>5 DEF vars, lockVars
<1> QED
  BY <1>1, <1>2, <1>3, <1>4, <1>5 DEF Next

(* What is proved of the locks holds of the handlers, since they take and  *)
(* release them by the steps of TripLock only.                             *)
LEMMA LifecycleUsesLocks == Spec => LockSpec
<1>1. Init => LockInit
  BY DEF Init
<1>2. [Next]_vars => [LockNext]_lockVars
  BY LockSteps
<1> QED
  BY <1>1, <1>2, PTL DEF Spec, LockSpec

(* The invariant of the locks, in every state of the handlers. *)
THEOREM LifecycleLockInv == Spec => []LockInv
BY LifecycleUsesLocks, LockInvariant

-----------------------------------------------------------------------------
(* Trip rows and handlers.                                                  *)

(***************************************************************************)
(* The inductive invariant of the rows.                                    *)
(*                                                                         *)
(* Only a start goes through the locks, and the awaits of the locked part  *)
(* are those where its lock protocol is inside.  A row has an origin and a *)
(* schedule once it exists; the PRE_TRIP rows, and the rows a promotion is *)
(* about, are those of the window job.  With this, and with the mutual     *)
(* exclusion of the locks, BusIsFree is inductive: from its check to its   *)
(* create, a start that holds the lock of its bus knows of every trip that *)
(* another start could have put on it.                                     *)
(***************************************************************************)
StartKinds == {"driver", "gps", "admin"}

StartsAreInside ==
    \A r \in Requests :
        /\ pc[r] \in {"gpsRead", "acquire", "release"} \cup Inside => op[r] \in StartKinds
        /\ pc[r] \in Inside => stage[r] = "inside"

RowsAreWhole ==
    /\ \A t \in Trips : status[t] = "NONE" <=> origin[t] = "none"
    /\ \A t \in Trips : status[t] = "NONE" <=> schedule[t] = NoSchedule
    /\ \A t \in Trips : status[t] = "PRE_TRIP" => origin[t] = "job"
    /\ \A r \in Requests : target[r] # NoTrip => status[target[r]] # "NONE"
    /\ \A r \in Requests :
          pc[r] \in {"promoteRead", "promoteWrite"} => origin[target[r]] = "job"

JobChose == job = "creating" <=> opening # NoSchedule

\* The types of what is not the state of the locks.
RowTypes ==
    /\ want \in [Requests -> Schedules]
    /\ pc \in [Requests -> Awaits]
    /\ op \in [Requests -> Ops]
    /\ target \in [Requests -> Trips \cup {NoTrip}]
    /\ \A r \in Requests : pc[r] \in Targeted => target[r] \in Trips
    /\ status \in [Trips -> {"NONE", "PRE_TRIP", "RUNNING", "ENDED"}]
    /\ schedule \in [Trips -> Schedules \cup {NoSchedule}]
    /\ origin \in [Trips -> {"none", "driver", "gps", "admin", "job"}]
    /\ endLogged \in SUBSET Trips
    /\ unlogged \in SUBSET Trips
    /\ job \in {"idle", "scanning", "creating"}
    /\ due \in SUBSET Schedules
    /\ opening \in Schedules \cup {NoSchedule}

RowInv ==
    /\ RowTypes
    /\ stage \in [Requests -> Stages]
    /\ StartsAreInside
    /\ RowsAreWhole
    /\ JobChose

LEMMA RowInit == Init => RowInv
BY LifecycleConstants
   DEF Init, LockInit, Stages, RowInv, RowTypes, StartsAreInside,
       RowsAreWhole, JobChose, Ops, Awaits, Inside, Targeted

(* A step of the lock protocol moves the stage of its own request, at most. *)
LEMMA StageLocal ==
    ASSUME NEW r \in Requests, stage \in [Requests -> Stages],
           \/ LockBus(r) \/ LockDriver(r) \/ DriverLocked(r)
           \/ BusLocked(r) \/ Rollback(r)
           \/ ReleaseBus(r) \/ ReleaseDriver(r) \/ Abandon(r)
    PROVE  /\ want' = want
           /\ stage' \in [Requests -> Stages]
           /\ \A q \in Requests : q # r => stage'[q] = stage[q]
BY DEF LockBus, LockDriver, DriverLocked, BusLocked,
       Rollback, ReleaseBus, ReleaseDriver, Abandon,
       Reach, Stages

(* The trips a query returns exist. *)
LEMMA BestExists ==
    ASSUME NEW S \in SUBSET Trips, NEW t \in Best(S)
    PROVE  t \in S /\ status[t] \in {"PRE_TRIP", "RUNNING"}
BY DEF Best, Running, Waiting

(* What every step of one handler does that leaves the rows alone: the handler *)
(* moves to an await whose conditions hold, the others stay where they are.    *)
Moves(r) ==
    /\ pc[r] # "finalizeLog"
    /\ UNCHANGED <<want, tripVars, jobVars>>
    /\ pc' \in [Requests -> Awaits]
    /\ op' \in [Requests -> Ops]
    /\ target' \in [Requests -> Trips \cup {NoTrip}]
    /\ stage' \in [Requests -> Stages]
    /\ \A q \in Requests \ {r} :
          pc'[q] = pc[q] /\ op'[q] = op[q] /\ target'[q] = target[q] /\ stage'[q] = stage[q]
    /\ pc'[r] \in {"gpsRead", "acquire", "release"} \cup Inside => op'[r] \in StartKinds
    /\ pc'[r] \in Inside => stage'[r] = "inside"
    /\ pc'[r] \in Targeted => target'[r] \in Trips
    /\ target'[r] # NoTrip => status[target'[r]] # "NONE"
    /\ pc'[r] \in {"promoteRead", "promoteWrite"} => origin[target'[r]] = "job"

LEMMA MoveStep == ASSUME RowInv, NEW r \in Requests, Moves(r) PROVE RowInv'
<1>1. RowTypes' /\ stage' \in [Requests -> Stages]
  BY DEF Moves, RowInv, RowTypes, tripVars, jobVars
<1>2. StartsAreInside'
  BY DEF Moves, RowInv, StartsAreInside
<1>3. RowsAreWhole' /\ JobChose'
  BY DEF Moves, RowInv, RowsAreWhole, JobChose, tripVars, jobVars
<1> QED
  BY <1>1, <1>2, <1>3 DEF RowInv

(* Handlers that only read and move on. *)
LEMMA ReadingStep ==
    ASSUME RowInv, NEW r \in Requests,
           \/ DriverStartDone(r) \/ DriverStartPromotes(r) \/ DriverStartCreates(r)
           \/ AdminStart(r) \/ DriverLocation(r) \/ GpsOnTrip(r) \/ GpsWithoutTrip(r)
           \/ GpsReadsTrip(r) \/ GpsReadsNone(r)
           \/ CheckFails(r) \/ CheckPasses(r) \/ CheckDriver(r)
           \/ LogStart(r) \/ StartThrows(r)
           \/ PromoteRead(r) \/ AutoEndRead(r) \/ DriverEnd(r) \/ ForceEnd(r)
           \/ FinalizeRead(r)
    PROVE  Moves(r)
<1> USE LifecycleConstants
    DEF RowInv, RowTypes, StartsAreInside, RowsAreWhole, Ops, Awaits,
        Inside, Targeted, StartKinds, GoTo, About, Begin, lockVars, Moves
<1>1. CASE DriverStartDone(r)
  BY <1>1 DEF DriverStartDone
<1>2. CASE DriverStartCreates(r)
  BY <1>2 DEF DriverStartCreates
<1>3. CASE AdminStart(r)
  BY <1>3 DEF AdminStart
<1>4. CASE GpsWithoutTrip(r)
  BY <1>4 DEF GpsWithoutTrip
<1>5. CASE DriverStartPromotes(r)
  BY <1>5 DEF DriverStartPromotes, Best, OfDriver, Running, Waiting
<1>6. CASE DriverLocation(r)
  BY <1>6 DEF DriverLocation, Located, Running, Waiting
<1>7. CASE GpsOnTrip(r)
  BY <1>7 DEF GpsOnTrip, Located, Best, OfBus, Running, Waiting
<1>8. CASE GpsReadsTrip(r)
  BY <1>8 DEF GpsReadsTrip, Best, OfBus, Running, Waiting
<1>9. CASE GpsReadsNone(r)
  BY <1>9 DEF GpsReadsNone
<1>10. CASE CheckFails(r)
  <2>1. CASE op[r] = "gps"
    <3>1. PICK t \in Trips : status[t] # "NONE" /\ target' = [target EXCEPT ![r] = t]
      BY <1>10, <2>1 DEF CheckFails, Best, OfBus, Running, Waiting
    <3> QED
      BY <1>10, <2>1, <3>1 DEF CheckFails
  <2>2. CASE op[r] # "gps"
    BY <1>10, <2>2 DEF CheckFails
  <2> QED
    BY <2>1, <2>2
<1>11. CASE CheckPasses(r)
  BY <1>11 DEF CheckPasses
<1>12. CASE CheckDriver(r)
  BY <1>12 DEF CheckDriver
<1>13. CASE LogStart(r)
  BY <1>13 DEF LogStart
<1>14. CASE StartThrows(r)
  BY <1>14 DEF StartThrows
<1>15. CASE PromoteRead(r)
  BY <1>15 DEF PromoteRead, AfterPromotion
<1>16. CASE AutoEndRead(r)
  BY <1>16 DEF AutoEndRead
<1>17. CASE FinalizeRead(r)
  BY <1>17 DEF FinalizeRead
<1>18. CASE DriverEnd(r)
  BY <1>18 DEF DriverEnd, Running, Waiting
<1>19. CASE ForceEnd(r)
  BY <1>19 DEF ForceEnd, Running, Waiting
<1> QED
  BY <1>1, <1>2, <1>3, <1>4, <1>5, <1>6, <1>7, <1>8, <1>9, <1>10, <1>11, <1>12,
     <1>13, <1>14, <1>15, <1>16, <1>17, <1>18, <1>19

(* Handlers that take or give back a lock. *)
LEMMA LockingStep ==
    ASSUME RowInv, NEW r \in Requests, Acquire(r) \/ Denied(r) \/ Release(r)
    PROVE  Moves(r)
<1>1. /\ want' = want
      /\ stage' \in [Requests -> Stages]
      /\ \A q \in Requests : q # r => stage'[q] = stage[q]
  BY StageLocal DEF Acquire, Denied, Release, RowInv
<1> USE <1>1 DEF RowInv, RowTypes, StartsAreInside, RowsAreWhole, Ops, Awaits,
        Inside, Targeted, StartKinds, GoTo, Moves
<1>2. CASE Acquire(r)
  BY <1>2 DEF Acquire
<1>3. CASE Denied(r)
  BY <1>3 DEF Denied
<1>4. CASE Release(r)
  BY <1>4 DEF Release
<1> QED
  BY <1>2, <1>3, <1>4

(* Handlers that write to a row. *)
LEMMA WritingStep ==
    ASSUME RowInv, NEW r \in Requests,
           Create(r) \/ PromoteWrite(r) \/ FinalizeWrite(r) \/ FinalizeLog(r)
    PROVE  RowInv'
<1> USE DEF RowInv, RowTypes, StartsAreInside, RowsAreWhole, JobChose, Ops, Awaits,
        Inside, Targeted, StartKinds, GoTo, About, lockVars, jobVars
<1>1. CASE Create(r)
  <2>1. PICK t \in Trips :
          /\ status[t] = "NONE"
          /\ status' = [status EXCEPT ![t] = "RUNNING"]
          /\ schedule' = [schedule EXCEPT ![t] = want[r]]
          /\ origin' = [origin EXCEPT ![t] = op[r]]
          /\ target' = [target EXCEPT ![r] = t]
    BY <1>1 DEF Create
  <2>2. op[r] \in StartKinds /\ want[r] \in Schedules /\ want[r] # NoSchedule
    BY <1>1, LifecycleConstants DEF Create
  <2>3. RowTypes' /\ stage' \in [Requests -> Stages] /\ StartsAreInside'
    BY <1>1, <2>1, <2>2, LifecycleConstants DEF Create
  <2>4. RowsAreWhole' /\ JobChose'
    BY <1>1, <2>1, <2>2, LifecycleConstants DEF Create
  <2> QED
    BY <2>3, <2>4
<1>2. CASE PromoteWrite(r)
  BY <1>2, LifecycleConstants DEF PromoteWrite, AfterPromotion
<1>3. CASE FinalizeWrite(r)
  BY <1>3, LifecycleConstants DEF FinalizeWrite
<1>4. CASE FinalizeLog(r)
  BY <1>4, LifecycleConstants DEF FinalizeLog
<1> QED
  BY <1>1, <1>2, <1>3, <1>4

LEMMA CrashStep == ASSUME RowInv, NEW r \in Requests, Crash(r) PROVE RowInv'
<1>1. /\ want' = want
      /\ stage' \in [Requests -> Stages]
      /\ \A q \in Requests : q # r => stage'[q] = stage[q]
  <2>1. UNCHANGED lockVars \/ Abandon(r)
    BY DEF Crash
  <2>2. CASE UNCHANGED lockVars
    BY <2>2 DEF lockVars, RowInv
  <2>3. CASE Abandon(r)
    BY <2>3, StageLocal DEF RowInv
  <2> QED
    BY <2>1, <2>2, <2>3
<1>2. pc' \in [Requests -> Awaits] /\ pc'[r] = "done"
      /\ \A q \in Requests : q # r => pc'[q] = pc[q]
  BY DEF Crash, RowInv, RowTypes, GoTo, Awaits
<1>3. unlogged' \in SUBSET Trips
  BY DEF Crash, RowInv, RowTypes, Targeted
<1>4. RowTypes'
  BY <1>1, <1>2, <1>3 DEF Crash, RowInv, RowTypes, Targeted, jobVars
<1>5. StartsAreInside'
  BY <1>1, <1>2 DEF Crash, RowInv, StartsAreInside, Inside
<1>6. RowsAreWhole' /\ JobChose'
  BY <1>2 DEF Crash, RowInv, RowsAreWhole, JobChose, jobVars
<1> QED
  BY <1>1, <1>4, <1>5, <1>6 DEF RowInv

LEMMA JobKeepsRows == ASSUME RowInv, JobStep PROVE RowInv'
<1> USE LifecycleConstants
    DEF RowInv, RowTypes, StartsAreInside, RowsAreWhole, JobChose, lockVars,
        handlerVars, tripVars, jobVars
<1>1. CASE JobTick
  BY <1>1 DEF JobTick, Waiting
<1>2. ASSUME NEW s \in Schedules, JobSkips(s) PROVE RowInv'
  BY <1>2 DEF JobSkips
<1>3. ASSUME NEW s \in Schedules, JobChooses(s) PROVE RowInv'
  BY <1>3 DEF JobChooses
<1>4. CASE JobCreates
  <2>1. PICK t \in Trips :
          /\ status[t] = "NONE"
          /\ status' = [status EXCEPT ![t] = "PRE_TRIP"]
          /\ schedule' = [schedule EXCEPT ![t] = opening]
          /\ origin' = [origin EXCEPT ![t] = "job"]
    BY <1>4 DEF JobCreates
  <2>2. opening \in Schedules /\ opening # NoSchedule
    BY <1>4 DEF JobCreates
  <2> QED
    BY <1>4, <2>1, <2>2 DEF JobCreates
<1>5. CASE JobCreateFails
  BY <1>5 DEF JobCreateFails
<1>6. CASE JobRests
  BY <1>6 DEF JobRests
<1> QED
  BY <1>1, <1>2, <1>3, <1>4, <1>5, <1>6 DEF JobStep

LEMMA RowStep == RowInv /\ [Next]_vars => RowInv'
<1> SUFFICES ASSUME RowInv, [Next]_vars PROVE RowInv'
  OBVIOUS
<1>1. ASSUME NEW r \in Requests, Step(r) PROVE RowInv'
  BY <1>1, ReadingStep, LockingStep, MoveStep, WritingStep DEF Step
<1>2. ASSUME NEW r \in Requests, Crash(r) PROVE RowInv'
  BY <1>2, CrashStep
<1>3. CASE JobStep
  BY <1>3, JobKeepsRows
<1>4. ASSUME NEW k \in LockKeys, Expire(k) PROVE RowInv'
  BY <1>4 DEF Expire, KeyExpires, RowInv, RowTypes, StartsAreInside, RowsAreWhole,
     JobChose, handlerVars, tripVars, jobVars
<1>5. CASE UNCHANGED vars
  BY <1>5 DEF vars, RowInv, RowTypes, StartsAreInside, RowsAreWhole, JobChose
<1> QED
  BY <1>1, <1>2, <1>3, <1>4, <1>5 DEF Next

THEOREM RowInvariant == Spec => []RowInv
BY RowInit, RowStep, PTL DEF Spec

(* The handlers and the job keep the types of the state, and a handler that *)
(* goes on about a trip has one.                                            *)
THEOREM LifecycleTypes == Spec => []TypeOK
<1>1. RowInv /\ LockInv => TypeOK
  BY DEF RowInv, RowTypes, LockInv, TypeOK
<1> QED
  BY <1>1, RowInvariant, LifecycleLockInv, PTL

-----------------------------------------------------------------------------
(* One direct trip per bus.                                                 *)

(* From its check to its create a start knows of every direct running trip   *)
(* of its bus: there is none.                                                *)
BusIsFree ==
    overrun = {} =>
        \A r \in Requests : pc[r] \in {"checkDriver", "create"} =>
            \A t \in Direct \cap Running : schedule[t].bus # want[r].bus

BusInv == BusIsFree /\ OneDirectTripPerBus

(* Nothing takes a request back out of overrun. *)
LEMMA OverrunGrows == ASSUME [Next]_vars PROVE want' = want /\ (overrun' = {} => overrun = {})
<1>1. CASE LockNext
  BY <1>1 DEF LockNext, LockStep, LockBus, BusLocked,
     LockDriver, DriverLocked, Rollback, ReleaseBus,
     ReleaseDriver, Abandon, KeyExpires
<1>2. CASE UNCHANGED lockVars
  BY <1>2 DEF lockVars
<1> QED
  BY <1>1, <1>2, LockSteps

(* A step after which no direct trip runs that did not run before, and no     *)
(* start is newly past its check.                                             *)
LEMMA BusCalm ==
    ASSUME BusInv, [Next]_vars, RowInv,
           \A t \in (Direct \cap Running)' :
               t \in Direct \cap Running /\ schedule'[t] = schedule[t],
           \A r \in Requests : pc'[r] \in {"checkDriver", "create"}
                             => pc[r] \in {"checkDriver", "create"}
    PROVE  BusInv'
BY OverrunGrows DEF BusInv, BusIsFree, OneDirectTripPerBus

LEMMA BusStep == RowInv /\ LockInv /\ BusInv /\ [Next]_vars => BusInv'
<1> SUFFICES ASSUME RowInv, LockInv, BusInv, [Next]_vars PROVE BusInv'
  OBVIOUS
<1> DEFINE Calm == /\ \A t \in (Direct \cap Running)' :
                         t \in Direct \cap Running /\ schedule'[t] = schedule[t]
                   /\ \A r \in Requests : pc'[r] \in {"checkDriver", "create"}
                                         => pc[r] \in {"checkDriver", "create"}
<1>a. Calm => BusInv'
  BY BusCalm
<1>1. ASSUME NEW r \in Requests, Moves(r), pc'[r] \in {"checkDriver", "create"}
                                          => pc[r] \in {"checkDriver", "create"}
      PROVE  Calm
  BY <1>1 DEF Moves, tripVars, Direct, Running
<1>2. ASSUME NEW r \in Requests, CheckPasses(r) PROVE BusInv'
  <2>1. Moves(r)
    BY <1>2, ReadingStep
  <2>2. \A t \in Direct \cap Running : schedule[t].bus # want[r].bus
    BY <1>2 DEF CheckPasses, BusTaken, OfBus, Running, RowInv, RowsAreWhole
  <2>3. (Direct \cap Running)' = Direct \cap Running /\ schedule' = schedule /\ want' = want
    BY <2>1 DEF Moves, tripVars, Direct, Running
  <2>4. \A q \in Requests \ {r} : pc'[q] = pc[q]
    BY <2>1 DEF Moves
  <2> QED
    BY <2>2, <2>3, <2>4, OverrunGrows DEF BusInv, BusIsFree, OneDirectTripPerBus
<1>3. ASSUME NEW r \in Requests, Step(r),
             ~ CheckPasses(r), ~ Create(r) PROVE Calm
  <2>1. CASE PromoteWrite(r)
    <3>1. target[r] \in Trips /\ origin[target[r]] = "job"
      BY <2>1 DEF PromoteWrite, RowInv, RowTypes, RowsAreWhole, Targeted
    <3>2. \A t \in (Direct \cap Running)' :
              t \in Direct \cap Running /\ schedule'[t] = schedule[t]
      BY <2>1, <3>1 DEF PromoteWrite, Direct, Running, RowInv, RowTypes
    <3> QED
      BY <2>1, <3>2 DEF PromoteWrite, AfterPromotion, GoTo, RowInv, RowTypes
  <2>2. CASE FinalizeWrite(r) \/ FinalizeLog(r)
    BY <2>2 DEF FinalizeWrite, FinalizeLog, Direct, Running, GoTo, RowInv, RowTypes
  <2>3. CASE CheckDriver(r)
    BY <2>3, <1>1, ReadingStep DEF CheckDriver
  <2>4. CASE Acquire(r) \/ Denied(r) \/ Release(r)
    <3>1. pc'[r] \notin {"checkDriver", "create"}
      BY <2>4 DEF Acquire, Denied, Release, GoTo, RowInv, RowTypes
    <3> QED
      BY <2>4, <3>1, <1>1, LockingStep
  <2>5. CASE \/ DriverStartDone(r) \/ DriverStartPromotes(r) \/ DriverStartCreates(r)
             \/ AdminStart(r) \/ DriverLocation(r) \/ GpsOnTrip(r) \/ GpsWithoutTrip(r)
             \/ GpsReadsTrip(r) \/ GpsReadsNone(r) \/ CheckFails(r)
             \/ LogStart(r) \/ StartThrows(r)
             \/ PromoteRead(r) \/ AutoEndRead(r) \/ DriverEnd(r) \/ ForceEnd(r)
             \/ FinalizeRead(r)
    <3>1. pc'[r] \notin {"checkDriver", "create"}
      BY <2>5 DEF DriverStartDone, DriverStartPromotes, DriverStartCreates, AdminStart,
         DriverLocation, GpsOnTrip, Located, GpsWithoutTrip, GpsReadsTrip, GpsReadsNone,
         CheckFails, LogStart, StartThrows, PromoteRead, AfterPromotion, AutoEndRead,
         DriverEnd, ForceEnd, FinalizeRead, GoTo, RowInv, RowTypes
    <3> QED
      BY <2>5, <3>1, <1>1, ReadingStep
  <2> QED
    BY <1>3, <2>1, <2>2, <2>3, <2>4, <2>5 DEF Step
<1>4. ASSUME NEW r \in Requests, Create(r) PROVE BusInv'
  <2>1. PICK t \in Trips :
          /\ status[t] = "NONE"
          /\ status' = [status EXCEPT ![t] = "RUNNING"]
          /\ schedule' = [schedule EXCEPT ![t] = want[r]]
          /\ origin' = [origin EXCEPT ![t] = op[r]]
    BY <1>4 DEF Create
  <2>2. /\ (Direct \cap Running)' \subseteq (Direct \cap Running) \cup {t}
        /\ t \notin Direct \cap Running
        /\ schedule'[t].bus = want[r].bus
        /\ \A u \in Direct \cap Running : schedule'[u] = schedule[u]
    BY <2>1 DEF Direct, Running, RowInv, RowTypes
  <2>3. overrun' = overrun /\ want' = want /\ pc' = [pc EXCEPT ![r] = "logStart"]
    BY <1>4 DEF Create, lockVars, GoTo
  <2>4. ASSUME overrun = {}, NEW q \in Requests, q # r, pc[q] \in {"checkDriver", "create"}
        PROVE  want[q].bus # want[r].bus
    <3>1. stage[q] = "inside" /\ stage[r] = "inside"
      BY <1>4, <2>4 DEF Create, RowInv, StartsAreInside, Inside
    <3>2. want[r].bus \in Claims(r) /\ want[q].bus \in Claims(q)
      BY <3>1 DEF Claims, LockKeys, LockInv, LockTypeOK, Wants
    <3>3. lock[want[r].bus] = r /\ lock[want[q].bus] = q
      BY <2>4, <3>2 DEF LockInv, ClaimsAreHeld
    <3> QED
      BY <2>4, <3>3
  <2>5. BusIsFree'
    BY <1>4, <2>2, <2>3, <2>4 DEF BusInv, BusIsFree, Create, RowInv, RowTypes
  <2>6. OneDirectTripPerBus'
    BY <1>4, <2>2, <2>3 DEF BusInv, BusIsFree, OneDirectTripPerBus, Create
  <2> QED
    BY <2>5, <2>6 DEF BusInv
<1>5. ASSUME NEW r \in Requests, Crash(r) PROVE Calm
  BY <1>5 DEF Crash, GoTo, Direct, Running, RowInv, RowTypes
<1>6. ASSUME JobStep PROVE Calm
  BY <1>6 DEF JobStep, JobTick, JobSkips, JobChooses, JobCreates, JobCreateFails, JobRests,
     handlerVars, tripVars, Waiting, Direct, Running, RowInv, RowTypes
<1>7. ASSUME NEW k \in LockKeys, Expire(k) PROVE Calm
  BY <1>7 DEF Expire, handlerVars, tripVars, Direct, Running
<1>8. CASE UNCHANGED vars
  <2>1. Calm
    BY <1>8 DEF vars, Direct, Running
  <2> QED
    BY <2>1, <1>a
<1> HIDE DEF Calm
<1> QED
  BY <1>a, <1>2, <1>3, <1>4, <1>5, <1>6, <1>7, <1>8 DEF Next

(* A start that is past its check knows that its bus is free.                 *)
THEOREM BusInvariant == Spec => []BusInv
<1>1. Init => BusInv
  BY DEF Init, BusInv, BusIsFree, OneDirectTripPerBus, Direct, Running
<1> QED
  BY <1>1, BusStep, RowInvariant, LifecycleLockInv, PTL DEF Spec

(* As long as no lock outlives its TTL inside a start, the starts never run   *)
(* one bus on two trips, in whatever order drivers, admins and GPS packets    *)
(* arrive and whichever of them stop half way.                                *)
THEOREM LifecycleOneDirectTrip == Spec => []OneDirectTripPerBus
<1>1. BusInv => OneDirectTripPerBus
  BY DEF BusInv
<1> QED
  BY <1>1, BusInvariant, PTL

-----------------------------------------------------------------------------
(* The ends of trips.                                                       *)

(* No step brings an ended direct trip back. *)
LEMMA EndedStep ==
    ASSUME RowInv, [Next]_vars, NEW t \in Direct, status[t] = "ENDED"
    PROVE  status'[t] = "ENDED"
<1> USE DEF Direct
<1>1. ASSUME NEW r \in Requests, Step(r) PROVE status'[t] = "ENDED"
  <2>1. CASE Create(r)
    BY <2>1 DEF Create, RowInv, RowTypes
  <2>2. CASE PromoteWrite(r)
    BY <2>2 DEF PromoteWrite, RowInv, RowTypes, RowsAreWhole
  <2>3. CASE FinalizeWrite(r) \/ FinalizeLog(r)
    BY <2>3 DEF FinalizeWrite, FinalizeLog, RowInv, RowTypes
  <2>4. CASE Moves(r)
    BY <2>4 DEF Moves, tripVars
  <2> QED
    BY <1>1, <2>1, <2>2, <2>3, <2>4, ReadingStep, LockingStep DEF Step
<1>2. ASSUME NEW r \in Requests, Crash(r) PROVE status'[t] = "ENDED"
  BY <1>2 DEF Crash
<1>3. CASE JobStep
  BY <1>3 DEF JobStep, JobTick, JobSkips, JobChooses, JobCreates, JobCreateFails,
     JobRests, tripVars, RowInv, RowTypes
<1>4. ASSUME NEW k \in LockKeys, Expire(k) PROVE status'[t] = "ENDED"
  BY <1>4 DEF Expire, tripVars
<1>5. CASE UNCHANGED vars
  BY <1>5 DEF vars
<1> QED
  BY <1>1, <1>2, <1>3, <1>4, <1>5 DEF Next

(* A trip that a start created and that has ended stays ended: only the rows  *)
(* of the window job can be promoted back to RUNNING.                         *)
THEOREM LifecycleDirectEnds == Spec => DirectTripsStayEnded
<1> DEFINE Kept == \A t \in Direct : status[t] = "ENDED" => status'[t] = "ENDED"
<1>1. RowInv /\ [Next]_vars => [Kept]_vars
  BY EndedStep
<1>2. Spec => [][Kept]_vars
  BY <1>1, RowInvariant, PTL DEF Spec
<1> QED
  BY <1>2 DEF DirectTripsStayEnded

-----------------------------------------------------------------------------
(* The promise of the service (module BusService).                          *)

(* What is mapped to the variables of BusService. *)
Serving == [b \in Buses |-> {t \in Direct \cap Running : schedule[t].bus = b}]
Over == {t \in Direct : status[t] = "ENDED"}
Sound == overrun = {}

(* A step after which the same direct trips run and have ended, each on its   *)
(* bus: the abstract service stutters, or learns that a lock was overrun.     *)
LEMMA ServiceCalm ==
    ASSUME [Next]_vars,
           Direct' = Direct,
           \A t \in Direct : status'[t] = status[t] /\ schedule'[t] = schedule[t]
    PROVE  [Service!ServiceNext]_(Service!serviceVars)
<1>1. Serving' = Serving /\ Over' = Over
  BY DEF Serving, Over, Direct, Running
<1>2. Sound' => Sound
  BY OverrunGrows DEF Sound
<1>3. Sound' = Sound \/ Sound' = FALSE
  BY <1>2 DEF Sound
<1> QED
  BY <1>1, <1>3 DEF Serving, Over, Sound, Service!ServiceNext, Service!TimeOut,
     Service!serviceVars

(* The create of a start: the row is fresh, and the bus is free if no lock of *)
(* any start was overrun.                                                     *)
LEMMA CreateStarts ==
    ASSUME RowInv, LockInv, BusInv, NEW r \in Requests, Create(r)
    PROVE  \E b \in Buses, t \in Trips : Service!Start(b, t)
<1>1. PICK t \in Trips :
        /\ status[t] = "NONE"
        /\ status' = [status EXCEPT ![t] = "RUNNING"]
        /\ schedule' = [schedule EXCEPT ![t] = want[r]]
        /\ origin' = [origin EXCEPT ![t] = op[r]]
  BY DEF Create
<1> DEFINE bus == want[r].bus
<1>2. want[r] \in Schedules /\ bus \in Buses /\ op[r] \in StartKinds
  BY LifecycleConstants DEF Create, RowInv, RowTypes, StartsAreInside, Inside
<1>3. t \notin Direct
  BY <1>1 DEF Direct, RowInv, RowsAreWhole
<1>4. Direct' = Direct \cup {t} /\ Running' = Running \cup {t} /\ schedule'[t].bus = bus
      /\ \A u \in Direct : schedule'[u] = schedule[u]
  BY <1>1, <1>2, <1>3 DEF Direct, Running, StartKinds, RowInv, RowTypes
<1>5. t \notin Over /\ \A c \in Buses : t \notin Serving[c]
  BY <1>3 DEF Over, Serving
<1>6. Sound => Serving[bus] = {}
  BY <1>2 DEF Sound, Serving, BusInv, BusIsFree, Create
<1>7. Serving' = [Serving EXCEPT ![bus] = @ \cup {t}]
  <2>1. \A c \in Buses : Serving'[c] = IF c = bus THEN Serving[c] \cup {t} ELSE Serving[c]
    BY <1>3, <1>4 DEF Serving
  <2> QED
    BY <1>2, <2>1 DEF Serving
<1>8. Over' = Over
  BY <1>1, <1>3, <1>4 DEF Over, RowInv, RowTypes
<1>9. Sound' = Sound
  BY DEF Create, lockVars, Sound
<1> QED
  BY <1>2, <1>5, <1>6, <1>7, <1>8, <1>9 DEF Service!Start, Serving, Over, Sound

(* A finalizer ends a running direct trip on its bus; one that comes late, or *)
(* is about a row of the window job, changes nothing here.                    *)
LEMMA FinalizeEnds ==
    ASSUME RowInv, NEW r \in Requests, FinalizeWrite(r)
    PROVE  [Service!ServiceNext]_(Service!serviceVars)
<1> DEFINE t == target[r]
<1>1. /\ t \in Trips /\ status[t] # "NONE"
      /\ status' = [status EXCEPT ![t] = "ENDED"]
      /\ UNCHANGED <<schedule, origin, overrun>>
  BY LifecycleConstants DEF FinalizeWrite, lockVars, RowInv, RowTypes, RowsAreWhole, Targeted
<1>2. Direct' = Direct /\ Sound' = Sound
  BY <1>1 DEF Direct, Sound
<1>3. CASE t \in Direct /\ status[t] = "RUNNING"
  <2> DEFINE bus == schedule[t].bus
  <2>1. schedule[t] \in Schedules /\ bus \in Buses
    BY <1>1, LifecycleConstants DEF RowInv, RowTypes, RowsAreWhole
  <2>2. t \in Serving[bus]
    BY <1>1, <1>3, <2>1 DEF Serving, Running
  <2>3. Running' = Running \ {t}
    BY <1>1, <1>3 DEF Running, RowInv, RowTypes
  <2>4. Serving' = [Serving EXCEPT ![bus] = @ \ {t}]
    <3>1. \A c \in Buses : Serving'[c] = IF c = bus THEN Serving[c] \ {t} ELSE Serving[c]
      BY <1>1, <1>2, <2>3 DEF Serving
    <3> QED
      BY <2>1, <3>1 DEF Serving
  <2>5. Over' = Over \cup {t}
    BY <1>1, <1>2, <1>3 DEF Over, RowInv, RowTypes
  <2>6. \E b \in Buses, u \in Trips : Service!End(b, u)
    BY <1>1, <1>2, <2>1, <2>2, <2>4, <2>5 DEF Service!End, Serving, Over, Sound
  <2> QED
    BY <2>6 DEF Service!ServiceNext
<1>4. CASE ~ (t \in Direct /\ status[t] = "RUNNING")
  <2>1. \A u \in Direct : status'[u] = status[u] /\ schedule'[u] = schedule[u]
    BY <1>1, <1>4 DEF Direct, RowInv, RowTypes, RowsAreWhole
  <2>2. Serving' = Serving /\ Over' = Over
    BY <1>2, <2>1 DEF Serving, Over, Direct, Running
  <2> QED
    BY <1>2, <2>2 DEF Service!serviceVars, Serving, Over, Sound
<1> QED
  BY <1>3, <1>4

LEMMA ServiceStep ==
    RowInv /\ LockInv /\ BusInv /\ [Next]_vars => [Service!ServiceNext]_(Service!serviceVars)
<1> SUFFICES ASSUME RowInv, LockInv, BusInv, [Next]_vars
             PROVE  [Service!ServiceNext]_(Service!serviceVars)
  OBVIOUS
<1> DEFINE Calm == /\ Direct' = Direct
                   /\ \A t \in Direct : status'[t] = status[t] /\ schedule'[t] = schedule[t]
<1>a. Calm => [Service!ServiceNext]_(Service!serviceVars)
  BY ServiceCalm
<1>1. ASSUME NEW r \in Requests, Step(r), ~ Create(r), ~ FinalizeWrite(r) PROVE Calm
  <2>1. CASE PromoteWrite(r)
    BY <2>1 DEF PromoteWrite, Direct, RowInv, RowTypes, RowsAreWhole
  <2>2. CASE FinalizeLog(r)
    BY <2>2 DEF FinalizeLog, Direct
  <2>3. CASE Moves(r)
    BY <2>3 DEF Moves, tripVars, Direct
  <2> QED
    BY <1>1, <2>1, <2>2, <2>3, ReadingStep, LockingStep DEF Step
<1>2. ASSUME NEW r \in Requests, Crash(r) PROVE Calm
  BY <1>2 DEF Crash, Direct
<1>3. ASSUME JobStep PROVE Calm
  <2>1. CASE JobTick
    BY <2>1 DEF JobTick, Waiting, Direct, RowInv, RowTypes, RowsAreWhole
  <2>2. CASE JobCreates
    BY <2>2 DEF JobCreates, Direct, RowInv, RowTypes, RowsAreWhole
  <2>3. CASE UNCHANGED tripVars
    BY <2>3 DEF tripVars, Direct
  <2> QED
    BY <1>3, <2>1, <2>2, <2>3 DEF JobStep, JobSkips, JobChooses, JobCreateFails, JobRests
<1>4. ASSUME NEW k \in LockKeys, Expire(k) PROVE Calm
  BY <1>4 DEF Expire, tripVars, Direct
<1>5. ASSUME UNCHANGED vars PROVE Calm
  BY <1>5 DEF vars, Direct
<1>6. ASSUME NEW r \in Requests, Create(r)
      PROVE  [Service!ServiceNext]_(Service!serviceVars)
  BY <1>6, CreateStarts DEF Service!ServiceNext
<1> HIDE DEF Calm
<1> QED
  BY <1>a, <1>1, <1>2, <1>3, <1>4, <1>5, <1>6, FinalizeEnds DEF Next

(* The handlers of drivers, admins, GPS packets, jobs and finalizers, with    *)
(* their crashes and lock timeouts, implement the abstract service: a started *)
(* trip runs once, on one bus and, as long as no lock was overrun, alone.     *)
THEOREM LifecycleServes == Spec => ServiceAsPromised
<1>1. Init => Service!ServiceInit
  BY DEF Init, LockInit, Service!ServiceInit, Direct, Running
<1> QED
  BY <1>1, ServiceStep, BusInvariant, RowInvariant, LifecycleLockInv, PTL
  DEF Spec, ServiceAsPromised, Service!ServiceSpec

(* The bookkeeping of TRIP_ENDED events survives every step. *)
LEMMA LoggedStep == RowInv /\ EndIsLogged /\ [Next]_vars => EndIsLogged'
<1> SUFFICES ASSUME RowInv, EndIsLogged, [Next]_vars PROVE EndIsLogged'
  OBVIOUS
<1> USE DEF EndIsLogged
<1>1. ASSUME NEW r \in Requests, Step(r) PROVE EndIsLogged'
  <2>1. CASE Create(r)
    BY <2>1 DEF Create, GoTo, About, RowInv, RowTypes
  <2>2. CASE PromoteWrite(r)
    BY <2>2 DEF PromoteWrite, AfterPromotion, GoTo, RowInv, RowTypes
  <2>3. CASE FinalizeWrite(r)
    BY <2>3 DEF FinalizeWrite, GoTo, RowInv, RowTypes
  <2>4. CASE FinalizeLog(r)
    BY <2>4 DEF FinalizeLog, GoTo, RowInv, RowTypes
  <2>5. CASE Moves(r)
    BY <2>5 DEF Moves, tripVars
  <2> QED
    BY <1>1, <2>1, <2>2, <2>3, <2>4, <2>5, ReadingStep, LockingStep DEF Step
<1>2. ASSUME NEW r \in Requests, Crash(r) PROVE EndIsLogged'
  BY <1>2 DEF Crash, GoTo, RowInv, RowTypes
<1>3. CASE JobStep
  BY <1>3 DEF JobStep, JobTick, JobSkips, JobChooses, JobCreates, JobCreateFails,
     JobRests, tripVars, handlerVars, RowInv, RowTypes
<1>4. ASSUME NEW k \in LockKeys, Expire(k) PROVE EndIsLogged'
  BY <1>4 DEF Expire, tripVars, handlerVars
<1>5. CASE UNCHANGED vars
  BY <1>5 DEF vars
<1> QED
  BY <1>1, <1>2, <1>3, <1>4, <1>5 DEF Next

(* Every trip that ended through finalizeTripService has its TRIP_ENDED event, *)
(* or gets it, unless the handler that owes it is stopped.                     *)
THEOREM LifecycleEndIsLogged == Spec => []EndIsLogged
<1>1. Init => EndIsLogged
  BY DEF Init, EndIsLogged
<1> QED
  BY <1>1, LoggedStep, RowInvariant, PTL DEF Spec
-----------------------------------------------------------------------------
(* The locks are given back.  The await of a handler tells how far its lock  *)
(* protocol is.                                                              *)

StageFits ==
    \A r \in Requests :
        /\ pc[r] \in {"idle", "gpsRead"} => stage[r] = "idle"
        /\ pc[r] = "acquire" => stage[r] \in {"idle", "busHeld", "rollback"}
        /\ pc[r] = "release" => stage[r] \in {"inside", "busReleased"}
        /\ pc[r] \in Targeted \cup {"done"} => stage[r] \in {"idle", "out", "lost"}

\* Handlers whose step leaves the locks alone.
LEMMA FitsWithoutLock ==
    ASSUME RowInv, StageFits, NEW r \in Requests, Step(r),
           ~ Acquire(r), ~ Denied(r), ~ Release(r)
    PROVE  StageFits'
<1> USE DEF RowInv, RowTypes, StartsAreInside, StageFits, GoTo, About, Begin, Located,
            AfterPromotion, Inside, Targeted, lockVars
<1>1. CASE DriverStartDone(r) \/ DriverStartPromotes(r) \/ DriverStartCreates(r) \/ AdminStart(r)
  BY <1>1 DEF DriverStartDone, DriverStartPromotes, DriverStartCreates, AdminStart
<1>2. CASE DriverLocation(r) \/ GpsOnTrip(r) \/ GpsWithoutTrip(r)
  BY <1>2 DEF DriverLocation, GpsOnTrip, GpsWithoutTrip
<1>3. CASE GpsReadsTrip(r) \/ GpsReadsNone(r)
  BY <1>3 DEF GpsReadsTrip, GpsReadsNone
<1>4. CASE CheckFails(r) \/ CheckPasses(r) \/ CheckDriver(r)
  BY <1>4 DEF CheckFails, CheckPasses, CheckDriver
<1>5. CASE Create(r) \/ LogStart(r) \/ StartThrows(r)
  BY <1>5 DEF Create, LogStart, StartThrows
<1>6. CASE PromoteRead(r) \/ PromoteWrite(r) \/ AutoEndRead(r)
  BY <1>6 DEF PromoteRead, PromoteWrite, AutoEndRead
<1>7. CASE DriverEnd(r) \/ ForceEnd(r)
  BY <1>7 DEF DriverEnd, ForceEnd
<1>8. CASE FinalizeRead(r) \/ FinalizeWrite(r) \/ FinalizeLog(r)
  BY <1>8 DEF FinalizeRead, FinalizeWrite, FinalizeLog
<1> QED
  BY <1>1, <1>2, <1>3, <1>4, <1>5, <1>6, <1>7, <1>8 DEF Step

LEMMA FitsStep == RowInv /\ StageFits /\ [Next]_vars => StageFits'
<1> SUFFICES ASSUME RowInv, StageFits, [Next]_vars PROVE StageFits'
  OBVIOUS
<1>1. ASSUME NEW r \in Requests, Acquire(r) \/ Denied(r) \/ Release(r)
      PROVE  StageFits'
  <2>1. /\ stage' \in [Requests -> Stages]
        /\ \A q \in Requests : q # r => stage'[q] = stage[q] /\ pc'[q] = pc[q]
        /\ pc' \in [Requests -> Awaits]
    BY <1>1, StageLocal, LockingStep DEF Moves, Acquire, Denied, Release, RowInv
  <2> USE DEF RowInv, RowTypes, StageFits, GoTo, Inside, Targeted, Reach
  <2>2. CASE Acquire(r)
    <3>1. stage'[r] \in {"inside", "busHeld", "rollback"}
      BY <2>2 DEF Acquire, LockBus, LockDriver, DriverLocked
    <3>2. pc'[r] = IF stage'[r] = "inside" THEN "check" ELSE "acquire"
      BY <2>2 DEF Acquire
    <3> QED
      BY <2>1, <3>1, <3>2
  <2>3. CASE Denied(r)
    <3>1. stage'[r] = "out" /\ pc'[r] = "done"
      BY <2>3 DEF Denied, BusLocked, Rollback
    <3> QED
      BY <2>1, <3>1
  <2>4. CASE Release(r)
    <3>1. stage'[r] \in {"out", "busReleased"}
      BY <2>4 DEF Release, ReleaseBus, ReleaseDriver
    <3>2. pc'[r] = IF stage'[r] = "busReleased" THEN "release"
                   ELSE IF op[r] = "gps" /\ target[r] # NoTrip THEN "autoEndRead" ELSE "done"
      BY <2>4 DEF Release
    <3> QED
      BY <2>1, <3>1, <3>2
  <2> QED
    BY <1>1, <2>2, <2>3, <2>4
<1>2. ASSUME NEW r \in Requests, Step(r) PROVE StageFits'
  BY <1>1, <1>2, FitsWithoutLock
<1>3. ASSUME NEW r \in Requests, Crash(r) PROVE StageFits'
  <2>1. pc' = [pc EXCEPT ![r] = "done"]
    BY <1>3 DEF Crash, GoTo
  <2>2. CASE stage[r] \in {"idle", "out"}
    BY <1>3, <2>1, <2>2 DEF Crash, lockVars, StageFits, RowInv, RowTypes, Targeted
  <2>3. CASE stage[r] \notin {"idle", "out"}
    <3>1. stage' = [stage EXCEPT ![r] = "lost"]
      BY <1>3, <2>3 DEF Crash, Abandon, Reach
    <3> QED
      BY <2>1, <3>1 DEF StageFits, RowInv, RowTypes, Targeted
  <2> QED
    BY <2>2, <2>3
<1>4. CASE JobStep
  BY <1>4 DEF JobStep, JobTick, JobSkips, JobChooses, JobCreates, JobCreateFails, JobRests,
              lockVars, handlerVars, StageFits
<1>5. ASSUME NEW k \in LockKeys, Expire(k) PROVE StageFits'
  BY <1>5 DEF Expire, KeyExpires, handlerVars, StageFits
<1>6. CASE UNCHANGED vars
  BY <1>6 DEF vars, StageFits
<1> QED
  BY <1>2, <1>3, <1>4, <1>5, <1>6 DEF Next

(* No handler returns with a lock, or works on a trip while it has one.      *)
THEOREM LifecycleGivesBack == Spec => []LocksAreGivenBack
<1>1. Init => StageFits
  BY DEF Init, LockInit, StageFits, Targeted
<1>2. RowInv /\ StageFits /\ LockInv => LocksAreGivenBack
  <2> SUFFICES ASSUME RowInv, StageFits, LockInv,
                      NEW r \in Requests, NEW k \in LockKeys, lock[k] = r,
                      pc[r] \notin {"acquire", "release"} \cup Inside
               PROVE  stage[r] = "lost"
    BY DEF LocksAreGivenBack
  <2>1. stage[r] \in {"idle", "out", "lost"}
    BY DEF RowInv, RowTypes, StageFits, Awaits
  <2>2. stage[r] = "lost" \/ k \in Claims(r)
    BY DEF LockInv, KeysAreClaimed
  <2> QED
    BY <2>1, <2>2 DEF Claims
<1> QED
  BY <1>1, <1>2, FitsStep, RowInvariant, LifecycleLockInv, PTL DEF Spec

=============================================================================
