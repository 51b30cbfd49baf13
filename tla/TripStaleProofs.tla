-------------------------- MODULE TripStaleProofs --------------------------
(* Proofs about the stale job, for any number of trips, any thresholds and *)
(* any number of sweeps that are cut short.                                *)
EXTENDS TripStale, TLAPS

(* A trip that the list calls overdue still is, or was heard since.        *)
OverdueIsSilent ==
    \A t \in overdue : t \in heard \/ Silent(t, EndAfter)

EndsTheOverdue ==
    job = "ending" => current \in overdue

(* The trips that this sweep is still going to mark.                       *)
ToMark == {t \in unmarked : t \in listed \/ (job = "marking" /\ t = current)}

MarkedOnce ==
    /\ \A t \in ToMark : marks[t] = 0
    /\ \A t \in Trips : marks[t] > 0 => marks[t] = 1 /\ t \in isStale \cup ended

MarksTheUnmarked ==
    /\ job = "marking" => current \in unmarked
    /\ current \notin listed

(* Between two sweeps there is no list. *)
IdleHasNoList == job = "idle" => overdue = {}

StaleInv ==
    TypeOK /\ IdleHasNoList /\ OverdueIsSilent /\ EndsTheOverdue /\ MarkedOnce /\ MarksTheUnmarked
    /\ EndedForSilence

LEMMA StaleInit == Init => StaleInv
BY StaleConstants
   DEF Init, StaleInv, TypeOK, IdleHasNoList, OverdueIsSilent, EndsTheOverdue, MarkedOnce, ToMark,
       MarksTheUnmarked, EndedForSilence, Ages

LEMMA StaleTypeStep == TypeOK /\ [Next]_vars => TypeOK'
<1> SUFFICES ASSUME TypeOK, [Next]_vars PROVE TypeOK'
  OBVIOUS
<1> USE StaleConstants DEF TypeOK, Ages, rowVars, listVars, historyVars, Over
<1>1. CASE Sweep
  BY <1>1 DEF Sweep
<1>2. ASSUME NEW t \in Trips, Look(t) PROVE TypeOK'
  BY <1>2 DEF Look
<1>3. CASE Mark
  BY <1>3 DEF Mark
<1>4. CASE Alert \/ Decide
  BY <1>4 DEF Alert, Decide
<1>5. CASE End
  BY <1>5 DEF End
<1>6. CASE Rest
  BY <1>6 DEF Rest
<1>7. CASE Fail
  BY <1>7 DEF Fail
<1>8. CASE Clock
  BY <1>8 DEF Clock
<1>9. ASSUME NEW t \in Trips, LocationArrives(t) \/ RecoverChecks(t) PROVE TypeOK'
  BY <1>9 DEF LocationArrives, RecoverChecks
<1>10. ASSUME NEW t \in Trips, RecoverWrites(t) \/ EndedElsewhere(t) PROVE TypeOK'
  BY <1>10 DEF RecoverWrites, EndedElsewhere
<1>11. ASSUME NEW t \in Trips, NEW a \in Ages, LocationWrites(t, a) PROVE TypeOK'
  BY <1>11 DEF LocationWrites
<1>12. CASE UNCHANGED vars
  BY <1>12 DEF vars
<1> QED
  BY <1>1, <1>2, <1>3, <1>4, <1>5, <1>6, <1>7, <1>8, <1>9, <1>10, <1>11, <1>12
     DEF Next, JobStep

LEMMA StaleStep == StaleInv /\ [Next]_vars => StaleInv'
<1> SUFFICES ASSUME StaleInv, [Next]_vars PROVE StaleInv'
  OBVIOUS
<1>t. TypeOK'
  BY StaleTypeStep DEF StaleInv
<1> USE StaleConstants, <1>t
    DEF StaleInv, TypeOK, IdleHasNoList, OverdueIsSilent, EndsTheOverdue, MarkedOnce,
        ToMark, MarksTheUnmarked, EndedForSilence, Silent, Ages, rowVars, listVars, historyVars
<1>1. CASE Sweep
  BY <1>1 DEF Sweep
<1>2. ASSUME NEW t \in Trips, Look(t) PROVE StaleInv'
  BY <1>2 DEF Look
<1>3. CASE Mark
  BY <1>3 DEF Mark
<1>4. CASE Alert \/ Decide
  BY <1>4 DEF Alert, Decide
<1>5. CASE End
  BY <1>5 DEF End
<1>6. CASE Rest
  BY <1>6 DEF Rest, Over
<1>7. CASE Fail
  BY <1>7 DEF Fail, Over
<1>8. CASE Clock
  BY <1>8 DEF Clock
<1>9. ASSUME NEW t \in Trips, LocationArrives(t) \/ RecoverChecks(t) PROVE StaleInv'
  BY <1>9 DEF LocationArrives, RecoverChecks
<1>10. ASSUME NEW t \in Trips, RecoverWrites(t) \/ EndedElsewhere(t) PROVE StaleInv'
  BY <1>10 DEF RecoverWrites, EndedElsewhere
<1>11. ASSUME NEW t \in Trips, NEW a \in Ages, LocationWrites(t, a) PROVE StaleInv'
  BY <1>11 DEF LocationWrites
<1>12. CASE UNCHANGED vars
  BY <1>12 DEF vars
<1> QED
  BY <1>1, <1>2, <1>3, <1>4, <1>5, <1>6, <1>7, <1>8, <1>9, <1>10, <1>11, <1>12
     DEF Next, JobStep

(* The inductive invariant of the stale job. *)
THEOREM StaleInvariant == Spec => []StaleInv
BY StaleInit, StaleStep, PTL DEF Spec

(* Type correctness of the stale job. *)
THEOREM StaleTypes == Spec => []TypeOK
<1>1. StaleInv => TypeOK
  BY DEF StaleInv
<1> QED
  BY <1>1, StaleInvariant, PTL

(* One silence is reported at most once: a trip is marked only if the list *)
(* shows it unmarked, and then no mark was made since its last location.   *)
THEOREM StaleOneAlert == Spec => []OneAlertPerSilence
<1>1. StaleInv => OneAlertPerSilence
  <2> SUFFICES ASSUME StaleInv, NEW t \in Trips PROVE marks[t] <= 1
    BY DEF OneAlertPerSilence
  <2>1. marks[t] \in 0 .. 2
    BY DEF StaleInv, TypeOK
  <2>2. marks[t] > 0 => marks[t] = 1
    BY DEF StaleInv, MarkedOnce
  <2> QED
    BY <2>1, <2>2
<1> QED
  BY <1>1, StaleInvariant, PTL

(* The job ends a trip only after a silence of EndAfter, unless it was     *)
(* heard again during the sweep.                                           *)
THEOREM StaleEndsTheSilent == Spec => []EndedForSilence
<1>1. StaleInv => EndedForSilence
  BY DEF StaleInv
<1> QED
  BY <1>1, StaleInvariant, PTL
=============================================================================
