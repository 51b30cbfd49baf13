----------------------------- MODULE TripStale -----------------------------
(***************************************************************************)
(* The job that marks silent trips and ends them (markStaleTripsService    *)
(* and its timer), beside the writes that locations and admins make to the *)
(* same rows.                                                              *)
(*                                                                         *)
(* A sweep reads the RUNNING trips whose last location is old, and then    *)
(* goes through that list: it marks and reports a trip that was not marked *)
(* when the list was read, and ends one that was silent for too long when  *)
(* the list was read.  The list is not read again, and locations arrive    *)
(* meanwhile.  An exception leaves the loop, and the timer starts another  *)
(* sweep.                                                                  *)
(*                                                                         *)
(* Time is the age of lastLocationAt, in steps, up to MaxAge; a location   *)
(* brings its own timestamp and so any age.                                *)
(***************************************************************************)
EXTENDS Naturals

CONSTANTS
    Trips,
    StaleAfter,   \* TRIP_STALE_THRESHOLD_SECONDS
    EndAfter,     \* TELEMATICS_AUTO_END_TIMEOUT_SECONDS
    MaxAge,       \* bound: ages beyond it are not told apart
    Never,        \* lastLocationAt = null
    NoTrip,
    MaxFailures   \* bound: how many sweeps are cut short

ASSUME StaleConstants ==
    /\ StaleAfter \in Nat \ {0} /\ EndAfter \in Nat \ {0}
    /\ MaxAge \in Nat
    /\ StaleAfter <= EndAfter /\ EndAfter <= MaxAge
    /\ MaxFailures \in Nat
    /\ Never \notin 0 .. MaxAge
    /\ NoTrip \notin Trips

VARIABLES
    ended,      \* trips whose status is ENDED; the others are RUNNING
    age,        \* of lastLocationAt
    isStale,    \* trips with isStale set
    marks,      \* marks (an alert follows each) since the last location or recovery, up to 2
    flying,     \* trips a location of which has passed the status check
    recovering, \* trips for which a force-recover has passed its check
    job,        \* the await the sweep is at
    listed,     \* the trips it still has to look at
    unmarked,   \* those of its list that were not marked when it was read
    overdue,    \* those that were silent for EndAfter when it was read
    current,    \* the trip it looks at
    failures,   \* sweeps cut short so far
    heard,      \* history: trips with a location since the list was read
    hasty       \* history: trips the job ended before EndAfter, not heard either

rowVars == <<ended, age, isStale>>
listVars == <<listed, unmarked, overdue>>
historyVars == <<heard, hasty>>
vars == <<ended, age, isStale, marks, flying, recovering, job, listed, unmarked,
          overdue, current, failures, heard, hasty>>

Ages == 0 .. MaxAge

Silent(t, limit) == age[t] # Never /\ age[t] >= limit

TypeOK ==
    /\ ended \in SUBSET Trips
    /\ age \in [Trips -> Ages \cup {Never}]
    /\ isStale \in SUBSET Trips
    /\ marks \in [Trips -> 0 .. 2]
    /\ flying \in SUBSET Trips
    /\ recovering \in SUBSET Trips
    /\ job \in {"idle", "looking", "marking", "alerting", "deciding", "ending"}
    /\ listed \in SUBSET Trips
    /\ unmarked \in SUBSET Trips
    /\ overdue \in SUBSET Trips
    /\ current \in Trips \cup {NoTrip}
    /\ current = NoTrip <=> job \in {"idle", "looking"}
    /\ failures \in 0 .. MaxFailures
    /\ heard \in SUBSET Trips
    /\ hasty \in SUBSET Trips

\* Trips start RUNNING and without a location.
Init ==
    /\ ended = {}
    /\ age = [t \in Trips |-> Never]
    /\ isStale = {}
    /\ marks = [t \in Trips |-> 0]
    /\ flying = {}
    /\ recovering = {}
    /\ job = "idle"
    /\ listed = {}
    /\ unmarked = {}
    /\ overdue = {}
    /\ current = NoTrip
    /\ failures = 0
    /\ heard = {}
    /\ hasty = {}

-----------------------------------------------------------------------------
(* Deliberate mistakes, to see each property fail (PROJECT.json, mutants).  *)

\* the alert is written without setting isStale
Bug_AlertOnly ==
    /\ job = "marking"
    /\ marks' = [marks EXCEPT ![current] = IF @ = 2 THEN 2 ELSE @ + 1]
    /\ job' = "alerting"
    /\ UNCHANGED <<rowVars, flying, recovering, listVars, current, failures, historyVars>>

\* every listed trip is ended, not only the overdue ones
Bug_EndAllListed ==
    /\ job = "deciding"
    /\ job' = "ending"
    /\ UNCHANGED <<rowVars, marks, flying, recovering, listVars, current, failures, historyVars>>

\* a trip that is already marked is skipped altogether
Bug_SkipMarked(t) ==
    /\ job = "looking"
    /\ t \in listed
    /\ listed' = listed \ {t}
    /\ IF t \in unmarked THEN current' = t /\ job' = "marking"
                         ELSE UNCHANGED <<current, job>>
    /\ UNCHANGED <<rowVars, marks, flying, recovering, unmarked, overdue, failures, historyVars>>

-----------------------------------------------------------------------------
(* markStaleTripsService                                                    *)

\* The timer fires: trip.findMany and the two cutoffs.
Sweep ==
    /\ job = "idle"
    /\ LET old == {t \in Trips \ ended : Silent(t, StaleAfter)} IN
          /\ listed' = old
          /\ unmarked' = old \ isStale
          /\ overdue' = {t \in old : Silent(t, EndAfter)}
    /\ job' = "looking"
    /\ heard' = {}
    /\ UNCHANGED <<rowVars, marks, flying, recovering, current, failures, hasty>>

\* The next trip of the list.
Look(t) ==
    /\ job = "looking"
    /\ t \in listed
    /\ listed' = listed \ {t}
    /\ current' = t
    /\ job' = IF t \in unmarked THEN "marking" ELSE "deciding"
    /\ UNCHANGED <<rowVars, marks, flying, recovering, unmarked, overdue, failures, historyVars>>

\* update where id = trip.id, whatever has happened to the row ...
Mark ==
    /\ job = "marking"
    /\ isStale' = isStale \cup {current}
    /\ marks' = [marks EXCEPT ![current] = IF @ = 2 THEN 2 ELSE @ + 1]
    /\ job' = "alerting"
    /\ UNCHANGED <<ended, age, flying, recovering, listVars, current, failures, historyVars>>

\* ... and logStaleAlert, once for each mark; nothing reads the alert back.
Alert ==
    /\ job = "alerting"
    /\ job' = "deciding"
    /\ UNCHANGED <<rowVars, marks, flying, recovering, listVars, current, failures, historyVars>>

\* The list says whether the trip is overdue; finalizeTripService then reads
\* the status.
Decide ==
    /\ job = "deciding"
    /\ IF current \in overdue \ ended
       THEN job' = "ending" /\ UNCHANGED current
       ELSE job' = "looking" /\ current' = NoTrip
    /\ UNCHANGED <<rowVars, marks, flying, recovering, listVars, failures, historyVars>>

\* The transaction of finalizeTripService, AUTO_TELEMETRY_TIMEOUT.
End ==
    /\ job = "ending"
    /\ ended' = ended \cup {current}
    /\ isStale' = isStale \ {current}
    /\ LET early == {current} \ {t \in Trips : Silent(t, EndAfter)} IN
          hasty' = hasty \cup (early \ heard)
    /\ job' = "looking"
    /\ current' = NoTrip
    /\ UNCHANGED <<age, marks, flying, recovering, listVars, failures, heard>>

\* The sweep returns or throws; its list is gone.
Over ==
    /\ job' = "idle"
    /\ current' = NoTrip
    /\ listed' = {} /\ unmarked' = {} /\ overdue' = {} /\ heard' = {}
    /\ UNCHANGED hasty

\* The end of the list, or an empty one.
Rest ==
    /\ job = "looking"
    /\ listed = {}
    /\ Over
    /\ UNCHANGED <<rowVars, marks, flying, recovering, failures>>

\* A query throws out of the loop, or the server restarts.
Fail ==
    /\ job # "idle"
    /\ failures < MaxFailures
    /\ failures' = failures + 1
    /\ Over
    /\ UNCHANGED <<rowVars, marks, flying, recovering>>

-----------------------------------------------------------------------------
(* The other writers of the row.                                            *)

\* A location of a phone or of a GPS device passes the status check ...
LocationArrives(t) ==
    /\ t \notin ended
    /\ flying' = flying \cup {t}
    /\ UNCHANGED <<rowVars, marks, recovering, job, listVars, current, failures, historyVars>>

\* ... and is written with its own timestamp; arbitration says whether the
\* selected source is healthy.
LocationWrites(t, a) ==
    /\ t \in flying
    /\ flying' = flying \ {t}
    /\ age' = [age EXCEPT ![t] = a]
    /\ isStale' \in {isStale \cup {t}, isStale \ {t}}
    /\ marks' = [marks EXCEPT ![t] = 0]
    /\ heard' = IF job = "idle" THEN {} ELSE heard \cup {t}
    /\ UNCHANGED <<ended, recovering, job, listVars, current, failures, hasty>>

\* forceRecoverAdminTripService checks that the trip is RUNNING ...
RecoverChecks(t) ==
    /\ t \notin ended
    /\ recovering' = recovering \cup {t}
    /\ UNCHANGED <<rowVars, marks, flying, job, listVars, current, failures, historyVars>>

\* ... and takes the mark away.
RecoverWrites(t) ==
    /\ t \in recovering
    /\ recovering' = recovering \ {t}
    /\ isStale' = isStale \ {t}
    /\ marks' = [marks EXCEPT ![t] = 0]
    /\ UNCHANGED <<ended, age, flying, job, listVars, current, failures, historyVars>>

\* The driver, an admin or auto-end finalizes the trip: the status was read
\* earlier, and the write does not look at it again.
EndedElsewhere(t) ==
    /\ ended' = ended \cup {t}
    /\ isStale' = isStale \ {t}
    /\ UNCHANGED <<age, marks, flying, recovering, job, listVars, current, failures, historyVars>>

Clock ==
    /\ age' = [t \in Trips |-> IF age[t] \in {Never, MaxAge} THEN age[t] ELSE age[t] + 1]
    /\ age' # age
    /\ UNCHANGED <<ended, isStale, marks, flying, recovering, job, listVars, current, failures, historyVars>>

JobStep ==
    \/ Sweep \/ Mark \/ Alert \/ Decide \/ End \/ Rest
    \/ \E t \in Trips : Look(t)

Next ==
    \/ JobStep \/ Fail \/ Clock
    \/ \E t \in Trips :
          \/ LocationArrives(t) \/ RecoverChecks(t) \/ RecoverWrites(t) \/ EndedElsewhere(t)
          \/ \E a \in Ages : LocationWrites(t, a)

Spec == Init /\ [][Next]_vars

\* The timer keeps firing and its queries are answered; time passes.
FairSpec == Spec /\ WF_vars(JobStep) /\ WF_vars(Clock)

-----------------------------------------------------------------------------
(* Correctness.                                                             *)

\* However locations, recoveries and restarts fall between the read of the list
\* and its use, one silence is marked, and so reported, at most once.
OneAlertPerSilence == \A t \in Trips : marks[t] <= 1

\* The job ends a trip only after a silence of EndAfter, except one that was
\* heard again after the list was read: a slow but live trip is never ended for
\* being merely stale, nor one that has not reported yet.
EndedForSilence == hasty = {}

\* The safety net: a trip that reported once and then falls silent is ended,
\* whatever sweeps are cut short and whether or not it was marked before.
SilentTripEnds ==
    \A t \in Trips :
        (t \notin ended /\ age[t] = MaxAge) ~> (t \in ended \/ age[t] # MaxAge)
=============================================================================
