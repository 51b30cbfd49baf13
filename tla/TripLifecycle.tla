--------------------------- MODULE TripLifecycle ---------------------------
(***************************************************************************)
(* The life of a trip row: who creates it, promotes it and ends it.        *)
(*                                                                         *)
(*   startTripService             the driver taps Start                    *)
(*   startAdminTripService        an admin starts a schedule               *)
(*   ingestGpsDeviceLocationService and                                    *)
(*   maybeAutoStartTripFromTelematicsPacket    a packet of the bus's GPS   *)
(*   processDriverLocationUpdate  a location of the driver's phone         *)
(*   promotePreTripToRunning      called by Start, GPS and locations       *)
(*   maybeAutoEndTripService, endTrip, forceEndAdminTripService,           *)
(*   markStaleTripsService        four ways into finalizeTripService       *)
(*   openPreTripWindowsService    the job that opens and cancels PRE_TRIP  *)
(*                                                                         *)
(* Every database query and every Redis command that matters here is a     *)
(* step of its own, since each is an await between which the other         *)
(* handlers run.  The locks are those of module TripLock.  Idempotency     *)
(* keys (module Idempotency) do not order requests with different keys and *)
(* are left out here.  A handler gives up at any await (Crash) when the    *)
(* server stops or the query throws.                                       *)
(* The requests of TripLock are the calls of these handlers; want[r] is    *)
(* also the schedule that request r would start.                           *)
(***************************************************************************)
EXTENDS TripLock

CONSTANTS
    Schedules,  \* the service schedules, each with its bus and its driver
    Trips,      \* ids of trip rows
    NoTrip, NoSchedule

ASSUME LifecycleConstants ==
    /\ Schedules \subseteq [bus : Buses, driver : Drivers \cup {NoDriver}]
    /\ NoSchedule \notin Schedules
    /\ NoTrip \notin Trips

VARIABLES
    pc,         \* the await each handler is at
    op,         \* what kind of handler it is
    target,     \* the trip a handler is about
    status,     \* Trip.status
    schedule,   \* Trip.serviceScheduleId, for the bus and the driver
    origin,     \* who created the row
    endLogged,  \* trips with a TRIP_ENDED event
    unlogged,   \* history: trips ended by the job, or by a handler that stopped
                \* before it wrote the event
    job,        \* what the pre-trip window job is doing
    due,        \* the schedules it still has to look at
    opening     \* the schedule between its check and its create

handlerVars == <<pc, op, target>>
tripVars == <<status, schedule, origin, endLogged, unlogged>>
jobVars == <<job, due, opening>>
vars == <<lock, stage, want, overrun, pc, op, target, status, schedule, origin,
          endLogged, unlogged, job, due, opening>>

\* The three kinds of start, and the handlers that are about an open trip.
Ops == {"none", "driver", "gps", "admin", "onTrip"}

\* The awaits of the start paths while the locks are held.
Inside == {"check", "checkDriver", "create", "logStart"}

\* The awaits of the paths that are about one trip.
Targeted == {"promoteRead", "promoteWrite", "autoEndRead",
             "finalizeRead", "finalizeWrite", "finalizeLog"}

Awaits == {"idle", "done", "gpsRead", "acquire", "release"}
          \cup Inside \cup Targeted

TypeOK ==
    /\ LockTypeOK
    /\ want \in [Requests -> Schedules]
    /\ pc \in [Requests -> Awaits]
    /\ op \in [Requests -> Ops]
    /\ target \in [Requests -> Trips \cup {NoTrip}]
    /\ \A r \in Requests : pc[r] \in Targeted => target[r] \in Trips
    /\ status \in [Trips -> {"NONE", "PRE_TRIP", "RUNNING", "ENDED"}]
    /\ schedule \in [Trips -> Schedules \cup {NoSchedule}]
    /\ origin \in [Trips -> {"none", "driver", "gps", "admin", "job"}]
    /\ endLogged \in SUBSET Trips
    /\ unlogged \in SUBSET Trips
    /\ job \in {"idle", "scanning", "creating"}
    /\ due \in SUBSET Schedules
    /\ opening \in Schedules \cup {NoSchedule}

Init ==
    /\ LockInit
    /\ want \in [Requests -> Schedules]
    /\ pc = [r \in Requests |-> "idle"]
    /\ op = [r \in Requests |-> "none"]
    /\ target = [r \in Requests |-> NoTrip]
    /\ status = [t \in Trips |-> "NONE"]
    /\ schedule = [t \in Trips |-> NoSchedule]
    /\ origin = [t \in Trips |-> "none"]
    /\ endLogged = {}
    /\ unlogged = {}
    /\ job = "idle"
    /\ due = {}
    /\ opening = NoSchedule

-----------------------------------------------------------------------------
(* Queries.                                                                 *)

Running == {t \in Trips : status[t] = "RUNNING"}
Waiting == {t \in Trips : status[t] = "PRE_TRIP"}

OfBus(b) == {t \in Trips : schedule[t] # NoSchedule /\ schedule[t].bus = b}
OfDriver(d) == {t \in Trips : schedule[t] # NoSchedule /\ schedule[t].driver = d}

\* findFirst(status in RUNNING, PRE_TRIP; orderBy status desc): RUNNING first.
\* Within a status the row is chosen by start time, here any of them.
Best(S) == IF S \cap Running # {} THEN S \cap Running ELSE S \cap Waiting

GoTo(r, a) == pc' = [pc EXCEPT ![r] = a]
About(r, t) == target' = [target EXCEPT ![r] = t]
Begin(r, o) == pc[r] = "idle" /\ op' = [op EXCEPT ![r] = o]

-----------------------------------------------------------------------------
(* Deliberate mistakes, to see each property fail (PROJECT.json, mutants).  *)

\* the check under the lock looks only for trips started the same way
Bug_SameModeOnly(r) ==
    \E t \in OfBus(want[r].bus) \cap Running : origin[t] = op[r]

\* the early return of the check is not inside the try ... finally
Bug_CheckReturns(r) ==
    /\ pc[r] = "check"
    /\ OfBus(want[r].bus) \cap Running # {}
    /\ GoTo(r, "done")
    /\ UNCHANGED <<op, target, lockVars, tripVars, jobVars>>

\* an upsert that reopens a row that has ended
Bug_CreateReopens(r) ==
    /\ pc[r] = "create"
    /\ \E t \in Trips :
          /\ status[t] \in {"NONE", "ENDED"}
          /\ status' = [status EXCEPT ![t] = "RUNNING"]
          /\ schedule' = [schedule EXCEPT ![t] = want[r]]
          /\ origin' = [origin EXCEPT ![t] = op[r]]
          /\ About(r, t)
    /\ GoTo(r, "logStart")
    /\ UNCHANGED <<op, endLogged, unlogged, lockVars, jobVars>>

\* a refused driver key is answered without giving the bus key back
Bug_DeniedKeepsBus(r) ==
    /\ pc[r] = "acquire"
    /\ stage[r] = "busHeld" /\ lock[want[r].driver] # Nobody
    /\ stage' = [stage EXCEPT ![r] = "out"]
    /\ GoTo(r, "done")
    /\ UNCHANGED <<lock, want, overrun, op, target, tripVars, jobVars>>

\* a trip that was PRE_TRIP when it was ended gets no TRIP_ENDED event
Bug_UnloggedEnd(r) ==
    /\ pc[r] = "finalizeWrite"
    /\ GoTo(r, IF status[target[r]] = "PRE_TRIP" THEN "done" ELSE "finalizeLog")
    /\ status' = [status EXCEPT ![target[r]] = "ENDED"]
    /\ UNCHANGED <<op, target, schedule, origin, endLogged, unlogged, lockVars, jobVars>>

-----------------------------------------------------------------------------
(* startTripService: the driver's own trips, before any lock.               *)

\* "Trip already running", or no schedule for today.
DriverStartDone(r) ==
    /\ Begin(r, "driver")
    /\ want[r].driver # NoDriver
    /\ OfDriver(want[r].driver) \cap Running # {} \/ OfDriver(want[r].driver) \cap Waiting = {}
    /\ GoTo(r, "done")
    /\ UNCHANGED <<target, lockVars, tripVars, jobVars>>

\* The driver has a PRE_TRIP row: promote it in place.
DriverStartPromotes(r) ==
    /\ Begin(r, "driver")
    /\ want[r].driver # NoDriver
    /\ \E t \in Best(OfDriver(want[r].driver)) : status[t] = "PRE_TRIP" /\ About(r, t)
    /\ GoTo(r, "promoteRead")
    /\ UNCHANGED <<lockVars, tripVars, jobVars>>

DriverStartCreates(r) ==
    /\ Begin(r, "driver")
    /\ want[r].driver # NoDriver
    /\ Best(OfDriver(want[r].driver)) = {}
    /\ GoTo(r, "acquire")
    /\ UNCHANGED <<target, lockVars, tripVars, jobVars>>

(* startAdminTripService looks at the schedule and goes for the locks.      *)
AdminStart(r) ==
    /\ Begin(r, "admin")
    /\ GoTo(r, "acquire")
    /\ UNCHANGED <<target, lockVars, tripVars, jobVars>>

-----------------------------------------------------------------------------
(* Locations and GPS packets.                                               *)

\* What a location does to the open trip t that it was read with: a PRE_TRIP
\* row is promoted once the bus dwells at the origin, a RUNNING one may have
\* reached its final stop, and most locations do neither.
Located(r, t) ==
    /\ About(r, t)
    /\ GoTo(r, IF status[t] = "PRE_TRIP" THEN "promoteRead" ELSE "autoEndRead")

\* The phone names the trip; the server checks that it is open and the driver's.
DriverLocation(r) ==
    /\ Begin(r, "onTrip")
    /\ \E t \in Running \cup Waiting : schedule[t].driver # NoDriver /\ Located(r, t)
    /\ UNCHANGED <<lockVars, tripVars, jobVars>>

\* The device names the bus; the server looks for its open trip.
GpsOnTrip(r) ==
    /\ Begin(r, "onTrip")
    /\ \E t \in Best(OfBus(want[r].bus)) : Located(r, t)
    /\ UNCHANGED <<lockVars, tripVars, jobVars>>

GpsWithoutTrip(r) ==
    /\ Begin(r, "gps")
    /\ Best(OfBus(want[r].bus)) = {}
    /\ GoTo(r, "gpsRead")
    /\ UNCHANGED <<target, lockVars, tripVars, jobVars>>

\* maybeAutoStartTripFromTelematicsPacket looks again.  A trip that appeared
\* meanwhile is taken as RUNNING whatever its status is.
GpsReadsTrip(r) ==
    /\ pc[r] = "gpsRead"
    /\ \E t \in Best(OfBus(want[r].bus)) : About(r, t)
    /\ GoTo(r, "autoEndRead")
    /\ UNCHANGED <<op, lockVars, tripVars, jobVars>>

\* A schedule matches, and the bus moves near its origin: start a trip.
GpsReadsNone(r) ==
    /\ pc[r] = "gpsRead"
    /\ Best(OfBus(want[r].bus)) = {}
    /\ GoTo(r, "acquire")
    /\ UNCHANGED <<op, target, lockVars, tripVars, jobVars>>

-----------------------------------------------------------------------------
(* The start of a trip under the locks.                                     *)

Acquire(r) ==
    /\ pc[r] = "acquire"
    /\ LockBus(r) \/ LockDriver(r) \/ DriverLocked(r)
    /\ GoTo(r, IF stage'[r] = "inside" THEN "check" ELSE "acquire")
    /\ UNCHANGED <<op, target, tripVars, jobVars>>

Denied(r) ==
    /\ pc[r] = "acquire"
    /\ BusLocked(r) \/ Rollback(r)
    /\ GoTo(r, "done")
    /\ UNCHANGED <<op, target, tripVars, jobVars>>

\* What makes each kind of start give up once it holds the locks.
BusTaken(r) ==
    OfBus(want[r].bus) \cap (IF op[r] = "gps" THEN Running \cup Waiting ELSE Running) # {}

CheckFails(r) ==
    /\ pc[r] = "check"
    /\ BusTaken(r)
    /\ IF op[r] = "gps" THEN \E t \in Best(OfBus(want[r].bus)) : About(r, t)
                        ELSE UNCHANGED target
    /\ GoTo(r, "release")
    /\ UNCHANGED <<op, lockVars, tripVars, jobVars>>

\* Only the admin's start looks at the driver, and under the locks.
CheckPasses(r) ==
    /\ pc[r] = "check"
    /\ ~ BusTaken(r)
    /\ GoTo(r, IF op[r] = "admin" /\ want[r].driver # NoDriver THEN "checkDriver" ELSE "create")
    /\ UNCHANGED <<op, target, lockVars, tripVars, jobVars>>

CheckDriver(r) ==
    /\ pc[r] = "checkDriver"
    /\ GoTo(r, IF OfDriver(want[r].driver) \cap Running = {} THEN "create" ELSE "release")
    /\ UNCHANGED <<op, target, lockVars, tripVars, jobVars>>

\* trip.create of createTripFromServiceSchedule: a fresh row, RUNNING at once.
Create(r) ==
    /\ pc[r] = "create"
    /\ \E t \in Trips :
          /\ status[t] = "NONE"
          /\ status' = [status EXCEPT ![t] = "RUNNING"]
          /\ schedule' = [schedule EXCEPT ![t] = want[r]]
          /\ origin' = [origin EXCEPT ![t] = op[r]]
          /\ About(r, t)
    /\ GoTo(r, "logStart")
    /\ UNCHANGED <<op, endLogged, unlogged, lockVars, jobVars>>

\* logTripStarted, the broadcast and the audit log.
LogStart(r) ==
    /\ pc[r] = "logStart"
    /\ GoTo(r, "release")
    /\ UNCHANGED <<op, target, lockVars, tripVars, jobVars>>

\* The driver asks for a GPS source the bus does not have, or a query throws:
\* the finally still releases the locks.
StartThrows(r) ==
    /\ pc[r] \in Inside
    /\ About(r, NoTrip)
    /\ GoTo(r, "release")
    /\ UNCHANGED <<op, lockVars, tripVars, jobVars>>

\* A GPS packet goes on with the trip that it started or found.
Release(r) ==
    /\ pc[r] = "release"
    /\ ReleaseBus(r) \/ ReleaseDriver(r)
    /\ GoTo(r, IF stage'[r] = "busReleased" THEN "release"
               ELSE IF op[r] = "gps" /\ target[r] # NoTrip THEN "autoEndRead"
               ELSE "done")
    /\ UNCHANGED <<op, target, tripVars, jobVars>>

-----------------------------------------------------------------------------
(* promotePreTripToRunning                                                  *)

\* The callers on the location path take the trip as RUNNING afterwards,
\* whatever came of the promotion.
AfterPromotion(r) == GoTo(r, IF op[r] = "driver" THEN "done" ELSE "autoEndRead")

PromoteRead(r) ==
    /\ pc[r] = "promoteRead"
    /\ IF status[target[r]] = "PRE_TRIP" THEN GoTo(r, "promoteWrite")
                                         ELSE AfterPromotion(r)
    /\ UNCHANGED <<op, target, lockVars, tripVars, jobVars>>

\* update where id = tripId: the status is not looked at again.  The event and
\* the broadcast that follow are best effort.
PromoteWrite(r) ==
    /\ pc[r] = "promoteWrite"
    /\ status' = [status EXCEPT ![target[r]] = "RUNNING"]
    /\ AfterPromotion(r)
    /\ UNCHANGED <<op, target, schedule, origin, endLogged, unlogged, lockVars, jobVars>>

-----------------------------------------------------------------------------
(* The ends of a trip.                                                      *)

\* maybeAutoEndTripService reads the trip and, if it is RUNNING and the bus
\* stands at its final stop, finalizes it.
AutoEndRead(r) ==
    /\ pc[r] = "autoEndRead"
    /\ GoTo(r, "done") \/ (status[target[r]] = "RUNNING" /\ GoTo(r, "finalizeRead"))
    /\ UNCHANGED <<op, target, lockVars, tripVars, jobVars>>

\* endTrip: the driver ends an open trip of his own, PRE_TRIP included.
DriverEnd(r) ==
    /\ Begin(r, "onTrip")
    /\ \E t \in Running \cup Waiting : schedule[t].driver # NoDriver /\ About(r, t)
    /\ GoTo(r, "finalizeRead")
    /\ UNCHANGED <<lockVars, tripVars, jobVars>>

\* forceEndAdminTripService, and markStaleTripsService for a trip whose last
\* location is old: RUNNING trips.
ForceEnd(r) ==
    /\ Begin(r, "onTrip")
    /\ \E t \in Running : About(r, t)
    /\ GoTo(r, "finalizeRead")
    /\ UNCHANGED <<lockVars, tripVars, jobVars>>

\* finalizeTripService
FinalizeRead(r) ==
    /\ pc[r] = "finalizeRead"
    /\ GoTo(r, IF status[target[r]] = "ENDED" THEN "done" ELSE "finalizeWrite")
    /\ UNCHANGED <<op, target, lockVars, tripVars, jobVars>>

\* The transaction writes ENDED whatever the status is by now.
FinalizeWrite(r) ==
    /\ pc[r] = "finalizeWrite"
    /\ status' = [status EXCEPT ![target[r]] = "ENDED"]
    /\ GoTo(r, "finalizeLog")
    /\ UNCHANGED <<op, target, schedule, origin, endLogged, unlogged, lockVars, jobVars>>

FinalizeLog(r) ==
    /\ pc[r] = "finalizeLog"
    /\ endLogged' = endLogged \cup {target[r]}
    /\ GoTo(r, "done")
    /\ UNCHANGED <<op, target, status, schedule, origin, unlogged, lockVars, jobVars>>

-----------------------------------------------------------------------------
(* openPreTripWindowsService.  It takes no lock.                            *)

\* One updateMany ends the PRE_TRIP rows that are too old; then the schedules
\* whose window is open are gone through one by one.
JobTick ==
    /\ job = "idle"
    /\ \E old \in SUBSET Waiting :
          /\ status' = [t \in Trips |-> IF t \in old THEN "ENDED" ELSE status[t]]
          /\ unlogged' = unlogged \cup old
    /\ due' \in SUBSET Schedules
    /\ job' = "scanning"
    /\ UNCHANGED <<opening, schedule, origin, endLogged, lockVars, handlerVars>>

JobBusy(s) ==
    \/ OfBus(s.bus) \cap (Running \cup Waiting) # {}
    \/ s.driver # NoDriver /\ OfDriver(s.driver) \cap (Running \cup Waiting) # {}

JobSkips(s) ==
    /\ job = "scanning"
    /\ s \in due /\ JobBusy(s)
    /\ due' = due \ {s}
    /\ UNCHANGED <<job, opening, lockVars, handlerVars, tripVars>>

JobChooses(s) ==
    /\ job = "scanning"
    /\ s \in due /\ ~ JobBusy(s)
    /\ due' = due \ {s}
    /\ opening' = s
    /\ job' = "creating"
    /\ UNCHANGED <<lockVars, handlerVars, tripVars>>

\* trip.create, PRE_TRIP.
JobCreates ==
    /\ job = "creating"
    /\ \E t \in Trips :
          /\ status[t] = "NONE"
          /\ status' = [status EXCEPT ![t] = "PRE_TRIP"]
          /\ schedule' = [schedule EXCEPT ![t] = opening]
          /\ origin' = [origin EXCEPT ![t] = "job"]
    /\ job' = "scanning"
    /\ opening' = NoSchedule
    /\ UNCHANGED <<endLogged, unlogged, due, lockVars, handlerVars>>

\* The create throws: it is logged and the next schedule is looked at.
JobCreateFails ==
    /\ job = "creating"
    /\ job' = "scanning"
    /\ opening' = NoSchedule
    /\ UNCHANGED <<due, lockVars, handlerVars, tripVars>>

\* The tick is over, or it was cut short by a query that threw or a restart.
JobRests ==
    /\ job # "idle"
    /\ job' = "idle"
    /\ due' = {}
    /\ opening' = NoSchedule
    /\ UNCHANGED <<lockVars, handlerVars, tripVars>>

-----------------------------------------------------------------------------
\* The server stops, or a query throws outside the reach of a finally.
Crash(r) ==
    /\ pc[r] \notin {"idle", "done"}
    /\ GoTo(r, "done")
    /\ IF stage[r] \in {"idle", "out"} THEN UNCHANGED lockVars ELSE Abandon(r)
    /\ unlogged' = IF pc[r] = "finalizeLog" THEN unlogged \cup {target[r]} ELSE unlogged
    /\ UNCHANGED <<op, target, status, schedule, origin, endLogged, jobVars>>

Expire(k) ==
    /\ KeyExpires(k)
    /\ UNCHANGED <<handlerVars, tripVars, jobVars>>

Step(r) ==
    \/ DriverStartDone(r) \/ DriverStartPromotes(r) \/ DriverStartCreates(r)
    \/ AdminStart(r)
    \/ DriverLocation(r) \/ GpsOnTrip(r) \/ GpsWithoutTrip(r)
    \/ GpsReadsTrip(r) \/ GpsReadsNone(r)
    \/ Acquire(r) \/ Denied(r)
    \/ CheckFails(r) \/ CheckPasses(r) \/ CheckDriver(r)
    \/ Create(r) \/ LogStart(r) \/ StartThrows(r) \/ Release(r)
    \/ PromoteRead(r) \/ PromoteWrite(r)
    \/ DriverEnd(r) \/ ForceEnd(r) \/ AutoEndRead(r)
    \/ FinalizeRead(r) \/ FinalizeWrite(r) \/ FinalizeLog(r)

JobStep ==
    \/ JobTick \/ JobCreates \/ JobCreateFails \/ JobRests
    \/ \E s \in Schedules : JobSkips(s) \/ JobChooses(s)

Next ==
    \/ \E r \in Requests : Step(r) \/ Crash(r)
    \/ JobStep
    \/ \E k \in LockKeys : Expire(k)

Spec == Init /\ [][Next]_vars

-----------------------------------------------------------------------------
(* Correctness.                                                             *)

\* Rows that a start created RUNNING, as opposed to those the job opened.
Direct == {t \in Trips : origin[t] \in {"driver", "gps", "admin"}}

\* As long as no lock was overrun, the starts of drivers, admins and GPS
\* packets never run one bus on two trips: what the locks are taken for.
OneDirectTripPerBus ==
    overrun = {} =>
        \A t, u \in Direct \cap Running : schedule[t].bus = schedule[u].bus => t = u

\* A trip that a start created, once ENDED, stays ENDED: the late writes of
\* handlers that read it before cannot bring it back.
DirectTripsStayEnded ==
    [][\A t \in Direct : status[t] = "ENDED" => status'[t] = "ENDED"]_vars

\* The starts and ends of trips, interleaved await by await, promise what module
\* BusService says: a trip that a start created runs once and on one bus, no late
\* write brings it back or moves it, and while no lock is overrun it is alone.
Service == INSTANCE BusService
    WITH serving <- [b \in Buses |-> {t \in Direct \cap Running : schedule[t].bus = b}],
         over <- {t \in Direct : status[t] = "ENDED"},
         sound <- overrun = {}

ServiceAsPromised == Service!ServiceSpec

\* Every ended trip has its TRIP_ENDED event or a handler that is about to
\* write it, unless the window job ended it or that handler was stopped.
EndIsLogged ==
    \A t \in Trips :
        status[t] = "ENDED"
        => \/ t \in endLogged \cup unlogged
           \/ \E r \in Requests : target[r] = t /\ pc[r] = "finalizeLog"

\* Whatever a start finds once it holds the locks, its handler neither answers
\* nor goes on with a trip while it still holds one (the finally of the three
\* start paths), unless the server stops.
LocksAreGivenBack ==
    \A r \in Requests, k \in LockKeys :
        lock[k] = r => pc[r] \in {"acquire", "release"} \cup Inside \/ stage[r] = "lost"

\* preTripPromotion.service.ts: "Idempotent: if the trip is already RUNNING (or
\* ENDED) we do nothing destructive".  Then no ended trip ever runs again: no
\* trip is open whose end was logged, or that the job has cancelled.
EndedTripStaysEnded == \A t \in endLogged \cup unlogged : status[t] = "ENDED"

\* telematicsLifecycle.service.ts: "We must not create a second trip here or
\* there'd be two parallel rows for the same bus".  Then no open row stands
\* beside one that a GPS packet started, if no lock was overrun.
NoRowBesideAutoStarted ==
    overrun = {} =>
        \A t \in Running, u \in Running \cup Waiting :
            origin[t] = "gps" /\ schedule[t].bus = schedule[u].bus => t = u
=============================================================================
