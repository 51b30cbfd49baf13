---------------------------- MODULE TripProgress ----------------------------
(***************************************************************************)
(* How far a trip is: the phase of its bus before the trip starts          *)
(* (applyPreTripLocationUpdate) and the stops it has reached               *)
(* (detectStopArrival).  Both are worked out in the handlers of its        *)
(* locations: of the driver's phone, and of the GPS device of the bus.     *)
(* Each query is an action; handlers overlap.                              *)
(*                                                                         *)
(* A stop is its index in the route.  Of a position the model keeps what   *)
(* the code computes from it: the stops whose radius it is in, the stops   *)
(* it is beyond and still close enough to, whether it is in the geofence   *)
(* of the origin, and whether the bus moves.  The progress is clamped to   *)
(* the route, so that no position is beyond the last stop.  The time of a  *)
(* position is the one its device gave: positions arrive in any order, and *)
(* the two handlers often work on the same one, which arbitration selects. *)
(***************************************************************************)
EXTENDS Naturals

CONSTANTS
    Requests,     \* locations of the trip, in total
    LastStop,     \* index of the last stop
    Places,       \* the positions, see above
    MaxTime,      \* bound: the last time of a position
    Dwell,        \* ARRIVAL_DWELL_SECONDS
    OriginDwell,  \* PRE_TRIP_ORIGIN_DWELL_MS, in the unit of Dwell
    Nothing       \* null, no row, no key

Stops == 0 .. LastStop
Times == 0 .. MaxTime
Phases == {"AT_DEPOT", "APPROACHING_ORIGIN", "AT_ORIGIN"}
Statuses == {"PRE_TRIP", "RUNNING", "ENDED"}
Rows == [status : Statuses, phase : Phases \cup {Nothing}, since : Times \cup {Nothing}]
Tasks ==
    [kind : {"driver", "gps"}, place : Places, at : Times, view : Rows,
     expected : Stops \cup {Nothing}, found : Times \cup {Nothing}]

ASSUME ProgressConstants ==
    /\ LastStop \in Nat /\ MaxTime \in Nat /\ Dwell \in Nat /\ OriginDwell \in Nat
    /\ Places \subseteq [near : SUBSET Stops, beyond : SUBSET (Stops \ {LastStop}),
                         atOrigin : BOOLEAN, moving : BOOLEAN]
    /\ Nothing \notin Times \cup Stops /\ Nothing \notin Phases /\ Nothing \notin Tasks

VARIABLES
    row,         \* the trip: its status, preTripPhase, originArrivedAt
    arrivals,    \* stopArrival rows: actualArrivalTime
    marker,      \* Redis, tripArrival:<trip>:<stop>: when the bus was first seen there
    pc,          \* the await a request is at
    task,        \* what it works on
    tapped,      \* the driver's tap on Start has read a PRE_TRIP row
    created,     \* history: requests that created an arrival
    announcers,  \* history: requests that emitted trip:stop_arrival
    late,        \* history: a position no newer than the latest arrival was looked at
    stay,        \* history: since when every position was at the origin
    overtaken    \* history: a phase was derived from a row that had changed since

historyVars == <<created, announcers, late, stay, overtaken>>
vars == <<row, arrivals, marker, pc, task, tapped, historyVars>>

Awaits == {"idle", "latest", "marker", "mark", "create", "unmark",
           "phase", "promote", "start", "done"}

TypeOK ==
    /\ row \in Rows
    /\ arrivals \in [Stops -> Times \cup {Nothing}]
    /\ marker \in [Stops -> Times \cup {Nothing}]
    /\ pc \in [Requests -> Awaits]
    /\ task \in [Requests -> Tasks \cup {Nothing}]
    /\ \A r \in Requests : task[r] # Nothing <=> pc[r] \notin {"idle", "done"}
    /\ \A r \in Requests : pc[r] \in {"marker", "mark", "create", "unmark"} => task[r].expected # Nothing
    /\ \A r \in Requests : pc[r] = "create" => task[r].found # Nothing
    /\ tapped \in BOOLEAN
    /\ created \subseteq Requests
    /\ announcers \in [Stops -> SUBSET Requests]
    /\ late \in BOOLEAN
    /\ stay \in Times \cup {Nothing}
    /\ overtaken \in BOOLEAN

\* A row the window job has just opened, or a running trip that may have left
\* its first stop.
Init ==
    /\ \/ row = [status |-> "PRE_TRIP", phase |-> "AT_DEPOT", since |-> Nothing]
       \/ row = [status |-> "RUNNING", phase |-> Nothing, since |-> Nothing]
    /\ \E first \in {0, Nothing} :
          /\ row.status = "PRE_TRIP" => first = Nothing
          /\ arrivals = [s \in Stops |-> IF s = 0 THEN first ELSE Nothing]
    /\ marker = [s \in Stops |-> Nothing]
    /\ pc = [r \in Requests |-> "idle"]
    /\ task = [r \in Requests |-> Nothing]
    /\ tapped = FALSE
    /\ created = {} /\ announcers = [s \in Stops |-> {}]
    /\ late = FALSE /\ stay = Nothing /\ overtaken = FALSE

-----------------------------------------------------------------------------
(* A location is handled.                                                   *)

\* r comes to an await with t known so far.
Proceed(r, await, t) ==
    /\ pc' = [pc EXCEPT ![r] = await]
    /\ task' = [task EXCEPT ![r] = IF await = "done" THEN Nothing ELSE t]

\* What the handler of the phone does after the stops, and that of the device
\* after a promotion, of whatever outcome.
AfterStops(t) == IF t.kind = "driver" /\ t.view.status = "PRE_TRIP" THEN "phase" ELSE "done"
AfterPromotion(t) == IF t.kind = "gps" THEN "latest" ELSE "done"

\* A location, and the row as its handler reads it.
Locations(kind) ==
    [kind : {kind}, place : Places, at : Times, view : {row},
     expected : {Nothing}, found : {Nothing}]

\* processDriverLocationUpdate: the phone's stops are detected before the trip
\* starts, too, but not from a point the filter did not accept.
DriverReads(r) ==
    /\ pc[r] = "idle" /\ row.status # "ENDED"
    /\ \E t \in Locations("driver") :
          Proceed(r, "latest", t) \/ Proceed(r, AfterStops(t), t)
    /\ UNCHANGED <<row, arrivals, marker, tapped, historyVars>>

\* ingestGpsDeviceLocationService: first the phase, then the stops once it runs.
GpsReads(r) ==
    /\ pc[r] = "idle" /\ row.status # "ENDED"
    /\ \E t \in Locations("gps") :
          Proceed(r, IF row.status = "PRE_TRIP" THEN "phase" ELSE "latest", t)
    /\ UNCHANGED <<row, arrivals, marker, tapped, historyVars>>

-----------------------------------------------------------------------------
(* detectStopArrival                                                        *)

Arrived == {s \in Stops : arrivals[s] # Nothing}

\* findFirst by actualArrivalTime, descending: of rows of the same time, any.
Latest == {s \in Arrived : \A p \in Arrived : arrivals[p] <= arrivals[s]}

Bug_ExpectedAny == IF Arrived = Stops THEN {LastStop + 1} ELSE Stops \ Arrived

Expected == IF Arrived = {} THEN {0} ELSE {s + 1 : s \in Latest}

\* A stop that the bus has gone past gets the time of this position.
PassedAt(t, e) == t.at

\* The next stop after the latest one: the bus is in its radius, or beyond it.
LatestReads(r) ==
    LET t == task[r] IN
    /\ pc[r] = "latest"
    /\ \E e \in Expected :
          LET near == e \in t.place.near
              past == ~ near /\ e > 0 /\ e \in t.place.beyond
          IN  /\ \/ /\ near
                    /\ Proceed(r, "marker", [t EXCEPT !.expected = e])
                 \/ /\ past
                    /\ Proceed(r, "create", [t EXCEPT !.expected = e, !.found = PassedAt(t, e)])
                 \/ /\ ~ near /\ ~ past
                    /\ Proceed(r, AfterStops(t), t)
              /\ late' = (late \/ ((near \/ past) /\ \E s \in Latest : t.at <= arrivals[s]))
    /\ UNCHANGED <<row, arrivals, marker, tapped, created, announcers, stay, overtaken>>

Dwelt(seen, at) == at >= seen + Dwell

MarkerReads(r) ==
    LET t == task[r]
        seen == marker[t.expected] IN
    /\ pc[r] = "marker"
    /\ \/ seen = Nothing /\ Proceed(r, "mark", t)
       \/ seen # Nothing /\ Dwelt(seen, t.at) /\ Proceed(r, "create", [t EXCEPT !.found = seen])
       \/ seen # Nothing /\ ~ Dwelt(seen, t.at) /\ Proceed(r, AfterStops(t), t)
    /\ UNCHANGED <<row, arrivals, marker, tapped, historyVars>>

Mark(r) ==
    LET t == task[r] IN
    /\ pc[r] = "mark"
    /\ marker' = [marker EXCEPT ![t.expected] = t.at]
    /\ Proceed(r, AfterStops(t), t)
    /\ UNCHANGED <<row, arrivals, tapped, historyVars>>

Passing(t) == t.expected \notin t.place.near

Bug_CreateUpserts(r) ==
    /\ pc[r] = "create"
    /\ arrivals' = [arrivals EXCEPT ![task[r].expected] = task[r].found]
    /\ created' = created \cup {r}
    /\ Proceed(r, "unmark", task[r])
    /\ UNCHANGED <<row, marker, tapped, announcers, late, stay, overtaken>>

\* createStopArrival: the unique key (trip, stop) lets the first one in.
Create(r) ==
    LET t == task[r] IN
    /\ pc[r] = "create"
    /\ \/ /\ arrivals[t.expected] = Nothing
          /\ arrivals' = [arrivals EXCEPT ![t.expected] = t.found]
          /\ created' = created \cup {r}
          /\ Proceed(r, "unmark", t)
       \/ /\ arrivals[t.expected] # Nothing
          /\ Proceed(r, IF Passing(t) THEN "unmark" ELSE AfterStops(t), t)
          /\ UNCHANGED <<arrivals, created>>
    /\ UNCHANGED <<row, marker, tapped, announcers, late, stay, overtaken>>

\* The marker goes, and the caller announces the arrival if it is new.
Unmark(r) ==
    LET t == task[r] IN
    /\ pc[r] = "unmark"
    /\ marker' = [marker EXCEPT ![t.expected] = Nothing]
    /\ announcers' = IF r \in created THEN [announcers EXCEPT ![t.expected] = @ \cup {r}]
                                      ELSE announcers
    /\ Proceed(r, AfterStops(t), t)
    /\ UNCHANGED <<row, arrivals, tapped, created, late, stay, overtaken>>

-----------------------------------------------------------------------------
(* applyPreTripLocationUpdate and promotePreTripToRunning                   *)

Bug_DerivedKeepsSince(view, place, at) ==
    [phase |-> IF place.atOrigin THEN "AT_ORIGIN"
               ELSE IF place.moving \/ view.phase = "APPROACHING_ORIGIN"
                    THEN "APPROACHING_ORIGIN" ELSE "AT_DEPOT",
     since |-> IF place.atOrigin /\ view.since = Nothing THEN at ELSE view.since]

Bug_DerivedBounces(view, place, at) ==
    IF place.atOrigin
    THEN [phase |-> "AT_ORIGIN", since |-> IF view.since = Nothing THEN at ELSE view.since]
    ELSE [phase |-> IF place.moving THEN "APPROACHING_ORIGIN" ELSE "AT_DEPOT", since |-> Nothing]

\* derivePreTripPhase, from the row as the handler read it at its beginning.
Derived(view, place, at) ==
    IF place.atOrigin
    THEN [phase |-> "AT_ORIGIN", since |-> IF view.since = Nothing THEN at ELSE view.since]
    ELSE [phase |-> IF place.moving \/ view.phase = "APPROACHING_ORIGIN"
                    THEN "APPROACHING_ORIGIN" ELSE "AT_DEPOT",
          since |-> Nothing]

ShouldStart(d, at) == d.since # Nothing /\ at >= d.since + OriginDwell

\* The row is written by id, whatever its status is by now, if there is news.
Phase(r) ==
    LET t == task[r]
        d == Derived(t.view, t.place, t.at) IN
    /\ pc[r] = "phase"
    /\ row' = IF d = [phase |-> t.view.phase, since |-> t.view.since] THEN row
              ELSE [row EXCEPT !.phase = d.phase, !.since = d.since]
    /\ Proceed(r, IF ShouldStart(d, t.at) THEN "promote" ELSE "done", t)
    /\ stay' = IF ~ t.place.atOrigin THEN Nothing ELSE IF stay = Nothing THEN t.at ELSE stay
    /\ overtaken' = (overtaken \/ t.view # row)
    /\ UNCHANGED <<arrivals, marker, tapped, created, announcers, late>>

Bug_StartedKeepsPhase == [row EXCEPT !.status = "RUNNING"]

Started == [status |-> "RUNNING", phase |-> Nothing, since |-> Nothing]

Promote(r) ==
    LET t == task[r] IN
    /\ pc[r] = "promote"
    /\ Proceed(r, IF row.status = "PRE_TRIP" THEN "start" ELSE AfterPromotion(t), t)
    /\ UNCHANGED <<row, arrivals, marker, tapped, historyVars>>

Start(r) ==
    LET t == task[r] IN
    /\ pc[r] = "start"
    /\ row' = Started
    /\ Proceed(r, AfterPromotion(t), t)
    /\ UNCHANGED <<arrivals, marker, tapped, historyVars>>

-----------------------------------------------------------------------------
(* What else happens to the trip.                                           *)

\* The driver taps Start: the promotion of above, in its two queries.
TapReads ==
    /\ ~ tapped /\ row.status = "PRE_TRIP"
    /\ tapped' = TRUE
    /\ UNCHANGED <<row, arrivals, marker, pc, task, historyVars>>

TapStarts ==
    /\ tapped
    /\ tapped' = FALSE
    /\ row' = Started
    /\ UNCHANGED <<arrivals, marker, pc, task, historyVars>>

\* finalizeTripService leaves the phase; the window job clears that of a no-show.
Finalize ==
    /\ row.status # "ENDED"
    /\ row' = [row EXCEPT !.status = "ENDED"]
    /\ UNCHANGED <<arrivals, marker, pc, task, tapped, historyVars>>

CancelNoShow ==
    /\ row.status = "PRE_TRIP"
    /\ row' = [status |-> "ENDED", phase |-> Nothing, since |-> Nothing]
    /\ UNCHANGED <<arrivals, marker, pc, task, tapped, historyVars>>

\* ARRIVAL_CANDIDATE_TTL_MS have passed.
Expire(s) ==
    /\ marker[s] # Nothing
    /\ marker' = [marker EXCEPT ![s] = Nothing]
    /\ UNCHANGED <<row, arrivals, pc, task, tapped, historyVars>>

\* A query fails, or the server stops.
Fail(r) ==
    /\ pc[r] \notin {"idle", "done"}
    /\ Proceed(r, "done", Nothing)
    /\ UNCHANGED <<row, arrivals, marker, tapped, historyVars>>

Next ==
    \/ \E r \in Requests :
          \/ DriverReads(r) \/ GpsReads(r)
          \/ LatestReads(r) \/ MarkerReads(r) \/ Mark(r) \/ Create(r) \/ Unmark(r)
          \/ Phase(r) \/ Promote(r) \/ Start(r) \/ Fail(r)
    \/ TapReads \/ TapStarts \/ Finalize \/ CancelNoShow
    \/ \E s \in Stops : Expire(s)

Spec == Init /\ [][Next]_vars

-----------------------------------------------------------------------------
(* Properties.                                                              *)

\* detectStopArrival looks for the next stop only: however locations overlap,
\* come late, or fail half-way, no stop is recorded before the ones ahead of it.
NoStopSkipped ==
    \A s \in Arrived : \A p \in Stops : p < s => p \in Arrived

\* A stop is announced to the passengers at most once, and not before its row
\* is there, though several handlers may see the bus complete its dwell.
AnnouncedOnce ==
    \A s \in Stops :
        /\ announcers[s] # {} => s \in Arrived
        /\ \A q, r \in announcers[s] : q = r

\* The next stop is the one after the latest arrival, by time.  That is the
\* furthest stop, so that detection goes on, unless a position was looked at
\* that is no newer than an arrival: then the next stop may be one that was
\* recorded already, and no later stop is ever recorded.
DetectionGoesOn ==
    late \/ \A s \in Latest : \A p \in Arrived : p <= s

\* preTripPhase is for a trip that has not started: a running one has none,
\* unless a handler derived it from a row that had changed since it was read.
PhaseEndsAtStart ==
    row.status = "RUNNING" /\ row.phase # Nothing => overtaken

\* A location starts the trip only after the bus stayed at the origin for the
\* dwell time, with no position elsewhere in between.
StayedBeforeStart ==
    [][\A r \in Requests :
           pc[r] = "phase" /\ pc'[r] = "promote" =>
               overtaken' \/ (stay' # Nothing /\ task[r].at >= stay' + OriginDwell)]_vars

\* A bus that waits at a traffic light is not shown as parked at the depot
\* again, unless a handler derived that from an old row.
NoBounceBack ==
    [][row.phase = "APPROACHING_ORIGIN" /\ row'.phase = "AT_DEPOT" => overtaken']_vars

=============================================================================
