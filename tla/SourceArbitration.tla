------------------------- MODULE SourceArbitration -------------------------
(***************************************************************************)
(* The two sources of a trip's position, the phone of its driver and the   *)
(* GPS device of its bus, and the arbitration between them                 *)
(* (arbitrateTripTrackingSource), for one trip.                            *)
(*                                                                         *)
(* A location is stored under its source, and its handler then reads the   *)
(* selected state, the last good state, the driver's state (three Redis    *)
(* keys) and the row of the GPS device (PostgreSQL), decides, and writes   *)
(* the last good state, the selected state and the rows, one await after   *)
(* the other.  Handlers of other locations, finalizers of the trip, TTLs   *)
(* and restarts come in between, and so do the other trips of the bus: its *)
(* two rows are one per source, and each belongs to the trip that wrote it *)
(* last.                                                                   *)
(*                                                                         *)
(* A position is its source, the time it was recorded and a status.  Time  *)
(* is counted in steps of Tick seconds.  The filter of the driver's points *)
(* keeps their time, and rejects no request.  The check of monotonic times *)
(* is not in the model: it is per process and forgotten by a restart, so a *)
(* driver's point, too, may be older than the previous one.                *)
(***************************************************************************)
EXTENDS Naturals, FiniteSets

CONSTANTS
    Requests,      \* locations of the trip, in total
    MaxTime,       \* bound: the clock stops there
    MaxDelay,      \* bound: how old, in steps, a point may be when it arrives
    Tick,          \* seconds in a step of the clock
    DriverStale, DriverGone,   \* DRIVER_SOURCE_STALE_AFTER, _DISCONNECT_AFTER_SECONDS
    GpsStale, GpsGone,         \* GPS_DEVICE_STALE_AFTER, _DISCONNECT_AFTER_SECONDS
    Gap,           \* TRACKING_SOURCE_HYSTERESIS_SCORE_GAP
    StickyWindow,  \* TRACKING_SOURCE_STICKY_WINDOW_SECONDS
    LastGoodHold,  \* TRACKING_LAST_GOOD_HOLD_SECONDS
    MaxDisturbances,  \* bound: rows written by other trips, TTLs run out, failures, in total
    Nothing        \* a key without a value, a value not read yet

Driver == "DRIVER_MOBILE"
Gps == "GPS_DEVICE"
Sources == {Driver, Gps}
Statuses == {"HEALTHY", "STALE", "UNHEALTHY", "DISCONNECTED"}
Times == 0 .. MaxTime
Points == [source : Sources, at : Times]
States == [source : Sources, at : Times, status : Statuses]
Links == {"none", "free", "ours", "other"}

\* Of the status in a GPS row, arbitration reads only UNHEALTHY and DISCONNECTED.
Flags == {"usable", "UNHEALTHY", "DISCONNECTED"}
Flag(status) == IF status \in Flags THEN status ELSE "usable"
Packets == [at : Times, flag : Flags]
Rows == [link : Links, at : Times, flag : Flags]

\* The gap is smaller than the distance of two statuses less the bonuses: 400 - 135.
ASSUME ArbitrationConstants ==
    /\ {MaxTime, MaxDelay, MaxDisturbances, Tick} \subseteq Nat /\ Gap \in 0 .. 264
    /\ {DriverStale, DriverGone, GpsStale, GpsGone, StickyWindow, LastGoodHold} \subseteq Nat
    /\ Nothing \notin States \cup Points \cup Packets \cup Times \cup Sources
    /\ Nothing \notin Rows

VARIABLES
    now,
    driver,    \* Redis, tripState:<trip>:source:DRIVER_MOBILE: the time of the point
    selected,  \* Redis, tripState:<trip>
    lastGood,  \* Redis, tripState:<trip>:lastGood; its status is not read
    packet,    \* the row of the GPS device: the last packet ...
    link,      \* ... and tripId of both rows: no row, null, this trip, some other trip
    chosen,    \* rows with isSelected
    shown,     \* lastTracking* of the trip row, Nothing before the first location
    ended,     \* the trip is ENDED
    pc,        \* the await a request is at
    input,     \* the packet a request brings
    view,      \* what an arbitration has read
    pick,      \* what it decided on
    closer,    \* the await the finalizer is at
    disturbances,  \* of these, so far
    alone,     \* history: active requests that met no other one
    agree,     \* history: the last request to finish is such a one
    quiet,     \* history: no request was active when the finalizer began to clear
    cold       \* history: a finalizer that began so cleared everything

redisVars == <<driver, selected, lastGood>>
rowVars == <<packet, link, chosen, shown, ended>>
requestVars == <<pc, input, view, pick>>
historyVars == <<alone, agree, quiet, cold>>
vars == <<now, driver, selected, lastGood, packet, link, chosen, shown, ended,
          pc, input, view, pick, closer, disturbances, alone, agree, quiet, cold>>

Unread == [selected |-> Nothing, good |-> Nothing, driver |-> Nothing, row |-> Nothing]

Views ==
    [selected : Sources \cup {Nothing}, good : Points \cup {Nothing},
     driver : Times \cup {Nothing},
     row : Rows \cup {Nothing}]

Awaits ==
    {"idle", "accepted", "upsert", "ingest", "get", "gotRedis", "gotRow",
     "good", "select", "show", "clear", "mark", "unselect", "done"}

TypeOK ==
    /\ now \in Times
    /\ driver \in Times \cup {Nothing}
    /\ selected \in States \cup {Nothing}
    /\ lastGood \in Points \cup {Nothing}
    /\ packet \in Packets
    /\ link \in [Sources -> Links]
    /\ chosen \in SUBSET Sources
    /\ shown \in States \cup {Nothing}
    /\ ended \in BOOLEAN
    /\ pc \in [Requests -> Awaits]
    /\ input \in [Requests -> Packets \cup {Nothing}]
    /\ \A r \in Requests : pc[r] \in {"accepted", "upsert", "ingest"} => input[r] # Nothing
    /\ view \in [Requests -> Views]
    /\ pick \in [Requests -> States \cup {Nothing}]
    /\ \A r \in Requests : pc[r] \in {"good", "select", "show"} => pick[r] # Nothing
    /\ closer \in {"idle", "write", "clear", "clearSelected", "clearGood", "clearDriver"}
    /\ disturbances \in 0 .. MaxDisturbances
    /\ alone \in SUBSET Requests
    /\ agree \in BOOLEAN
    /\ quiet \in BOOLEAN
    /\ cold \in BOOLEAN

\* A running trip that no location has reached, of a bus that has no row yet: a
\* trip started by its driver or by an administrator, not by a packet.
Init ==
    /\ now = 0
    /\ driver = Nothing /\ selected = Nothing /\ lastGood = Nothing
    /\ packet = [at |-> 0, flag |-> "usable"]
    /\ link = [s \in Sources |-> "none"]
    /\ chosen = {}
    /\ shown = Nothing
    /\ ended = FALSE
    /\ pc = [r \in Requests |-> "idle"]
    /\ input = [r \in Requests |-> Nothing]
    /\ view = [r \in Requests |-> Unread]
    /\ pick = [r \in Requests |-> Nothing]
    /\ closer = "idle"
    /\ disturbances = 0
    /\ alone = {} /\ agree = TRUE /\ quiet = FALSE /\ cold = FALSE

-----------------------------------------------------------------------------
(* The decision.                                                            *)

Age(at) == IF at > now THEN 0 ELSE (now - at) * Tick

\* deriveSourceStatus
Freshness(at, staleAfter, goneAfter) ==
    CASE Age(at) > goneAfter -> "DISCONNECTED"
      [] Age(at) > staleAfter /\ Age(at) <= goneAfter -> "STALE"
      [] OTHER -> "HEALTHY"

\* A candidate of each source, or none; a row that another trip owns is none.
DriverCandidates(v) ==
    {[source |-> Driver, at |-> t, status |-> Freshness(t, DriverStale, DriverGone)] :
        t \in {v.driver} \ {Nothing}}

GpsCandidates(v) ==
    {[source |-> Gps, at |-> w.at,
      status |-> IF w.flag # "usable" THEN w.flag
                 ELSE Freshness(w.at, GpsStale, GpsGone)] :
        w \in {x \in {v.row} \ {Nothing} : x.link \in {"free", "ours"}}}

Candidates(v) == DriverCandidates(v) \cup GpsCandidates(v)

StatusScore(s) ==
    CASE s = "HEALTHY" -> 1000 [] s = "STALE" -> 600 [] s = "UNHEALTHY" -> 200 [] OTHER -> 0

\* winnerScore
Score(c) ==
    StatusScore(c.status)
    + (IF Age(c.at) < 120 THEN 120 - Age(c.at) ELSE 0)
    + (IF c.source = Gps THEN 15 ELSE 0)

\* A deliberate mistake (PROJECT.json, mutants): the window alone keeps the previous source
Bug_KeptUnscored(v) ==
    {c \in Candidates(v) :
        /\ c.source = v.selected
        /\ Age(c.at) <= StickyWindow
        /\ c.status # "DISCONNECTED"}

\* canKeepPreviousSource
Kept(v) ==
    {c \in Candidates(v) :
        /\ c.source = v.selected
        /\ Age(c.at) <= StickyWindow
        /\ c.status # "DISCONNECTED"
        /\ \A d \in Candidates(v) : Score(c) + Gap >= Score(d)}

\* The sort of chooseWinner is stable and has the GPS device first.
Best(v) ==
    {c \in Candidates(v) :
        \A d \in Candidates(v) \ {c} :
            Score(c) > Score(d) \/ (Score(c) = Score(d) /\ c.source = Gps)}

Winners(v) == IF Kept(v) # {} THEN Kept(v) ELSE Best(v)

\* The last good state, held when there is no candidate.
Held(v) ==
    {[source |-> g.source, at |-> g.at, status |-> "STALE"] :
        g \in {x \in {v.good} \ {Nothing} : Age(x.at) <= LastGoodHold}}

-----------------------------------------------------------------------------
(* More deliberate mistakes, and what a step of several kinds does.          *)

Finish(r, whole) ==
    /\ pc' = [pc EXCEPT ![r] = "done"]
    /\ input' = [input EXCEPT ![r] = Nothing]
    /\ view' = [view EXCEPT ![r] = Unread]
    /\ pick' = [pick EXCEPT ![r] = Nothing]
    /\ agree' = (whole /\ r \in alone)
    /\ alone' = alone \ {r}

Cleared ==
    /\ closer' = "idle"
    /\ cold' = (cold \/ quiet)
    /\ quiet' = FALSE

Ours == {s \in Sources : link[s] = "ours"}
Theirs == {s \in Sources : link[s] = "other"}

\* the mark of the other source stays
Bug_ShowKeepsOther(r) ==
    /\ pc[r] = "show"
    /\ shown' = pick[r]
    /\ chosen' = chosen \cup ({pick[r].source} \cap Ours)
    /\ packet' = IF pick[r].source = Gps /\ Gps \in Ours
                 THEN [packet EXCEPT !.flag = Flag(pick[r].status)] ELSE packet
    /\ Finish(r, TRUE)
    /\ UNCHANGED <<now, redisVars, link, ended, closer, disturbances, quiet, cold>>

\* the trip row shows what was selected, not what it carries
Bug_ShowHealthy(r) ==
    /\ pc[r] = "show"
    /\ shown' = [pick[r] EXCEPT !.status = "HEALTHY"]
    /\ chosen' = (chosen \ Ours) \cup ({pick[r].source} \cap Ours)
    /\ packet' = IF pick[r].source = Gps /\ Gps \in Ours
                 THEN [packet EXCEPT !.flag = Flag(pick[r].status)] ELSE packet
    /\ Finish(r, TRUE)
    /\ UNCHANGED <<now, redisVars, link, ended, closer, disturbances, quiet, cold>>

\* the last good state is forgotten when the trip ends
Bug_ClearKeepsGood ==
    /\ closer = "clear"
    /\ selected' = Nothing /\ driver' = Nothing
    /\ Cleared
    /\ UNCHANGED <<now, lastGood, rowVars, requestVars, disturbances, alone, agree>>

-----------------------------------------------------------------------------
(* A location is stored.                                                    *)

Active == {r \in Requests : pc[r] \notin {"idle", "done"}}

GoTo(r, await) ==
    /\ pc' = [pc EXCEPT ![r] = await]
    /\ UNCHANGED <<now, ended, closer, disturbances, historyVars>>

Disturb ==
    /\ disturbances < MaxDisturbances
    /\ disturbances' = disturbances + 1

\* The times of points that may arrive now.
Arriving == {t \in Times : t <= now /\ now <= t + MaxDelay}

Arrive(r, p, await) ==
    /\ pc[r] = "idle"
    /\ ~ ended
    /\ pc' = [pc EXCEPT ![r] = await]
    /\ input' = [input EXCEPT ![r] = p]
    /\ alone' = IF Active = {} THEN {r} ELSE {}
    /\ UNCHANGED <<now, redisVars, rowVars, view, pick, closer, disturbances, agree, quiet, cold>>

\* processDriverLocationUpdate finds the trip open ...
DriverArrives(r, t) ==
    /\ Arrive(r, [at |-> t, flag |-> "usable"], "accepted")
    /\ t \in Arriving

\* ... sets the driver's key ...
StoreDriver(r) ==
    /\ pc[r] = "accepted"
    /\ driver' = input[r].at
    /\ GoTo(r, "upsert")
    /\ UNCHANGED <<selected, lastGood, packet, link, chosen, shown, input, view, pick>>

\* ... and writes the trip and the driver's row, as if it were selected.
StoreDriverRow(r) ==
    /\ pc[r] = "upsert"
    /\ shown' = [source |-> Driver, at |-> input[r].at, status |-> "HEALTHY"]
    /\ link' = [link EXCEPT ![Driver] = "ours"]
    /\ chosen' = chosen \ {Driver}
    /\ input' = [input EXCEPT ![r] = Nothing]
    /\ GoTo(r, "get")
    /\ UNCHANGED <<redisVars, packet, view, pick>>

\* deriveSourceStatus of gpsIngest: a bad fix is UNHEALTHY, an old one DISCONNECTED.
PacketsNow ==
    {p \in Packets :
        /\ p.at \in Arriving
        /\ p.flag \in {Flag(Freshness(p.at, GpsStale, GpsGone)), "UNHEALTHY"}}

\* ingestGpsDeviceLocationService finds the trip of the bus open ...
GpsArrives(r, p) ==
    /\ Arrive(r, p, "ingest")
    /\ p \in PacketsNow

\* ... and writes the row of the device.
StoreGps(r) ==
    /\ pc[r] = "ingest"
    /\ packet' = input[r]
    /\ link' = [link EXCEPT ![Gps] = "ours"]
    /\ chosen' = chosen \ {Gps}
    /\ input' = [input EXCEPT ![r] = Nothing]
    /\ GoTo(r, "get")
    /\ UNCHANGED <<redisVars, shown, view, pick>>

-----------------------------------------------------------------------------
(* The other trips of the bus: the same handlers, of which only what they   *)
(* do to the two rows is seen here.                                         *)

Elsewhere == UNCHANGED <<now, redisVars, shown, ended, requestVars, closer, historyVars>>

\* A packet of the device for which the bus has another trip, or none.
GpsElsewhere(p, l) ==
    /\ Disturb
    /\ p \in PacketsNow
    /\ packet' = p
    /\ link' = [link EXCEPT ![Gps] = l]
    /\ chosen' = chosen \ {Gps}
    /\ Elsewhere

\* A point of the phone of another trip's driver.
DriverElsewhere ==
    /\ Disturb
    /\ link' = [link EXCEPT ![Driver] = "other"]
    /\ chosen' = chosen \ {Driver}
    /\ UNCHANGED packet
    /\ Elsewhere

\* A packet that started another trip links the device's row to it, mark and all.
AutoStartElsewhere ==
    /\ Disturb
    /\ link[Gps] # "none"
    /\ link' = [link EXCEPT ![Gps] = "other"]
    /\ UNCHANGED <<packet, chosen>>
    /\ Elsewhere

\* The arbitration of another trip, whose rows these are, marks one of them or none.
ArbitrateElsewhere(rows, picked) ==
    /\ picked \subseteq rows
    /\ chosen' = (chosen \ rows) \cup picked
    /\ \E flag \in (IF Gps \in picked THEN Flags ELSE {packet.flag}) :
          packet' = [packet EXCEPT !.flag = flag]
    /\ UNCHANGED <<link, disturbances>>
    /\ Elsewhere

\* The finalizer of another trip frees its rows.
EndElsewhere(rows) ==
    /\ chosen' = chosen \ rows
    /\ link' = [s \in Sources |-> IF s \in rows THEN "free" ELSE link[s]]
    /\ UNCHANGED <<packet, disturbances>>
    /\ Elsewhere

-----------------------------------------------------------------------------
(* arbitrateTripTrackingSource                                              *)

\* Promise.all: the three GETs reach Redis in one write, which it works off
\* before it turns to another client; PostgreSQL gets its query beside them.
RedisNow ==
    [selected |-> IF selected = Nothing THEN Nothing ELSE selected.source,
     good |-> lastGood, driver |-> driver, row |-> Nothing]

RowNow == [link |-> link[Gps], at |-> packet.at, flag |-> packet.flag]

ReadRedis(r) ==
    /\ pc[r] = "get"
    /\ view' = [view EXCEPT ![r] = RedisNow]
    /\ GoTo(r, "gotRedis")
    /\ UNCHANGED <<redisVars, packet, link, chosen, shown, input, pick>>

ReadRow(r) ==
    /\ pc[r] = "get"
    /\ view' = [view EXCEPT ![r].row = RowNow]
    /\ GoTo(r, "gotRow")
    /\ UNCHANGED <<redisVars, packet, link, chosen, shown, input, pick>>

\* The second of the two answers completes what has been read, and the
\* decision follows at once.
Reading(r) == pc[r] \in {"gotRedis", "gotRow"}

Seen(r) ==
    IF pc[r] = "gotRedis" THEN [view[r] EXCEPT !.row = RowNow]
                          ELSE [RedisNow EXCEPT !.row = view[r].row]

Decide(r, choice, await) ==
    /\ pick' = [pick EXCEPT ![r] = choice]
    /\ view' = [view EXCEPT ![r] = Unread]
    /\ GoTo(r, await)
    /\ UNCHANGED <<redisVars, packet, link, chosen, shown, input>>

Choose(r) ==
    /\ Reading(r)
    /\ \E c \in Winners(Seen(r)) :
          Decide(r, c, IF c.status \in {"HEALTHY", "STALE"} THEN "good" ELSE "select")

HoldLastGood(r) ==
    /\ Reading(r)
    /\ Winners(Seen(r)) = {}
    /\ \E c \in Held(Seen(r)) : Decide(r, c, "select")

GiveUp(r) ==
    /\ Reading(r)
    /\ Winners(Seen(r)) = {} /\ Held(Seen(r)) = {}
    /\ Decide(r, Nothing, "clear")

SetLastGood(r) ==
    /\ pc[r] = "good"
    /\ lastGood' = [source |-> pick[r].source, at |-> pick[r].at]
    /\ GoTo(r, "select")
    /\ UNCHANGED <<driver, selected, packet, link, chosen, shown, input, view, pick>>

SetSelected(r) ==
    /\ pc[r] = "select"
    /\ selected' = pick[r]
    /\ GoTo(r, "show")
    /\ UNCHANGED <<driver, lastGood, packet, link, chosen, shown, input, view, pick>>

\* The transaction: the trip, and the rows whose tripId is this trip.
Show(r) ==
    /\ pc[r] = "show"
    /\ shown' = pick[r]
    /\ chosen' = (chosen \ Ours) \cup ({pick[r].source} \cap Ours)
    /\ packet' = IF pick[r].source = Gps /\ Gps \in Ours
                 THEN [packet EXCEPT !.flag = Flag(pick[r].status)] ELSE packet
    /\ Finish(r, TRUE)
    /\ UNCHANGED <<now, redisVars, link, ended, closer, disturbances, quiet, cold>>

\* No state: the key is deleted, then the trip is marked, then the rows.
ClearSelected(r) ==
    /\ pc[r] = "clear"
    /\ selected' = Nothing
    /\ GoTo(r, "mark")
    /\ UNCHANGED <<driver, lastGood, packet, link, chosen, shown, input, view, pick>>

MarkTrip(r) ==
    /\ pc[r] = "mark"
    /\ shown' = IF shown = Nothing THEN Nothing ELSE [shown EXCEPT !.status = "STALE"]
    /\ GoTo(r, "unselect")
    /\ UNCHANGED <<redisVars, packet, link, chosen, input, view, pick>>

Unselect(r) ==
    /\ pc[r] = "unselect"
    /\ chosen' = chosen \ Ours
    /\ Finish(r, TRUE)
    /\ UNCHANGED <<now, redisVars, packet, link, shown, ended, closer, disturbances, quiet, cold>>

\* A query or a command of the request throws, or the server stops.
Fail(r) ==
    /\ Disturb
    /\ r \in Active
    /\ Finish(r, FALSE)
    /\ UNCHANGED <<now, redisVars, rowVars, closer, quiet, cold>>

-----------------------------------------------------------------------------
(* The rest of the system.                                                  *)

\* finalizeTripService, for any of its callers: the status is read; a trip that
\* is ENDED only has its keys deleted.
FinalizeRead ==
    /\ closer = "idle"
    /\ closer' = IF ended THEN "clearSelected" ELSE "write"
    /\ quiet' = (ended /\ Active = {})
    /\ UNCHANGED <<now, redisVars, rowVars, requestVars, disturbances, alone, agree, cold>>

\* The transaction: the trip, and the rows whose tripId is this trip.
FinalizeWrite ==
    /\ closer = "write"
    /\ ended' = TRUE
    /\ chosen' = chosen \ Ours
    /\ link' = [s \in Sources |-> IF link[s] = "ours" THEN "free" ELSE link[s]]
    /\ quiet' = (Active = {})
    /\ closer' = "clear"
    /\ UNCHANGED <<now, redisVars, packet, shown, requestVars, disturbances, alone, agree, cold>>

\* Promise.all: the DELs reach Redis in one write.
FinalizeClears ==
    /\ closer = "clear"
    /\ selected' = Nothing /\ lastGood' = Nothing /\ driver' = Nothing
    /\ Cleared
    /\ UNCHANGED <<now, rowVars, requestVars, disturbances, alone, agree>>

\* The branch of a trip that was ENDED already: one DEL after the other.
ClearAgain(await, next) ==
    /\ closer = await
    /\ closer' = next
    /\ UNCHANGED <<now, rowVars, requestVars, disturbances, historyVars>>

ClearSelectedAgain ==
    /\ ClearAgain("clearSelected", "clearGood")
    /\ selected' = Nothing
    /\ UNCHANGED <<driver, lastGood>>

ClearLastGoodAgain ==
    /\ ClearAgain("clearGood", "clearDriver")
    /\ lastGood' = Nothing
    /\ UNCHANGED <<driver, selected>>

ClearDriverAgain ==
    /\ closer = "clearDriver"
    /\ driver' = Nothing
    /\ Cleared
    /\ UNCHANGED <<now, selected, lastGood, rowVars, requestVars, disturbances, alone, agree>>

\* The finalizer throws, or the server stops.
FinalizeFails ==
    /\ Disturb
    /\ closer # "idle"
    /\ closer' = "idle"
    /\ quiet' = FALSE
    /\ UNCHANGED <<now, redisVars, rowVars, requestVars, alone, agree, cold>>

\* The TTL of a key runs out.
ExpireSelected ==
    /\ Disturb
    /\ selected # Nothing
    /\ selected' = Nothing
    /\ UNCHANGED <<now, driver, lastGood, rowVars, requestVars, closer, historyVars>>

ExpireLastGood ==
    /\ Disturb
    /\ lastGood # Nothing
    /\ lastGood' = Nothing
    /\ UNCHANGED <<now, driver, selected, rowVars, requestVars, closer, historyVars>>

ExpireDriver ==
    /\ Disturb
    /\ driver # Nothing
    /\ driver' = Nothing
    /\ UNCHANGED <<now, selected, lastGood, rowVars, requestVars, closer, historyVars>>

Clock ==
    /\ now < MaxTime
    /\ now' = now + 1
    /\ UNCHANGED <<redisVars, rowVars, requestVars, closer, disturbances, historyVars>>

Step(r) ==
    \/ \E t \in Times : DriverArrives(r, t)
    \/ \E p \in Packets : GpsArrives(r, p)
    \/ StoreDriver(r) \/ StoreDriverRow(r) \/ StoreGps(r)
    \/ ReadRedis(r) \/ ReadRow(r)
    \/ Choose(r) \/ HoldLastGood(r) \/ GiveUp(r)
    \/ SetLastGood(r) \/ SetSelected(r) \/ Show(r)
    \/ ClearSelected(r) \/ MarkTrip(r) \/ Unselect(r)
    \/ Fail(r)

OtherTrips ==
    \/ \E p \in Packets, l \in {"free", "other"} : GpsElsewhere(p, l)
    \/ DriverElsewhere \/ AutoStartElsewhere
    \/ \E rows \in (SUBSET Theirs) \ {{}} :
          \/ \E picked \in {{}, {Driver}, {Gps}} : ArbitrateElsewhere(rows, picked)
          \/ EndElsewhere(rows)

Next ==
    \/ \E r \in Requests : Step(r)
    \/ OtherTrips
    \/ FinalizeRead \/ FinalizeWrite \/ FinalizeFails
    \/ FinalizeClears \/ ClearSelectedAgain \/ ClearLastGoodAgain \/ ClearDriverAgain
    \/ ExpireSelected \/ ExpireLastGood \/ ExpireDriver
    \/ Clock

Spec == Init /\ [][Next]_vars

-----------------------------------------------------------------------------
(* Correctness.                                                             *)

Rank(status) ==
    CASE status = "HEALTHY" -> 3 [] status = "STALE" -> 2 [] status = "UNHEALTHY" -> 1 [] OTHER -> 0

\* Scores, bonuses and hysteresis together never prefer a source to one in a
\* better state: whatever an arbitration has read, it keeps the previous source
\* only beside an equal or worse one.
BestStatusWins ==
    [][\A r \in Requests :
          Reading(r) /\ pc'[r] \in {"good", "select"} =>
             \A c \in Candidates(Seen(r)) : Rank(c.status) <= Rank(pick'[r].status)]_vars

\* However arbitrations, finalizers, failures and the handlers of other trips of
\* the bus interleave, this trip never has two rows marked as the selected one,
\* and a marked row is one that a trip owns.  The bus may well have two marked
\* rows, one of each of two trips: each arbitration unmarks the rows of its own.
OneRowSelected ==
    /\ Cardinality(chosen \cap Ours) <= 1
    /\ chosen \subseteq Ours \cup Theirs

\* When the last location to finish met no other one, the three stores tell the
\* same: what Redis has for passengers is what the trip row says, and of the
\* rows of the trip that of this source is the marked one.
StoresAgree ==
    (Active = {} /\ agree /\ selected # Nothing) =>
        shown = selected /\ chosen \cap Ours = {selected.source} \cap Ours

\* Once a finalizer has found no location on its way and cleared the keys, the
\* ended trip has no live state again.
EndedIsCold == cold => selected = Nothing /\ lastGood = Nothing /\ driver = Nothing
=============================================================================
