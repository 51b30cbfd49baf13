# Formal models of the bus tracking backend

TLA+ modules, TLC configurations and TLAPS proofs about the Node/TypeScript
backend in `src/` (Express, Prisma on PostgreSQL, Redis, Socket.IO).  The server
tracks buses: drivers' phones and GPS devices send locations, trips are opened,
started and ended from several sides at once, and passengers follow them live.

The program is single-threaded per process, but every `await` of a database
query or a Redis command is a point where any other handler, timer or second
process runs.  That is the grain of the models: one action per query or command
that matters, and everything between two awaits is one step.

## 1. Inventory

Paths are under `src/src/`; S is `services/`, C is `controllers/`.

| Component | State | Operations | What makes it correct |
|---|---|---|---|
| trip-start lock (`S/tripLock`) | Redis keys `lock:bus:*`, `lock:driver:*` with a TTL | acquire (bus, then driver, roll back), release (compare-and-delete script) | exclusion up to the TTL; no key left; nobody deletes another's key |
| idempotency (`S/idempotency`) | Redis record per key: IN_PROGRESS or COMPLETED with fingerprint | begin, complete, fail | one request at work per key; a replay is the answer of the same request; no key blocked for ever |
| driver start (`S/trip.startTripService`) | trip rows | existing trip, promote, lock, check, create | one running trip per bus; locks always given back |
| admin operations (`S/adminOperations`) | trip rows, tracking state | start, force end, force recover, switch auto-end off | same rows as the driver's, same locks |
| telematics auto-start (`S/telematicsLifecycle`) | trip rows | packet of a bus without a trip: match schedule, geofence, movement, lock, check, create | no second row for the bus |
| pre-trip window job (`S/preTripWindow`) | trip rows | cancel old PRE_TRIP rows, open new ones | no row beside an open one; cancelled stays cancelled |
| pre-trip phase, promotion (`S/preTripPhase`, `S/preTripPromotion`) | phase, originArrivedAt, status | derive phase, promote after a dwell | promotes only what is still PRE_TRIP |
| trip end (`S/tripLifecycle`, `C/driverTrip`) | status, endTime, TRIP_ENDED events, Redis | finalize; auto-end at the final stop | ended once and for all, with an event |
| stale job (`S/tripStale`, `S/tripStale.job`) | isStale, status | mark, end after silence | a silent trip ends, a live one does not |
| driver location pipeline (`S/driverLocation`), GPS ingest (`S/gpsIngest`) | tracking rows, Redis state | check, filter, store, arbitrate, arrivals, promote, auto-end | locations of an ended trip change nothing that lasts |
| source arbitration (`S/sourceArbitration`) | selected and last-good Redis state | score, hysteresis, hold | a healthy source is preferred, without flapping |
| realtime state (`S/tripRealtimeState`) | Redis keys per trip, TTL | set, get, clear | gone once the trip has ended |
| stop arrival (`S/arrival`, `S/stopArrivalProgress`) | dwell marker in Redis, StopArrival rows | detect, confirm after a dwell, fill in passed stops | each stop once per trip, in order, announced once; detection never gets stuck |
| tracking filter, ETA | pure arithmetic over recent points | accept, smooth, estimate | - |
| rate limiter, buffer, stops cache | per-process maps | admit, monotonic time, batch | no stale point overtakes a newer one |
| Traccar intake (`S/traccarRealtime`, `S/traccarPoll.job`) | socket, reconnect timer, device cache, poll cycle, idle throttle | connect, reconnect, stop, poll, ingest | always one connection under way, none after the stop; the poll brings in what the socket missed |
| notifications and push | notification rows, tokens | fan out, de-duplicate | at most once per trip and rider |
| accounts, sessions (`C/auth`, `S/auth`, `S/adminUser`) | users, sessions | login, refresh, logout, revoke, change, approve, reject, deactivate | one good refresh token per session; closed stays closed; a replaced password and a locked account are out |
| codes by mail (`S/passwordReset`, `C/auth`) | OTP rows, tokens | ask, verify, spend | a code serves once; guesses and mails are limited |
| schedules, buses, devices, users | rows | CRUD by admins | one active device per bus |
| sockets, server | rooms, shutdown | join, broadcast, close | - |

Interactions: `startTripService`, `startAdminTripService` and the auto-start
share the locks and `createTripFromServiceSchedule`; the window job creates rows
without them.  Promotion is called from the driver's start and both location
paths.  `finalizeTripService` has four callers (driver, admin, auto-end, stale
job).  Both location paths end in arbitration, promotion and auto-end.  Only
`POST /start` and `POST /end` use idempotency keys.

What is hard here: check-then-act across awaits with no unique index on open
trips of a bus (`prisma/schema.prisma`), locks with a TTL that is never renewed,
status writes by id alone, jobs that act on a snapshot, retries with the same
key, servers that stop in the middle.  `PROJECT.json` lists the hazards by line.

## 2. Plan

In the order they were written, most important first:

1. `TripLock`: the lock protocol, which the starts are shown to follow.
2. `Idempotency`: the key protocol together with its callers' error handling.
3. `TripLifecycle`: extends `TripLock` with all creators, promoters and finalizers
   of trip rows and with the window job; implements the abstract `BusService`.
4. `TripStale`: the job that marks and ends silent trips, beside the writes of
   locations, recoveries and finalizers.
5. `SourceArbitration`: the choice between phone and GPS device, the Redis state
   of a trip, and finalizers beside it.
6. `Session`, which implements the abstract `SessionPromise`: logins, rotations
   and everything that closes sessions, beside the admins.
7. `OneTimeCode`: the codes for registration and reset.
8. `TripProgress`: pre-trip phase and stop arrivals in both location handlers.
9. `TraccarIntake`: socket and poll, from Traccar to the ingest; implements the
   abstract `TraccarLink`.
10. `*Proofs`: inductive invariants and theorems, one module per component.

What is left, should the project go on:

* Two buses and one driver in `TripLifecycle`, which needs a smaller grain of
  the locks to stay within TLC's reach, and a rule for two rows of one bus.
* Force-recover and the switch of auto-end over the tracking rows, and a trip that a
  packet starts, in `SourceArbitration`.
* Withdrawal of devices in `TraccarIntake`.
* Abstract specifications of the idempotency keys (a request is answered once) and
  of the tracking state that passengers see, with the refinements proved.

## 3. Modules

### TripLock (`TripLock.tla`)

`lock` maps each Redis key to the request whose token it holds; `stage` is the
point of `acquireTripStartLock` or `releaseTripStartLock` a request is at; `want`
is what it asked for.  `SetNX` is `SET key token PX ttl NX`, `CompareAndDelete`
the Lua script.  `releaseTripStartLock` sends both scripts at once and Redis runs
them in that order, so `ReleaseBus` and `ReleaseDriver` are two actions with other
commands in between.  `KeyExpires` may happen to any held key at any time: the model
has no clock, so what is shown holds for every TTL.  `Abandon` is a crash or a
Redis error.  `overrun` is a history variable: requests that lost a key while
they still counted on it.

`MutualExclusion`, `NoKeyLeftBehind` and `OnlyHolderReleases` are checked where the
locks are used, in `TripLifecycle_safety`: a key may expire at any time, so two
handlers are enough for a late release to meet the key of a successor.  That run has
one bus and one driver; any number of them, and starts without a driver, are covered
by the theorems in `TripLifecycleProofs`.

### Idempotency (`Idempotency.tla`, `MCIdempotency.tla`, `IdempotencyProofs.tla`)

`record` is what Redis holds under each key; an answer is represented by the
request that wrote it.  `Get`, `Conflict`, `InProgress`, `Replay` are the outcomes of
the GET, `Started` and `RaceFallback` those of the SET NX.  The callers are folded
into `Act`, `Complete`, `Refuse` (delete and throw), `Throw` and `Catch` (the delete
in the catch), as in `startTripService` and `endTrip`.  `robbed` is a history
variable: requests whose record was deleted, replaced or dropped under them.

* `Idempotency_promises`: 3 requests, one key, two fingerprints (keys do not
  interact).  Fairness of each request's own steps: an async function whose Redis
  call answers is resumed by the event loop; a call that never answers is `Stop`.
* `OneAtWorkUnlessRobbed` and `ActedOnce` except robbed requests.  One way to be
  robbed is the code's own: a refused start deletes its record before it throws,
  and the catch deletes it again; a retry that became IN_PROGRESS between the two
  loses its record.
* `RetryIsNotBlocked`: a pending record belongs to a request that is at work, about
  to give it up, or was killed.  So the ways a handler ends by itself (refusal,
  exception, exception after the answer was stored) never make its retry wait for
  the TTL.

### TripLifecycle, BusService (`TripLifecycle.tla`, `BusService.tla`, `MCTripLifecycle.tla`, `TripLifecycleProofs.tla`)

`pc[r]` is the await a handler is at, `op[r]` its kind, `target[r]` the trip it is
about, `want[r]` the schedule (bus, driver) it would start; `status`, `schedule`,
`origin` are columns of a trip row.  `origin` and `unlogged` are history variables.
A handler that holds a lock runs the steps of `TripLock` (`Acquire`, `Denied`,
`Release`), and a crash is its `Abandon`.

* `check` differs by kind as in the code: a GPS packet gives up for an open
  PRE_TRIP row, driver and admin only for a RUNNING one; only the admin looks at
  the driver under the locks.
* `Located` and `AutoEndRead` let any location promote or end a trip: geofences,
  dwell times and final-stop tests are abstracted to a choice.
* The window job is one process (its interval has a running flag); its cancel is
  one `updateMany`, its check and create are two queries.
* Bounds: `Requests` (handler calls in total), `Trips` (rows in total; a create
  with no row left is a handler that waits), `Schedules`.

* `LocksAreGivenBack` is a safety invariant: a handler holds a lock only at the
  awaits of acquire, release and what is between them, unless it was killed or
  Redis failed.  So no path through a handler, early return or exception, ends it
  with a lock.
* `BusService` is what passengers and operators count on of a trip that a driver, an
  admin or a packet started: it runs once, on one bus, from its start to its end, and
  while no lock is overrun the bus has no other one.  `ServiceAsPromised` says that
  the handlers implement it: `Create` maps to `Start`, the first `FinalizeWrite` about
  a running trip to `End`, a late one and everything about the rows of the window job
  to a stutter, a lock that expires inside a start to `TimeOut`.  The rows of the
  window job are left out of the promise: the two findings show that it fails for them.

Runs: `TripLifecycle_safety` (one schedule, 2 handlers, 2 rows: two handlers and
the job are the smallest set in which every pair of writers races; it checks the
locks as well), `TripLifecycle_ended` and
`TripLifecycle_parallel` (expected violations, on a bus with a schedule with and one
without a driver).  Deadlock is off: handlers are finitely many and stop.

### TripStale (`TripStale.tla`, `MCTripStale.tla`, `TripStaleProofs.tla`)

`job` is the await a sweep is at, `current` the trip of the loop; `listed`,
`unmarked` and `overdue` are what the list that `findMany` returned says, which the
rows may have left behind.  `age` is the age of `lastLocationAt` and `Clock` makes
it grow; a location resets it to any age, since it brings its own timestamp.
`LocationArrives` and `LocationWrites`, `RecoverChecks` and `RecoverWrites` are the
status check and the write by id of the location paths and of force-recover;
`EndedElsewhere` is the write of any other finalizer.  `Fail` is an exception that
leaves the loop, or a restart.  `marks`, `heard` and `hasty` are history variables.

* `TripStale_safety`: 2 trips (a sweep must be able to hold a
  second one while it is busy with the first), ages up to `EndAfter` = 2 so that
  marking and ending are different moments, one sweep cut short.  A sweep decides on
  its list, so a trip that reports after the list was read may still be ended:
  `EndedForSilence` says that nothing else ends a trip.
* `TripStale_live`: ages up to 1.  Fairness: the timer keeps firing and queries are
  answered or throw (`WF` of `JobStep`), and time passes (`WF` of `Clock`); nothing is
  assumed of phones, devices and admins.  At most `MaxFailures` sweeps fail: a
  database that always fails ends no trip.

### SourceArbitration (`SourceArbitration.tla`, `MCSourceArbitration.tla`, `SourceArbitrationProofs.tla`)

One trip.  `driver`, `selected`, `lastGood` are its Redis keys; `packet` and `link`
what the row of the GPS device says and whose trip the rows of both sources are;
`chosen` the rows with `isSelected`; `shown` the `lastTracking*` columns of the trip.
`pc[r]` is the await a location is at, `view[r]` what its arbitration has read so
far, `pick[r]` what it decided; `closer` is the await of a finalizer.  `alone`,
`agree`, `quiet`, `cold` are history variables.

* The decision is operators: `Candidates`, `Score`, `Kept` (hysteresis), `Best` (the
  stable sort), `Held`.  `Choose`, `HoldLastGood` and `GiveUp` are its outcomes.
* `ReadRedis` is one step: the three GETs leave in one write and Redis works off
  a client's commands before it turns to another; the DELs of `FinalizeClears`
  likewise.  The row is read before or after.
* The bus has one row per source, whatever the number of its open trips.  What the
  handlers of the others do to them are `GpsElsewhere` (a packet linked to another
  trip or to none), `DriverElsewhere`, `AutoStartElsewhere` (the link of the row after
  a start, which keeps the mark), `ArbitrateElsewhere` (marks and unmarks rows that
  are theirs) and `EndElsewhere`.  They are not told apart: an arbitration may work
  on any part of `Theirs`.  The modelled trip itself is one that its driver or an admin
  started.  For a trip that a packet starts, the link may bring a mark of another
  trip along; that is left out.
* `OneRowSelected` speaks of the rows of the trip.  The bus may have two marked rows, of
  two trips: a location of one marks the phone's row while a packet of the other marks
  the device's.  The queries of `adminOperations` that read `isSelected` by bus (337,
  408, 536, 598, 906) then find either; no line says that there is only one per bus.
* Of a position the model keeps source, time and status.  Of the GPS row's status
  it keeps what arbitration reads.  The in-process check of monotonic times is
  left out, which allows more points than the code does.

`SourceArbitration_safety`: 2 locations, clock 0..1 with steps of 100 s, and
thresholds chosen (they are environment variables) so that one step makes the
phone STALE and the device DISCONNECTED; with UNHEALTHY packets all four statuses
meet.  `StickyWindow` is longer than a step, so that the hysteresis has something to
keep.  `MaxDelay` = 0: a point is stored late because its handler is slow, which
already lets points overtake each other.  `MaxDisturbances` = 1: one row
written by another trip (whose arbitrations and end are not counted), one lost key or
one failure; the theorems cover any number.
`StoresAgree` and `EndedIsCold` say what holds when locations do not overlap; with
overlap the stores may disagree until the next location, and the model shows it
(`agree` is then FALSE).

### Session, SessionPromise (`Session.tla`, `SessionPromise.tla`, `MCSession.tla`, `SessionProofs.tla`)

One account.  `status` and `current` are columns of its session rows (open or the
reason it was closed; the hash of the refresh token), `password`, `active` and
`approval` those of its user row; `held` is what reached the client, so that an
answer may be lost.  A request has read a session (`shown`) or compared a password
(`basis`) and writes by id at a later await.  The eight `Acts` are login, refresh,
logout in its forms, change and reset of the password; admins approve, reject,
deactivate, reactivate and revoke in transactions of their own.

* `SessionPromise` is what the holder of a session counts on: it starts once, one
  refresh token is good for it, a renewal replaces it, a closed one stays closed for
  the same reason.  `Session` implements it: `good` is the current hash of an open
  row.  A rotation that a revocation overtook writes its hash into a closed row, which
  maps to a stutter.
* `OldPasswordIsOut` and `LockedOutIsOut` have to except logins that were past their
  checks (`overtaken`) and, for the password, closings that failed (`unclosed`): the
  password is replaced in one query and the sessions closed in the next.
* `Session_safety`: 3 requests (two that race and a third whose session they meet),
  2 acts of admins.

### OneTimeCode (`OneTimeCode.tla`, `MCOneTimeCode.tla`, `OneTimeCodeProofs.tla`)

One address.  A code row has its purpose, time, attempts, token and `consumed`;
beside it the account of the address, which is created, approved, moved and
deleted.  Each handler finds a row in one query and writes it by id in a later one;
`beside` is a history variable: the requests whose read and write overlapped, which
is the only excuse `GuessesAreLimited` and `CooldownKept` allow: no line of the code
says that the limits hold of requests sent at once.  That a token is for a single use
is said, so `SingleUse` allows no excuse, and fails.

* `OneTimeCode_safety`: 3 requests, one permitted attempt, clock 0..3 with TTL and
  cooldown of 2, so that a code may be valid and its cooldown over, or both be over.
* `OneTimeCode_single` (expected violation): the same instance.

### TripProgress (`TripProgress.tla`, `MCTripProgress.tla`, `TripProgressProofs.tla`)

One trip.  `row` has status, phase and arrival at the origin; `arrivals` the
StopArrival rows, `marker` the Redis keys of a dwell that is under way; `pc[r]` and
`task[r]` a location in `processDriverLocationUpdate` or
`ingestGpsDeviceLocationService`, with the row as it was read at the beginning.
Beside them run promotion, the driver's tap, a finalizer and the cancellation of the
window job.  Positions arrive in any order of their times.

* `NoStopSkipped`, `AnnouncedOnce`: both handlers may see one dwell complete; the
  unique row decides which of them announces it.
* `DetectionGoesOn`: the latest arrival is that of the furthest stop, but for
  positions that were no newer than an arrival (`late`): with one of these the next
  stop is a recorded one for ever, and the model shows it.
* `PhaseEndsAtStart`, `StayedBeforeStart`, `NoBounceBack`: consistency of the phase,
  but for phases derived from a row that had changed since (`overtaken`).
* `TripProgress_safety`: 3 locations, 4 stops, times 0..2, five places chosen so
  that radii overlap, stops are passed and the origin is left and reached again.

### TraccarIntake, TraccarLink (`TraccarIntake.tla`, `TraccarLink.tla`, `MCTraccarIntake.tla`, `TraccarIntakeProofs.tla`)

`link` has the connection attempts and sockets, each at its await; `ws`, `timer`
(reconnectTimer) and `stopping` are the variables of `traccarRealtime`; `handler[h]` is
a `handlePosition` under way, `poll` a cycle of `pollOnce` with its snapshot `seen`.
`recorded` is `lastRecordedAt` of the device row, `outcome` (history) what became of
the newest position.  The ingest is two steps, store and work; a failure or a restart
between them leaves a position that is recorded but not worked on.

* `OneCarrier`: until the stop there is exactly one attempt, socket or set timer.
  `StopIsFinal`: after it there is none, but for an attempt that had no socket yet
  (`caught`), as `connect` does not look at `stopping` after its awaits.
* `TraccarLink` is the connection as the rest of the server sees it: waiting, trying,
  up, closing or off, and off only after a stop.  `OneConnection` says that the
  attempts, sockets and the timer implement it, so no way out of `connect` or of a
  socket leaves the connection down with nothing set to bring it back.
* `NothingForgotten`: the poll skips a device whose row shows its newest position;
  that position is then being worked on, or the work on it is over or failed.
* `SafetyNet` and `RowCatchesUp` are what `config/env.ts:165-169` keeps the poll for.
  Fairness: the interval fires and the queries of the poll and the handlers are
  answered (`WF`), idle intervals end (`WF`); nothing is assumed of the socket, which
  may be refused or silent for good.  A stopping server is excepted.
* `LookupFails`: the refresh of the cache on a miss is outside of the try of
  `handlePosition`, which nobody awaits, so a failed query is an unhandled rejection,
  and `server.ts:493` shuts the server down.
* `TraccarIntake_safety`: 2 devices (a failure of one must not cost the other its
  turn), one registered at the start and one later with 2 positions, so that the
  older can be late; 1 handler beside the poll, 1 fault; 2 slots, so that a second
  connection would show.  No deadlock: time always passes.

## 4. Findings

Each is a run that TLC must find violated; the property quotes the code's own
comment.

* `EndedTripStaysEnded`: promotion is called idempotent, but writes by id.  A row
  cancelled by the window job between its read and its write runs again.
* `NoRowBesideAutoStarted`: the auto-start guards against a parallel row; the
  window job, which takes no lock, creates one after its own check.
* `SingleUse`: the token of a verified code is called single-use, but `resetPassword`
  finds the unspent row in one query and spends it by id in a later one, and
  `registerPassenger` likewise (there the unique address lets only one through,
  unless an admin frees it in between).  Two resets with one token both succeed.
  How far this goes is the theorem `CodeSpentTwice`: only overlapping requests do so.

Other races the code allows are the exceptions of the properties above; each names
its history variable.  These comments say a little more than the code keeps; the
models follow the code, and no run is made of them:

* `preTripPhase.service.ts:83-84`, "don't bounce back to AT_DEPOT": kept by one
  handler; of two that overlap, the later write is derived from an older row
  (`NoBounceBack` excepts them).
* `gpsIngest.service.ts:892-894`, "Stop arrival / ETA / auto-end are RUNNING-only": true
  of that handler, but also after a promotion that did nothing; the phone's handler looks for stops
  before the start as well.
* `passwordReset.controller.ts:264-265`, "revokes all sessions": a query after the commit
  of the password, whose failure leaves them open (`OldPasswordIsOut` excepts it).
* `traccarRealtime.service.ts:23-25` and `138`, the cache is refreshed "on cache miss": not
  while its last refresh is less than a minute old.

## 5. Proofs

All theorems hold for every value of the constants under the named assumptions
(`LockConstants`, `IdempotencyConstants`, `LifecycleConstants`, `StaleConstants`,
`ArbitrationConstants`, `SessionConstants`, `CodeConstants`, `ProgressConstants`,
`IntakeConstants`: ids of different kinds are different, the null values are not ids,
there is a slot for a connection, and the hysteresis gap is below 265; its default
is 25).

* The locks (first part of `TripLifecycleProofs`): the inductive invariant `LockInv` adds to the types that a
  request holds every key it claims unless it was overrun, and that a key is held
  only by a request that claims it or died.  Exclusion alone is not inductive: it
  needs to know that being inside means holding the keys.
* `IdempotencyProofs`: the invariant says that a request at work owns its record
  or was robbed, that a stored record was written by a request with its key and
  print, and that a request which acted and was answered owned its record to the
  end unless robbed.  `IdemRetry` follows the owner of each pending record through
  every outcome.
* `TripLifecycleProofs`: first, that `TripLifecycle` implements `TripLock`
  (the lemma `LifecycleUsesLocks`): every action is a lock step or leaves the lock
  variables alone.  That is how the modules are composed and says nothing of the
  handlers; its use is to make the lock theorems available to the rest
  (`LifecycleLockInv`).  `RowInvariant` ties `pc` to lock stages and rows, from
  which the types, `OneDirectTripPerBus`, `DirectTripsStayEnded` and `EndIsLogged`
  follow.  `OneDirectTripPerBus` needs that a handler past its check holds the
  bus key, so no other handler created a row for that bus since (`BusIsFree`).
  `LifecycleServes` is the refinement of `BusService`: `CreateStarts` shows from
  `BusIsFree` that a create finds its bus free, `FinalizeEnds` splits the finalizers
  into the one that ends the trip and those that change nothing, and `ServiceCalm`
  covers the steps that touch no such row.
* `TripStaleProofs`: `StaleInv` relates the list to the rows it has left behind: what
  it calls overdue is silent or was heard since, and what it calls unmarked, and is
  still going to mark, has no mark.  Without the second part `OneAlertPerSilence` is
  not inductive, since a mark looks at the list and not at the row.
* `SourceArbitrationProofs`: `ScoreOrder` shows that statuses are further apart than age
  bonus, bias and gap together, from which `BestStatusWins` follows; `SomeoneWins` that
  a tie is always broken.  `OneRowSelected` holds because only the
  trip's own handlers mark or link its rows (`MarksExclude`).  `ArbInv` adds to the properties what a location that is
  alone, and a finalizer that nobody disturbs, has already written (`AloneAgrees`,
  `QuietClears`): without them a property about the end of a step sequence is not
  inductive.

* `SessionProofs`: `SessionInv` has four parts.  `RequestsSound` ties what a request
  carries to its await, `RowsSound` says which rows exist, `TokensSound` that a token
  has one maker, so that a token that is not the current one was shown by two
  requests, and `LoginsSound` which logins a lock-out may have overtaken.  The
  refinement of `SessionPromise` needs `TokensSound`: a renewal brings a new token.
* `OneTimeCodeProofs`: `CodeInv` relates every pair of requests that read the same row
  (`BesideSound`), spent it (`SpendersSound`), counted a guess (`GuessesSound`) or made
  a code (`CodesSound`): of two that do not overlap, the later one read what the
  earlier one had written.  From `SpendersSound` follows `CodeSpentTwice`.
* `TripProgressProofs`: `ProgressInv` says that stops are recorded in order
  (`OrderSound`), that an announcer created its row (`ClaimsSound`), and, unless a
  position came late or a row had changed, that times grow with the stops
  (`TimesSound`) and phases agree with `stay` (`PhaseSound`).  The two action
  properties follow from it step by step.
* `LifecycleGivesBack` (`TripLifecycleProofs`): `StageFits` ties each lock stage to the
  awaits it may have; `LocksAreGivenBack` is its reading from the side of the handler.

* `TraccarIntakeProofs`: `LinkInv` says that until the stop exactly one of the slots
  and the timer carries the connection (`OneLink`, `NeverIdle`) and that `ws` names the
  socket that is open (`SocketIsNamed`); the last is what makes a stop reach it.
  `OneCarrier`, `StopIsFinal` and the refinement `OneConnection` follow: `PhaseFor`
  computes the abstract phase from slots and timer, and each action has the effect on
  it that `TraccarLink` allows.  `PositionInv` bounds the positions that handlers and
  the poll carry by the newest one, without which a late store could count as the
  newest and `NothingForgotten` would not be inductive.

Every module with proofs has its `TypeOK` proved for every value of the constants; a run
checks it only for `OneTimeCode`, where it says that what is consumed was verified.

Every invariant and every action property of the passing runs is stated by a theorem;
the properties of the violated runs are false, so none of theirs is.

Model-checked only: liveness (`EveryRequestEnds`, `SilentTripEnds`, `SafetyNet`,
`RowCatchesUp`), for which TLAPS has no fairness reasoning.

## 6. Not modelled

See the components with status `not_modelled` in `PROJECT.json`.  Left out for
good: pure reads (dashboards, analytics), formatting, validation, floating-point
geometry (it appears as a nondeterministic answer), broadcasts and pushes as far
as the server never reads them back.  Clock skew between processes and Redis
fail-over are not modelled; lock expiry at any time covers their effect on locks.

Behaviour the models show and no document speaks about (section 4 has the cases where
a comment does): a killed holder blocks a
lock or an idempotency key until its TTL; a stale alert is lost if its insert fails,
and a trip that never reported is never stale; a dwell marker survives a short absence; poll and socket may ingest one position twice; what fails after the
store of a position is not repeated; a hit in the device cache is never refreshed
(withdrawal of a device is not modelled).
