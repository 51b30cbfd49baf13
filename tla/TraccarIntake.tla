---------------------------- MODULE TraccarIntake ----------------------------
(***************************************************************************)
(* How the positions of the GPS devices get from Traccar, the tracking     *)
(* server, into the backend: a socket it pushes them over                  *)
(* (traccarRealtime), with reconnects, and beside it a job that polls the  *)
(* newest position of each device (traccarPoll).  Both hand a position to  *)
(* ingestGpsDeviceLocationService, which stores it in the device row and   *)
(* then works on it: trips, arrivals, arbitration.                         *)
(*                                                                         *)
(* Each await is an action.  A position is the number of its time, so that *)
(* the newest one of a device is the largest.  The devices are assigned to *)
(* a bus.  Left out: the login at Traccar (an attempt gets a cookie or     *)
(* not), the pings, which nobody waits an answer for, and lastSeenAt.      *)
(***************************************************************************)
EXTENDS Naturals, FiniteSets

CONSTANTS
    Devices,     \* GPS devices of Traccar
    Registered,  \* the ones that are known to the backend from the beginning
    Newest,      \* bound: the last position of each device
    Slots,       \* bound: connection attempts and sockets at a time
    Handlers,    \* bound: positions of the socket that are worked on at a time
    MaxFaults,   \* bound: failures of the poll and of the handlers, and restarts
    None         \* no socket, no device

ASSUME IntakeConstants ==
    /\ Registered \subseteq Devices /\ Newest \in [Devices -> Nat] /\ MaxFaults \in Nat
    /\ Slots # {} /\ IsFiniteSet(Slots) /\ None \notin Slots /\ None \notin Devices

VARIABLES
    latest,       \* Traccar: the newest position of each device
    sent,         \* Traccar: the last one it pushed
    managed,      \* devices that are active, traccarManaged and have a Traccar id
    recorded,     \* device row: lastRecordedAt
    outcome,      \* history: what became of the newest position
    link,         \* the connection attempts and sockets
    ws,           \* the socket stopTraccarRealtime closes
    timer,        \* reconnectTimer is set
    stopping,     \* the server was told to stop
    cached,       \* deviceCache
    handler,      \* handlePosition: the await it is at and its position
    cycleRunning, \* the guard of pollOnce
    poll,         \* pollOnce: the await it is at and its local variables
    throttled,    \* idle devices polled less than idleIntervalMs ago
    faults,       \* faults so far
    caught        \* history: attempts that were without a socket when the stop came

socketVars == <<link, ws, timer, stopping, caught>>
deviceVars == <<recorded, outcome>>
pollVars == <<cycleRunning, poll, throttled>>
traccarVars == <<latest, sent, managed>>
vars == <<traccarVars, deviceVars, socketVars, cached, handler, pollVars, faults>>

LinkStates == {"free", "cookie", "cache", "opening", "open", "closing"}
Positions == [Devices -> Nat]
Idle == [pc |-> "idle", dev |-> None, pos |-> 0]

TypeOK ==
    /\ latest \in Positions /\ sent \in Positions /\ recorded \in Positions
    /\ \A d \in Devices : sent[d] <= latest[d] /\ recorded[d] <= latest[d] /\ latest[d] <= Newest[d]
    /\ managed \subseteq Devices /\ cached \subseteq Devices /\ throttled \subseteq Devices
    /\ outcome \in [Devices -> {"none", "worked", "failed"}]
    /\ link \in [Slots -> LinkStates] /\ ws \in Slots \cup {None} /\ caught \subseteq Slots
    /\ {timer, stopping, cycleRunning} \subseteq BOOLEAN
    /\ \A h \in Handlers :
        \/ handler[h] = Idle
        \/ /\ handler[h].pc \in {"lookup", "ingest", "work"} /\ handler[h].dev \in Devices
           /\ handler[h].pos \in 1 .. latest[handler[h].dev]
    /\ poll.pc \in {"idle", "list", "trips", "next", "fetch", "ingest", "work"}
    /\ poll.todo \subseteq Devices /\ poll.active \subseteq Devices /\ poll.seen \in Positions
    /\ poll.dev # None => poll.dev \in Devices /\ poll.pos <= latest[poll.dev]
    /\ faults \in 0 .. MaxFaults

Fault == faults < MaxFaults /\ faults' = faults + 1

(***************************************************************************)
(* The start of the process: connect and pollOnce run at once.  Nothing of *)
(* the former process is left.                                             *)
(***************************************************************************)
FreeSlot == CHOOSE l \in Slots : link[l] = "free"
FirstSlot == CHOOSE l \in Slots : TRUE

NewCycle ==
    [pc |-> "list", todo |-> {}, seen |-> [d \in Devices |-> 0], active |-> {},
     dev |-> None, pos |-> 0]

Init ==
    /\ latest = [d \in Devices |-> 0] /\ sent = latest /\ recorded = latest
    /\ managed = Registered
    /\ outcome = [d \in Devices |-> "none"]
    /\ link = [l \in Slots |-> IF l = FirstSlot THEN "cookie" ELSE "free"]
    /\ ws = None /\ timer = FALSE /\ stopping = FALSE /\ caught = {}
    /\ cached = {}
    /\ handler = [h \in Handlers |-> Idle]
    /\ cycleRunning = TRUE /\ poll = NewCycle /\ throttled = {}
    /\ faults = 0

\* What the process worked on is left as it is.
OutcomeOfLost(tasks) ==
    [d \in Devices |->
        IF outcome[d] = "none" /\ \E t \in tasks : t.pc = "work" /\ t.dev = d /\ t.pos = latest[d]
        THEN "failed" ELSE outcome[d]]

Restart ==
    /\ Fault
    /\ outcome' = OutcomeOfLost({handler[h] : h \in Handlers} \cup {poll})
    /\ link' = [l \in Slots |-> IF l = FirstSlot THEN "cookie" ELSE "free"]
    /\ ws' = None /\ timer' = FALSE /\ stopping' = FALSE /\ caught' = {}
    /\ cached' = {}
    /\ handler' = [h \in Handlers |-> Idle]
    /\ cycleRunning' = TRUE /\ poll' = NewCycle /\ throttled' = {}
    /\ UNCHANGED <<traccarVars, recorded>>

\* shutdown: the poll timer is cleared, so that no cycle starts any more, and
\* then the socket is closed; what is under way goes on until the process ends.
StopServices ==
    /\ stopping' = TRUE
    /\ timer' = FALSE
    /\ link' = IF ws = None THEN link ELSE [link EXCEPT ![ws] = "closing"]
    /\ ws' = None
    /\ caught' = {l \in Slots : link[l] \in {"cookie", "cache"}}

Shutdown ==
    /\ ~stopping
    /\ StopServices
    /\ UNCHANGED <<traccarVars, deviceVars, cached, handler, pollVars, faults>>

(***************************************************************************)
(* Traccar and the devices.                                                *)
(***************************************************************************)
Report(d) ==
    /\ latest[d] < Newest[d]
    /\ latest' = [latest EXCEPT ![d] = @ + 1]
    /\ outcome' = [outcome EXCEPT ![d] = "none"]
    /\ UNCHANGED <<sent, managed, recorded, socketVars, cached, handler, pollVars, faults>>

\* An administrator registers the device and it is found at Traccar.
Reconcile(d) ==
    /\ managed' = managed \cup {d}
    /\ UNCHANGED <<latest, sent, deviceVars, socketVars, cached, handler, pollVars, faults>>

(***************************************************************************)
(* The socket.  Whatever ends an attempt or a socket sets the timer of the *)
(* next one.                                                               *)
(***************************************************************************)
LinkStep == UNCHANGED <<traccarVars, deviceVars, handler, pollVars, faults>>

\* Mutant: the stop is not looked at.
Bug_ReconnectAfterStop == timer' = TRUE

ScheduleReconnect == timer' = (timer \/ ~stopping)

Gone(l) == link' = [link EXCEPT ![l] = "free"]

ReconnectTimer ==
    /\ timer
    /\ timer' = FALSE
    /\ \E l \in Slots : link[l] = "free"
    /\ link' = IF stopping THEN link ELSE [link EXCEPT ![FreeSlot] = "cookie"]
    /\ UNCHANGED <<ws, stopping, caught, cached>> /\ LinkStep

GotCookie(l) ==
    /\ link[l] = "cookie"
    /\ link' = [link EXCEPT ![l] = "cache"]
    /\ UNCHANGED <<ws, timer, stopping, caught, cached>> /\ LinkStep

NoCookie(l) ==
    /\ link[l] = "cookie"
    /\ Gone(l) /\ ScheduleReconnect
    /\ UNCHANGED <<ws, stopping, caught, cached>> /\ LinkStep

\* refreshDeviceCacheIfStale: whether the cache is younger than
\* DEVICE_CACHE_TTL_MS is left open; an empty one is refreshed.
RefreshCache == cached' = managed \/ (cached # {} /\ UNCHANGED cached)

\* Nobody asks whether the stop has come meanwhile.
OpenSocket(l) ==
    /\ link[l] = "cache"
    /\ RefreshCache
    /\ link' = [link EXCEPT ![l] = "opening"] /\ ws' = l
    /\ UNCHANGED <<timer, stopping, caught>> /\ LinkStep

\* Mutant: the catch only logs.
Bug_CatchForgets(l) ==
    /\ link[l] = "cache"
    /\ Gone(l)
    /\ UNCHANGED <<ws, timer, stopping, caught, cached>> /\ LinkStep

CacheFails(l) ==
    /\ link[l] = "cache"
    /\ Gone(l) /\ ScheduleReconnect
    /\ UNCHANGED <<ws, stopping, caught, cached>> /\ LinkStep

SocketOpen(l) ==
    /\ link[l] = "opening"
    /\ link' = [link EXCEPT ![l] = "open"]
    /\ UNCHANGED <<ws, timer, stopping, caught, cached>> /\ LinkStep

\* Mutant: the error event sets the timer, too.
Bug_ErrorReconnects(l) ==
    /\ link[l] \in {"opening", "open"}
    /\ link' = [link EXCEPT ![l] = "closing"]
    /\ ScheduleReconnect
    /\ UNCHANGED <<ws, stopping, caught, cached>> /\ LinkStep

\* Only logged: the close follows.
SocketError(l) ==
    /\ link[l] \in {"opening", "open"}
    /\ link' = [link EXCEPT ![l] = "closing"]
    /\ UNCHANGED <<ws, timer, stopping, caught, cached>> /\ LinkStep

SocketClose(l) ==
    /\ link[l] \in {"open", "closing"}
    /\ ws' = None
    /\ Gone(l) /\ ScheduleReconnect
    /\ UNCHANGED <<stopping, caught, cached>> /\ LinkStep

(***************************************************************************)
(* A position arrives on the socket.  Its handler is not awaited.          *)
(***************************************************************************)
Task(pc, d, p) == [pc |-> pc, dev |-> d, pos |-> p]

Message(h, d) ==
    /\ handler[h] = Idle
    /\ \E l \in Slots : link[l] \in {"open", "closing"}
    /\ \E p \in sent[d] + 1 .. latest[d] :
        /\ sent' = [sent EXCEPT ![d] = p]
        /\ handler' = [handler EXCEPT ![h] = Task(IF d \in cached THEN "ingest" ELSE "lookup", d, p)]
    /\ UNCHANGED <<latest, managed, deviceVars, socketVars, cached, pollVars, faults>>

Lookup(h) ==
    /\ handler[h].pc = "lookup"
    /\ RefreshCache
    /\ handler' = [handler EXCEPT ![h] =
           IF handler[h].dev \in cached' THEN [@ EXCEPT !.pc = "ingest"] ELSE Idle]
    /\ UNCHANGED <<traccarVars, deviceVars, socketVars, pollVars, faults>>

\* The query is outside of the try: its failure is an unhandled rejection, and
\* the server shuts down.
LookupFails(h) ==
    /\ handler[h].pc = "lookup"
    /\ Fault
    /\ handler' = [handler EXCEPT ![h] = Idle]
    /\ IF stopping THEN UNCHANGED socketVars ELSE StopServices
    /\ UNCHANGED <<traccarVars, deviceVars, cached, pollVars>>

(***************************************************************************)
(* ingestGpsDeviceLocationService: what it reads, then the transaction     *)
(* that stores the position, whatever the row shows, then the work.        *)
(***************************************************************************)
\* Mutant: the time of the device's newest position instead of this one's.
Bug_StoreLatestTime(d, p) == recorded' = [recorded EXCEPT ![d] = latest[d]]

Store(d, p) == recorded' = [recorded EXCEPT ![d] = p]

Conclude(d, p, how) ==
    outcome' = [outcome EXCEPT ![d] = IF p = latest[d] /\ @ # "worked" THEN how ELSE @]

HandlerStores(h) ==
    /\ handler[h].pc = "ingest"
    /\ Store(handler[h].dev, handler[h].pos)
    /\ handler' = [handler EXCEPT ![h].pc = "work"]
    /\ UNCHANGED <<traccarVars, outcome, socketVars, cached, pollVars, faults>>

HandlerWorks(h) ==
    /\ handler[h].pc = "work"
    /\ Conclude(handler[h].dev, handler[h].pos, "worked")
    /\ handler' = [handler EXCEPT ![h] = Idle]
    /\ UNCHANGED <<traccarVars, recorded, socketVars, cached, pollVars, faults>>

HandlerFails(h) ==
    /\ handler[h].pc \in {"ingest", "work"}
    /\ Fault
    /\ IF handler[h].pc = "work"
       THEN Conclude(handler[h].dev, handler[h].pos, "failed")
       ELSE UNCHANGED outcome
    /\ handler' = [handler EXCEPT ![h] = Idle]
    /\ UNCHANGED <<traccarVars, recorded, socketVars, cached, pollVars>>

(***************************************************************************)
(* The poll.                                                               *)
(***************************************************************************)
PollStep == UNCHANGED <<traccarVars, socketVars, cached, handler>>

\* The interval of the job; a cycle that is still running is not overtaken.
PollTick ==
    /\ ~stopping
    /\ ~cycleRunning
    /\ cycleRunning' = TRUE
    /\ poll' = NewCycle
    /\ UNCHANGED <<deviceVars, throttled, faults>> /\ PollStep

\* finally: however the cycle ends.
EndCycle ==
    /\ cycleRunning' = FALSE
    /\ poll' = [NewCycle EXCEPT !.pc = "idle"]

PollList ==
    /\ poll.pc = "list"
    /\ IF managed = {}
       THEN EndCycle
       ELSE /\ poll' = [poll EXCEPT !.pc = "trips", !.todo = managed, !.seen = recorded]
            /\ UNCHANGED cycleRunning
    /\ UNCHANGED <<deviceVars, throttled, faults>> /\ PollStep

\* The devices whose bus is on a trip; any, as trips are not modelled here.
PollTrips ==
    /\ poll.pc = "trips"
    /\ \E active \in SUBSET poll.todo : poll' = [poll EXCEPT !.pc = "next", !.active = active]
    /\ UNCHANGED <<deviceVars, cycleRunning, throttled, faults>> /\ PollStep

PollNext(d) ==
    /\ poll.pc = "next" /\ d \in poll.todo
    /\ LET idle == d \notin poll.active
           rest == [poll EXCEPT !.todo = @ \ {d}]
       IN  /\ poll' = IF idle /\ d \in throttled THEN rest
                      ELSE [rest EXCEPT !.pc = "fetch", !.dev = d]
           /\ throttled' = IF idle THEN throttled \cup {d} ELSE throttled
    /\ UNCHANGED <<deviceVars, cycleRunning, faults>> /\ PollStep

PollEnds ==
    /\ poll.pc = "next" /\ poll.todo = {}
    /\ EndCycle
    /\ UNCHANGED <<deviceVars, throttled, faults>> /\ PollStep

NextDevice == [poll EXCEPT !.pc = "next", !.dev = None, !.pos = 0]

\* Mutant: a position that was ingested before is skipped.
Bug_SkipKnownPosition ==
    /\ poll.pc = "fetch"
    /\ LET p == latest[poll.dev]
       IN  poll' = IF p <= poll.seen[poll.dev] \/ outcome[poll.dev] # "none" THEN NextDevice
                   ELSE [poll EXCEPT !.pc = "ingest", !.pos = p]
    /\ UNCHANGED <<deviceVars, cycleRunning, throttled, faults>> /\ PollStep

\* What Traccar answers is compared with the row as the list showed it.
PollFetch ==
    /\ poll.pc = "fetch"
    /\ LET p == latest[poll.dev]
       IN  poll' = IF p <= poll.seen[poll.dev] THEN NextDevice
                   ELSE [poll EXCEPT !.pc = "ingest", !.pos = p]
    /\ UNCHANGED <<deviceVars, cycleRunning, throttled, faults>> /\ PollStep

PollStores ==
    /\ poll.pc = "ingest"
    /\ Store(poll.dev, poll.pos)
    /\ poll' = [poll EXCEPT !.pc = "work"]
    /\ UNCHANGED <<outcome, cycleRunning, throttled, faults>> /\ PollStep

PollWorks ==
    /\ poll.pc = "work"
    /\ Conclude(poll.dev, poll.pos, "worked")
    /\ poll' = NextDevice
    /\ UNCHANGED <<recorded, cycleRunning, throttled, faults>> /\ PollStep

\* Mutant: there is no finally, cycleRunning stays set.
Bug_NoFinally ==
    /\ poll.pc \in {"list", "trips"}
    /\ Fault
    /\ poll' = [NewCycle EXCEPT !.pc = "idle"]
    /\ UNCHANGED <<deviceVars, cycleRunning, throttled>> /\ PollStep

\* A query of the cycle throws: the cycle ends.
PollCycleFails ==
    /\ poll.pc \in {"list", "trips"}
    /\ Fault
    /\ EndCycle
    /\ UNCHANGED <<deviceVars, throttled>> /\ PollStep

\* Something about one device throws: the next device has its turn.
PollDeviceFails ==
    /\ poll.pc \in {"fetch", "ingest", "work"}
    /\ Fault
    /\ IF poll.pc = "work" THEN Conclude(poll.dev, poll.pos, "failed") ELSE UNCHANGED outcome
    /\ poll' = NextDevice
    /\ UNCHANGED <<recorded, cycleRunning, throttled>> /\ PollStep

\* idleIntervalMs are over.
IdleIsOver(d) ==
    /\ throttled' = throttled \ {d}
    /\ UNCHANGED <<deviceVars, cycleRunning, poll, faults>> /\ PollStep

(***************************************************************************)
(* The specification.                                                      *)
(***************************************************************************)
SocketStep ==
    \/ ReconnectTimer
    \/ \E l \in Slots :
        \/ GotCookie(l) \/ NoCookie(l) \/ OpenSocket(l) \/ CacheFails(l)
        \/ SocketOpen(l) \/ SocketError(l) \/ SocketClose(l)

HandlerStep(h) == Lookup(h) \/ HandlerStores(h) \/ HandlerWorks(h)

PollRuns ==
    \/ PollTick \/ PollList \/ PollTrips \/ PollEnds \/ PollFetch \/ PollStores \/ PollWorks
    \/ \E d \in Devices : PollNext(d)

Next ==
    \/ Restart \/ Shutdown \/ SocketStep \/ PollRuns
    \/ PollCycleFails \/ PollDeviceFails
    \/ \E d \in Devices : Report(d) \/ Reconcile(d) \/ IdleIsOver(d)
    \/ \E h \in Handlers :
        \/ HandlerStep(h) \/ LookupFails(h) \/ HandlerFails(h)
        \/ \E d \in Devices : Message(h, d)

Spec == Init /\ [][Next]_vars

\* The interval keeps firing, queries are answered, time passes.  Nothing is
\* asked of the socket: Traccar may refuse it, or be silent on it, for good.
FairSpec ==
    /\ Spec
    /\ WF_vars(PollRuns)
    /\ \A h \in Handlers : WF_vars(HandlerStep(h))
    /\ \A d \in Devices : WF_vars(IdleIsOver(d))

-----------------------------------------------------------------------------
(* Correctness.                                                             *)

\* The connection is always somebody's: there is one attempt, one socket or one
\* set timer, until the server is told to stop, whatever fails in whatever
\* order; two would push every position twice, none would leave the socket
\* closed for good (connect, scheduleReconnect, the close and error events).
OneCarrier ==
    LET carriers == Cardinality({l \in Slots : link[l] # "free"}) + (IF timer THEN 1 ELSE 0)
    IN  carriers <= 1 /\ (~stopping => carriers = 1)

\* After the stop no reconnect is due and no socket stays open: but of an
\* attempt which was still without a socket when the stop came, and which does
\* not look whether it came (stopTraccarRealtime, connect).
StopIsFinal ==
    stopping => ~timer /\ \A l \in Slots \ caught : link[l] \in {"free", "closing"}

\* The connection, as the rest of the backend sees it: timer, attempts and
\* sockets are one machine that goes from one state to the next, comes back
\* whatever it fails at, and is down only after the stop.
LinkIs(S) == \E l \in Slots : link[l] \in S

Connection == INSTANCE TraccarLink WITH
    stopped <- stopping,
    phase <- CASE timer -> "waiting"
               [] LinkIs({"cookie", "cache", "opening"}) -> "trying"
               [] LinkIs({"open"}) -> "up"
               [] LinkIs({"closing"}) -> "closing"
               [] OTHER -> "off"

OneConnection == Connection!LinkSpec

\* The poll passes over a device whose row shows its newest position.  It may:
\* somebody is then at work on that position, or was, and either finished or
\* failed.  So no order of the two ways in, and no late store of an older
\* position, hides the newest one from both (ingestGpsDeviceLocationService
\* writes lastRecordedAt before it works).
AtWork(t, d) == t.pc = "work" /\ t.dev = d /\ t.pos = latest[d]

NothingForgotten ==
    \A d \in Devices :
        latest[d] > 0 /\ recorded[d] = latest[d] /\ outcome[d] = "none"
        => AtWork(poll, d) \/ \E h \in Handlers : AtWork(handler[h], d)

\* The poll is the safety net it is said to be: the newest position of a device
\* is worked on, or the work on it has failed, also when the socket is silent,
\* reconnects, starts to know a device late, or the server restarts.
SafetyNet ==
    \A d \in Devices :
        []<>(stopping \/ d \notin managed \/ latest[d] = 0 \/ outcome[d] # "none")

\* The device row shows the newest position in the end: a handler that stores
\* an older one late takes the row back, and the poll puts it right, as it
\* compares with the row and not with what it has fetched itself.
RowCatchesUp ==
    \A d \in Devices : []<>(stopping \/ d \notin managed \/ recorded[d] = latest[d])

=============================================================================
