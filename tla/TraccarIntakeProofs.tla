------------------------ MODULE TraccarIntakeProofs ------------------------
(* Proofs about the intake of positions from Traccar, for any number of     *)
(* devices, positions, handlers, sockets and faults.                       *)
EXTENDS TraccarIntake, FiniteSetTheorems, TLAPS

(***************************************************************************)
(* The connection.  At most one slot is in use, and none while the timer   *)
(* is set, so that whatever ends the one in use may set the timer.  The    *)
(* stop closes the socket that ws names: it misses none, as a socket is    *)
(* named by ws from the moment it exists until it is closing.              *)
(***************************************************************************)
LinkTypes ==
    /\ link \in [Slots -> LinkStates]
    /\ ws \in Slots \cup {None}
    /\ timer \in BOOLEAN
    /\ stopping \in BOOLEAN
    /\ caught \in SUBSET Slots

OneLink ==
    /\ \A l, m \in Slots : link[l] # "free" /\ link[m] # "free" => l = m
    /\ timer => \A l \in Slots : link[l] = "free"

NeverIdle == ~stopping => timer \/ \E l \in Slots : link[l] # "free"

SocketIsNamed ==
    /\ ws # None => link[ws] \in {"opening", "open", "closing"}
    /\ \A l \in Slots : link[l] \in {"opening", "open"} => ws = l

LinkInv == LinkTypes /\ OneLink /\ NeverIdle /\ SocketIsNamed /\ StopIsFinal

LEMMA FirstSlotExists == FirstSlot \in Slots
BY IntakeConstants DEF FirstSlot

LEMMA FreeSlotIsFree ==
    ASSUME \E l \in Slots : link[l] = "free"
    PROVE  FreeSlot \in Slots /\ link[FreeSlot] = "free"
BY DEF FreeSlot

LEMMA LinkInit == Init => LinkInv
BY FirstSlotExists, IntakeConstants
   DEF Init, LinkInv, LinkTypes, OneLink, NeverIdle, SocketIsNamed, StopIsFinal,
       LinkStates

(* What a step may do to the connection. *)
SocketMoves ==
    \/ Restart
    \/ ~stopping /\ StopServices
    \/ SocketStep

LEMMA OtherSteps == [Next]_vars => SocketMoves \/ UNCHANGED socketVars
<1> SUFFICES ASSUME [Next]_vars PROVE SocketMoves \/ UNCHANGED socketVars
  OBVIOUS
<1>1. CASE Restart \/ Shutdown \/ SocketStep
  BY <1>1 DEF SocketMoves, Shutdown
<1>2. CASE PollRuns \/ PollCycleFails \/ PollDeviceFails
  BY <1>2 DEF PollRuns, PollTick, PollList, PollTrips, PollEnds, PollFetch, PollStores,
     PollWorks, PollNext, PollCycleFails, PollDeviceFails, PollStep
<1>3. ASSUME NEW d \in Devices, Report(d) \/ Reconcile(d) \/ IdleIsOver(d)
      PROVE  UNCHANGED socketVars
  BY <1>3 DEF Report, Reconcile, IdleIsOver, PollStep
<1>4. ASSUME NEW h \in Handlers, HandlerStep(h) \/ HandlerFails(h)
      PROVE  UNCHANGED socketVars
  BY <1>4 DEF HandlerStep, Lookup, HandlerStores, HandlerWorks, HandlerFails
<1>5. ASSUME NEW h \in Handlers, LookupFails(h)
      PROVE  SocketMoves \/ UNCHANGED socketVars
  BY <1>5 DEF LookupFails, SocketMoves
<1>6. ASSUME NEW h \in Handlers, NEW d \in Devices, Message(h, d)
      PROVE  UNCHANGED socketVars
  BY <1>6 DEF Message
<1>7. CASE UNCHANGED vars
  BY <1>7 DEF vars
<1> QED
  BY <1>1, <1>2, <1>3, <1>4, <1>5, <1>6, <1>7 DEF Next

LEMMA LinkMoves == LinkInv /\ SocketMoves => LinkInv'
<1> SUFFICES ASSUME LinkInv, SocketMoves PROVE LinkInv'
  OBVIOUS
<1> USE IntakeConstants
    DEF LinkInv, LinkTypes, OneLink, NeverIdle, SocketIsNamed, StopIsFinal, LinkStates
<1>1. CASE Restart
  BY <1>1, FirstSlotExists DEF Restart
<1>2. CASE ~stopping /\ StopServices
  BY <1>2 DEF StopServices
<1>3. CASE ReconnectTimer
  BY <1>3, FreeSlotIsFree DEF ReconnectTimer
<1>4. ASSUME NEW l \in Slots, GotCookie(l) PROVE LinkInv'
  BY <1>4 DEF GotCookie
<1>5. ASSUME NEW l \in Slots, NoCookie(l) \/ CacheFails(l) PROVE LinkInv'
  <2>1. link[l] \in {"cookie", "cache"} /\ link' = [link EXCEPT ![l] = "free"]
        /\ timer' = (timer \/ ~stopping)
        /\ ws' = ws /\ stopping' = stopping /\ caught' = caught
    BY <1>5 DEF NoCookie, CacheFails, Gone, ScheduleReconnect
  <2> QED
    BY <2>1
<1>6. ASSUME NEW l \in Slots, OpenSocket(l) PROVE LinkInv'
  BY <1>6 DEF OpenSocket
<1>7. ASSUME NEW l \in Slots, SocketOpen(l) \/ SocketError(l) PROVE LinkInv'
  BY <1>7 DEF SocketOpen, SocketError
<1>8. ASSUME NEW l \in Slots, SocketClose(l) PROVE LinkInv'
  BY <1>8 DEF SocketClose, Gone, ScheduleReconnect
<1> QED
  BY <1>1, <1>2, <1>3, <1>4, <1>5, <1>6, <1>7, <1>8 DEF SocketMoves, SocketStep

LEMMA LinkStays == LinkInv /\ UNCHANGED socketVars => LinkInv'
BY DEF socketVars, LinkInv, LinkTypes, OneLink, NeverIdle, SocketIsNamed, StopIsFinal

THEOREM LinkInvariant == Spec => []LinkInv
<1>1. LinkInv /\ [Next]_vars => LinkInv'
  BY OtherSteps, LinkMoves, LinkStays
<1> QED
  BY LinkInit, <1>1, PTL DEF Spec

(* The connection is never lost and never doubled: connect, the timer and the *)
(* close event hand it to each other.                                        *)
THEOREM IntakeOneCarrier == Spec => []OneCarrier
<1>1. LinkInv => OneCarrier
  <2> SUFFICES ASSUME LinkInv PROVE OneCarrier
    OBVIOUS
  <2> DEFINE used == {l \in Slots : link[l] # "free"}
  <2>1. timer \in BOOLEAN
    BY DEF LinkInv, LinkTypes
  <2>2. CASE \A l \in Slots : link[l] = "free"
    <3>1. Cardinality(used) = 0
      <4>1. used = {}
        BY <2>2
      <4> QED
        BY <4>1, FS_EmptySet
    <3>2. ~stopping => timer
      BY <2>2 DEF LinkInv, NeverIdle
    <3> QED
      BY <2>1, <3>1, <3>2 DEF OneCarrier
  <2>3. ASSUME NEW l \in Slots, link[l] # "free" PROVE OneCarrier
    <3>1. Cardinality(used) = 1
      <4>1. used = {l}
        BY <2>3 DEF LinkInv, OneLink
      <4> QED
        BY <4>1, FS_Singleton
    <3>2. ~timer
      BY <2>3 DEF LinkInv, OneLink
    <3> QED
      BY <3>1, <3>2 DEF OneCarrier
  <2> QED
    BY <2>2, <2>3
<1> QED
  BY LinkInvariant, <1>1, PTL

(* After stopTraccarRealtime nothing reconnects, and every socket is closing *)
(* but that of an attempt the stop found without one.                        *)
THEOREM IntakeStopIsFinal == Spec => []StopIsFinal
<1>1. LinkInv => StopIsFinal
  BY DEF LinkInv
<1> QED
  BY LinkInvariant, <1>1, PTL

-----------------------------------------------------------------------------
(* The connection implements TraccarLink.                                    *)

PhaseFor(lk, tm) ==
    CASE tm -> "waiting"
      [] \E l \in Slots : lk[l] \in {"cookie", "cache", "opening"} -> "trying"
      [] \E l \in Slots : lk[l] \in {"open"} -> "up"
      [] \E l \in Slots : lk[l] \in {"closing"} -> "closing"
      [] OTHER -> "off"

Phase == PhaseFor(link, timer)

(* The phase is that of the one slot in use. *)
PhaseOf(state) ==
    CASE state \in {"cookie", "cache", "opening"} -> "trying"
      [] state = "open" -> "up"
      [] state = "closing" -> "closing"

OnlyOne(lk, l) == l \in Slots /\ lk[l] # "free" /\ \A m \in Slots : m # l => lk[m] = "free"

LEMMA PhaseOfLink ==
    ASSUME NEW lk \in [Slots -> LinkStates], NEW l, OnlyOne(lk, l)
    PROVE  PhaseFor(lk, FALSE) = PhaseOf(lk[l])
BY DEF PhaseFor, PhaseOf, OnlyOne, LinkStates

LEMMA PhaseOfNone ==
    ASSUME NEW lk \in [Slots -> LinkStates], \A l \in Slots : lk[l] = "free",
           NEW tm \in BOOLEAN
    PROVE  PhaseFor(lk, tm) = IF tm THEN "waiting" ELSE "off"
BY DEF PhaseFor

LEMMA LinkPhases ==
    LinkInv => \/ /\ \A l \in Slots : link[l] = "free"
                  /\ Phase = IF timer THEN "waiting" ELSE "off"
               \/ \E l \in Slots : OnlyOne(link, l) /\ ~timer /\ Phase = PhaseOf(link[l])
<1> SUFFICES ASSUME LinkInv, NEW l \in Slots, link[l] # "free"
             PROVE  OnlyOne(link, l) /\ ~timer /\ Phase = PhaseOf(link[l])
  BY PhaseOfNone DEF Phase, LinkInv, LinkTypes
<1>1. OnlyOne(link, l) /\ ~timer
  BY DEF OnlyOne, LinkInv, OneLink
<1>2. timer = FALSE
  BY <1>1 DEF LinkInv, LinkTypes
<1> QED
  BY <1>1, <1>2, PhaseOfLink DEF Phase, LinkInv, LinkTypes

(* What the steps of the slot in use do to the phase. *)
LEMMA PhaseMoves ==
    ASSUME LinkInv, LinkInv', NEW l \in Slots, link[l] # "free",
           NEW s \in LinkStates \ {"free"}, link' = [link EXCEPT ![l] = s],
           timer' = timer
    PROVE  Phase = PhaseOf(link[l]) /\ Phase' = PhaseOf(s)
<1>1. OnlyOne(link, l) /\ timer = FALSE /\ timer' = FALSE
  BY DEF OnlyOne, LinkInv, LinkTypes, OneLink
<1>2. OnlyOne(link', l) /\ link'[l] = s
  BY <1>1 DEF OnlyOne, LinkInv, LinkTypes
<1>3. Phase = PhaseOf(link[l])
  BY <1>1, PhaseOfLink DEF Phase, LinkInv, LinkTypes
<1>4. Phase' = PhaseOf(s)
  BY <1>1, <1>2, PhaseOfLink DEF Phase, LinkInv, LinkTypes
<1> QED
  BY <1>3, <1>4

LEMMA PhaseEnds ==
    ASSUME LinkInv, LinkInv', NEW l \in Slots, link[l] # "free",
           Gone(l), ScheduleReconnect
    PROVE  /\ Phase = PhaseOf(link[l])
           /\ Phase' = IF stopping THEN "off" ELSE "waiting"
<1>1. OnlyOne(link, l) /\ timer = FALSE
  BY DEF OnlyOne, LinkInv, LinkTypes, OneLink
<1>2. \A m \in Slots : link'[m] = "free"
  BY <1>1 DEF OnlyOne, LinkInv, LinkTypes, Gone
<1>3. timer' = ~stopping
  BY <1>1 DEF LinkInv, LinkTypes, ScheduleReconnect
<1>4. Phase = PhaseOf(link[l])
  BY <1>1, PhaseOfLink DEF Phase, LinkInv, LinkTypes
<1>5. Phase' = IF timer' THEN "waiting" ELSE "off"
  BY <1>2, PhaseOfNone DEF Phase, LinkInv, LinkTypes
<1> QED
  BY <1>3, <1>4, <1>5

(* The stop is the step Stop of TraccarLink, in whatever phase it comes. *)
LEMMA StopImplements ==
    ASSUME LinkInv, LinkInv', ~stopping, StopServices PROVE Connection!Stop
<1> USE DEF Connection!Stop
<1>0. ~stopping /\ stopping' /\ timer' = FALSE
  BY DEF StopServices
<1>1. CASE \A l \in Slots : link[l] = "free"
  <2>1. ws = None /\ timer = TRUE
    BY <1>1 DEF LinkInv, LinkTypes, NeverIdle, SocketIsNamed
  <2>2. link' = link
    BY <2>1 DEF StopServices
  <2>3. Phase = "waiting" /\ Phase' = "off"
    BY <1>0, <1>1, <2>1, <2>2, PhaseOfNone DEF Phase, LinkInv, LinkTypes
  <2> QED
    BY <1>0, <2>3 DEF Phase, PhaseFor, LinkIs
<1>2. ASSUME NEW l \in Slots, link[l] # "free" PROVE Connection!Stop
  <2>1. ws \in {None, l} /\ timer = FALSE
    BY <1>2 DEF LinkInv, LinkTypes, OneLink, SocketIsNamed
  <2>2. CASE link[l] \in {"cookie", "cache"}
    <3>1. ws = None
      BY <2>1, <2>2 DEF LinkInv, SocketIsNamed
    <3>2. link' = link
      BY <3>1 DEF StopServices
    <3>3. Phase' = Phase
      BY <1>0, <2>1, <3>2 DEF Phase
    <3>4. OnlyOne(link, l)
      BY <1>2 DEF OnlyOne, LinkInv, OneLink
    <3>5. Phase = "trying"
      BY <2>1, <2>2, <3>4, PhaseOfLink DEF Phase, PhaseOf, LinkInv, LinkTypes
    <3> QED
      BY <1>0, <3>3, <3>5 DEF Phase, PhaseFor, LinkIs
  <2>3. CASE link[l] \in {"opening", "open", "closing"}
    <3>1. link' = [link EXCEPT ![l] = "closing"]
      <4>1. CASE ws = l
        BY <4>1, <2>1, IntakeConstants DEF StopServices
      <4>2. CASE ws = None
        <5>1. link[l] = "closing" /\ link' = link
          BY <4>2, <2>3, IntakeConstants DEF StopServices, LinkInv, SocketIsNamed
        <5> QED
          BY <5>1 DEF LinkInv, LinkTypes
      <4> QED
        BY <2>1, <4>1, <4>2
    <3>2. Phase = PhaseOf(link[l]) /\ Phase' = PhaseOf("closing")
      BY <1>0, <1>2, <2>1, <3>1, PhaseMoves DEF LinkStates
    <3>3. Phase \in {"trying", "up", "closing"} /\ Phase' = "closing"
      BY <2>3, <3>2 DEF PhaseOf
    <3> QED
      BY <1>0, <3>3 DEF Phase, PhaseFor, LinkIs
  <2> QED
    BY <1>2, <2>2, <2>3 DEF LinkInv, LinkTypes, LinkStates
<1> QED
  BY <1>1, <1>2

LEMMA SocketImplements ==
    ASSUME LinkInv, LinkInv', SocketMoves
    PROVE  Connection!LinkNext \/ (Phase' = Phase /\ stopping' = stopping)
<1> DEFINE Goal == Connection!LinkNext \/ (Phase' = Phase /\ stopping' = stopping)
<1> USE DEF Connection!LinkNext
<1>1. CASE Restart
  <2>1. OnlyOne(link', FirstSlot) /\ link'[FirstSlot] = "cookie" /\ timer' = FALSE
    BY <1>1, FirstSlotExists DEF Restart, OnlyOne
  <2>2. Phase' = "trying" /\ stopping' = FALSE
    BY <1>1, <2>1, PhaseOfLink DEF Restart, Phase, PhaseOf, LinkInv, LinkTypes
  <2> QED
    BY <2>2 DEF Connection!Renew, Phase, PhaseFor, LinkIs
<1>2. CASE ~stopping /\ StopServices
  BY <1>2, StopImplements
<1>3. CASE ReconnectTimer
  <2>1. timer = TRUE /\ timer' = FALSE /\ ~stopping /\ stopping' = stopping
        /\ \A l \in Slots : link[l] = "free"
    BY <1>3 DEF ReconnectTimer, LinkInv, LinkTypes, OneLink, StopIsFinal
  <2>2. FreeSlot \in Slots /\ link' = [link EXCEPT ![FreeSlot] = "cookie"]
    BY <1>3, <2>1, FreeSlotIsFree DEF ReconnectTimer
  <2>3. OnlyOne(link', FreeSlot) /\ link'[FreeSlot] = "cookie"
    BY <2>1, <2>2 DEF OnlyOne, LinkInv, LinkTypes
  <2>4. Phase = "waiting" /\ Phase' = "trying"
    BY <2>1, <2>3, PhaseOfLink, PhaseOfNone DEF Phase, PhaseOf, LinkInv, LinkTypes
  <2> QED
    BY <2>1, <2>4 DEF Connection!Try, Phase, PhaseFor, LinkIs
<1>4. ASSUME NEW l \in Slots, GotCookie(l) \/ OpenSocket(l) PROVE Goal
  <2>1. PICK s \in {"cache", "opening"} : link' = [link EXCEPT ![l] = s]
    BY <1>4 DEF GotCookie, OpenSocket
  <2>2. link[l] \in {"cookie", "cache"} /\ timer' = timer /\ stopping' = stopping
    BY <1>4 DEF GotCookie, OpenSocket
  <2>3. Phase = PhaseOf(link[l]) /\ Phase' = PhaseOf(s)
    BY <2>1, <2>2, PhaseMoves DEF LinkStates
  <2> QED
    BY <2>2, <2>3 DEF PhaseOf
<1>5. ASSUME NEW l \in Slots, NoCookie(l) \/ CacheFails(l) PROVE Goal
  <2>1. link[l] \in {"cookie", "cache"} /\ stopping' = stopping
    BY <1>5 DEF NoCookie, CacheFails
  <2>2. Phase = PhaseOf(link[l]) /\ Phase' = IF stopping THEN "off" ELSE "waiting"
    BY <1>5, <2>1, PhaseEnds DEF NoCookie, CacheFails
  <2>3. Phase = "trying"
    BY <2>1, <2>2 DEF PhaseOf
  <2> QED
    BY <2>1, <2>2, <2>3 DEF Connection!GiveUp, Connection!Over, Phase, PhaseFor, LinkIs
<1>6. ASSUME NEW l \in Slots, SocketOpen(l) PROVE Goal
  <2>1. link[l] = "opening" /\ link' = [link EXCEPT ![l] = "open"]
        /\ timer' = timer /\ stopping' = stopping
    BY <1>6 DEF SocketOpen
  <2>2. Phase = "trying" /\ Phase' = "up"
    BY <2>1, PhaseMoves DEF LinkStates, PhaseOf
  <2> QED
    BY <2>1, <2>2 DEF Connection!Up, Phase, PhaseFor, LinkIs
<1>7. ASSUME NEW l \in Slots, SocketError(l) PROVE Goal
  <2>1. link[l] \in {"opening", "open"} /\ link' = [link EXCEPT ![l] = "closing"]
        /\ timer' = timer /\ stopping' = stopping
    BY <1>7 DEF SocketError
  <2>2. Phase \in {"trying", "up"} /\ Phase' = "closing"
    BY <2>1, PhaseMoves DEF LinkStates, PhaseOf
  <2> QED
    BY <2>1, <2>2 DEF Connection!Fail, Phase, PhaseFor, LinkIs
<1>8. ASSUME NEW l \in Slots, SocketClose(l) PROVE Goal
  <2>1. link[l] \in {"open", "closing"} /\ stopping' = stopping
    BY <1>8 DEF SocketClose
  <2>2. Phase = PhaseOf(link[l]) /\ Phase' = IF stopping THEN "off" ELSE "waiting"
    BY <1>8, <2>1, PhaseEnds DEF SocketClose
  <2>3. Phase \in {"up", "closing"}
    BY <2>1, <2>2 DEF PhaseOf
  <2> QED
    BY <2>1, <2>2, <2>3 DEF Connection!Close, Connection!Over, Phase, PhaseFor, LinkIs
<1> QED
  BY <1>1, <1>2, <1>3, <1>4, <1>5, <1>6, <1>7, <1>8 DEF SocketMoves, SocketStep

(* Timer, attempts and sockets implement the connection of TraccarLink. *)
THEOREM IntakeOneConnection == Spec => OneConnection
<1>1. Init => Connection!LinkInit
  <2> SUFFICES ASSUME Init PROVE Connection!LinkInit
    OBVIOUS
  <2>1. OnlyOne(link, FirstSlot) /\ link[FirstSlot] = "cookie" /\ timer = FALSE /\ ~stopping
    BY FirstSlotExists DEF Init, OnlyOne
  <2>2. Phase = "trying"
    BY <2>1, LinkInit, PhaseOfLink DEF Phase, PhaseOf, LinkInv, LinkTypes
  <2> QED
    BY <2>1, <2>2 DEF Connection!LinkInit, Phase, PhaseFor, LinkIs
<1>2. LinkInv /\ LinkInv' /\ [Next]_vars => [Connection!LinkNext]_(Connection!linkVars)
  <2> SUFFICES ASSUME LinkInv, LinkInv', [Next]_vars
               PROVE  \/ Connection!LinkNext
                      \/ Connection!linkVars' = Connection!linkVars
    OBVIOUS
  <2>1. CASE SocketMoves
    BY <2>1, SocketImplements DEF Connection!linkVars, Phase, PhaseFor, LinkIs
  <2>2. CASE UNCHANGED socketVars
    BY <2>2 DEF socketVars, Connection!linkVars, LinkIs
  <2> QED
    BY <2>1, <2>2, OtherSteps
<1> QED
  BY <1>1, <1>2, LinkInvariant, PTL
     DEF Spec, OneConnection, Connection!LinkSpec

-----------------------------------------------------------------------------
(***************************************************************************)
(* The positions.  Nobody has a position that Traccar does not have yet,   *)
(* and the guard of pollOnce is set exactly while a cycle runs, so that no *)
(* cycle is dropped for the next one.                                      *)
(***************************************************************************)
Tasks == [pc : {"idle", "lookup", "ingest", "work"}, dev : Devices \cup {None}, pos : Nat]

Cycles ==
    [pc : {"idle", "list", "trips", "next", "fetch", "ingest", "work"},
     todo : SUBSET Devices, seen : Positions, active : SUBSET Devices,
     dev : Devices \cup {None}, pos : Nat]

DeviceTypes ==
    /\ latest \in Positions /\ sent \in Positions /\ recorded \in Positions
    /\ \A d \in Devices : sent[d] <= latest[d] /\ recorded[d] <= latest[d] /\ latest[d] <= Newest[d]
    /\ managed \in SUBSET Devices /\ cached \in SUBSET Devices /\ throttled \in SUBSET Devices
    /\ outcome \in [Devices -> {"none", "worked", "failed"}]
    /\ faults \in 0 .. MaxFaults

HandlerTypes ==
    /\ handler \in [Handlers -> Tasks]
    /\ \A h \in Handlers :
        /\ handler[h].pc = "idle" => handler[h] = Idle
        /\ handler[h].pc # "idle" =>
            handler[h].dev \in Devices /\ handler[h].pos \in 1 .. latest[handler[h].dev]

PollTypes ==
    /\ poll \in Cycles
    /\ cycleRunning \in BOOLEAN /\ (cycleRunning <=> poll.pc # "idle")
    /\ poll.pc \in {"fetch", "ingest", "work"} <=> poll.dev \in Devices
    /\ poll.dev \in Devices => poll.pos <= latest[poll.dev]
    /\ poll.dev \notin Devices => poll.pos = 0

PositionInv == DeviceTypes /\ HandlerTypes /\ PollTypes

LEMMA PositionInit == Init => PositionInv
<1> SUFFICES ASSUME Init PROVE PositionInv
  OBVIOUS
<1>1. DeviceTypes
  BY IntakeConstants DEF Init, DeviceTypes, Positions
<1>2. HandlerTypes
  BY DEF Init, HandlerTypes, Tasks, Idle
<1>3. PollTypes
  BY IntakeConstants DEF Init, PollTypes, Cycles, NewCycle, Positions
<1> QED
  BY <1>1, <1>2, <1>3 DEF PositionInv

(* Traccar and the devices. *)
LEMMA DeviceStep ==
    ASSUME PositionInv, NEW d \in Devices, Report(d) \/ Reconcile(d) \/ IdleIsOver(d)
    PROVE  PositionInv'
<1>1. CASE Report(d)
  <2>1. latest' \in Positions /\ latest'[d] = latest[d] + 1
        /\ \A e \in Devices : latest[e] <= latest'[e] /\ (e # d => latest'[e] = latest[e])
    BY <1>1 DEF PositionInv, DeviceTypes, Positions, Report
  <2>2. DeviceTypes'
    BY <1>1, <2>1, IntakeConstants
       DEF PositionInv, DeviceTypes, Positions, Report, socketVars, pollVars
  <2>3. HandlerTypes'
    BY <1>1, <2>1 DEF PositionInv, DeviceTypes, Positions, HandlerTypes, Tasks, Report
  <2>4. PollTypes'
    BY <1>1, <2>1 DEF PositionInv, DeviceTypes, Positions, PollTypes, Cycles, Report, pollVars
  <2> QED
    BY <2>2, <2>3, <2>4 DEF PositionInv
<1>2. CASE Reconcile(d)
  BY <1>2 DEF Reconcile, PositionInv, DeviceTypes, HandlerTypes, PollTypes, deviceVars, pollVars
<1>3. CASE IdleIsOver(d)
  BY <1>3 DEF IdleIsOver, PollStep, PositionInv, DeviceTypes, HandlerTypes, PollTypes,
     deviceVars, traccarVars
<1> QED
  BY <1>1, <1>2, <1>3

(* The socket: its steps touch only the cache, and a restart begins anew. *)
LEMMA SocketKeepsPositions ==
    ASSUME PositionInv, Restart \/ Shutdown \/ SocketStep PROVE PositionInv'
<1>1. CASE Restart
  <2>1. DeviceTypes'
    <3>1. outcome' \in [Devices -> {"none", "worked", "failed"}]
      <4>1. \A d \in Devices : outcome[d] \in {"none", "worked", "failed"}
        BY DEF PositionInv, DeviceTypes
      <4> QED
        BY <1>1, <4>1 DEF Restart, OutcomeOfLost
    <3>2. faults' \in 0 .. MaxFaults
      BY <1>1, IntakeConstants DEF Restart, Fault, PositionInv, DeviceTypes
    <3> QED
      BY <1>1, <3>1, <3>2 DEF Restart, PositionInv, DeviceTypes, traccarVars
  <2>2. HandlerTypes'
    BY <1>1 DEF Restart, HandlerTypes, Tasks, Idle
  <2>3. PollTypes'
    BY <1>1, IntakeConstants DEF Restart, PollTypes, Cycles, NewCycle, Positions
  <2> QED
    BY <2>1, <2>2, <2>3 DEF PositionInv
<1>2. ASSUME UNCHANGED <<traccarVars, deviceVars, handler, pollVars, faults>>,
             cached' \in {managed, cached}
      PROVE  PositionInv'
  BY <1>2 DEF PositionInv, DeviceTypes, HandlerTypes, PollTypes, traccarVars, deviceVars,
     pollVars
<1>3. CASE Shutdown
  BY <1>2, <1>3 DEF Shutdown
<1>4. CASE SocketStep
  BY <1>2, <1>4 DEF SocketStep, LinkStep, ReconnectTimer, GotCookie, NoCookie, OpenSocket,
     RefreshCache, CacheFails, SocketOpen, SocketError, SocketClose
<1> QED
  BY <1>1, <1>3, <1>4

(* The handlers of the socket's positions. *)
LEMMA HandlerKeepsPositions ==
    ASSUME PositionInv, NEW h \in Handlers,
           \/ HandlerStep(h) \/ LookupFails(h) \/ HandlerFails(h)
           \/ \E d \in Devices : Message(h, d)
    PROVE  PositionInv'
<1> USE DEF PositionInv
<1>1. ASSUME NEW d \in Devices, Message(h, d) PROVE PositionInv'
  <2>1. PICK p \in sent[d] + 1 .. latest[d] :
          /\ sent' = [sent EXCEPT ![d] = p]
          /\ handler' = [handler EXCEPT ![h] =
                            Task(IF d \in cached THEN "ingest" ELSE "lookup", d, p)]
    BY <1>1 DEF Message
  <2>2. p \in Nat /\ p \in 1 .. latest[d] /\ sent[d] <= p
    BY <2>1 DEF DeviceTypes, Positions
  <2>3. DeviceTypes'
    BY <1>1, <2>1, <2>2 DEF Message, DeviceTypes, Positions, deviceVars, pollVars
  <2>4. HandlerTypes'
    BY <1>1, <2>1, <2>2 DEF Message, HandlerTypes, Tasks, Task
  <2>5. PollTypes'
    BY <1>1 DEF Message, PollTypes, pollVars
  <2> QED
    BY <2>3, <2>4, <2>5
<1>2. ASSUME handler[h].pc # "idle",
             NEW t \in {Idle, [handler[h] EXCEPT !.pc = "ingest"],
                        [handler[h] EXCEPT !.pc = "work"]},
             handler' = [handler EXCEPT ![h] = t], UNCHANGED latest
      PROVE  HandlerTypes'
  <2>1. t \in Tasks /\ (t.pc = "idle" => t = Idle)
        /\ (t.pc # "idle" => t.dev = handler[h].dev /\ t.pos = handler[h].pos)
    BY <1>2 DEF HandlerTypes, Tasks, Idle
  <2> QED
    BY <1>2, <2>1 DEF HandlerTypes
<1>3. CASE Lookup(h)
  <2>1. HandlerTypes'
    BY <1>2, <1>3 DEF Lookup, traccarVars
  <2>2. DeviceTypes'
    BY <1>3 DEF Lookup, RefreshCache, DeviceTypes, traccarVars, deviceVars, pollVars
  <2>3. PollTypes'
    BY <1>3 DEF Lookup, PollTypes, traccarVars, pollVars
  <2> QED
    BY <2>1, <2>2, <2>3
<1>4. CASE LookupFails(h)
  <2>1. HandlerTypes'
    BY <1>2, <1>4 DEF LookupFails, traccarVars
  <2>2. DeviceTypes'
    BY <1>4, IntakeConstants DEF LookupFails, Fault, DeviceTypes, traccarVars, deviceVars,
       pollVars
  <2>3. PollTypes'
    BY <1>4 DEF LookupFails, PollTypes, traccarVars, pollVars
  <2> QED
    BY <2>1, <2>2, <2>3
<1>5. CASE HandlerStores(h)
  <2>1. HandlerTypes'
    BY <1>2, <1>5 DEF HandlerStores, traccarVars
  <2>2. handler[h].dev \in Devices /\ handler[h].pos \in Nat
        /\ handler[h].pos <= latest[handler[h].dev]
    BY <1>5 DEF HandlerStores, HandlerTypes, Tasks
  <2>3. DeviceTypes'
    BY <1>5, <2>2 DEF HandlerStores, Store, DeviceTypes, Positions, traccarVars, pollVars
  <2>4. PollTypes'
    BY <1>5 DEF HandlerStores, PollTypes, traccarVars, pollVars
  <2> QED
    BY <2>1, <2>3, <2>4
<1>6. ASSUME NEW how \in {"worked", "failed"},
             Conclude(handler[h].dev, handler[h].pos, how) \/ UNCHANGED outcome
      PROVE  outcome' \in [Devices -> {"none", "worked", "failed"}]
  BY <1>6 DEF Conclude, DeviceTypes
<1>7. CASE HandlerWorks(h) \/ HandlerFails(h)
  <2>1. HandlerTypes'
    BY <1>2, <1>7 DEF HandlerWorks, HandlerFails, traccarVars
  <2>2. outcome' \in [Devices -> {"none", "worked", "failed"}]
    BY <1>6, <1>7 DEF HandlerWorks, HandlerFails
  <2>3. DeviceTypes'
    BY <1>7, <2>2, IntakeConstants
       DEF HandlerWorks, HandlerFails, Fault, DeviceTypes, traccarVars, pollVars
  <2>4. PollTypes'
    BY <1>7 DEF HandlerWorks, HandlerFails, PollTypes, traccarVars, pollVars
  <2> QED
    BY <2>1, <2>3, <2>4
<1> QED
  BY <1>1, <1>3, <1>4, <1>5, <1>7 DEF HandlerStep

(* The poll. *)
Between(cycle) == cycle \in Cycles /\ cycle.dev \notin Devices /\ cycle.pos = 0

LEMMA CycleKinds ==
    /\ Between(NewCycle) /\ NewCycle.pc = "list"
    /\ Between([NewCycle EXCEPT !.pc = "idle"])
    /\ [NewCycle EXCEPT !.pc = "idle"].pc = "idle"
BY IntakeConstants DEF Between, NewCycle, Cycles, Positions

LEMMA NextDeviceKind ==
    ASSUME PollTypes
    PROVE  Between(NextDevice) /\ NextDevice.pc = "next"
BY IntakeConstants DEF Between, NextDevice, PollTypes, Cycles

LEMMA PollKeepsPositions ==
    ASSUME PositionInv, PollRuns \/ PollCycleFails \/ PollDeviceFails
    PROVE  PositionInv'
<1> USE DEF PositionInv
<1>1. ASSUME PollStep, UNCHANGED deviceVars, PollTypes',
             throttled' \in SUBSET Devices, faults' \in 0 .. MaxFaults
      PROVE  PositionInv'
  BY <1>1 DEF PollStep, DeviceTypes, HandlerTypes, deviceVars, traccarVars
<1>2. ASSUME EndCycle, UNCHANGED latest PROVE PollTypes'
  BY <1>2, CycleKinds DEF Between, EndCycle, PollTypes
<1>3. ASSUME poll' = NextDevice, UNCHANGED <<latest, cycleRunning>>, poll.pc # "idle"
      PROVE  PollTypes'
  BY <1>3, NextDeviceKind DEF Between, PollTypes
<1>4. CASE PollTick
  <2>1. PollTypes'
    BY <1>4, CycleKinds DEF Between, PollTick, PollStep, PollTypes, traccarVars
  <2> QED
    BY <1>1, <1>4, <2>1 DEF PollTick, DeviceTypes
<1>5. CASE PollList
  <2>1. PollTypes'
    <3>1. CASE managed = {}
      BY <1>2, <1>5, <3>1 DEF PollList, PollStep, traccarVars
    <3>2. CASE managed # {}
      <4>1. poll' = [poll EXCEPT !.pc = "trips", !.todo = managed, !.seen = recorded]
        BY <1>5, <3>2 DEF PollList
      <4>2. poll' \in Cycles /\ poll'.pc = "trips"
            /\ poll'.dev = poll.dev /\ poll'.pos = poll.pos
        BY <4>1 DEF PollTypes, Cycles, DeviceTypes
      <4> QED
        BY <1>5, <3>2, <4>2 DEF PollList, PollTypes, PollStep, traccarVars
    <3> QED
      BY <3>1, <3>2
  <2> QED
    BY <1>1, <1>5, <2>1 DEF PollList, DeviceTypes
<1>6. CASE PollTrips
  <2>1. PICK active \in SUBSET poll.todo :
          poll' = [poll EXCEPT !.pc = "next", !.active = active]
    BY <1>6 DEF PollTrips
  <2>2. poll' \in Cycles /\ poll'.pc = "next"
        /\ poll'.dev = poll.dev /\ poll'.pos = poll.pos
    BY <2>1 DEF PollTypes, Cycles
  <2>3. PollTypes'
    BY <1>6, <2>2 DEF PollTrips, PollTypes, PollStep, traccarVars
  <2> QED
    BY <1>1, <1>6, <2>3 DEF PollTrips, DeviceTypes
<1>7. ASSUME NEW d \in Devices, PollNext(d) PROVE PositionInv'
  <2>1. poll' \in {[poll EXCEPT !.todo = @ \ {d}],
                   [poll EXCEPT !.todo = @ \ {d}, !.pc = "fetch", !.dev = d]}
    BY <1>7 DEF PollNext
  <2>2. PollTypes'
    <3>1. CASE poll' = [poll EXCEPT !.todo = @ \ {d}]
      BY <1>7, <3>1 DEF PollNext, PollTypes, Cycles, PollStep, traccarVars
    <3>2. CASE poll' = [poll EXCEPT !.todo = @ \ {d}, !.pc = "fetch", !.dev = d]
      <4>1. poll.pc = "next" /\ poll.dev \notin Devices /\ poll \in Cycles /\ poll.pos = 0
        BY <1>7 DEF PollNext, PollTypes
      <4>2. poll' \in Cycles /\ poll'.pc = "fetch" /\ poll'.dev = d /\ poll'.pos = 0
        BY <3>2, <4>1 DEF Cycles
      <4> QED
        BY <1>7, <4>1, <4>2 DEF PollNext, PollTypes, DeviceTypes, Positions, PollStep, traccarVars
    <3> QED
      BY <2>1, <3>1, <3>2
  <2>3. throttled' \in SUBSET Devices
    BY <1>7 DEF PollNext, DeviceTypes
  <2> QED
    BY <1>1, <1>7, <2>2, <2>3 DEF PollNext, DeviceTypes
<1>8. CASE PollEnds
  BY <1>1, <1>2, <1>8 DEF PollEnds, DeviceTypes, PollStep, traccarVars
<1>9. CASE PollFetch
  <2>1. poll.dev \in Devices /\ latest[poll.dev] \in Nat
    BY <1>9 DEF PollFetch, PollTypes, DeviceTypes, Positions
  <2>2. PollTypes'
    <3>1. CASE poll' = NextDevice
      BY <1>3, <1>9, <3>1 DEF PollFetch, PollStep, traccarVars
    <3>2. CASE poll' = [poll EXCEPT !.pc = "ingest", !.pos = latest[poll.dev]]
      <4>1. /\ poll' \in Cycles /\ poll'.pc = "ingest"
            /\ poll'.dev = poll.dev /\ poll'.pos = latest[poll.dev]
        BY <2>1, <3>2 DEF PollTypes, Cycles
      <4> QED
        BY <1>9, <2>1, <4>1 DEF PollFetch, PollTypes, PollStep, traccarVars
    <3> QED
      BY <1>9, <3>1, <3>2 DEF PollFetch
  <2> QED
    BY <1>1, <1>9, <2>2 DEF PollFetch, DeviceTypes
<1>10. CASE PollStores
  <2>1. poll.dev \in Devices /\ poll.pos \in Nat /\ poll.pos <= latest[poll.dev]
    BY <1>10 DEF PollStores, PollTypes, Cycles
  <2>2. PollTypes'
    BY <1>10 DEF PollStores, PollTypes, Cycles, PollStep, traccarVars
  <2>3. DeviceTypes'
    BY <1>10, <2>1 DEF PollStores, PollStep, Store, DeviceTypes, Positions, traccarVars
  <2>4. HandlerTypes'
    BY <1>10 DEF PollStores, PollStep, HandlerTypes, traccarVars
  <2> QED
    BY <2>2, <2>3, <2>4
<1>11. CASE PollWorks \/ PollDeviceFails
  <2>1. PollTypes'
    BY <1>3, <1>11 DEF PollWorks, PollDeviceFails, PollStep, traccarVars
  <2>2. outcome' \in [Devices -> {"none", "worked", "failed"}]
    BY <1>11 DEF PollWorks, PollDeviceFails, Conclude, DeviceTypes
  <2>3. DeviceTypes'
    BY <1>11, <2>2, IntakeConstants
       DEF PollWorks, PollDeviceFails, Fault, PollStep, DeviceTypes, traccarVars
  <2>4. HandlerTypes'
    BY <1>11 DEF PollWorks, PollDeviceFails, PollStep, HandlerTypes, traccarVars
  <2> QED
    BY <2>1, <2>3, <2>4
<1>12. CASE PollCycleFails
  <2>1. faults' \in 0 .. MaxFaults /\ UNCHANGED deviceVars /\ throttled' = throttled
    BY <1>12, IntakeConstants DEF PollCycleFails, Fault, DeviceTypes
  <2>2. PollTypes'
    BY <1>2, <1>12 DEF PollCycleFails, PollStep, traccarVars
  <2> QED
    BY <1>1, <1>12, <2>1, <2>2 DEF PollCycleFails, DeviceTypes
<1> QED
  BY <1>4, <1>5, <1>6, <1>7, <1>8, <1>9, <1>10, <1>11, <1>12 DEF PollRuns

LEMMA PositionStep == PositionInv /\ [Next]_vars => PositionInv'
<1> SUFFICES ASSUME PositionInv, [Next]_vars PROVE PositionInv'
  OBVIOUS
<1>1. CASE UNCHANGED vars
  BY <1>1 DEF vars, traccarVars, deviceVars, pollVars, PositionInv, DeviceTypes, HandlerTypes,
     PollTypes
<1>2. CASE Next
  BY <1>2, DeviceStep, SocketKeepsPositions, HandlerKeepsPositions, PollKeepsPositions
     DEF Next
<1> QED
  BY <1>1, <1>2

THEOREM PositionInvariant == Spec => []PositionInv
BY PositionInit, PositionStep, PTL DEF Spec

(* The intake keeps the types of its state, and no one works on a position    *)
(* that the device has not reported.                                         *)
THEOREM IntakeTypes == Spec => []TypeOK
<1>1. LinkInv /\ PositionInv => TypeOK
  BY DEF LinkInv, LinkTypes, PositionInv, DeviceTypes, HandlerTypes, Tasks, PollTypes, Cycles,
     TypeOK
<1> QED
  BY <1>1, LinkInvariant, PositionInvariant, PTL

-----------------------------------------------------------------------------
(***************************************************************************)
(* No position is forgotten.  The row reaches the newest position of a     *)
(* device only by a step after which its worker is at work on it, and that *)
(* worker leaves it only by a step that records an outcome.                *)
(***************************************************************************)
Worked(d) == AtWork(poll, d) \/ \E h \in Handlers : AtWork(handler[h], d)

\* What most steps do: the positions are the same, and so is who works on them.
WorkGoesOn ==
    /\ latest' = latest /\ recorded' = recorded /\ outcome' = outcome
    /\ \/ poll' = poll
       \/ poll.pc # "work"
    /\ \A h \in Handlers : handler'[h] = handler[h] \/ handler[h].pc # "work"

LEMMA WorkersStay ==
    ASSUME NothingForgotten, WorkGoesOn PROVE NothingForgotten'
<1> SUFFICES ASSUME NEW d \in Devices, Worked(d) PROVE Worked(d)'
  BY DEF NothingForgotten, WorkGoesOn, Worked
<1>1. CASE AtWork(poll, d)
  BY <1>1 DEF WorkGoesOn, Worked, AtWork
<1>2. ASSUME NEW h \in Handlers, AtWork(handler[h], d) PROVE Worked(d)'
  BY <1>2 DEF WorkGoesOn, Worked, AtWork
<1> QED
  BY <1>1, <1>2 DEF Worked

(* The steps that are not about the work on a position. *)
LEMMA QuietSteps ==
    ASSUME PositionInv,
           \/ Shutdown \/ SocketStep \/ PollCycleFails
           \/ PollTick \/ PollList \/ PollTrips \/ PollEnds \/ PollFetch
           \/ \E d \in Devices : PollNext(d) \/ Reconcile(d) \/ IdleIsOver(d)
           \/ \E h \in Handlers :
                Lookup(h) \/ LookupFails(h) \/ \E d \in Devices : Message(h, d)
    PROVE  WorkGoesOn
<1> USE DEF WorkGoesOn, traccarVars, deviceVars, pollVars
<1>1. CASE Shutdown \/ SocketStep
  BY <1>1 DEF Shutdown, SocketStep, LinkStep, ReconnectTimer, GotCookie, NoCookie,
     OpenSocket, CacheFails, SocketOpen, SocketError, SocketClose
<1>2. CASE PollTick
  BY <1>2 DEF PollTick, PollStep, PositionInv, PollTypes
<1>3. CASE PollCycleFails \/ PollList \/ PollTrips \/ PollEnds \/ PollFetch
  BY <1>3 DEF PollCycleFails, PollList, PollTrips, PollEnds, PollFetch, PollStep
<1>4. ASSUME NEW d \in Devices, PollNext(d) \/ Reconcile(d) \/ IdleIsOver(d)
      PROVE  WorkGoesOn
  BY <1>4 DEF PollNext, Reconcile, IdleIsOver, PollStep
<1>5. ASSUME NEW h \in Handlers, handler[h].pc # "work",
             NEW t, handler' = [handler EXCEPT ![h] = t]
      PROVE  \A g \in Handlers : handler'[g] = handler[g] \/ handler[g].pc # "work"
  BY <1>5 DEF PositionInv, HandlerTypes
<1>6. ASSUME NEW h \in Handlers, NEW d \in Devices, Message(h, d) PROVE WorkGoesOn
  <2>1. handler[h].pc # "work"
    BY <1>6 DEF Message, Idle
  <2> QED
    BY <1>5, <1>6, <2>1 DEF Message
<1>7. ASSUME NEW h \in Handlers, Lookup(h) \/ LookupFails(h) PROVE WorkGoesOn
  BY <1>5, <1>7 DEF Lookup, LookupFails
<1> QED
  BY <1>1, <1>2, <1>3, <1>4, <1>6, <1>7

(* Work that ends concludes the position it was about. *)
LEMMA WorkEnds ==
    ASSUME PositionInv, NothingForgotten,
           NEW t, t.dev \in Devices,
           NEW how \in {"worked", "failed"},
           t.pc = "work" => Conclude(t.dev, t.pos, how),
           t.pc # "work" => UNCHANGED outcome,
           latest' = latest, recorded' = recorded,
           \/ t = poll /\ handler' = handler
           \/ \E h \in Handlers : /\ t = handler[h] /\ poll' = poll
                                  /\ \A g \in Handlers \ {h} : handler'[g] = handler[g]
    PROVE  NothingForgotten'
<1> SUFFICES ASSUME NEW d \in Devices, outcome'[d] = "none", latest'[d] > 0,
                    recorded'[d] = latest'[d]
             PROVE  Worked(d)'
  BY DEF NothingForgotten, Worked
<1>1. outcome[d] = "none" /\ ~AtWork(t, d)
  BY DEF Conclude, AtWork, PositionInv, DeviceTypes
<1>2. Worked(d)
  BY <1>1 DEF NothingForgotten, Worked
<1>3. CASE t = poll /\ handler' = handler
  BY <1>1, <1>2, <1>3 DEF Worked, AtWork
<1>4. ASSUME NEW h \in Handlers, t = handler[h], poll' = poll,
             \A g \in Handlers \ {h} : handler'[g] = handler[g]
      PROVE  Worked(d)'
  BY <1>1, <1>2, <1>4 DEF Worked, AtWork
<1> QED
  BY <1>3, <1>4

LEMMA ForgottenStep == PositionInv /\ NothingForgotten /\ [Next]_vars => NothingForgotten'
<1> SUFFICES ASSUME PositionInv, NothingForgotten, [Next]_vars PROVE NothingForgotten'
  OBVIOUS
<1>1. ASSUME NEW d \in Devices, Report(d) PROVE NothingForgotten'
  <2>1. recorded'[d] # latest'[d]
    BY <1>1 DEF Report, PositionInv, DeviceTypes, Positions, deviceVars
  <2>2. \A e \in Devices \ {d} : latest'[e] = latest[e] /\ outcome'[e] = outcome[e]
    BY <1>1 DEF Report, PositionInv, DeviceTypes, Positions
  <2>3. recorded' = recorded /\ poll' = poll /\ handler' = handler
    BY <1>1 DEF Report, deviceVars, pollVars
  <2> QED
    BY <2>1, <2>2, <2>3 DEF NothingForgotten, AtWork
<1>2. CASE Restart
  <2> SUFFICES ASSUME NEW d \in Devices, outcome'[d] = "none", latest'[d] > 0,
                      recorded'[d] = latest'[d]
               PROVE  FALSE
    BY DEF NothingForgotten
  <2>1. latest' = latest /\ recorded' = recorded
    BY <1>2 DEF Restart, traccarVars
  <2>2. /\ outcome[d] = "none"
        /\ ~\E t \in {handler[h] : h \in Handlers} \cup {poll} : AtWork(t, d)
    BY <1>2 DEF Restart, OutcomeOfLost, AtWork
  <2> QED
    BY <2>1, <2>2 DEF NothingForgotten
<1>3. ASSUME NEW h \in Handlers, HandlerStores(h) PROVE NothingForgotten'
  <2>1. handler'[h].pc = "work" /\ handler'[h].dev = handler[h].dev
        /\ handler'[h].pos = handler[h].pos
        /\ \A g \in Handlers \ {h} : handler'[g] = handler[g]
    BY <1>3 DEF HandlerStores, PositionInv, HandlerTypes, Tasks
  <2>2. latest' = latest /\ outcome' = outcome /\ poll' = poll /\ handler[h].pc # "work"
        /\ recorded' = [recorded EXCEPT ![handler[h].dev] = handler[h].pos]
    BY <1>3 DEF HandlerStores, Store, traccarVars, pollVars
  <2> SUFFICES ASSUME NEW d \in Devices, outcome'[d] = "none", latest'[d] > 0,
                      recorded'[d] = latest'[d]
               PROVE  Worked(d)'
    BY DEF NothingForgotten, Worked
  <2>3. CASE d = handler[h].dev
    <3>1. recorded'[d] = handler[h].pos
      BY <2>2, <2>3 DEF PositionInv, DeviceTypes, Positions
    <3>2. AtWork(handler[h], d)'
      BY <2>1, <2>2, <2>3, <3>1 DEF AtWork
    <3> QED
      BY <3>2 DEF Worked
  <2>4. CASE d # handler[h].dev
    <3>1. Worked(d)
      BY <2>2, <2>4 DEF NothingForgotten, Worked, PositionInv, DeviceTypes, Positions
    <3> QED
      BY <2>1, <2>2, <3>1 DEF Worked, AtWork
  <2> QED
    BY <2>3, <2>4
<1>4. CASE PollStores
  <2>1. poll'.pc = "work" /\ poll'.dev = poll.dev /\ poll'.pos = poll.pos
    BY <1>4 DEF PollStores, PositionInv, PollTypes, Cycles
  <2>2. latest' = latest /\ outcome' = outcome /\ handler' = handler /\ poll.pc # "work"
        /\ recorded' = [recorded EXCEPT ![poll.dev] = poll.pos]
    BY <1>4 DEF PollStores, PollStep, Store, traccarVars
  <2> SUFFICES ASSUME NEW d \in Devices, outcome'[d] = "none", latest'[d] > 0,
                      recorded'[d] = latest'[d]
               PROVE  Worked(d)'
    BY DEF NothingForgotten, Worked
  <2>3. CASE d = poll.dev
    <3>1. recorded'[d] = poll.pos
      BY <2>2, <2>3 DEF PositionInv, DeviceTypes, Positions
    <3> QED
      BY <2>1, <2>2, <2>3, <3>1 DEF Worked, AtWork
  <2>4. CASE d # poll.dev
    <3>1. Worked(d)
      BY <2>2, <2>4 DEF NothingForgotten, Worked, PositionInv, DeviceTypes, Positions
    <3> QED
      BY <2>1, <2>2, <3>1 DEF Worked, AtWork
  <2> QED
    BY <2>3, <2>4
<1>5. ASSUME NEW h \in Handlers, HandlerWorks(h) \/ HandlerFails(h) PROVE NothingForgotten'
  <2>1. handler[h].dev \in Devices
    BY <1>5 DEF HandlerWorks, HandlerFails, PositionInv, HandlerTypes
  <2>2. /\ latest' = latest /\ recorded' = recorded /\ poll' = poll
        /\ \A g \in Handlers \ {h} : handler'[g] = handler[g]
    BY <1>5 DEF HandlerWorks, HandlerFails, traccarVars, pollVars, PositionInv, HandlerTypes
  <2>3. PICK how \in {"worked", "failed"} :
          /\ handler[h].pc = "work" => Conclude(handler[h].dev, handler[h].pos, how)
          /\ handler[h].pc # "work" => UNCHANGED outcome
    BY <1>5 DEF HandlerWorks, HandlerFails
  <2> QED
    BY <2>1, <2>2, <2>3, WorkEnds
<1>6. CASE PollWorks \/ PollDeviceFails
  <2>1. poll.dev \in Devices
    BY <1>6 DEF PollWorks, PollDeviceFails, PositionInv, PollTypes
  <2>2. latest' = latest /\ recorded' = recorded /\ handler' = handler
    BY <1>6 DEF PollWorks, PollDeviceFails, PollStep, traccarVars
  <2>3. PICK how \in {"worked", "failed"} :
          /\ poll.pc = "work" => Conclude(poll.dev, poll.pos, how)
          /\ poll.pc # "work" => UNCHANGED outcome
    BY <1>6 DEF PollWorks, PollDeviceFails
  <2> QED
    BY <2>1, <2>2, <2>3, WorkEnds
<1>7. CASE UNCHANGED vars
  BY <1>7 DEF vars, traccarVars, deviceVars, pollVars, NothingForgotten, AtWork
<1>8. CASE Next
  BY <1>1, <1>2, <1>3, <1>4, <1>5, <1>6, <1>8, QuietSteps, WorkersStay
     DEF Next, PollRuns, HandlerStep
<1> QED
  BY <1>7, <1>8

(* The row shows the newest position of a device only while somebody is at   *)
(* work on it, or once that work has finished or failed: what the poll passes *)
(* over is nobody's to do any more.                                          *)
THEOREM IntakeForgetsNothing == Spec => []NothingForgotten
<1>1. Init => NothingForgotten
  BY DEF Init, NothingForgotten
<1> QED
  BY <1>1, ForgottenStep, PositionInvariant, PTL DEF Spec

=============================================================================
