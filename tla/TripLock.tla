------------------------------ MODULE TripLock ------------------------------
(***************************************************************************)
(* The Redis locks that serialise trip starts                              *)
(* (src/src/services/tripLock.service.ts).                                 *)
(*                                                                         *)
(* A request that wants to start a trip takes the key of the bus with      *)
(* SET NX PX and then, if the schedule has a driver, the key of the driver.*)
(* It releases each key with a script that deletes the key only while it   *)
(* still holds the request's own token.  Redis drops a key when its TTL    *)
(* runs out, whether or not the request is still inside.                   *)
(*                                                                         *)
(* A token is drawn afresh by every call of acquireTripStartLock and a     *)
(* request calls it once, so the request stands for its token.  A Redis    *)
(* call that throws, or a crash of the server, makes the request stop      *)
(* wherever it is: its keys stay behind until they expire.                 *)
(***************************************************************************)
CONSTANTS
    Requests,   \* calls of acquireTripStartLock
    Buses,
    Drivers,
    NoDriver,   \* driverId = null: a GPS-only bus
    Nobody      \* the value of a key that Redis does not have

ASSUME LockConstants ==
    /\ Buses \cap Drivers = {}
    /\ NoDriver \notin Buses \cup Drivers
    /\ Nobody \notin Requests

VARIABLES
    lock,       \* key -> the request whose token it holds, or Nobody
    stage,      \* how far each request is in the protocol
    want,       \* the bus and the driver each request asked for
    overrun     \* history: requests that lost a key before they gave it up

lockVars == <<lock, stage, want, overrun>>

\* lock:bus:<id> and lock:driver:<id>
LockKeys == Buses \cup Drivers

Wants == [bus : Buses, driver : Drivers \cup {NoDriver}]

Stages == {"idle",        \* has not asked yet
           "busHeld",     \* SET of the bus key answered OK
           "rollback",    \* the driver key was taken; the bus key goes back
           "inside",      \* acquireTripStartLock returned ok: true
           "busReleased", \* the release script ran on the bus key
           "out",         \* refused or released: finished normally
           "lost"}        \* stopped by a crash or by a failed Redis call

\* The keys that a request believes it holds at each stage.
Claims(r) ==
    {k \in LockKeys :
        \/ k = want[r].bus /\ stage[r] \in {"busHeld", "rollback", "inside"}
        \/ k = want[r].driver /\ stage[r] \in {"inside", "busReleased"}}

LockTypeOK ==
    /\ lock \in [LockKeys -> Requests \cup {Nobody}]
    /\ stage \in [Requests -> Stages]
    /\ want \in [Requests -> Wants]
    /\ overrun \in SUBSET Requests

LockInit ==
    /\ lock = [k \in LockKeys |-> Nobody]
    /\ stage = [r \in Requests |-> "idle"]
    /\ want \in [Requests -> Wants]
    /\ overrun = {}

-----------------------------------------------------------------------------
(* Deliberate mistakes, to see each property fail (PROJECT.json, mutants).  *)

\* SET without the NX option
Bug_SetWithoutNX(k, r) == lock' = [lock EXCEPT ![k] = r]

\* a release that deletes the key whoever holds it
Bug_PlainDelete(k, r) == lock' = [lock EXCEPT ![k] = Nobody]

-----------------------------------------------------------------------------
(* The two Redis commands.                                                  *)

\* SET key token PX ttl NX, answered OK
SetNX(k, r) ==
    /\ lock[k] = Nobody
    /\ lock' = [lock EXCEPT ![k] = r]

\* the Lua script of releaseLockKey: delete the key if it holds our token
CompareAndDelete(k, r) ==
    lock' = IF lock[k] = r THEN [lock EXCEPT ![k] = Nobody] ELSE lock

Reach(r, s) == stage' = [stage EXCEPT ![r] = s]

-----------------------------------------------------------------------------
(* acquireTripStartLock                                                     *)

LockBus(r) ==
    /\ stage[r] = "idle"
    /\ SetNX(want[r].bus, r)
    /\ Reach(r, IF want[r].driver = NoDriver THEN "inside" ELSE "busHeld")
    /\ UNCHANGED <<want, overrun>>

\* { ok: false, reason: "BUS_LOCKED" }
BusLocked(r) ==
    /\ stage[r] = "idle"
    /\ lock[want[r].bus] # Nobody
    /\ Reach(r, "out")
    /\ UNCHANGED <<lock, want, overrun>>

LockDriver(r) ==
    /\ stage[r] = "busHeld"
    /\ SetNX(want[r].driver, r)
    /\ Reach(r, "inside")
    /\ UNCHANGED <<want, overrun>>

\* The driver key is taken: give the bus key back before answering.
DriverLocked(r) ==
    /\ stage[r] = "busHeld"
    /\ lock[want[r].driver] # Nobody
    /\ Reach(r, "rollback")
    /\ UNCHANGED <<lock, want, overrun>>

\* { ok: false, reason: "DRIVER_LOCKED" }
Rollback(r) ==
    /\ stage[r] = "rollback"
    /\ CompareAndDelete(want[r].bus, r)
    /\ Reach(r, "out")
    /\ UNCHANGED <<want, overrun>>

(* releaseTripStartLock: both scripts are sent at once, the bus key first,  *)
(* and Redis runs them in that order with other commands in between.        *)

ReleaseBus(r) ==
    /\ stage[r] = "inside"
    /\ CompareAndDelete(want[r].bus, r)
    /\ Reach(r, IF want[r].driver = NoDriver THEN "out" ELSE "busReleased")
    /\ UNCHANGED <<want, overrun>>

ReleaseDriver(r) ==
    /\ stage[r] = "busReleased"
    /\ CompareAndDelete(want[r].driver, r)
    /\ Reach(r, "out")
    /\ UNCHANGED <<want, overrun>>

-----------------------------------------------------------------------------
(* What the environment does to the protocol.                               *)

\* A crash of the server, or a Redis call that throws.
Abandon(r) ==
    /\ stage[r] \in {"busHeld", "rollback", "inside", "busReleased"}
    /\ Reach(r, "lost")
    /\ UNCHANGED <<lock, want, overrun>>

\* The TTL of the key (TRIP_LOCK_TTL_MS) runs out.
KeyExpires(k) ==
    /\ lock[k] # Nobody
    /\ lock' = [lock EXCEPT ![k] = Nobody]
    /\ overrun' = IF k \in Claims(lock[k]) THEN overrun \cup {lock[k]}
                                           ELSE overrun
    /\ UNCHANGED <<stage, want>>

LockStep(r) ==
    \/ LockBus(r) \/ BusLocked(r)
    \/ LockDriver(r) \/ DriverLocked(r) \/ Rollback(r)
    \/ ReleaseBus(r) \/ ReleaseDriver(r)

LockNext ==
    \/ \E r \in Requests : LockStep(r) \/ Abandon(r)
    \/ \E k \in LockKeys : KeyExpires(k)

LockSpec == LockInit /\ [][LockNext]_lockVars

-----------------------------------------------------------------------------
(* Correctness.                                                             *)

Contend(r, q) ==
    \/ want[r].bus = want[q].bus
    \/ want[r].driver = want[q].driver /\ want[r].driver # NoDriver

\* Two requests for the same bus, or for the same driver, are never between
\* acquire and release at the same time, unless one of them stayed there
\* longer than the TTL: the reason the starters take the locks at all.
MutualExclusion ==
    \A r, q \in Requests :
        /\ r # q
        /\ stage[r] = "inside" /\ stage[q] = "inside"
        /\ Contend(r, q)
        => r \in overrun \/ q \in overrun

\* A request that finished normally, refused half way or released, leaves no
\* key of its own behind (the roll-back of the bus key, both releases).
NoKeyLeftBehind ==
    \A r \in Requests : stage[r] = "out" => \A k \in LockKeys : lock[k] # r

\* A key passes from its holder to nobody only by a step of the holder or by
\* its TTL, never by the release of somebody whose own lock had expired.
OnlyHolderReleases ==
    [][\A k \in LockKeys :
          lock[k] # Nobody /\ lock'[k] # lock[k]
          => /\ lock'[k] = Nobody
             /\ stage' = stage \/ stage'[lock[k]] # stage[lock[k]]]_lockVars
=============================================================================
