---------------------------- MODULE Idempotency ----------------------------
(***************************************************************************)
(* Idempotency keys of POST /start and POST /end                           *)
(* (src/src/services/idempotency.service.ts and its two callers,           *)
(* startTripService and endTrip).                                          *)
(*                                                                         *)
(* A request asks Redis for the record of its key and, if there is none,   *)
(* tries to write an IN_PROGRESS record with SET NX EX.  The one that does *)
(* is processed; it ends by writing its answer into the record, or by      *)
(* deleting the record.  A refusal inside the handler deletes the record   *)
(* and throws, and the catch around the handler deletes it once more.      *)
(*                                                                         *)
(* The fingerprint (action, driver, trip) tells requests apart that use    *)
(* the same key for something else.  A stored answer is named by the       *)
(* request that wrote it.                                                  *)
(***************************************************************************)
CONSTANTS
    Requests,
    Keys,
    Prints,     \* fingerprints
    NoRecord    \* redis.get answered null

\* `by` is the request that wrote the record: the response body, once COMPLETED.
Records == [state : {"IN_PROGRESS", "COMPLETED"}, print : Prints, by : Requests]

ASSUME IdempotencyConstants == NoRecord \notin Records \cup Requests

VARIABLES
    ask,        \* the key and the fingerprint each request comes with
    record,     \* key -> what Redis holds under it
    stage,      \* how far each request is
    replayed,   \* the request whose answer was replayed to this one
    acted,      \* requests that started or ended a trip
    robbed      \* history: requests whose record somebody else deleted or
                \*          replaced, or Redis dropped

idemVars == <<ask, record, stage, replayed, acted, robbed>>

Asks == [key : Keys, print : Prints]

Stages == {"idle",       \* not begun, or sent back to the GET
           "missed",     \* GET answered null, SET NX comes next
           "working",    \* STARTED: the handler runs
           "acted",      \* ... and has created or finalized the trip
           "completed",  \* the answer is stored, the handler unwinds
           "throwing",   \* the handler threw; the catch comes next
           "answered",   \* STARTED and answered, or REPLAY
           "refused",    \* CONFLICT, IN_PROGRESS, or an error passed on
           "lost"}       \* the server stopped, or Redis did not answer

AtWork == {"working", "acted"}

key(r) == ask[r].key

\* Is the record of the key of request r its own?
Mine(r) == record[key(r)] # NoRecord /\ record[key(r)].by = r

TypeOK ==
    /\ ask \in [Requests -> Asks]
    /\ record \in [Keys -> Records \cup {NoRecord}]
    /\ stage \in [Requests -> Stages]
    /\ replayed \in [Requests -> Requests \cup {NoRecord}]
    /\ acted \in SUBSET Requests
    /\ robbed \in SUBSET Requests

Init ==
    /\ ask \in [Requests -> Asks]
    /\ record = [k \in Keys |-> NoRecord]
    /\ stage = [r \in Requests |-> "idle"]
    /\ replayed = [r \in Requests |-> NoRecord]
    /\ acted = {}
    /\ robbed = {}

GoTo(r, s) == stage' = [stage EXCEPT ![r] = s]

\* The record of key k is deleted or replaced by request `by`, or by Redis:
\* the request that owned it, if that is another one, has been robbed.
Loses(k, by) ==
    robbed' = robbed \cup ({r \in Requests : key(r) = k /\ Mine(r)} \ {by})

-----------------------------------------------------------------------------
(* Deliberate mistakes, to see each property fail (PROJECT.json, mutants).  *)

\* the race fallback tries SET NX again instead of reading the record
Bug_FallbackSets(r) ==
    /\ stage[r] = "missed"
    /\ record[key(r)] # NoRecord
    /\ UNCHANGED idemVars

\* a SET without NX after the GET
Bug_SetWithoutNX(r) ==
    /\ stage[r] = "missed"
    /\ record' = [record EXCEPT ![key(r)] =
                    [state |-> "IN_PROGRESS", print |-> ask[r].print, by |-> r]]
    /\ GoTo(r, "working")
    /\ UNCHANGED <<ask, replayed, acted, robbed>>

\* the handler deletes its record where it should store the answer
Bug_CompleteForgets(r) ==
    /\ stage[r] \in AtWork
    /\ record' = [record EXCEPT ![key(r)] = NoRecord]
    /\ Loses(key(r), r)
    /\ GoTo(r, "completed")
    /\ UNCHANGED <<ask, replayed, acted>>

\* the catch passes the error on and leaves the record
Bug_CatchKeepsRecord(r) ==
    /\ stage[r] = "throwing"
    /\ GoTo(r, "refused")
    /\ UNCHANGED <<ask, record, replayed, acted, robbed>>

\* the fingerprint of the record is not compared
Bug_AnyPrint(r) ==
    /\ stage[r] = "idle"
    /\ record[key(r)] # NoRecord
    /\ record[key(r)].state = "COMPLETED"
    /\ replayed' = [replayed EXCEPT ![r] = record[key(r)].by]
    /\ GoTo(r, "answered")
    /\ UNCHANGED <<ask, record, acted, robbed>>

-----------------------------------------------------------------------------
(* beginIdempotentRequest                                                   *)

Get(r) ==
    /\ stage[r] = "idle"
    /\ record[key(r)] = NoRecord
    /\ GoTo(r, "missed")
    /\ UNCHANGED <<ask, record, replayed, acted, robbed>>

\* CONFLICT: the key was used for a different request.
Conflict(r) ==
    /\ stage[r] = "idle"
    /\ record[key(r)] # NoRecord
    /\ record[key(r)].print # ask[r].print
    /\ GoTo(r, "refused")
    /\ UNCHANGED <<ask, record, replayed, acted, robbed>>

\* IN_PROGRESS: the same request is being processed.
InProgress(r) ==
    /\ stage[r] = "idle"
    /\ record[key(r)] # NoRecord
    /\ record[key(r)].print = ask[r].print
    /\ record[key(r)].state = "IN_PROGRESS"
    /\ GoTo(r, "refused")
    /\ UNCHANGED <<ask, record, replayed, acted, robbed>>

\* REPLAY of the stored answer.
Replay(r) ==
    /\ stage[r] = "idle"
    /\ record[key(r)] # NoRecord
    /\ record[key(r)].print = ask[r].print
    /\ record[key(r)].state = "COMPLETED"
    /\ replayed' = [replayed EXCEPT ![r] = record[key(r)].by]
    /\ GoTo(r, "answered")
    /\ UNCHANGED <<ask, record, acted, robbed>>

\* SET NX answered OK: STARTED.
Started(r) ==
    /\ stage[r] = "missed"
    /\ record[key(r)] = NoRecord
    /\ record' = [record EXCEPT ![key(r)] =
                    [state |-> "IN_PROGRESS", print |-> ask[r].print, by |-> r]]
    /\ GoTo(r, "working")
    /\ UNCHANGED <<ask, replayed, acted, robbed>>

\* The race fallback: somebody else's SET NX came first, begin again.
RaceFallback(r) ==
    /\ stage[r] = "missed"
    /\ record[key(r)] # NoRecord
    /\ GoTo(r, "idle")
    /\ UNCHANGED <<ask, record, replayed, acted, robbed>>

-----------------------------------------------------------------------------
(* The handler, as far as the record is concerned.                          *)

\* The trip is created, promoted or finalized in the database.
Act(r) ==
    /\ stage[r] = "working"
    /\ acted' = acted \cup {r}
    /\ GoTo(r, "acted")
    /\ UNCHANGED <<ask, record, replayed, robbed>>

\* The handler finds there is nothing to do ("Trip already running", "Trip
\* already ended"), or is done, and stores its answer.  The SET has no NX.
Complete(r) ==
    /\ stage[r] \in AtWork
    /\ record' = [record EXCEPT ![key(r)] =
                    [state |-> "COMPLETED", print |-> ask[r].print, by |-> r]]
    /\ Loses(key(r), r)
    /\ GoTo(r, "completed")
    /\ UNCHANGED <<ask, replayed, acted>>

Answer(r) ==
    /\ stage[r] = "completed"
    /\ GoTo(r, "answered")
    /\ UNCHANGED <<ask, record, replayed, acted, robbed>>

\* failIdempotentRequest deletes whatever the key holds.
Delete(r) ==
    /\ record' = [record EXCEPT ![key(r)] = NoRecord]
    /\ Loses(key(r), r)

\* A refusal (no schedule, lock taken, bus running, not your trip): the record
\* is deleted before the error is thrown.
Refuse(r) ==
    /\ stage[r] = "working"
    /\ Delete(r)
    /\ GoTo(r, "throwing")
    /\ UNCHANGED <<ask, replayed, acted>>

\* Any other error: the database, the audit log, the store of the answer, or,
\* after the answer is stored, the release of the trip-start lock.
Throw(r) ==
    /\ stage[r] \in AtWork \cup {"completed"}
    /\ GoTo(r, "throwing")
    /\ UNCHANGED <<ask, record, replayed, acted, robbed>>

\* The catch around the handler: delete (again) and pass the error on.
Catch(r) ==
    /\ stage[r] = "throwing"
    /\ Delete(r)
    /\ GoTo(r, "refused")
    /\ UNCHANGED <<ask, replayed, acted>>

-----------------------------------------------------------------------------
(* The environment.                                                         *)

\* The server stops, or Redis fails under the request for good.
Stop(r) ==
    /\ stage[r] \in {"missed", "throwing", "completed"} \cup AtWork
    /\ GoTo(r, "lost")
    /\ UNCHANGED <<ask, record, replayed, acted, robbed>>

\* IDEMPOTENCY_TTL_SECONDS ran out.
Expire(k) ==
    /\ record[k] # NoRecord
    /\ record' = [record EXCEPT ![k] = NoRecord]
    /\ Loses(k, NoRecord)
    /\ UNCHANGED <<ask, stage, replayed, acted>>

Step(r) ==
    \/ Get(r) \/ Conflict(r) \/ InProgress(r) \/ Replay(r)
    \/ Started(r) \/ RaceFallback(r)
    \/ Act(r) \/ Complete(r) \/ Answer(r)
    \/ Refuse(r) \/ Throw(r) \/ Catch(r)

Next ==
    \/ \E r \in Requests : Step(r) \/ Stop(r)
    \/ \E k \in Keys : Expire(k)

Spec == Init /\ [][Next]_idemVars

\* A handler that runs is not left waiting by the server or by Redis.
FairSpec == Spec /\ \A r \in Requests : WF_idemVars(Step(r))

-----------------------------------------------------------------------------
(* Correctness.                                                             *)

\* A replayed answer was produced by a request with the same key and the same
\* fingerprint, whatever happened to the record in between.
ReplayIsFaithful ==
    \A r \in Requests :
        replayed[r] # NoRecord => ask[replayed[r]] = ask[r]

\* Two requests with one key are at work at the same time only after the record
\* of one of them was deleted or dropped under it.
OneAtWorkUnlessRobbed ==
    \A r, q \in Requests :
        /\ r # q /\ key(r) = key(q)
        /\ stage[r] \in AtWork /\ stage[q] \in AtWork
        => r \in robbed \/ q \in robbed

\* Of the requests with one key that acted and were answered, at most one kept
\* its record: a trip is started or ended twice under one key only where a
\* record was lost, to its TTL or to the delete of somebody else.
ActedOnce ==
    \A r, q \in Requests :
        /\ r # q /\ key(r) = key(q)
        /\ {r, q} \subseteq acted
        /\ stage[r] = "answered" /\ stage[q] = "answered"
        => r \in robbed \/ q \in robbed

\* A retry is told IN_PROGRESS only while the request it repeats is at work or
\* about to give its record up, or stopped half way: no way a handler ends by
\* itself, neither a refusal nor an error after the answer was stored, leaves a
\* record that blocks the key until its TTL.
RetryIsNotBlocked ==
    \A k \in Keys :
        record[k] # NoRecord /\ record[k].state = "IN_PROGRESS"
        => stage[record[k].by] \in AtWork \cup {"throwing", "lost"}

\* Nobody waits for ever in the race fallback: a request that began is answered,
\* refused or lost.
EveryRequestEnds ==
    \A r \in Requests :
        stage[r] = "missed" ~> stage[r] \in {"answered", "refused", "lost"}
=============================================================================
