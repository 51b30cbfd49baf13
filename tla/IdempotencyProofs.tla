------------------------- MODULE IdempotencyProofs -------------------------
(* Proofs about the idempotency records, for any number of requests, keys  *)
(* and fingerprints.                                                       *)
EXTENDS Idempotency, TLAPS

(* A record carries the fingerprint of the request that wrote it, which     *)
(* came with that key.                                                      *)
RecordsMatch ==
    \A k \in Keys :
        record[k] # NoRecord
        => key(record[k].by) = k /\ ask[record[k].by].print = record[k].print

(* Requests that wrote the record of their key and did not give it up. *)
Owns(r) ==
    \/ stage[r] \in {"working", "acted", "completed"}
    \/ stage[r] = "answered" /\ r \in acted

OwnersHold == \A r \in Requests : Owns(r) /\ r \notin robbed => Mine(r)

ActedLater ==
    \A r \in acted : stage[r] \notin {"idle", "missed", "working"}

IdemInv ==
    TypeOK /\ RecordsMatch /\ OwnersHold /\ ActedLater /\ ReplayIsFaithful

LEMMA IdemInit == Init => IdemInv
BY DEF Init, IdemInv, TypeOK, RecordsMatch, OwnersHold, Owns, ActedLater,
       ReplayIsFaithful, Stages

LEMMA IdemTypeStep == TypeOK /\ [Next]_idemVars => TypeOK'
<1> SUFFICES ASSUME TypeOK, [Next]_idemVars PROVE TypeOK'
  OBVIOUS
<1> USE DEF TypeOK, Stages, Asks, Records, AtWork, key, GoTo
<1>1. ASSUME NEW r \in Requests, Get(r) \/ Conflict(r) \/ InProgress(r)
      PROVE TypeOK'
  BY <1>1 DEF Get, Conflict, InProgress
<1>2. ASSUME NEW r \in Requests, Replay(r) PROVE TypeOK'
  BY <1>2 DEF Replay
<1>3. ASSUME NEW r \in Requests, RaceFallback(r) PROVE TypeOK'
  BY <1>3 DEF RaceFallback
<1>10. ASSUME NEW r \in Requests, Started(r) PROVE TypeOK'
  <2> DEFINE new == [state |-> "IN_PROGRESS", print |-> ask[r].print, by |-> r]
  <2>1. new \in Records /\ key(r) \in Keys
    OBVIOUS
  <2>2. record' = [record EXCEPT ![key(r)] = new]
    BY <1>10 DEF Started
  <2>3. record' \in [Keys -> Records \cup {NoRecord}]
    BY <2>1, <2>2, Zenon
  <2> QED
    BY <1>10, <2>3 DEF Started
<1>4. ASSUME NEW r \in Requests, Act(r) \/ Answer(r) \/ Throw(r) PROVE TypeOK'
  BY <1>4 DEF Act, Answer, Throw
<1>5. ASSUME NEW r \in Requests, Complete(r) PROVE TypeOK'
  BY <1>5 DEF Complete, Loses
<1>6. ASSUME NEW r \in Requests, Refuse(r) \/ Catch(r) PROVE TypeOK'
  BY <1>6 DEF Refuse, Catch, Delete, Loses
<1>7. ASSUME NEW r \in Requests, Stop(r) PROVE TypeOK'
  BY <1>7 DEF Stop
<1>8. ASSUME NEW k \in Keys, Expire(k) PROVE TypeOK'
  BY <1>8 DEF Expire, Loses
<1>9. CASE UNCHANGED idemVars
  BY <1>9 DEF idemVars
<1> QED
  BY <1>1, <1>2, <1>3, <1>4, <1>5, <1>6, <1>7, <1>8, <1>9, <1>10
     DEF Next, Step

LEMMA IdemStep == IdemInv /\ [Next]_idemVars => IdemInv'
<1> SUFFICES ASSUME IdemInv, [Next]_idemVars PROVE IdemInv'
  OBVIOUS
<1> DEFINE Rest == RecordsMatch /\ OwnersHold /\ ActedLater /\ ReplayIsFaithful
<1> USE IdempotencyConstants
    DEF IdemInv, TypeOK, Asks, Records, AtWork, key, GoTo, Mine,
        RecordsMatch, OwnersHold, Owns, ActedLater, ReplayIsFaithful
<1>1. ASSUME NEW r \in Requests, Get(r) \/ Conflict(r) \/ InProgress(r)
      PROVE Rest'
  BY <1>1 DEF Get, Conflict, InProgress
<1>2. ASSUME NEW r \in Requests, Replay(r) PROVE Rest'
  BY <1>2 DEF Replay
<1>3. ASSUME NEW r \in Requests, Started(r) PROVE Rest'
  <2> DEFINE new == [state |-> "IN_PROGRESS", print |-> ask[r].print, by |-> r]
  <2>1. /\ record'[key(r)] = new
        /\ \A k \in Keys : k # key(r) => record'[k] = record[k]
    BY <1>3 DEF Started
  <2>2. new # NoRecord /\ new.by = r /\ new.print = ask[r].print
    <3>1. new \in Records
      OBVIOUS
    <3> QED
      BY <3>1, IdempotencyConstants
  <2> HIDE DEF new
  <2>3. RecordsMatch'
    BY <1>3, <2>1, <2>2 DEF Started
  <2>4. OwnersHold'
    BY <1>3, <2>1, <2>2 DEF Started
  <2>5. ActedLater' /\ ReplayIsFaithful'
    BY <1>3 DEF Started
  <2> QED
    BY <2>3, <2>4, <2>5
<1>4. ASSUME NEW r \in Requests, RaceFallback(r) PROVE Rest'
  BY <1>4 DEF RaceFallback
<1>5. ASSUME NEW r \in Requests, Act(r) \/ Answer(r) \/ Throw(r) PROVE Rest'
  BY <1>5 DEF Act, Answer, Throw
<1>6. ASSUME NEW r \in Requests, Complete(r) PROVE Rest'
  <2> DEFINE new == [state |-> "COMPLETED", print |-> ask[r].print, by |-> r]
  <2>1. /\ record'[key(r)] = new
        /\ \A k \in Keys : k # key(r) => record'[k] = record[k]
    BY <1>6 DEF Complete
  <2>2. new # NoRecord /\ new.by = r /\ new.print = ask[r].print
    <3>1. new \in Records
      OBVIOUS
    <3> QED
      BY <3>1, IdempotencyConstants
  <2> HIDE DEF new
  <2>3. RecordsMatch'
    BY <1>6, <2>1, <2>2 DEF Complete
  <2>4. OwnersHold'
    BY <1>6, <2>1, <2>2 DEF Complete, Loses
  <2>5. ActedLater' /\ ReplayIsFaithful'
    BY <1>6 DEF Complete
  <2> QED
    BY <2>3, <2>4, <2>5
<1>7. ASSUME NEW r \in Requests, Refuse(r) \/ Catch(r) PROVE Rest'
  BY <1>7 DEF Refuse, Catch, Delete, Loses
<1>8. ASSUME NEW r \in Requests, Stop(r) PROVE Rest'
  BY <1>8 DEF Stop
<1>9. ASSUME NEW k \in Keys, Expire(k) PROVE Rest'
  BY <1>9 DEF Expire, Loses
<1>10. CASE UNCHANGED idemVars
  BY <1>10 DEF idemVars
<1>11. Rest'
  BY <1>1, <1>2, <1>3, <1>4, <1>5, <1>6, <1>7, <1>8, <1>9, <1>10 DEF Next, Step
<1>12. TypeOK'
  BY IdemTypeStep
<1> QED
  BY <1>11, <1>12

(* IdemInv holds in every reachable state. *)
THEOREM IdemInvariant == Spec => []IdemInv
BY IdemInit, IdemStep, PTL DEF Spec

(* The handlers keep the types of the state of the records. *)
THEOREM IdemTypes == Spec => []TypeOK
<1>1. IdemInv => TypeOK
  BY DEF IdemInv
<1> QED
  BY IdemInvariant, <1>1, PTL

(* No request is ever answered with the stored answer of a different one. *)
THEOREM IdemReplay == Spec => []ReplayIsFaithful
<1>1. IdemInv => ReplayIsFaithful
  BY DEF IdemInv
<1> QED
  BY IdemInvariant, <1>1, PTL

(* Two requests with one key are at work together only after a record was   *)
(* taken from one of them.                                                  *)
THEOREM IdemOneAtWork == Spec => []OneAtWorkUnlessRobbed
<1>1. IdemInv => OneAtWorkUnlessRobbed
  BY DEF IdemInv, OwnersHold, Owns, Mine, AtWork, OneAtWorkUnlessRobbed
<1> QED
  BY IdemInvariant, <1>1, PTL

(* Two answered requests with one key both acted only after a record was    *)
(* taken from one of them.                                                  *)
THEOREM IdemActedOnce == Spec => []ActedOnce
<1>1. IdemInv => ActedOnce
  BY DEF IdemInv, OwnersHold, Owns, Mine, ActedOnce
<1> QED
  BY IdemInvariant, <1>1, PTL

-----------------------------------------------------------------------------
(* A record that is IN_PROGRESS is that of a request which has not ended, and *)
(* whatever such a request does next to leave that state, it replaces or     *)
(* deletes the record of its key first.                                      *)
LEMMA NotBlockedStep ==
    IdemInv /\ RetryIsNotBlocked /\ [Next]_idemVars => RetryIsNotBlocked'
<1> SUFFICES ASSUME IdemInv, RetryIsNotBlocked, [Next]_idemVars
             PROVE  RetryIsNotBlocked'
  OBVIOUS
<1> USE DEF IdemInv, TypeOK, Asks, key, GoTo, RetryIsNotBlocked, AtWork, Stages
<1>1. ASSUME NEW r \in Requests, NEW s \in Stages, stage' = [stage EXCEPT ![r] = s],
             record' = record,
             stage[r] \notin {"working", "acted", "throwing", "lost"}
             \/ s \in {"working", "acted", "throwing", "lost"}
      PROVE  RetryIsNotBlocked'
  <2> SUFFICES ASSUME NEW k \in Keys, record[k] # NoRecord, record[k].state = "IN_PROGRESS"
               PROVE  stage'[record[k].by] \in {"working", "acted", "throwing", "lost"}
    BY <1>1
  <2>1. record[k].by \in Requests
    BY DEF Records
  <2>2. stage[record[k].by] \in {"working", "acted", "throwing", "lost"}
    OBVIOUS
  <2> QED
    BY <1>1, <2>1, <2>2
<1>2. ASSUME NEW r \in Requests,
             Get(r) \/ Conflict(r) \/ InProgress(r) \/ Replay(r) \/ RaceFallback(r)
             \/ Act(r) \/ Answer(r) \/ Throw(r) \/ Stop(r)
      PROVE  RetryIsNotBlocked'
  BY <1>1, <1>2 DEF Get, Conflict, InProgress, Replay, RaceFallback, Act, Answer, Throw, Stop
<1>3. ASSUME NEW r \in Requests, Started(r) PROVE RetryIsNotBlocked'
  <2> DEFINE new == [state |-> "IN_PROGRESS", print |-> ask[r].print, by |-> r]
  <2>1. stage' = [stage EXCEPT ![r] = "working"] /\ record' = [record EXCEPT ![key(r)] = new]
    BY <1>3 DEF Started
  <2>2. new.by = r /\ stage[r] = "missed"
    BY <1>3 DEF Started
  <2> HIDE DEF new
  <2> SUFFICES ASSUME NEW k \in Keys, record'[k] # NoRecord, record'[k].state = "IN_PROGRESS"
               PROVE  stage'[record'[k].by] \in {"working", "acted", "throwing", "lost"}
    OBVIOUS
  <2>3. CASE k = key(r)
    BY <2>1, <2>2, <2>3
  <2>4. CASE k # key(r)
    <3>1. record'[k] = record[k] /\ record[k].by \in Requests
      BY <2>1, <2>4 DEF Records
    <3> QED
      BY <2>1, <2>2, <3>1
  <2> QED
    BY <2>3, <2>4
<1>4. ASSUME NEW r \in Requests, Complete(r) PROVE RetryIsNotBlocked'
  <2> DEFINE new == [state |-> "COMPLETED", print |-> ask[r].print, by |-> r]
  <2>1. stage' = [stage EXCEPT ![r] = "completed"] /\ record' = [record EXCEPT ![key(r)] = new]
    BY <1>4 DEF Complete
  <2>2. new.state = "COMPLETED"
    OBVIOUS
  <2> HIDE DEF new
  <2> SUFFICES ASSUME NEW k \in Keys, record'[k] # NoRecord, record'[k].state = "IN_PROGRESS"
               PROVE  stage'[record'[k].by] \in {"working", "acted", "throwing", "lost"}
    OBVIOUS
  <2>3. k # key(r) /\ record'[k] = record[k] /\ record[k].by \in Requests
    BY <2>1, <2>2 DEF Records
  <2>4. record[k].by # r
    BY <2>3 DEF RecordsMatch
  <2> QED
    BY <2>1, <2>3, <2>4
<1>5. ASSUME NEW r \in Requests, NEW s \in {"throwing", "refused"},
             stage' = [stage EXCEPT ![r] = s],
             record' = [record EXCEPT ![key(r)] = NoRecord]
      PROVE  RetryIsNotBlocked'
  <2> SUFFICES ASSUME NEW k \in Keys, record'[k] # NoRecord, record'[k].state = "IN_PROGRESS"
               PROVE  stage'[record'[k].by] \in {"working", "acted", "throwing", "lost"}
    OBVIOUS
  <2>1. k # key(r) /\ record'[k] = record[k] /\ record[k].by \in Requests
    BY <1>5 DEF Records
  <2>2. record[k].by # r
    BY <2>1 DEF RecordsMatch
  <2> QED
    BY <1>5, <2>1, <2>2
<1>6. ASSUME NEW r \in Requests, Refuse(r) \/ Catch(r) PROVE RetryIsNotBlocked'
  BY <1>5, <1>6 DEF Refuse, Catch, Delete
<1>7. ASSUME NEW k \in Keys, Expire(k) PROVE RetryIsNotBlocked'
  BY <1>7 DEF Expire
<1>8. CASE UNCHANGED idemVars
  BY <1>8 DEF idemVars
<1> QED
  BY <1>2, <1>3, <1>4, <1>6, <1>7, <1>8 DEF Next, Step

(* A retry with the same key is answered IN_PROGRESS only while its first    *)
(* request goes on, or was stopped by a crash.                               *)
THEOREM IdemRetry == Spec => []RetryIsNotBlocked
<1>1. Init => RetryIsNotBlocked
  BY DEF Init, RetryIsNotBlocked
<1> QED
  BY <1>1, NotBlockedStep, IdemInvariant, PTL DEF Spec
=============================================================================
