---------------------- MODULE SourceArbitrationProofs ----------------------
(* Proofs about the arbitration between the two sources, for any number of *)
(* locations, any thresholds, and any hysteresis gap below 265.            *)
EXTENDS SourceArbitration, FiniteSetTheorems, TLAPS

-----------------------------------------------------------------------------
(* The decision.                                                            *)

LEMMA AgeType == ASSUME now \in Times, NEW t \in Times PROVE Age(t) \in Nat
<1>1. now \in Nat /\ t \in Nat /\ Tick \in Nat
  BY ArbitrationConstants DEF Times
<1>2. CASE t > now
  BY <1>2 DEF Age
<1>3. CASE ~ (t > now)
  <2>1. now - t \in Nat
    BY <1>1, <1>3
  <2>2. \A m, n \in Nat : m * n \in Nat
    OBVIOUS
  <2> QED
    BY <1>1, <1>3, <2>1, <2>2 DEF Age
<1> QED
  BY <1>2, <1>3

LEMMA FreshnessType ==
    ASSUME NEW t, NEW a, NEW b PROVE Freshness(t, a, b) \in {"HEALTHY", "STALE", "DISCONNECTED"}
BY DEF Freshness

LEMMA CandidatesType == \A v \in Views : Candidates(v) \subseteq States
<1> SUFFICES ASSUME NEW v \in Views PROVE Candidates(v) \subseteq States
  OBVIOUS
<1>1. DriverCandidates(v) \subseteq States
  <2>1. v.driver \in Times \cup {Nothing}
    BY DEF Views
  <2> QED
    BY <2>1, FreshnessType DEF DriverCandidates, States, Sources, Statuses
<1>2. GpsCandidates(v) \subseteq States
  <2>1. v.row \in Rows \cup {Nothing}
    BY DEF Views
  <2>2. ASSUME NEW w \in {x \in {v.row} \ {Nothing} : x.link \in {"free", "ours"}}
        PROVE [source |-> Gps, at |-> w.at,
               status |-> IF w.flag # "usable" THEN w.flag ELSE Freshness(w.at, GpsStale, GpsGone)] \in States
    <3>1. w \in Rows
      BY <2>1
    <3> QED
      BY <3>1, FreshnessType DEF Rows, Flags, States, Sources, Statuses
  <2> QED
    BY <2>1, <2>2 DEF GpsCandidates
<1> QED
  BY <1>1, <1>2 DEF Candidates

(* A status that is better is worth 400 points or, beside DISCONNECTED,    *)
(* 200; age and bias are worth 135 at most.                                *)
LEMMA ScoreBounds ==
    ASSUME now \in Times, NEW c \in States
    PROVE  /\ Score(c) \in Nat
           /\ StatusScore(c.status) <= Score(c)
           /\ Score(c) <= StatusScore(c.status) + 135
<1>1. Age(c.at) \in Nat
  BY AgeType DEF States
<1>2. StatusScore(c.status) \in Nat
  BY DEF StatusScore
<1> DEFINE bonus == IF Age(c.at) < 120 THEN 120 - Age(c.at) ELSE 0
           bias == IF c.source = Gps THEN 15 ELSE 0
<1>3. bonus \in 0 .. 120
  BY <1>1
<1>4. bias \in 0 .. 15
  OBVIOUS
<1>5. Score(c) = StatusScore(c.status) + bonus + bias
  BY DEF Score
<1> HIDE DEF bonus, bias
<1> QED
  BY <1>2, <1>3, <1>4, <1>5

LEMMA ScoreOrder ==
    ASSUME now \in Times, NEW c \in States, NEW d \in States, Rank(c.status) < Rank(d.status)
    PROVE  /\ Score(c) < Score(d)
           /\ c.status # "DISCONNECTED" => Score(c) + Gap < Score(d)
<1>1. /\ c.status \in Statuses /\ d.status \in Statuses
  BY DEF States
<1>2. /\ StatusScore(c.status) + 200 <= StatusScore(d.status)
      /\ c.status # "DISCONNECTED" => StatusScore(c.status) + 400 <= StatusScore(d.status)
  BY <1>1 DEF Rank, StatusScore, Statuses
<1>3. StatusScore(c.status) \in Nat /\ StatusScore(d.status) \in Nat
  BY DEF StatusScore
<1> QED
  BY <1>2, <1>3, ScoreBounds, ArbitrationConstants

LEMMA WinnersAreBest ==
    ASSUME now \in Times, NEW v \in Views, NEW c \in Winners(v), NEW d \in Candidates(v)
    PROVE  c \in States /\ Rank(d.status) <= Rank(c.status)
<1>1. c \in Candidates(v)
  BY DEF Winners, Kept, Best
<1>2. c \in States /\ d \in States
  BY <1>1, CandidatesType
<1>3. Rank(c.status) \in Nat /\ Rank(d.status) \in Nat
  BY DEF Rank
<1>4. ASSUME Rank(c.status) < Rank(d.status) PROVE FALSE
  <2>1. Score(c) < Score(d) /\ (c.status # "DISCONNECTED" => Score(c) + Gap < Score(d))
    BY <1>2, <1>4, ScoreOrder
  <2>2. Score(c) \in Nat /\ Score(d) \in Nat /\ Gap \in Nat
    BY <1>2, ScoreBounds, ArbitrationConstants
  <2>3. CASE c \in Kept(v)
    BY <2>1, <2>2, <2>3 DEF Kept
  <2>4. CASE c \in Best(v)
    <3>1. c # d
      BY <1>4, <1>3
    <3> QED
      BY <2>1, <2>2, <2>4, <3>1 DEF Best
  <2> QED
    BY <2>3, <2>4 DEF Winners
<1> QED
  BY <1>2, <1>3, <1>4

(* There is no winner only if there is no candidate.                       *)
LEMMA SomeoneWins ==
    ASSUME now \in Times, NEW v \in Views, Winners(v) = {}
    PROVE  Candidates(v) = {}
<1> SUFFICES ASSUME NEW c \in Candidates(v) PROVE FALSE
  OBVIOUS
<1>1. Best(v) = {}
  BY DEF Winners
<1>2. \A d \in Candidates(v) : Score(d) \in Nat
  BY CandidatesType, ScoreBounds
<1>3. \A d, e \in DriverCandidates(v) : d = e
  BY DEF DriverCandidates
<1>4. \A d, e \in GpsCandidates(v) : d = e
  BY DEF GpsCandidates
<1>5. \A g \in GpsCandidates(v) : g.source = Gps
  BY DEF GpsCandidates
<1>6. CASE DriverCandidates(v) = {} \/ GpsCandidates(v) = {}
  <2>1. \A d \in Candidates(v) : d = c
    BY <1>3, <1>4, <1>6 DEF Candidates
  <2> QED
    BY <1>1, <2>1 DEF Best
<1>7. ASSUME NEW d \in DriverCandidates(v), NEW g \in GpsCandidates(v) PROVE FALSE
  <2>1. \A e \in Candidates(v) : e = d \/ e = g
    BY <1>3, <1>4, <1>7 DEF Candidates
  <2>2. d \in Candidates(v) /\ g \in Candidates(v)
    BY DEF Candidates
  <2>3. CASE Score(d) > Score(g)
    BY <1>1, <2>1, <2>2, <2>3 DEF Best
  <2>4. CASE ~ (Score(d) > Score(g))
    <3>1. Score(g) > Score(d) \/ Score(g) = Score(d)
      BY <1>2, <2>2, <2>4
    <3> QED
      BY <1>1, <1>5, <2>1, <2>2, <3>1 DEF Best
  <2> QED
    BY <2>3, <2>4
<1> QED
  BY <1>6, <1>7

-----------------------------------------------------------------------------
(* The inductive invariant.                                                 *)

(* Never two rows of the trip marked; a marked row is owned by some trip.  *)
MarksExclude ==
    /\ ~ ({Driver, Gps} \subseteq chosen /\ {Driver, Gps} \subseteq Ours)
    /\ chosen \subseteq Ours \cup Theirs

(* A request that is alone, on its way from one store to the next.         *)
AloneAgrees ==
    \A r \in alone :
        /\ Active = {r}
        /\ pc[r] = "show" => selected \in {pick[r], Nothing}
        /\ pc[r] \in {"mark", "unselect"} => selected = Nothing

(* A finalizer that nobody disturbs: what it has cleared stays clear.      *)
QuietClears ==
    /\ quiet =>
          /\ ended /\ Active = {}
          /\ closer \in {"clear", "clearSelected", "clearGood", "clearDriver"}
          /\ closer \in {"clearGood", "clearDriver"} => selected = Nothing
          /\ closer = "clearDriver" => lastGood = Nothing
    /\ cold => ended /\ Active = {}

ArbInv == TypeOK /\ MarksExclude /\ AloneAgrees /\ QuietClears /\ StoresAgree /\ EndedIsCold

LEMMA ArbInit == Init => ArbInv
<1> SUFFICES ASSUME Init PROVE ArbInv
  OBVIOUS
<1> USE ArbitrationConstants DEF Init
<1>1. 0 \in Times
  BY DEF Times
<1>2. TypeOK
  <2>1. packet \in Packets
    BY <1>1 DEF Packets, Flags
  <2>2. link \in [Sources -> Links]
    BY DEF Links
  <2>3. view \in [Requests -> Views]
    BY DEF Views, Unread
  <2>4. pc \in [Requests -> Awaits]
    BY DEF Awaits
  <2>5. disturbances \in 0 .. MaxDisturbances
    OBVIOUS
  <2>6. input \in [Requests -> {Nothing}] /\ pick \in [Requests -> {Nothing}]
    OBVIOUS
  <2>7. /\ \A r \in Requests : pc[r] \notin {"accepted", "upsert", "ingest", "good", "select", "show"}
    OBVIOUS
  <2> QED
    BY <1>1, <2>1, <2>2, <2>3, <2>4, <2>5, <2>6, <2>7 DEF TypeOK
<1>3. Active = {}
  BY DEF Active
<1> QED
  BY <1>2, <1>3 DEF ArbInv, MarksExclude, AloneAgrees, QuietClears, StoresAgree, EndedIsCold

-----------------------------------------------------------------------------
(* Types.                                                                   *)

LEMMA SeenType == ASSUME TypeOK, NEW r \in Requests PROVE Seen(r) \in Views
<1> USE DEF TypeOK
<1>1. RedisNow \in Views
  BY DEF RedisNow, Views, States
<1>2. RowNow \in Rows
  BY DEF RowNow, Rows, Packets, Sources, Gps
<1>3. view[r] \in Views
  OBVIOUS
<1>4. \A v \in Views, w \in Rows \cup {Nothing} : [v EXCEPT !.row = w] \in Views
  BY DEF Views
<1>5. view[r].row \in Rows \cup {Nothing}
  BY <1>3 DEF Views
<1> QED
  BY <1>1, <1>2, <1>3, <1>4, <1>5 DEF Seen

LEMMA UnreadType == Unread \in Views
BY DEF Unread, Views

LEMMA HeldType == \A v \in Views : Held(v) \subseteq States
BY DEF Held, Views, Points, States, Statuses, Sources

LEMMA FlagType == \A x : Flag(x) \in Flags
BY DEF Flag, Flags

(* The requests' steps. *)
LEMMA StepType == ASSUME TypeOK, NEW r \in Requests, Step(r) PROVE TypeOK'
<1> USE ArbitrationConstants DEF TypeOK, redisVars, rowVars, requestVars, historyVars
<1>1. ASSUME NEW t \in Times, DriverArrives(r, t) PROVE TypeOK'
  <2>1. [at |-> t, flag |-> "usable"] \in Packets
    BY DEF Packets, Flags
  <2> QED
    BY <1>1, <2>1 DEF DriverArrives, Arrive, Awaits
<1>2. ASSUME NEW p \in Packets, GpsArrives(r, p) PROVE TypeOK'
  BY <1>2 DEF GpsArrives, Arrive, Awaits
<1>3. CASE StoreDriver(r)
  BY <1>3 DEF StoreDriver, GoTo, Awaits, Packets
<1>4. CASE StoreDriverRow(r)
  <2>1. [source |-> Driver, at |-> input[r].at, status |-> "HEALTHY"] \in States
    BY <1>4 DEF StoreDriverRow, States, Sources, Statuses, Packets
  <2> QED
    BY <1>4, <2>1 DEF StoreDriverRow, GoTo, Awaits, Links
<1>5. CASE StoreGps(r)
  <2>1. packet' \in Packets
    BY <1>5 DEF StoreGps
  <2>2. link' \in [Sources -> Links]
    BY <1>5 DEF StoreGps, Links
  <2> QED
    BY <1>5, <2>1, <2>2 DEF StoreGps, GoTo, Awaits
<1>6. CASE ReadRedis(r)
  <2>1. RedisNow \in Views
    BY DEF RedisNow, Views, States
  <2> QED
    BY <1>6, <2>1 DEF ReadRedis, GoTo, Awaits
<1>7. CASE ReadRow(r)
  <2>1. RowNow \in Rows
    BY DEF RowNow, Rows, Packets, Sources, Gps
  <2>2. [view[r] EXCEPT !.row = RowNow] \in Views
    BY <2>1 DEF Views
  <2> QED
    BY <1>7, <2>2 DEF ReadRow, GoTo, Awaits
<1>8. ASSUME NEW c, NEW a \in {"good", "select", "clear"}, c \in States \/ (c = Nothing /\ a = "clear"),
             Decide(r, c, a)
      PROVE TypeOK'
  BY <1>8, UnreadType DEF Decide, GoTo, Awaits
<1>9. CASE Choose(r)
  <2>1. PICK c \in Winners(Seen(r)) :
           Decide(r, c, IF c.status \in {"HEALTHY", "STALE"} THEN "good" ELSE "select")
    BY <1>9 DEF Choose
  <2>2. c \in States
    BY SeenType, CandidatesType DEF Winners, Kept, Best
  <2> QED
    BY <2>1, <2>2, <1>8
<1>10. CASE HoldLastGood(r)
  <2>1. PICK c \in Held(Seen(r)) : Decide(r, c, "select")
    BY <1>10 DEF HoldLastGood
  <2>2. c \in States
    BY SeenType, HeldType
  <2> QED
    BY <2>1, <2>2, <1>8
<1>11. CASE GiveUp(r)
  BY <1>8, <1>11 DEF GiveUp
<1>12. CASE SetLastGood(r)
  BY <1>12 DEF SetLastGood, GoTo, Awaits, States, Points
<1>13. CASE SetSelected(r)
  BY <1>13 DEF SetSelected, GoTo, Awaits
<1>14. CASE Show(r)
  <2>1. packet' \in Packets
    BY <1>14, FlagType DEF Show, Packets
  <2>2. chosen' \in SUBSET Sources
    BY <1>14 DEF Show, Ours
  <2> QED
    BY <1>14, <2>1, <2>2, UnreadType DEF Show, Finish, Awaits
<1>15. CASE ClearSelected(r)
  BY <1>15 DEF ClearSelected, GoTo, Awaits
<1>16. CASE MarkTrip(r)
  <2>1. shown' \in States \cup {Nothing}
    BY <1>16 DEF MarkTrip, States, Statuses
  <2> QED
    BY <1>16, <2>1 DEF MarkTrip, GoTo, Awaits
<1>17. CASE Unselect(r)
  BY <1>17, UnreadType DEF Unselect, Finish, Awaits
<1>18. CASE Fail(r)
  BY <1>18, UnreadType DEF Fail, Finish, Disturb, Awaits, Active
<1> QED
  BY <1>1, <1>2, <1>3, <1>4, <1>5, <1>6, <1>7, <1>9, <1>10, <1>11, <1>12, <1>13, <1>14,
     <1>15, <1>16, <1>17, <1>18 DEF Step

LEMMA TypeStep == TypeOK /\ [Next]_vars => TypeOK'
<1> SUFFICES ASSUME TypeOK, [Next]_vars PROVE TypeOK'
  OBVIOUS
<1> USE ArbitrationConstants DEF redisVars, rowVars, requestVars, historyVars
<1>d. Disturb => disturbances' \in 0 .. MaxDisturbances
  BY DEF Disturb, TypeOK
<1>1. ASSUME NEW r \in Requests, Step(r) PROVE TypeOK'
  BY <1>1, StepType
<1>2. CASE OtherTrips
  <2>1. ASSUME Elsewhere, disturbances' \in 0 .. MaxDisturbances, packet' \in Packets,
               link' \in [Sources -> Links], chosen' \in SUBSET Sources
        PROVE  TypeOK'
    BY <2>1 DEF TypeOK, Elsewhere
  <2>t. /\ link \in [Sources -> Links] /\ chosen \in SUBSET Sources
        /\ packet \in Packets /\ disturbances \in 0 .. MaxDisturbances
        /\ {"free", "other"} \subseteq Links
    BY DEF TypeOK, Links
  <2>2. ASSUME NEW p \in Packets, NEW l \in {"free", "other"}, GpsElsewhere(p, l) PROVE TypeOK'
    BY <2>1, <2>2, <2>t, <1>d DEF GpsElsewhere
  <2>3. CASE DriverElsewhere \/ AutoStartElsewhere
    BY <2>1, <2>3, <2>t, <1>d DEF DriverElsewhere, AutoStartElsewhere
  <2>4. ASSUME NEW rows \in SUBSET Theirs, NEW picked, ArbitrateElsewhere(rows, picked) PROVE TypeOK'
    <3>1. packet' \in Packets
      BY <2>4, <2>t DEF ArbitrateElsewhere, Packets
    <3>2. chosen' \in SUBSET Sources
      BY <2>4, <2>t DEF ArbitrateElsewhere, Theirs
    <3> QED
      BY <2>1, <2>4, <2>t, <3>1, <3>2 DEF ArbitrateElsewhere
  <2>5. ASSUME NEW rows \in SUBSET Theirs, EndElsewhere(rows) PROVE TypeOK'
    BY <2>1, <2>5, <2>t DEF EndElsewhere
  <2> QED
    BY <1>2, <2>2, <2>3, <2>4, <2>5 DEF OtherTrips
<1>3. CASE FinalizeRead
  BY <1>3 DEF TypeOK, FinalizeRead
<1>4. CASE FinalizeWrite
  BY <1>4 DEF TypeOK, FinalizeWrite, Links
<1>5. CASE FinalizeClears
  BY <1>5 DEF TypeOK, FinalizeClears, Cleared
<1>6. CASE ClearSelectedAgain \/ ClearLastGoodAgain
  BY <1>6 DEF TypeOK, ClearSelectedAgain, ClearLastGoodAgain, ClearAgain
<1>7. CASE ClearDriverAgain
  BY <1>7 DEF TypeOK, ClearDriverAgain, Cleared
<1>8. CASE FinalizeFails
  BY <1>8, <1>d DEF TypeOK, FinalizeFails
<1>9. CASE ExpireSelected \/ ExpireLastGood \/ ExpireDriver
  BY <1>9 DEF TypeOK, ExpireSelected, ExpireLastGood, ExpireDriver, Disturb
<1>10. CASE Clock
  BY <1>10 DEF TypeOK, Clock, Times
<1>11. CASE UNCHANGED vars
  BY <1>11 DEF TypeOK, vars
<1> QED
  BY <1>1, <1>2, <1>3, <1>4, <1>5, <1>6, <1>7, <1>8, <1>9, <1>10, <1>11 DEF Next

-----------------------------------------------------------------------------
(* The other parts.                                                         *)

LEMMA MarksStep == TypeOK /\ MarksExclude /\ [Next]_vars => MarksExclude'
<1> SUFFICES ASSUME TypeOK, MarksExclude, [Next]_vars PROVE MarksExclude'
  OBVIOUS
<1> USE DEF MarksExclude, Ours, Theirs, Sources, redisVars, rowVars, requestVars, historyVars
<1>t. link \in [Sources -> Links] /\ chosen \in SUBSET Sources
  BY DEF TypeOK
<1>n. Driver # Gps
  BY DEF Driver, Gps
<1>1. ASSUME NEW r \in Requests, Step(r) PROVE MarksExclude'
  <2>1. CASE Show(r)
    BY <2>1, <1>n, <1>t DEF Show
  <2>2. CASE Unselect(r)
    BY <2>2, <1>t DEF Unselect
  <2>3. CASE StoreDriverRow(r) \/ StoreGps(r)
    BY <2>3, <1>n, <1>t DEF StoreDriverRow, StoreGps
  <2>4. CASE UNCHANGED <<link, chosen>>
    BY <2>4
  <2> QED
    BY <1>1, <2>1, <2>2, <2>3, <2>4
       DEF Step, DriverArrives, GpsArrives, Arrive, StoreDriver, ReadRedis, ReadRow, Choose,
           HoldLastGood, GiveUp, Decide, SetLastGood, SetSelected, ClearSelected, MarkTrip, Fail
<1>2. CASE OtherTrips
  <2>1. CASE \E p \in Packets, l \in {"free", "other"} : GpsElsewhere(p, l)
    BY <2>1, <1>t DEF GpsElsewhere
  <2>2. CASE DriverElsewhere \/ AutoStartElsewhere
    BY <2>2, <1>t DEF DriverElsewhere, AutoStartElsewhere
  <2>3. ASSUME NEW rows \in SUBSET Theirs, NEW picked, ArbitrateElsewhere(rows, picked)
        PROVE  MarksExclude'
    BY <2>3, <1>t DEF ArbitrateElsewhere
  <2>4. ASSUME NEW rows \in SUBSET Theirs, EndElsewhere(rows) PROVE MarksExclude'
    BY <2>4, <1>t DEF EndElsewhere
  <2> QED
    BY <1>2, <2>1, <2>2, <2>3, <2>4 DEF OtherTrips
<1>3. CASE FinalizeWrite
  BY <1>3, <1>t DEF FinalizeWrite
<1>4. CASE UNCHANGED <<link, chosen>>
  BY <1>4
<1> QED
  BY <1>1, <1>2, <1>3, <1>4
     DEF Next, FinalizeRead, FinalizeClears, ClearSelectedAgain, ClearLastGoodAgain, ClearAgain,
         ClearDriverAgain, FinalizeFails, ExpireSelected, ExpireLastGood, ExpireDriver, Clock, vars

(* Only the steps of the request that is alone touch what it will compare. *)
LEMMA AgreeStep ==
    ASSUME TypeOK, MarksExclude, AloneAgrees, StoresAgree, [Next]_vars
    PROVE  AloneAgrees' /\ StoresAgree'
<1> USE DEF AloneAgrees, StoresAgree, Active, redisVars, rowVars, requestVars, historyVars
<1>t. /\ pc \in [Requests -> Awaits] /\ alone \in SUBSET Requests
      /\ link \in [Sources -> Links] /\ chosen \in SUBSET Sources
      /\ pick \in [Requests -> States \cup {Nothing}]
      /\ view \in [Requests -> Views]
  BY DEF TypeOK
<1>1. ASSUME NEW r \in Requests, NEW p, NEW a \in {"accepted", "ingest"}, Arrive(r, p, a)
      PROVE AloneAgrees' /\ StoresAgree'
  BY <1>1, <1>t DEF Arrive
<1>2. ASSUME NEW r \in Requests, NEW a, r \in Active, pc' = [pc EXCEPT ![r] = a],
             a \notin {"idle", "done", "show", "mark", "unselect"},
             \A q \in Requests : q # r => pick'[q] = pick[q],
             selected' = selected, alone' = alone
      PROVE AloneAgrees' /\ StoresAgree'
  BY <1>2, <1>t
<1>3. ASSUME NEW r \in Requests, Step(r) PROVE AloneAgrees' /\ StoresAgree'
  <2>1. CASE \E t \in Times : DriverArrives(r, t)
    BY <1>1, <2>1 DEF DriverArrives
  <2>2. CASE \E p \in Packets : GpsArrives(r, p)
    BY <1>1, <2>2 DEF GpsArrives
  <2>3. CASE StoreDriver(r) \/ StoreDriverRow(r) \/ StoreGps(r)
    BY <1>2, <2>3 DEF StoreDriver, StoreDriverRow, StoreGps, GoTo
  <2>4. CASE ReadRedis(r) \/ ReadRow(r)
    BY <1>2, <2>4 DEF ReadRedis, ReadRow, GoTo
  <2>5. ASSUME NEW c, NEW a \in {"good", "select", "clear"}, Reading(r), Decide(r, c, a)
        PROVE AloneAgrees' /\ StoresAgree'
    BY <1>2, <1>t, <2>5 DEF Decide, GoTo, Reading
  <2>6. CASE Choose(r)
    <3>1. PICK c \in Winners(Seen(r)) :
             Decide(r, c, IF c.status \in {"HEALTHY", "STALE"} THEN "good" ELSE "select")
      BY <2>6 DEF Choose
    <3> QED
      BY <2>5, <2>6, <3>1 DEF Choose
  <2>7. CASE HoldLastGood(r) \/ GiveUp(r)
    BY <2>5, <2>7 DEF HoldLastGood, GiveUp
  <2>8. CASE SetLastGood(r)
    BY <1>2, <2>8 DEF SetLastGood, GoTo
  <2>9. CASE SetSelected(r)
    BY <1>t, <2>9 DEF SetSelected, GoTo
  <2>10. CASE ClearSelected(r)
    BY <1>t, <2>10 DEF ClearSelected, GoTo
  <2>11. CASE MarkTrip(r)
    BY <1>t, <2>11 DEF MarkTrip, GoTo
  <2>12. ASSUME NEW w, Finish(r, w), r \in Active, UNCHANGED selected
         PROVE /\ AloneAgrees'
               /\ (Active' = {} /\ agree') => r \in alone /\ w
    BY <1>t, <2>12 DEF Finish
  <2>13. CASE Show(r)
    <3>1. AloneAgrees' /\ (agree' => r \in alone)
      BY <2>12, <2>13 DEF Show, Finish
    <3>2. ASSUME r \in alone, selected' # Nothing
          PROVE shown' = selected' /\ chosen' \cap Ours' = {selected'.source} \cap Ours'
      <4>1. selected = pick[r]
        BY <2>13, <3>2 DEF Show
      <4>2. Ours' = Ours
        BY <2>13 DEF Show, Ours
      <4>3. chosen' \cap Ours = {pick[r].source} \cap Ours
        BY <2>13 DEF Show
      <4> QED
        BY <2>13, <4>1, <4>2, <4>3 DEF Show
    <3> QED
      BY <3>1, <3>2
  <2>14. CASE Unselect(r)
    BY <2>12, <2>14 DEF Unselect, Finish
  <2>15. CASE Fail(r)
    BY <2>12, <2>15 DEF Fail, Finish
  <2> QED
    BY <1>3, <2>1, <2>2, <2>3, <2>4, <2>6, <2>7, <2>8, <2>9, <2>10, <2>11, <2>13, <2>14, <2>15
       DEF Step
<1>4. CASE OtherTrips
  <2>1. ASSUME Elsewhere, Ours' \subseteq Ours, chosen' \cap Ours' = chosen \cap Ours'
        PROVE  AloneAgrees' /\ StoresAgree'
    BY <2>1 DEF Elsewhere
  <2>2. CASE \E p \in Packets, l \in {"free", "other"} : GpsElsewhere(p, l)
    BY <2>1, <2>2, <1>t DEF GpsElsewhere, Ours, Sources
  <2>3. CASE DriverElsewhere \/ AutoStartElsewhere
    BY <2>1, <2>3, <1>t DEF DriverElsewhere, AutoStartElsewhere, Ours, Sources
  <2>4. ASSUME NEW rows \in SUBSET Theirs, NEW picked, ArbitrateElsewhere(rows, picked)
        PROVE  AloneAgrees' /\ StoresAgree'
    BY <2>1, <2>4, <1>t DEF ArbitrateElsewhere, Ours, Theirs
  <2>5. ASSUME NEW rows \in SUBSET Theirs, EndElsewhere(rows) PROVE AloneAgrees' /\ StoresAgree'
    BY <2>1, <2>5, <1>t DEF EndElsewhere, Ours, Theirs
  <2> QED
    BY <1>4, <2>2, <2>3, <2>4, <2>5 DEF OtherTrips
<1>5. CASE FinalizeWrite
  <2>1. Ours' = {}
    BY <1>5, <1>t DEF FinalizeWrite, Ours
  <2> QED
    BY <1>5, <2>1 DEF FinalizeWrite
<1>6. ASSUME UNCHANGED <<pc, pick, alone, agree, link, chosen, shown>>, selected' \in {selected, Nothing}
      PROVE AloneAgrees' /\ StoresAgree'
  BY <1>6 DEF Ours
<1> QED
  BY <1>3, <1>4, <1>5, <1>6
     DEF Next, FinalizeRead, FinalizeClears, Cleared, ClearSelectedAgain, ClearLastGoodAgain,
         ClearAgain, ClearDriverAgain, FinalizeFails, ExpireSelected, ExpireLastGood, ExpireDriver,
         Clock, vars

LEMMA ColdStep ==
    ASSUME TypeOK, QuietClears, EndedIsCold, [Next]_vars
    PROVE  QuietClears' /\ EndedIsCold'
<1> USE DEF QuietClears, EndedIsCold, Active, redisVars, rowVars, requestVars, historyVars
<1>t. pc \in [Requests -> Awaits] /\ quiet \in BOOLEAN /\ cold \in BOOLEAN /\ ended \in BOOLEAN
  BY DEF TypeOK
<1>1. ASSUME NEW r \in Requests, ~ ended, UNCHANGED <<ended, quiet, cold>>
      PROVE QuietClears' /\ EndedIsCold'
  BY <1>1
<1>2. ASSUME NEW r \in Active, UNCHANGED <<quiet, cold>>
      PROVE QuietClears' /\ EndedIsCold'
  BY <1>2
<1>3. ASSUME NEW r \in Requests, Step(r) PROVE QuietClears' /\ EndedIsCold'
  <2>1. CASE \E t \in Times : DriverArrives(r, t)
    BY <1>1, <2>1 DEF DriverArrives, Arrive
  <2>2. CASE \E p \in Packets : GpsArrives(r, p)
    BY <1>1, <2>2 DEF GpsArrives, Arrive
  <2>3. CASE StoreDriver(r) \/ StoreDriverRow(r) \/ StoreGps(r) \/ ReadRedis(r) \/ ReadRow(r)
    BY <1>2, <2>3 DEF StoreDriver, StoreDriverRow, StoreGps, ReadRedis, ReadRow, GoTo
  <2>4. CASE Choose(r) \/ HoldLastGood(r) \/ GiveUp(r)
    BY <1>2, <2>4 DEF Choose, HoldLastGood, GiveUp, Reading, Decide, GoTo
  <2>5. CASE SetLastGood(r) \/ SetSelected(r) \/ ClearSelected(r) \/ MarkTrip(r)
    BY <1>2, <2>5 DEF SetLastGood, SetSelected, ClearSelected, MarkTrip, GoTo
  <2>6. CASE Show(r) \/ Unselect(r) \/ Fail(r)
    BY <1>2, <2>6 DEF Show, Unselect, Fail
  <2> QED
    BY <1>3, <2>1, <2>2, <2>3, <2>4, <2>5, <2>6 DEF Step
<1>4. CASE OtherTrips
  <2>1. Elsewhere
    BY <1>4 DEF OtherTrips, GpsElsewhere, DriverElsewhere, AutoStartElsewhere, ArbitrateElsewhere,
                EndElsewhere
  <2> QED
    BY <2>1 DEF Elsewhere
<1>5. CASE FinalizeRead
  BY <1>5, <1>t DEF FinalizeRead
<1>6. CASE FinalizeWrite
  BY <1>6, <1>t DEF FinalizeWrite
<1>7. CASE FinalizeClears
  BY <1>7 DEF FinalizeClears, Cleared
<1>8. CASE ClearSelectedAgain \/ ClearLastGoodAgain
  BY <1>8 DEF ClearSelectedAgain, ClearLastGoodAgain, ClearAgain
<1>9. CASE ClearDriverAgain
  BY <1>9 DEF ClearDriverAgain, Cleared
<1>10. CASE FinalizeFails
  BY <1>10 DEF FinalizeFails
<1>11. CASE ExpireSelected \/ ExpireLastGood \/ ExpireDriver
  BY <1>11 DEF ExpireSelected, ExpireLastGood, ExpireDriver
<1>12. CASE Clock \/ UNCHANGED vars
  BY <1>12 DEF Clock, vars
<1> QED
  BY <1>3, <1>4, <1>5, <1>6, <1>7, <1>8, <1>9, <1>10, <1>11, <1>12 DEF Next

-----------------------------------------------------------------------------
(* The theorems.                                                            *)

(* The inductive invariant of arbitration. *)
THEOREM ArbInvariant == Spec => []ArbInv
<1>1. ArbInv /\ [Next]_vars => ArbInv'
  BY TypeStep, MarksStep, AgreeStep, ColdStep DEF ArbInv
<1> QED
  BY <1>1, ArbInit, PTL DEF Spec

(* Type correctness of arbitration. *)
THEOREM ArbTypes == Spec => []TypeOK
<1>1. ArbInv => TypeOK
  BY DEF ArbInv
<1> QED
  BY <1>1, ArbInvariant, PTL

(* Whatever the other trips of the bus do to the two rows, two rows of the *)
(* trip are never marked as selected at once, and no row is marked for     *)
(* nobody.                                                                 *)
THEOREM ArbOneRow == Spec => []OneRowSelected
<1>1. ArbInv => OneRowSelected
  <2> SUFFICES ASSUME ArbInv PROVE OneRowSelected
    OBVIOUS
  <2>1. chosen \cap Ours \in {{}, {Driver}, {Gps}}
    BY DEF ArbInv, TypeOK, MarksExclude, Sources
  <2>2. Cardinality({}) = 0 /\ Cardinality({Driver}) = 1 /\ Cardinality({Gps}) = 1
    BY FS_EmptySet, FS_Singleton
  <2> QED
    BY <2>1, <2>2 DEF OneRowSelected, ArbInv, MarksExclude
<1> QED
  BY <1>1, ArbInvariant, PTL

(* A location that met no other one leaves Redis, the trip row and the     *)
(* rows of the sources in agreement.                                       *)
THEOREM ArbStoresAgree == Spec => []StoresAgree
<1>1. ArbInv => StoresAgree
  BY DEF ArbInv
<1> QED
  BY <1>1, ArbInvariant, PTL

(* After a finalizer that met no location the trip has no live state.      *)
THEOREM ArbEndedIsCold == Spec => []EndedIsCold
<1>1. ArbInv => EndedIsCold
  BY DEF ArbInv
<1> QED
  BY <1>1, ArbInvariant, PTL

(* Arbitration never prefers a source to one in a better state, as long as *)
(* the hysteresis gap is below 265.                                        *)
THEOREM ArbBestStatusWins == Spec => BestStatusWins
<1> DEFINE Best2(r) ==
        Reading(r) /\ pc'[r] \in {"good", "select"} =>
           \A c \in Candidates(Seen(r)) : Rank(c.status) <= Rank(pick'[r].status)
<1>1. ASSUME TypeOK, Next, NEW r \in Requests PROVE Best2(r)
  <2> SUFFICES ASSUME Reading(r), pc'[r] \in {"good", "select"}, NEW c \in Candidates(Seen(r))
               PROVE  Rank(c.status) <= Rank(pick'[r].status)
    OBVIOUS
  <2>0. now \in Times /\ pc \in [Requests -> Awaits] /\ pick \in [Requests -> States \cup {Nothing}]
    BY <1>1 DEF TypeOK
  <2>v. Seen(r) \in Views
    BY <1>1, SeenType
  <2>1. Choose(r) \/ HoldLastGood(r)
    <3>1. ASSUME NEW q \in Requests, NEW a, pc' = [pc EXCEPT ![q] = a]
          PROVE q = r
      BY <2>0, <3>1 DEF Reading
    <3>2. ASSUME NEW q \in Requests, Step(q) PROVE q = r \/ UNCHANGED pc
      BY <3>1, <3>2
         DEF Step, DriverArrives, GpsArrives, Arrive, StoreDriver, StoreDriverRow, StoreGps,
             ReadRedis, ReadRow, Choose, HoldLastGood, GiveUp, Decide, SetLastGood, SetSelected,
             Show, ClearSelected, MarkTrip, Unselect, Fail, Finish, GoTo
    <3>3. ~ UNCHANGED pc
      BY DEF Reading
    <3>4. Step(r)
      BY <1>1, <3>2, <3>3
         DEF Next, OtherTrips, GpsElsewhere, DriverElsewhere, AutoStartElsewhere,
             ArbitrateElsewhere, EndElsewhere, Elsewhere, FinalizeRead, FinalizeWrite, FinalizeFails, FinalizeClears,
             ClearSelectedAgain, ClearLastGoodAgain, ClearAgain, ClearDriverAgain, ExpireSelected,
             ExpireLastGood, ExpireDriver, Clock, requestVars
    <3>5. ~ Fail(r)
      BY <2>0 DEF Fail, Finish
    <3>6. ~ GiveUp(r)
      BY <2>0 DEF GiveUp, Decide, GoTo
    <3> QED
      BY <3>4, <3>5, <3>6
         DEF Step, Reading, DriverArrives, GpsArrives, Arrive, StoreDriver, StoreDriverRow,
             StoreGps, ReadRedis, ReadRow, SetLastGood, SetSelected, Show, ClearSelected,
             MarkTrip, Unselect
  <2>2. CASE Choose(r)
    <3>1. PICK w \in Winners(Seen(r)) :
             Decide(r, w, IF w.status \in {"HEALTHY", "STALE"} THEN "good" ELSE "select")
      BY <2>2 DEF Choose
    <3>2. pick'[r] = w
      BY <2>0, <3>1 DEF Decide
    <3> QED
      BY <2>0, <2>v, <3>2, WinnersAreBest
  <2>3. CASE HoldLastGood(r)
    BY <2>0, <2>v, <2>3, SomeoneWins DEF HoldLastGood
  <2> QED
    BY <2>1, <2>2, <2>3
<1>2. TypeOK /\ [Next]_vars => [\A r \in Requests : Best2(r)]_vars
  BY <1>1
<1>3. Spec => [][\A r \in Requests : Best2(r)]_vars
  BY <1>2, ArbTypes, PTL DEF Spec
<1> QED
  BY <1>3 DEF BestStatusWins
=============================================================================
