------------------------- MODULE TripProgressProofs -------------------------
(***************************************************************************)
(* Theorems about TripProgress for any number of locations, any route, any *)
(* positions and any dwell times.                                          *)
(***************************************************************************)
EXTENDS TripProgress, TLAPS

-----------------------------------------------------------------------------
(* The inductive invariant.                                                 *)

Detecting == {"marker", "mark", "create", "unmark"}

\* A request that is about to change the phase has read a PRE_TRIP row; one
\* that has created an arrival detects no other.
RequestsSound ==
    \A r \in Requests :
        /\ pc[r] = "phase" => task[r].view.status = "PRE_TRIP"
        /\ r \in created =>
              /\ pc[r] \in {"unmark", "phase", "promote", "start", "done"}
              /\ pc[r] \in {"phase", "promote", "start"} => task[r].kind = "driver"

\* The stop before the one a request looks for was reached.
OrderSound ==
    /\ \A s \in Stops, p \in Stops : arrivals[s] # Nothing /\ p < s => arrivals[p] # Nothing
    /\ \A r \in Requests, p \in Stops :
          pc[r] \in Detecting /\ task[r].expected = p + 1 => arrivals[p] # Nothing

\* r has announced stop s, or is the one to do so.
Claims(r, s) ==
    \/ r \in announcers[s]
    \/ r \in created /\ pc[r] = "unmark" /\ task[r].expected = s

ClaimsSound ==
    \A s \in Stops, r \in Requests :
        Claims(r, s) => /\ arrivals[s] # Nothing /\ r \in created
                        /\ \A q \in Requests : Claims(q, s) => q = r

\* Arrivals, and what may become one, are later than the arrival before.
TimesSound ==
    /\ \A s \in Stops, p \in Stops :
          arrivals[s] # Nothing /\ p < s => arrivals[p] < arrivals[s]
    /\ \A p \in Stops : p + 1 \in Stops /\ marker[p + 1] # Nothing =>
          arrivals[p] # Nothing /\ arrivals[p] < marker[p + 1]
    /\ \A r \in Requests, p \in Stops :
          pc[r] \in Detecting /\ task[r].expected = p + 1 =>
              /\ arrivals[p] < task[r].at
              /\ pc[r] = "create" => arrivals[p] < task[r].found

\* The row tells since when the bus has been at the origin.
PhaseSound ==
    /\ row.status = "PRE_TRIP" => row.since = stay
    /\ row.status = "RUNNING" => row.phase = Nothing

ProgressInv ==
    /\ TypeOK
    /\ RequestsSound
    /\ OrderSound
    /\ ClaimsSound
    /\ late \/ TimesSound
    /\ overtaken \/ PhaseSound

-----------------------------------------------------------------------------
(* The invariant is one.                                                    *)

LEMMA ProgressInit == Init => ProgressInv
<1> SUFFICES ASSUME Init PROVE ProgressInv
  OBVIOUS
<1> USE ProgressConstants
<1>1. TypeOK
  <2>1. /\ row \in Rows
        /\ arrivals \in [Stops -> Times \cup {Nothing}] /\ marker \in [Stops -> Times \cup {Nothing}]
    BY DEF Init, Rows, Statuses, Phases, Times, Stops
  <2>2. /\ pc \in [Requests -> Awaits] /\ task \in [Requests -> Tasks \cup {Nothing}]
        /\ \A r \in Requests : pc[r] = "idle" /\ task[r] = Nothing
        /\ tapped \in BOOLEAN /\ created \subseteq Requests /\ announcers \in [Stops -> SUBSET Requests]
        /\ late \in BOOLEAN /\ overtaken \in BOOLEAN /\ stay \in Times \cup {Nothing}
    BY DEF Init, Awaits
  <2> QED
    BY <2>1, <2>2 DEF TypeOK
<1>2. RequestsSound /\ OrderSound /\ ClaimsSound
  BY DEF Init, RequestsSound, OrderSound, ClaimsSound, Claims, Detecting, Stops
<1>3. TimesSound
  <2>1. /\ \A s \in Stops : arrivals[s] # Nothing => s = 0
        /\ \A s \in Stops : marker[s] = Nothing
        /\ \A r \in Requests : pc[r] \notin Detecting
    BY DEF Init, Detecting
  <2> QED
    BY <2>1 DEF TimesSound, Stops
<1>4. PhaseSound
  BY DEF Init, PhaseSound
<1> QED
  BY <1>1, <1>2, <1>3, <1>4 DEF ProgressInv

\* The stop a request will look for is one of the route, after the latest.
LEMMA ExpectedStops ==
    ASSUME TypeOK, NEW e \in Expected
    PROVE  /\ e \in Nat
           /\ \A p \in Stops : e = p + 1 => p \in Latest /\ arrivals[p] # Nothing
BY ProgressConstants DEF Expected, Latest, Arrived, Stops

LEMMA TaskFields ==
    ASSUME NEW t \in Tasks
    PROVE  /\ t.kind \in {"driver", "gps"} /\ t.place \in Places /\ t.at \in Times /\ t.view \in Rows
           /\ t.expected \in Stops \cup {Nothing} /\ t.found \in Times \cup {Nothing}
           /\ t # Nothing
           /\ t.place.near \subseteq Stops /\ t.place.beyond \subseteq Stops /\ t.place.atOrigin \in BOOLEAN /\ t.place.moving \in BOOLEAN
<1>1. t.place \in [near : SUBSET Stops, beyond : SUBSET (Stops \ {LastStop}),
                   atOrigin : BOOLEAN, moving : BOOLEAN]
  BY ProgressConstants DEF Tasks
<1>2. t.place.near \subseteq Stops /\ t.place.beyond \subseteq Stops /\ t.place.atOrigin \in BOOLEAN /\ t.place.moving \in BOOLEAN
  BY <1>1
<1> QED
  BY <1>2, ProgressConstants DEF Tasks

\* What a request works on, wherever it is.
TasksTyped ==
    /\ pc \in [Requests -> Awaits]
    /\ task \in [Requests -> Tasks \cup {Nothing}]
    /\ \A r \in Requests : task[r] # Nothing <=> pc[r] \notin {"idle", "done"}
    /\ \A r \in Requests : pc[r] \in Detecting => task[r].expected # Nothing
    /\ \A r \in Requests : pc[r] = "create" => task[r].found # Nothing

LEMMA TasksAreTyped == ASSUME TypeOK PROVE TasksTyped
BY DEF TypeOK, TasksTyped, Detecting

LEMMA ProceedTyped ==
    ASSUME TasksTyped, NEW r \in Requests, NEW await \in Awaits \ {"idle"}, NEW t,
           Proceed(r, await, t), await = "done" \/ t \in Tasks,
           await \in Detecting => t.expected # Nothing,
           await = "create" => t.found # Nothing
    PROVE  TasksTyped'
BY ProgressConstants, TaskFields DEF TasksTyped, Proceed, Detecting

LEMMA AtWork ==
    ASSUME TasksTyped, NEW r \in Requests, pc[r] \notin {"idle", "done"}
    PROVE  task[r] \in Tasks
BY DEF TasksTyped

\* The awaits a request may come to next.
LEMMA AfterAwaits ==
    ASSUME NEW t
    PROVE  /\ AfterStops(t) \in {"phase", "done"}
           /\ AfterPromotion(t) \in {"latest", "done"}
           /\ {"phase", "done", "latest"} \subseteq Awaits \ ({"idle"} \cup Detecting)
           /\ {"marker", "mark", "create", "unmark", "promote", "start"} \subseteq Awaits \ {"idle"}
BY DEF AfterStops, AfterPromotion, Awaits, Detecting

LEMMA LocationTyped ==
    ASSUME TypeOK, NEW kind \in {"driver", "gps"}, NEW t \in Locations(kind)
    PROVE  t \in Tasks /\ t.view = row /\ t.kind = kind
BY DEF Locations, Tasks, TypeOK

\* What a look at the latest arrival leads to.
LEMMA LatestCases ==
    ASSUME TypeOK, NEW r \in Requests, LatestReads(r)
    PROVE  /\ task[r] \in Tasks
           /\ \/ \E t \in Tasks, await \in {"marker", "create"} :
                    /\ Proceed(r, await, t)
                    /\ t.kind = task[r].kind /\ t.view = task[r].view /\ t.at = task[r].at
                    /\ t.expected \in Stops /\ (await = "create" => t.found = t.at)
                    /\ \A p \in Stops : t.expected = p + 1 =>
                          /\ arrivals[p] # Nothing
                          /\ ~ late' => ~ late /\ arrivals[p] < t.at
              \/ Proceed(r, AfterStops(task[r]), task[r]) /\ late' = late
<1> DEFINE t == task[r]
<1>1. t \in Tasks
  BY TasksAreTyped, AtWork DEF LatestReads
<1>2. PICK e \in Expected :
        LET near == e \in t.place.near
            past == ~ near /\ e > 0 /\ e \in t.place.beyond
        IN  /\ \/ near /\ Proceed(r, "marker", [t EXCEPT !.expected = e])
               \/ past /\ Proceed(r, "create", [t EXCEPT !.expected = e, !.found = t.at])
               \/ ~ near /\ ~ past /\ Proceed(r, AfterStops(t), t)
            /\ late' = (late \/ ((near \/ past) /\ \E s \in Latest : t.at <= arrivals[s]))
  BY Zenon DEF LatestReads, PassedAt
<1>0. late \in BOOLEAN
  BY DEF TypeOK
<1>3. t.place.near \subseteq Stops /\ t.place.beyond \subseteq Stops /\ t.at \in Times
  BY <1>1, TaskFields
<1>4. ASSUME NEW p \in Stops, e = p + 1
      PROVE  /\ arrivals[p] # Nothing
             /\ ~ (\E s \in Latest : t.at <= arrivals[s]) => arrivals[p] < t.at
  <2>1. p \in Latest /\ arrivals[p] # Nothing
    BY <1>4, ExpectedStops
  <2>2. arrivals[p] \in Nat /\ t.at \in Nat
    BY <1>3, <2>1 DEF TypeOK, Times
  <2> QED
    BY <2>1, <2>2
<1>5. CASE e \notin t.place.near /\ ~ (e > 0 /\ e \in t.place.beyond)
  BY <1>0, <1>1, <1>2, <1>5
<1>6. CASE e \in t.place.near
  <2> DEFINE u == [t EXCEPT !.expected = e]
  <2>1. u \in Tasks /\ u.expected = e /\ u.kind = t.kind /\ u.view = t.view /\ u.at = t.at /\ e \in Stops
    BY <1>1, <1>3, <1>6 DEF Tasks
  <2>2. Proceed(r, "marker", u) /\ (~ late' => ~ late /\ ~ \E s \in Latest : t.at <= arrivals[s])
    BY <1>0, <1>2, <1>6
  <2> HIDE DEF u
  <2> QED
    BY <1>1, <1>4, <2>1, <2>2
<1>7. CASE e \notin t.place.near /\ e > 0 /\ e \in t.place.beyond
  <2> DEFINE u == [t EXCEPT !.expected = e, !.found = t.at]
  <2>1. /\ u \in Tasks /\ u.expected = e /\ u.kind = t.kind /\ u.view = t.view /\ u.at = t.at
        /\ u.found = t.at /\ e \in Stops
    BY <1>1, <1>3, <1>7 DEF Tasks
  <2>2. Proceed(r, "create", u) /\ (~ late' => ~ late /\ ~ \E s \in Latest : t.at <= arrivals[s])
    BY <1>0, <1>2, <1>7
  <2> HIDE DEF u
  <2> QED
    BY <1>1, <1>4, <2>1, <2>2
<1> QED
  BY <1>5, <1>6, <1>7

\* What a look at the marker leads to.
LEMMA MarkerCases ==
    ASSUME TypeOK, NEW r \in Requests, MarkerReads(r)
    PROVE  /\ task[r] \in Tasks /\ task[r].expected \in Stops
           /\ \/ Proceed(r, "mark", task[r])
              \/ Proceed(r, AfterStops(task[r]), task[r])
              \/ \E t \in Tasks :
                    /\ Proceed(r, "create", t)
                    /\ t.kind = task[r].kind /\ t.view = task[r].view /\ t.at = task[r].at
                    /\ t.expected = task[r].expected /\ t.found = marker[t.expected]
                    /\ marker[t.expected] \in Times
<1>1. task[r] \in Tasks
  BY TasksAreTyped, AtWork DEF MarkerReads
<1>2. task[r].expected \in Stops
  BY <1>1, TaskFields, TasksAreTyped DEF MarkerReads, TasksTyped, Detecting
<1>3. CASE marker[task[r].expected] = Nothing
  BY <1>1, <1>2, <1>3 DEF MarkerReads
<1>4. CASE marker[task[r].expected] # Nothing
  <2>1. marker[task[r].expected] \in Times
    BY <1>2, <1>4 DEF TypeOK
  <2>2. PICK u : /\ u = [task[r] EXCEPT !.found = marker[task[r].expected]]
                 /\ Proceed(r, "create", u) \/ Proceed(r, AfterStops(task[r]), task[r])
    BY <1>4 DEF MarkerReads
  <2>3. /\ u \in Tasks /\ u.kind = task[r].kind /\ u.view = task[r].view /\ u.at = task[r].at
        /\ u.expected = task[r].expected /\ u.found = marker[task[r].expected]
    BY <1>1, <2>1, <2>2 DEF Tasks
  <2> QED
    BY <1>1, <1>2, <2>1, <2>2, <2>3
<1> QED
  BY <1>3, <1>4

LEMMA TasksStep ==
    ASSUME TypeOK, [Next]_vars
    PROVE  TasksTyped'
<1> USE ProgressConstants DEF historyVars
<1>1. ASSUME NEW r \in Requests, DriverReads(r)
      PROVE  TasksTyped'
  <2>1. PICK t \in Locations("driver") : Proceed(r, "latest", t) \/ Proceed(r, AfterStops(t), t)
    BY <1>1 DEF DriverReads
  <2>2. t \in Tasks
    BY LocationTyped
  <2> QED
    BY <2>1, <2>2, TasksAreTyped, ProceedTyped, AfterAwaits DEF Detecting
<1>2. ASSUME NEW r \in Requests, GpsReads(r)
      PROVE  TasksTyped'
  <2>1. PICK t \in Locations("gps") : Proceed(r, IF row.status = "PRE_TRIP" THEN "phase" ELSE "latest", t)
    BY <1>2 DEF GpsReads
  <2>2. t \in Tasks
    BY LocationTyped
  <2> QED
    BY <2>1, <2>2, TasksAreTyped, ProceedTyped, AfterAwaits DEF Detecting
<1>3. ASSUME NEW r \in Requests, LatestReads(r)
      PROVE  TasksTyped'
  <2>1. \A u \in Tasks : u.expected \in Stops => u.expected # Nothing
    OBVIOUS
  <2>2. \A u \in Tasks : u.at # Nothing
    BY TaskFields
  <2> QED
    BY <1>3, <2>1, <2>2, LatestCases, TasksAreTyped, ProceedTyped, AfterAwaits DEF Detecting
<1>4. ASSUME NEW r \in Requests, MarkerReads(r)
      PROVE  TasksTyped'
  <2>1. \A u \in Tasks : u.expected \in Stops => u.expected # Nothing
    OBVIOUS
  <2>2. \A u \in Tasks : u.found \in Times => u.found # Nothing
    OBVIOUS
  <2> QED
    BY <1>4, <2>1, <2>2, MarkerCases, TasksAreTyped, ProceedTyped, AfterAwaits DEF Detecting
<1>5. ASSUME NEW r \in Requests, Mark(r)
      PROVE  TasksTyped'
  <2>1. task[r] \in Tasks
    BY <1>5, TasksAreTyped, AtWork DEF Mark
  <2> QED
    BY <1>5, <2>1, TasksAreTyped, ProceedTyped, AfterAwaits DEF Mark, Detecting
<1>6. ASSUME NEW r \in Requests, Create(r)
      PROVE  TasksTyped'
  <2>1. task[r] \in Tasks
    BY <1>6, TasksAreTyped, AtWork DEF Create
  <2>2. task[r].expected # Nothing
    BY <1>6, TasksAreTyped DEF Create, TasksTyped, Detecting
  <2>3. Proceed(r, "unmark", task[r]) \/ Proceed(r, AfterStops(task[r]), task[r])
    BY <1>6 DEF Create
  <2> QED
    BY <2>1, <2>2, <2>3, TasksAreTyped, ProceedTyped, AfterAwaits DEF Detecting
<1>7. ASSUME NEW r \in Requests, Unmark(r)
      PROVE  TasksTyped'
  <2>1. task[r] \in Tasks
    BY <1>7, TasksAreTyped, AtWork DEF Unmark
  <2> QED
    BY <1>7, <2>1, TasksAreTyped, ProceedTyped, AfterAwaits DEF Unmark, Detecting
<1>8. ASSUME NEW r \in Requests, Phase(r)
      PROVE  TasksTyped'
  <2>1. task[r] \in Tasks
    BY <1>8, TasksAreTyped, AtWork DEF Phase
  <2> QED
    BY <1>8, <2>1, TasksAreTyped, ProceedTyped, AfterAwaits DEF Phase, Detecting
<1>9. ASSUME NEW r \in Requests, Promote(r)
      PROVE  TasksTyped'
  <2>1. task[r] \in Tasks
    BY <1>9, TasksAreTyped, AtWork DEF Promote
  <2> QED
    BY <1>9, <2>1, TasksAreTyped, ProceedTyped, AfterAwaits DEF Promote, Detecting
<1>10. ASSUME NEW r \in Requests, Start(r)
      PROVE  TasksTyped'
  <2>1. task[r] \in Tasks
    BY <1>10, TasksAreTyped, AtWork DEF Start
  <2> QED
    BY <1>10, <2>1, TasksAreTyped, ProceedTyped, AfterAwaits DEF Start, Detecting
<1>11. ASSUME NEW r \in Requests, Fail(r)
      PROVE  TasksTyped'
  <2>1. Proceed(r, "done", Nothing)
    BY <1>11 DEF Fail
  <2> QED
    BY <2>1, TasksAreTyped, ProceedTyped, AfterAwaits DEF Detecting
<1>12. CASE TapReads \/ TapStarts \/ Finalize \/ CancelNoShow
  BY <1>12, TasksAreTyped DEF TapReads, TapStarts, Finalize, CancelNoShow, TasksTyped
<1>13. ASSUME NEW s \in Stops, Expire(s)
      PROVE  TasksTyped'
  BY <1>13, TasksAreTyped DEF Expire, TasksTyped
<1>14. CASE UNCHANGED vars
  BY <1>14, TasksAreTyped DEF vars, TasksTyped
<1> QED
  BY <1>1, <1>2, <1>3, <1>4, <1>5, <1>6, <1>7, <1>8, <1>9, <1>10, <1>11, <1>12, <1>13, <1>14 DEF Next

LEMMA DerivedTyped ==
    ASSUME NEW t \in Tasks
    PROVE  /\ Derived(t.view, t.place, t.at).phase \in Phases
           /\ Derived(t.view, t.place, t.at).since \in Times \cup {Nothing}
<1>1. t.view.since \in Times \cup {Nothing} /\ t.at \in Times
  BY TaskFields DEF Rows
<1> QED
  BY <1>1 DEF Derived, Phases

LEMMA RowTyped ==
    ASSUME row \in Rows, NEW p \in Phases, NEW s \in Times \cup {Nothing}
    PROVE  /\ [row EXCEPT !.phase = p, !.since = s] \in Rows
           /\ [row EXCEPT !.status = "ENDED"] \in Rows
           /\ Started \in Rows
           /\ [status |-> "ENDED", phase |-> Nothing, since |-> Nothing] \in Rows
BY DEF Rows, Statuses, Started

\* The rest of TypeOK.
RestTyped ==
    /\ row \in Rows
    /\ arrivals \in [Stops -> Times \cup {Nothing}]
    /\ marker \in [Stops -> Times \cup {Nothing}]
    /\ tapped \in BOOLEAN
    /\ created \subseteq Requests
    /\ announcers \in [Stops -> SUBSET Requests]
    /\ late \in BOOLEAN
    /\ stay \in Times \cup {Nothing}
    /\ overtaken \in BOOLEAN

LEMMA RestIsTyped == ASSUME TypeOK PROVE RestTyped
BY DEF TypeOK, RestTyped

\* A request between two queries of detectStopArrival has its stop and times.
LEMMA Detected ==
    ASSUME TypeOK, NEW r \in Requests, pc[r] \in Detecting
    PROVE  /\ task[r] \in Tasks /\ task[r].expected \in Stops /\ task[r].at \in Times
           /\ pc[r] = "create" => task[r].found \in Times
<1>1. task[r] \in Tasks
  BY TasksAreTyped, AtWork DEF Detecting
<1> QED
  BY <1>1, TaskFields, TasksAreTyped DEF TasksTyped

LEMMA RestStep ==
    ASSUME TypeOK, [Next]_vars
    PROVE  RestTyped'
<1> USE ProgressConstants DEF historyVars
<1>1. ASSUME NEW r \in Requests, DriverReads(r)
      PROVE  RestTyped'
  BY <1>1, RestIsTyped DEF DriverReads, Proceed, Locations, AfterStops, RestTyped
<1>2. ASSUME NEW r \in Requests, GpsReads(r)
      PROVE  RestTyped'
  BY <1>2, RestIsTyped DEF GpsReads, Proceed, Locations, RestTyped
<1>3. ASSUME NEW r \in Requests, LatestReads(r)
      PROVE  RestTyped'
  <2>1. late' \in BOOLEAN
    BY <1>3, RestIsTyped DEF LatestReads, RestTyped
  <2> QED
    BY <1>3, <2>1, RestIsTyped DEF LatestReads, RestTyped
<1>4. ASSUME NEW r \in Requests, MarkerReads(r)
      PROVE  RestTyped'
  BY <1>4, RestIsTyped DEF MarkerReads, Proceed, AfterStops, RestTyped
<1>5. ASSUME NEW r \in Requests, Mark(r)
      PROVE  RestTyped'
  <2>1. task[r].expected \in Stops /\ task[r].at \in Times
    BY <1>5, Detected DEF Mark, Detecting
  <2> QED
    BY <1>5, <2>1, RestIsTyped DEF Mark, RestTyped
<1>6. ASSUME NEW r \in Requests, Create(r)
      PROVE  RestTyped'
  <2>1. task[r].expected \in Stops /\ task[r].found \in Times
    BY <1>6, Detected DEF Create, Detecting
  <2> QED
    BY <1>6, <2>1, RestIsTyped DEF Create, RestTyped
<1>7. ASSUME NEW r \in Requests, Unmark(r)
      PROVE  RestTyped'
  <2>1. task[r].expected \in Stops
    BY <1>7, Detected DEF Unmark, Detecting
  <2> QED
    BY <1>7, <2>1, RestIsTyped DEF Unmark, RestTyped
<1>8. ASSUME NEW r \in Requests, Phase(r)
      PROVE  RestTyped'
  <2>1. task[r] \in Tasks
    BY <1>8, TasksAreTyped, AtWork DEF Phase
  <2>2. task[r].at \in Times
    BY <2>1, TaskFields
  <2>3. row' \in Rows
    BY <1>8, <2>1, RestIsTyped, DerivedTyped, RowTyped DEF Phase, RestTyped
  <2>4. stay' \in Times \cup {Nothing} /\ overtaken' \in BOOLEAN
    BY <1>8, <2>2, RestIsTyped DEF Phase, RestTyped
  <2> QED
    BY <1>8, <2>3, <2>4, RestIsTyped DEF Phase, RestTyped
<1>9. ASSUME NEW r \in Requests, Promote(r)
      PROVE  RestTyped'
  BY <1>9, RestIsTyped DEF Promote, Proceed, AfterPromotion, RestTyped
<1>10. ASSUME NEW r \in Requests, Start(r)
      PROVE  RestTyped'
  <2>1. Started \in Rows
    BY DEF Started, Rows, Statuses
  <2> QED
    BY <1>10, <2>1, RestIsTyped DEF Start, RestTyped
<1>11. ASSUME NEW r \in Requests, Fail(r)
      PROVE  RestTyped'
  BY <1>11, RestIsTyped DEF Fail, Proceed, RestTyped
<1>12. CASE TapReads \/ TapStarts \/ Finalize \/ CancelNoShow
  <2>1. /\ Started \in Rows
        /\ [row EXCEPT !.status = "ENDED"] \in Rows
        /\ [status |-> "ENDED", phase |-> Nothing, since |-> Nothing] \in Rows
    BY RestIsTyped DEF RestTyped, Started, Rows, Statuses
  <2> QED
    BY <1>12, <2>1, RestIsTyped DEF TapReads, TapStarts, Finalize, CancelNoShow, RestTyped
<1>13. ASSUME NEW s \in Stops, Expire(s)
      PROVE  RestTyped'
  BY <1>13, RestIsTyped DEF Expire, RestTyped
<1>14. CASE UNCHANGED vars
  BY <1>14, RestIsTyped DEF vars, RestTyped
<1> QED
  BY <1>1, <1>2, <1>3, <1>4, <1>5, <1>6, <1>7, <1>8, <1>9, <1>10, <1>11, <1>12, <1>13, <1>14 DEF Next

LEMMA ProgressTypes ==
    ASSUME TypeOK, [Next]_vars
    PROVE  TypeOK'
BY TasksStep, RestStep DEF TypeOK, TasksTyped, RestTyped, Detecting

\* The row a handler has read is that of the time; TasksTyped tells the rest.
LEMMA AfterStopsMeans ==
    ASSUME NEW t
    PROVE  AfterStops(t) = "phase" => t.kind = "driver" /\ t.view.status = "PRE_TRIP"
BY DEF AfterStops

LEMMA RequestsStep ==
    ASSUME TypeOK, RequestsSound, [Next]_vars
    PROVE  RequestsSound'
<1> USE ProgressConstants DEF historyVars
<1>1. ASSUME NEW r \in Requests, DriverReads(r)
      PROVE  RequestsSound'
  BY <1>1, TasksAreTyped, TaskFields DEF DriverReads, Proceed, Locations, AfterStops, RequestsSound, TasksTyped
<1>2. ASSUME NEW r \in Requests, GpsReads(r)
      PROVE  RequestsSound'
  <2>1. PICK t \in Locations("gps") : Proceed(r, IF row.status = "PRE_TRIP" THEN "phase" ELSE "latest", t)
    BY <1>2 DEF GpsReads
  <2>2. t.view = row /\ t.kind = "gps"
    BY LocationTyped
  <2>3. created' = created /\ r \notin created
    BY <1>2 DEF GpsReads, RequestsSound
  <2> QED
    BY <2>1, <2>2, <2>3, TasksAreTyped DEF Proceed, RequestsSound, TasksTyped
<1>3. ASSUME NEW r \in Requests, LatestReads(r)
      PROVE  RequestsSound'
  <2>1. r \notin created /\ created' = created /\ pc[r] = "latest"
    BY <1>3 DEF LatestReads, RequestsSound
  <2>2. CASE \E t \in Tasks, await \in {"marker", "create"} : Proceed(r, await, t)
    BY <2>1, <2>2, TasksAreTyped DEF Proceed, RequestsSound, TasksTyped
  <2>3. CASE Proceed(r, AfterStops(task[r]), task[r])
    BY <2>1, <2>3, TasksAreTyped, AfterStopsMeans, AfterAwaits DEF Proceed, RequestsSound, TasksTyped
  <2> QED
    BY <1>3, <2>2, <2>3, LatestCases
<1>4. ASSUME NEW r \in Requests, MarkerReads(r)
      PROVE  RequestsSound'
  BY <1>4, MarkerCases, TasksAreTyped, AfterStopsMeans, AfterAwaits DEF Proceed, RequestsSound, TasksTyped, MarkerReads, Detecting
<1>5. ASSUME NEW r \in Requests, Mark(r)
      PROVE  RequestsSound'
  BY <1>5, TasksAreTyped, TaskFields DEF Mark, Proceed, AfterStops, RequestsSound, TasksTyped
<1>6. ASSUME NEW r \in Requests, Create(r)
      PROVE  RequestsSound'
  BY <1>6, TasksAreTyped, TaskFields DEF Create, Proceed, AfterStops, Passing, RequestsSound, TasksTyped
<1>7. ASSUME NEW r \in Requests, Unmark(r)
      PROVE  RequestsSound'
  BY <1>7, TasksAreTyped, TaskFields DEF Unmark, Proceed, AfterStops, RequestsSound, TasksTyped
<1>8. ASSUME NEW r \in Requests, Phase(r)
      PROVE  RequestsSound'
  BY <1>8, TasksAreTyped, TaskFields DEF Phase, Proceed, RequestsSound, TasksTyped
<1>9. ASSUME NEW r \in Requests, Promote(r)
      PROVE  RequestsSound'
  BY <1>9, TasksAreTyped, TaskFields DEF Promote, Proceed, AfterPromotion, RequestsSound, TasksTyped
<1>10. ASSUME NEW r \in Requests, Start(r)
      PROVE  RequestsSound'
  BY <1>10, TasksAreTyped, TaskFields DEF Start, Proceed, AfterPromotion, RequestsSound, TasksTyped
<1>11. ASSUME NEW r \in Requests, Fail(r)
      PROVE  RequestsSound'
  BY <1>11, TasksAreTyped, TaskFields DEF Fail, Proceed, RequestsSound, TasksTyped
<1>12. CASE TapReads \/ TapStarts \/ Finalize \/ CancelNoShow
  BY <1>12, TasksAreTyped, TaskFields DEF TapReads, TapStarts, Finalize, CancelNoShow, RequestsSound, TasksTyped
<1>13. ASSUME NEW s \in Stops, Expire(s)
      PROVE  RequestsSound'
  BY <1>13, TasksAreTyped, TaskFields DEF Expire, RequestsSound, TasksTyped
<1>14. CASE UNCHANGED vars
  BY <1>14, TasksAreTyped DEF vars, RequestsSound
<1> QED
  BY <1>1, <1>2, <1>3, <1>4, <1>5, <1>6, <1>7, <1>8, <1>9, <1>10, <1>11, <1>12, <1>13, <1>14 DEF Next

LEMMA OrderStep ==
    ASSUME TypeOK, OrderSound, [Next]_vars
    PROVE  OrderSound'
<1> USE ProgressConstants DEF historyVars
<1>1. ASSUME NEW r \in Requests, DriverReads(r)
      PROVE  OrderSound'
  BY <1>1, TasksAreTyped, AfterAwaits DEF DriverReads, Proceed, Locations, AfterStops, OrderSound, TasksTyped, Detecting
<1>2. ASSUME NEW r \in Requests, GpsReads(r)
      PROVE  OrderSound'
  BY <1>2, TasksAreTyped, AfterAwaits DEF GpsReads, Proceed, Locations, OrderSound, TasksTyped, Detecting
<1>3. ASSUME NEW r \in Requests, LatestReads(r)
      PROVE  OrderSound'
  <2>1. arrivals' = arrivals
    BY <1>3 DEF LatestReads
  <2>2. ASSUME NEW t \in Tasks, NEW await \in {"marker", "create"}, Proceed(r, await, t),
               \A p \in Stops : t.expected = p + 1 => arrivals[p] # Nothing
        PROVE  OrderSound'
    BY <2>1, <2>2, TasksAreTyped DEF Proceed, OrderSound, TasksTyped
  <2>3. CASE Proceed(r, AfterStops(task[r]), task[r])
    BY <2>1, <2>3, TasksAreTyped, AfterAwaits DEF Proceed, OrderSound, TasksTyped, Detecting
  <2> QED
    BY <1>3, <2>2, <2>3, LatestCases
<1>4. ASSUME NEW r \in Requests, MarkerReads(r)
      PROVE  OrderSound'
  BY <1>4, MarkerCases, TasksAreTyped, AfterAwaits DEF Proceed, OrderSound, TasksTyped, MarkerReads, Detecting
<1>5. ASSUME NEW r \in Requests, Mark(r)
      PROVE  OrderSound'
  BY <1>5, TasksAreTyped, AfterAwaits DEF Mark, Proceed, AfterStops, OrderSound, TasksTyped, Detecting
<1>6. ASSUME NEW r \in Requests, Create(r)
      PROVE  OrderSound'
  <2> DEFINE e == task[r].expected
  <2>1. e \in Stops /\ task[r].found \in Times
    BY <1>6, Detected DEF Create, Detecting
  <2>2. \A s \in Stops : arrivals[s] # Nothing => arrivals'[s] # Nothing
    BY <1>6, <2>1, RestIsTyped DEF Create, RestTyped
  <2>3. \A s \in Stops, p \in Stops : arrivals'[s] # Nothing /\ p < s => arrivals'[p] # Nothing
    <3> SUFFICES ASSUME NEW s \in Stops, NEW p \in Stops, arrivals'[s] # Nothing, p < s,
                        arrivals[s] = Nothing
                 PROVE  arrivals[p] # Nothing
      BY <2>2 DEF OrderSound
    <3>1. s = e /\ pc[r] = "create"
      BY <1>6, <2>1, RestIsTyped DEF Create, RestTyped
    <3> DEFINE q == e - 1
    <3>2. q \in Stops /\ e = q + 1
      BY <2>1, <3>1 DEF Stops
    <3>3. arrivals[q] # Nothing
      BY <3>1, <3>2 DEF OrderSound, Detecting
    <3>4. p = q \/ p < q
      BY <2>1, <3>1, <3>2 DEF Stops
    <3> QED
      BY <3>2, <3>3, <3>4 DEF OrderSound
  <2>4. \A q \in Requests : pc'[q] \in Detecting => pc[q] \in Detecting /\ task'[q].expected = task[q].expected
    BY <1>6, <2>1, TasksAreTyped, AfterAwaits DEF Create, Proceed, TasksTyped, Detecting
  <2> QED
    BY <2>2, <2>3, <2>4 DEF OrderSound
<1>7. ASSUME NEW r \in Requests, Unmark(r)
      PROVE  OrderSound'
  BY <1>7, TasksAreTyped, AfterAwaits DEF Unmark, Proceed, AfterStops, OrderSound, TasksTyped, Detecting
<1>8. ASSUME NEW r \in Requests, Phase(r)
      PROVE  OrderSound'
  BY <1>8, TasksAreTyped, AfterAwaits DEF Phase, Proceed, OrderSound, TasksTyped, Detecting
<1>9. ASSUME NEW r \in Requests, Promote(r)
      PROVE  OrderSound'
  BY <1>9, TasksAreTyped, AfterAwaits DEF Promote, Proceed, AfterPromotion, OrderSound, TasksTyped, Detecting
<1>10. ASSUME NEW r \in Requests, Start(r)
      PROVE  OrderSound'
  BY <1>10, TasksAreTyped, AfterAwaits DEF Start, Proceed, AfterPromotion, OrderSound, TasksTyped, Detecting
<1>11. ASSUME NEW r \in Requests, Fail(r)
      PROVE  OrderSound'
  BY <1>11, TasksAreTyped, AfterAwaits DEF Fail, Proceed, OrderSound, TasksTyped, Detecting
<1>12. CASE TapReads \/ TapStarts \/ Finalize \/ CancelNoShow
  BY <1>12, TasksAreTyped, AfterAwaits DEF TapReads, TapStarts, Finalize, CancelNoShow, OrderSound, TasksTyped, Detecting
<1>13. ASSUME NEW s \in Stops, Expire(s)
      PROVE  OrderSound'
  BY <1>13, TasksAreTyped, AfterAwaits DEF Expire, OrderSound, TasksTyped, Detecting
<1>14. CASE UNCHANGED vars
  BY <1>14 DEF vars, OrderSound, Detecting
<1> QED
  BY <1>1, <1>2, <1>3, <1>4, <1>5, <1>6, <1>7, <1>8, <1>9, <1>10, <1>11, <1>12, <1>13, <1>14 DEF Next

\* A request claims a stop only by creating its arrival.
LEMMA ClaimsStay ==
    ASSUME ClaimsSound, created' = created,
           \A s \in Stops : arrivals[s] # Nothing => arrivals'[s] # Nothing,
           \A r \in Requests, s \in Stops : Claims(r, s)' => Claims(r, s)
    PROVE  ClaimsSound'
BY DEF ClaimsSound

LEMMA ClaimsStep ==
    ASSUME TypeOK, RequestsSound, ClaimsSound, [Next]_vars
    PROVE  ClaimsSound'
<1> USE ProgressConstants DEF historyVars
<1>1. ASSUME NEW r \in Requests, DriverReads(r)
      PROVE  ClaimsSound'
  <2>1. \A q \in Requests, s \in Stops : Claims(q, s)' => Claims(q, s)
    BY <1>1, TasksAreTyped, AfterAwaits DEF DriverReads, Proceed, Locations, AfterStops, Claims, TasksTyped, Detecting
  <2>2. created' = created /\ \A s \in Stops : arrivals'[s] = arrivals[s]
    BY <1>1 DEF DriverReads
  <2> QED
    BY <2>1, <2>2, ClaimsStay
<1>2. ASSUME NEW r \in Requests, GpsReads(r)
      PROVE  ClaimsSound'
  <2>1. \A q \in Requests, s \in Stops : Claims(q, s)' => Claims(q, s)
    BY <1>2, TasksAreTyped, AfterAwaits DEF GpsReads, Proceed, Locations, Claims, TasksTyped, Detecting
  <2>2. created' = created /\ \A s \in Stops : arrivals'[s] = arrivals[s]
    BY <1>2 DEF GpsReads
  <2> QED
    BY <2>1, <2>2, ClaimsStay
<1>3. ASSUME NEW r \in Requests, LatestReads(r)
      PROVE  ClaimsSound'
  <2>1. \A q \in Requests, s \in Stops : Claims(q, s)' => Claims(q, s)
    BY <1>3, TasksAreTyped, AfterAwaits, LatestCases DEF LatestReads, Proceed, Claims, TasksTyped, Detecting
  <2>2. created' = created /\ \A s \in Stops : arrivals'[s] = arrivals[s]
    BY <1>3 DEF LatestReads
  <2> QED
    BY <2>1, <2>2, ClaimsStay
<1>4. ASSUME NEW r \in Requests, MarkerReads(r)
      PROVE  ClaimsSound'
  <2>1. \A q \in Requests, s \in Stops : Claims(q, s)' => Claims(q, s)
    BY <1>4, TasksAreTyped, AfterAwaits, MarkerCases DEF MarkerReads, Proceed, Claims, TasksTyped, Detecting
  <2>2. created' = created /\ \A s \in Stops : arrivals'[s] = arrivals[s]
    BY <1>4 DEF MarkerReads
  <2> QED
    BY <2>1, <2>2, ClaimsStay
<1>5. ASSUME NEW r \in Requests, Mark(r)
      PROVE  ClaimsSound'
  <2>1. \A q \in Requests, s \in Stops : Claims(q, s)' => Claims(q, s)
    BY <1>5, TasksAreTyped, AfterAwaits DEF Mark, Proceed, AfterStops, Claims, TasksTyped, Detecting
  <2>2. created' = created /\ \A s \in Stops : arrivals'[s] = arrivals[s]
    BY <1>5 DEF Mark
  <2> QED
    BY <2>1, <2>2, ClaimsStay
<1>6. ASSUME NEW r \in Requests, Create(r)
      PROVE  ClaimsSound'
  <2> DEFINE e == task[r].expected
  <2>1. e \in Stops /\ task[r].found \in Times /\ r \notin created
    BY <1>6, Detected DEF Create, Detecting, RequestsSound
  <2>2. CASE arrivals[e] # Nothing
    <3>1. created' = created /\ arrivals' = arrivals /\ announcers' = announcers
      BY <1>6, <2>2 DEF Create
    <3>2. \A q \in Requests : pc'[q] = "unmark" /\ q \in created => pc[q] = "unmark" /\ task'[q] = task[q]
      BY <1>6, <2>1, TasksAreTyped, AfterAwaits DEF Create, Proceed, TasksTyped, Detecting
    <3>3. \A q \in Requests, s \in Stops : Claims(q, s)' => Claims(q, s)
      BY <3>1, <3>2 DEF Claims
    <3> QED
      BY <3>1, <3>3, ClaimsStay
  <2>3. CASE arrivals[e] = Nothing
    <3>1. /\ created' = created \cup {r} /\ announcers' = announcers
          /\ arrivals' = [arrivals EXCEPT ![e] = task[r].found]
          /\ pc' = [pc EXCEPT ![r] = "unmark"] /\ task' = [task EXCEPT ![r] = task[r]]
      BY <1>6, <2>3 DEF Create, Proceed
    <3>2. \A s \in Stops : arrivals'[s] # Nothing <=> s = e \/ arrivals[s] # Nothing
      BY <2>1, <3>1, RestIsTyped DEF RestTyped
    <3>3. \A q \in Requests, s \in Stops : Claims(q, s)' <=> Claims(q, s) \/ (q = r /\ s = e)
      BY <1>6, <2>1, <3>1, TasksAreTyped DEF Claims, TasksTyped, Create
    <3>4. \A q \in Requests : ~ Claims(q, e)
      BY <2>1, <2>3 DEF ClaimsSound
    <3>5. \A s \in Stops : ~ Claims(r, s)
      BY <2>1 DEF ClaimsSound
    <3> QED
      BY <2>1, <3>1, <3>2, <3>3, <3>4, <3>5 DEF ClaimsSound
  <2> QED
    BY <2>2, <2>3
<1>7. ASSUME NEW r \in Requests, Unmark(r)
      PROVE  ClaimsSound'
  <2>1. task[r] \in Tasks /\ task[r].expected \in Stops
    BY <1>7, Detected DEF Unmark, Detecting
  <2>2. \A q \in Requests, s \in Stops : Claims(q, s)' => Claims(q, s)
    BY <1>7, <2>1, TasksAreTyped, RestIsTyped, AfterAwaits DEF Unmark, Proceed, Claims, TasksTyped, RestTyped, Detecting
  <2>3. created' = created /\ \A s \in Stops : arrivals'[s] = arrivals[s]
    BY <1>7 DEF Unmark
  <2> QED
    BY <2>2, <2>3, ClaimsStay
<1>8. ASSUME NEW r \in Requests, Phase(r)
      PROVE  ClaimsSound'
  <2>1. \A q \in Requests, s \in Stops : Claims(q, s)' => Claims(q, s)
    BY <1>8, TasksAreTyped, AfterAwaits DEF Phase, Proceed, Claims, TasksTyped, Detecting
  <2>2. created' = created /\ \A s \in Stops : arrivals'[s] = arrivals[s]
    BY <1>8 DEF Phase
  <2> QED
    BY <2>1, <2>2, ClaimsStay
<1>9. ASSUME NEW r \in Requests, Promote(r)
      PROVE  ClaimsSound'
  <2>1. \A q \in Requests, s \in Stops : Claims(q, s)' => Claims(q, s)
    BY <1>9, TasksAreTyped, AfterAwaits DEF Promote, Proceed, AfterPromotion, Claims, TasksTyped, Detecting
  <2>2. created' = created /\ \A s \in Stops : arrivals'[s] = arrivals[s]
    BY <1>9 DEF Promote
  <2> QED
    BY <2>1, <2>2, ClaimsStay
<1>10. ASSUME NEW r \in Requests, Start(r)
      PROVE  ClaimsSound'
  <2>1. \A q \in Requests, s \in Stops : Claims(q, s)' => Claims(q, s)
    BY <1>10, TasksAreTyped, AfterAwaits DEF Start, Proceed, AfterPromotion, Claims, TasksTyped, Detecting
  <2>2. created' = created /\ \A s \in Stops : arrivals'[s] = arrivals[s]
    BY <1>10 DEF Start
  <2> QED
    BY <2>1, <2>2, ClaimsStay
<1>11. ASSUME NEW r \in Requests, Fail(r)
      PROVE  ClaimsSound'
  <2>1. \A q \in Requests, s \in Stops : Claims(q, s)' => Claims(q, s)
    BY <1>11, TasksAreTyped, AfterAwaits DEF Fail, Proceed, Claims, TasksTyped, Detecting
  <2>2. created' = created /\ \A s \in Stops : arrivals'[s] = arrivals[s]
    BY <1>11 DEF Fail
  <2> QED
    BY <2>1, <2>2, ClaimsStay
<1>12. CASE TapReads \/ TapStarts \/ Finalize \/ CancelNoShow
  <2>1. \A q \in Requests, s \in Stops : Claims(q, s)' => Claims(q, s)
    BY <1>12, TasksAreTyped, AfterAwaits DEF TapReads, TapStarts, Finalize, CancelNoShow, Claims, TasksTyped, Detecting
  <2>2. created' = created /\ \A s \in Stops : arrivals'[s] = arrivals[s]
    BY <1>12 DEF TapReads, TapStarts, Finalize, CancelNoShow
  <2> QED
    BY <2>1, <2>2, ClaimsStay
<1>13. ASSUME NEW e \in Stops, Expire(e)
      PROVE  ClaimsSound'
  <2>1. \A q \in Requests, s \in Stops : Claims(q, s)' => Claims(q, s)
    BY <1>13, TasksAreTyped, AfterAwaits DEF Expire, Claims, TasksTyped, Detecting
  <2>2. created' = created /\ \A s \in Stops : arrivals'[s] = arrivals[s]
    BY <1>13 DEF Expire
  <2> QED
    BY <2>1, <2>2, ClaimsStay
<1>14. CASE UNCHANGED vars
  BY <1>14, ClaimsStay DEF vars, Claims
<1> QED
  BY <1>1, <1>2, <1>3, <1>4, <1>5, <1>6, <1>7, <1>8, <1>9, <1>10, <1>11, <1>12, <1>13, <1>14 DEF Next

LEMMA TimesStay ==
    ASSUME TimesSound, arrivals' = arrivals,
           \A s \in Stops : marker'[s] = marker[s] \/ marker'[s] = Nothing,
           \A r \in Requests : pc'[r] \in Detecting =>
               /\ pc[r] \in Detecting /\ task'[r].expected = task[r].expected
               /\ task'[r].at = task[r].at
               /\ pc'[r] = "create" => pc[r] = "create" /\ task'[r].found = task[r].found
    PROVE  TimesSound'
BY DEF TimesSound

LEMMA TimesStep ==
    ASSUME TypeOK, OrderSound, TimesSound, ~ late', [Next]_vars
    PROVE  TimesSound'
<1> USE ProgressConstants DEF historyVars
<1>1. ASSUME NEW r \in Requests, DriverReads(r)
      PROVE  TimesSound'
  <2>1. /\ arrivals' = arrivals
        /\ \A s \in Stops : marker'[s] = marker[s] \/ marker'[s] = Nothing
    BY <1>1, RestIsTyped DEF DriverReads, RestTyped
  <2>2. \A q \in Requests : pc'[q] \in Detecting => q # r /\ pc'[q] = pc[q] /\ task'[q] = task[q]
    BY <1>1, TasksAreTyped, AfterAwaits DEF DriverReads, Proceed, Locations, AfterStops, TasksTyped, Detecting
  <2> QED
    BY <2>1, <2>2, TimesStay
<1>2. ASSUME NEW r \in Requests, GpsReads(r)
      PROVE  TimesSound'
  <2>1. /\ arrivals' = arrivals
        /\ \A s \in Stops : marker'[s] = marker[s] \/ marker'[s] = Nothing
    BY <1>2, RestIsTyped DEF GpsReads, RestTyped
  <2>2. \A q \in Requests : pc'[q] \in Detecting => q # r /\ pc'[q] = pc[q] /\ task'[q] = task[q]
    BY <1>2, TasksAreTyped, AfterAwaits DEF GpsReads, Proceed, Locations, TasksTyped, Detecting
  <2> QED
    BY <2>1, <2>2, TimesStay
<1>3. ASSUME NEW r \in Requests, LatestReads(r)
      PROVE  TimesSound'
  <2>1. arrivals' = arrivals /\ marker' = marker
    BY <1>3 DEF LatestReads
  <2>2. ASSUME NEW t \in Tasks, NEW await \in {"marker", "create"}, Proceed(r, await, t),
               await = "create" => t.found = t.at,
               \A p \in Stops : t.expected = p + 1 => arrivals[p] < t.at
        PROVE  TimesSound'
    <3>1. pc'[r] = await /\ task'[r] = t
      BY <2>2, TasksAreTyped DEF Proceed, TasksTyped
    <3>2. \A q \in Requests \ {r} : pc'[q] = pc[q] /\ task'[q] = task[q]
      BY <2>2, TasksAreTyped DEF Proceed, TasksTyped
    <3> QED
      BY <2>1, <2>2, <3>1, <3>2 DEF TimesSound
  <2>3. CASE Proceed(r, AfterStops(task[r]), task[r])
    <3>1. \A q \in Requests : pc'[q] \in Detecting => q # r /\ pc'[q] = pc[q] /\ task'[q] = task[q]
      BY <2>3, TasksAreTyped, AfterAwaits DEF Proceed, TasksTyped, Detecting
    <3> QED
      BY <2>1, <3>1, TimesStay
  <2> QED
    BY <1>3, <2>2, <2>3, LatestCases
<1>4. ASSUME NEW r \in Requests, MarkerReads(r)
      PROVE  TimesSound'
  <2>1. arrivals' = arrivals /\ marker' = marker /\ pc[r] \in Detecting
    BY <1>4 DEF MarkerReads, Detecting
  <2>2. ASSUME NEW t \in Tasks, Proceed(r, "create", t), t.expected = task[r].expected,
               t.at = task[r].at, t.found = marker[t.expected], t.found # Nothing
        PROVE  TimesSound'
    <3>1. pc'[r] = "create" /\ task'[r] = t
      BY <2>2, TasksAreTyped DEF Proceed, TasksTyped
    <3>2. \A q \in Requests \ {r} : pc'[q] = pc[q] /\ task'[q] = task[q]
      BY <2>2, TasksAreTyped DEF Proceed, TasksTyped
    <3>3. \A p \in Stops : t.expected = p + 1 => arrivals[p] < t.at /\ arrivals[p] < t.found
      <4> SUFFICES ASSUME NEW p \in Stops, t.expected = p + 1
                   PROVE  arrivals[p] < t.at /\ arrivals[p] < t.found
        OBVIOUS
      <4>1. p + 1 \in Stops
        BY <1>4, <2>1, <2>2, Detected
      <4> QED
        BY <2>1, <2>2, <4>1 DEF TimesSound
    <3> QED
      BY <2>1, <3>1, <3>2, <3>3 DEF TimesSound
  <2>3. CASE Proceed(r, "mark", task[r]) \/ Proceed(r, AfterStops(task[r]), task[r])
    <3>1. \A q \in Requests : pc'[q] \in Detecting =>
              task'[q] = task[q] /\ pc[q] \in Detecting /\ (pc'[q] = "create" => pc[q] = "create")
      BY <2>1, <2>3, TasksAreTyped, AfterAwaits DEF Proceed, TasksTyped, Detecting
    <3> QED
      BY <2>1, <3>1, TimesStay
  <2>4. \A t \in Tasks : t.found \in Times => t.found # Nothing
    OBVIOUS
  <2> QED
    BY <1>4, <2>2, <2>3, <2>4, MarkerCases
<1>5. ASSUME NEW r \in Requests, Mark(r)
      PROVE  TimesSound'
  <2> DEFINE e == task[r].expected
  <2>1. e \in Stops /\ task[r].at \in Times /\ pc[r] \in Detecting
    BY <1>5, Detected DEF Mark, Detecting
  <2>2. arrivals' = arrivals /\ marker' = [marker EXCEPT ![e] = task[r].at]
    BY <1>5 DEF Mark
  <2>3. \A q \in Requests : pc'[q] \in Detecting => q # r /\ pc'[q] = pc[q] /\ task'[q] = task[q]
    BY <1>5, TasksAreTyped, AfterAwaits DEF Mark, Proceed, TasksTyped, Detecting
  <2>4. \A p \in Stops : p + 1 \in Stops /\ marker'[p + 1] # Nothing =>
            arrivals[p] # Nothing /\ arrivals[p] < marker'[p + 1]
    <3> SUFFICES ASSUME NEW p \in Stops, p + 1 \in Stops, marker'[p + 1] # Nothing
                 PROVE  arrivals[p] # Nothing /\ arrivals[p] < marker'[p + 1]
      OBVIOUS
    <3>1. CASE p + 1 = e
      <4>1. marker'[p + 1] = task[r].at
        BY <2>1, <2>2, <3>1, RestIsTyped DEF RestTyped
      <4> QED
        BY <2>1, <3>1, <4>1 DEF OrderSound, TimesSound
    <3>2. CASE p + 1 # e
      <4>1. marker'[p + 1] = marker[p + 1]
        BY <2>1, <2>2, <3>2, RestIsTyped DEF RestTyped
      <4> QED
        BY <4>1 DEF TimesSound
    <3> QED
      BY <3>1, <3>2
  <2> QED
    BY <2>2, <2>3, <2>4 DEF TimesSound
<1>6. ASSUME NEW r \in Requests, Create(r)
      PROVE  TimesSound'
  <2> DEFINE e == task[r].expected
  <2>1. e \in Stops /\ task[r].found \in Times /\ pc[r] = "create"
    BY <1>6, Detected DEF Create, Detecting
  <2>2. marker' = marker /\ \A q \in Requests : pc'[q] \in Detecting =>
            /\ pc[q] \in Detecting /\ task'[q] = task[q]
            /\ pc'[q] = "create" => pc[q] = "create"
    BY <1>6, <2>1, TasksAreTyped, AfterAwaits DEF Create, Proceed, TasksTyped, Detecting
  <2>3. CASE arrivals[e] # Nothing
    <3>1. arrivals' = arrivals
      BY <1>6, <2>3 DEF Create
    <3> QED
      BY <2>2, <3>1, TimesStay
  <2>4. CASE arrivals[e] = Nothing
    <3>1. arrivals' = [arrivals EXCEPT ![e] = task[r].found]
      BY <1>6, <2>4 DEF Create
    <3>2. arrivals'[e] = task[r].found /\ \A s \in Stops \ {e} : arrivals'[s] = arrivals[s]
      BY <2>1, <3>1, RestIsTyped DEF RestTyped
    <3>3. \A s \in Stops : e < s => arrivals[s] = Nothing
      BY <2>1, <2>4 DEF OrderSound
    <3>4. \A p \in Stops : p < e => arrivals[p] < task[r].found
      <4> SUFFICES ASSUME NEW p \in Stops, p < e PROVE arrivals[p] < task[r].found
        OBVIOUS
      <4> DEFINE q == e - 1
      <4>1. q \in Stops /\ e = q + 1 /\ (p = q \/ p < q)
        BY <2>1 DEF Stops
      <4>2. arrivals[q] < task[r].found /\ arrivals[q] # Nothing
        BY <2>1, <4>1 DEF TimesSound, OrderSound, Detecting
      <4>3. p < q => arrivals[p] < arrivals[q] /\ arrivals[p] # Nothing
        BY <4>1, <4>2 DEF TimesSound, OrderSound
      <4>4. arrivals[q] \in Nat /\ task[r].found \in Nat /\ (p < q => arrivals[p] \in Nat)
        BY <2>1, <4>1, <4>2, <4>3, RestIsTyped DEF RestTyped, Times
      <4> HIDE DEF q
      <4> QED
        BY <4>1, <4>2, <4>3, <4>4
    <3>5. \A s \in Stops, p \in Stops : arrivals'[s] # Nothing /\ p < s => arrivals'[p] < arrivals'[s]
      <4> SUFFICES ASSUME NEW s \in Stops, NEW p \in Stops, arrivals'[s] # Nothing, p < s
                   PROVE  arrivals'[p] < arrivals'[s]
        OBVIOUS
      <4>1. s # e => p # e
        BY <2>1, <3>2, <3>3
      <4>2. p # s
        BY DEF Stops
      <4> QED
        BY <3>2, <3>4, <4>1, <4>2 DEF TimesSound
    <3>6. \A p \in Stops : p + 1 \in Stops /\ marker[p + 1] # Nothing => p # e
      BY <2>4 DEF TimesSound
    <3>7. \A q \in Requests, p \in Stops : pc[q] \in Detecting /\ task[q].expected = p + 1 => p # e
      BY <2>4 DEF OrderSound
    <3> QED
      BY <2>2, <3>2, <3>5, <3>6, <3>7 DEF TimesSound
  <2> QED
    BY <2>3, <2>4
<1>7. ASSUME NEW r \in Requests, Unmark(r)
      PROVE  TimesSound'
  <2>1. task[r].expected \in Stops
    BY <1>7, Detected DEF Unmark, Detecting
  <2>2. /\ arrivals' = arrivals
        /\ \A s \in Stops : marker'[s] = marker[s] \/ marker'[s] = Nothing
    BY <1>7, <2>1, RestIsTyped DEF Unmark, RestTyped
  <2>3. \A q \in Requests : pc'[q] \in Detecting => q # r /\ pc'[q] = pc[q] /\ task'[q] = task[q]
    BY <1>7, TasksAreTyped, AfterAwaits DEF Unmark, Proceed, TasksTyped, Detecting
  <2> QED
    BY <2>2, <2>3, TimesStay
<1>8. ASSUME NEW r \in Requests, Phase(r)
      PROVE  TimesSound'
  <2>1. /\ arrivals' = arrivals
        /\ \A s \in Stops : marker'[s] = marker[s] \/ marker'[s] = Nothing
    BY <1>8, RestIsTyped DEF Phase, RestTyped
  <2>2. \A q \in Requests : pc'[q] \in Detecting => q # r /\ pc'[q] = pc[q] /\ task'[q] = task[q]
    BY <1>8, TasksAreTyped, AfterAwaits DEF Phase, Proceed, TasksTyped, Detecting
  <2> QED
    BY <2>1, <2>2, TimesStay
<1>9. ASSUME NEW r \in Requests, Promote(r)
      PROVE  TimesSound'
  <2>1. /\ arrivals' = arrivals
        /\ \A s \in Stops : marker'[s] = marker[s] \/ marker'[s] = Nothing
    BY <1>9, RestIsTyped DEF Promote, RestTyped
  <2>2. \A q \in Requests : pc'[q] \in Detecting => q # r /\ pc'[q] = pc[q] /\ task'[q] = task[q]
    BY <1>9, TasksAreTyped, AfterAwaits DEF Promote, Proceed, AfterPromotion, TasksTyped, Detecting
  <2> QED
    BY <2>1, <2>2, TimesStay
<1>10. ASSUME NEW r \in Requests, Start(r)
      PROVE  TimesSound'
  <2>1. /\ arrivals' = arrivals
        /\ \A s \in Stops : marker'[s] = marker[s] \/ marker'[s] = Nothing
    BY <1>10, RestIsTyped DEF Start, RestTyped
  <2>2. \A q \in Requests : pc'[q] \in Detecting => q # r /\ pc'[q] = pc[q] /\ task'[q] = task[q]
    BY <1>10, TasksAreTyped, AfterAwaits DEF Start, Proceed, AfterPromotion, TasksTyped, Detecting
  <2> QED
    BY <2>1, <2>2, TimesStay
<1>11. ASSUME NEW r \in Requests, Fail(r)
      PROVE  TimesSound'
  <2>1. /\ arrivals' = arrivals
        /\ \A s \in Stops : marker'[s] = marker[s] \/ marker'[s] = Nothing
    BY <1>11, RestIsTyped DEF Fail, RestTyped
  <2>2. \A q \in Requests : pc'[q] \in Detecting => q # r /\ pc'[q] = pc[q] /\ task'[q] = task[q]
    BY <1>11, TasksAreTyped, AfterAwaits DEF Fail, Proceed, TasksTyped, Detecting
  <2> QED
    BY <2>1, <2>2, TimesStay
<1>12. CASE TapReads \/ TapStarts \/ Finalize \/ CancelNoShow
  BY <1>12, TimesStay DEF TapReads, TapStarts, Finalize, CancelNoShow
<1>13. ASSUME NEW s \in Stops, Expire(s)
      PROVE  TimesSound'
  <2>1. \A q \in Stops : marker'[q] = marker[q] \/ marker'[q] = Nothing
    BY <1>13, RestIsTyped DEF Expire, RestTyped
  <2> QED
    BY <1>13, <2>1, TimesStay DEF Expire
<1>14. CASE UNCHANGED vars
  BY <1>14, TimesStay DEF vars
<1> QED
  BY <1>1, <1>2, <1>3, <1>4, <1>5, <1>6, <1>7, <1>8, <1>9, <1>10, <1>11, <1>12, <1>13, <1>14 DEF Next

\* What excuses is never forgotten.
LEMMA ExcusesStay ==
    ASSUME TypeOK, [Next]_vars
    PROVE  (late => late') /\ (overtaken => overtaken')
<1> USE RestIsTyped DEF RestTyped, historyVars
<1>1. ASSUME NEW r \in Requests, LatestReads(r)
      PROVE  (late => late') /\ overtaken' = overtaken
  <2>1. PICK e \in Expected : \E b \in BOOLEAN : late' = (late \/ b)
    BY <1>1 DEF LatestReads
  <2> QED
    BY <1>1, <2>1 DEF LatestReads
<1>2. ASSUME NEW r \in Requests, Phase(r)
      PROVE  late' = late /\ (overtaken => overtaken')
  BY <1>2 DEF Phase
<1>3. ASSUME NEW r \in Requests,
             \/ DriverReads(r) \/ GpsReads(r) \/ MarkerReads(r) \/ Mark(r) \/ Create(r)
             \/ Unmark(r) \/ Promote(r) \/ Start(r) \/ Fail(r)
      PROVE  late' = late /\ overtaken' = overtaken
  BY <1>3 DEF DriverReads, GpsReads, MarkerReads, Mark, Create, Unmark, Promote, Start, Fail
<1>4. CASE TapReads \/ TapStarts \/ Finalize \/ CancelNoShow \/ \E s \in Stops : Expire(s)
  BY <1>4 DEF TapReads, TapStarts, Finalize, CancelNoShow, Expire
<1>5. CASE UNCHANGED vars
  BY <1>5 DEF vars
<1> QED
  BY <1>1, <1>2, <1>3, <1>4, <1>5 DEF Next

LEMMA PhaseStep ==
    ASSUME TypeOK, RequestsSound, PhaseSound, ~ overtaken', [Next]_vars
    PROVE  PhaseSound'
<1> USE ProgressConstants DEF historyVars
<1>1. ASSUME NEW r \in Requests, DriverReads(r)
      PROVE  PhaseSound'
  BY <1>1 DEF DriverReads, PhaseSound
<1>2. ASSUME NEW r \in Requests, GpsReads(r)
      PROVE  PhaseSound'
  BY <1>2 DEF GpsReads, PhaseSound
<1>3. ASSUME NEW r \in Requests, LatestReads(r)
      PROVE  PhaseSound'
  BY <1>3 DEF LatestReads, PhaseSound
<1>4. ASSUME NEW r \in Requests, MarkerReads(r)
      PROVE  PhaseSound'
  BY <1>4 DEF MarkerReads, PhaseSound
<1>5. ASSUME NEW r \in Requests, Mark(r)
      PROVE  PhaseSound'
  BY <1>5 DEF Mark, PhaseSound
<1>6. ASSUME NEW r \in Requests, Create(r)
      PROVE  PhaseSound'
  BY <1>6 DEF Create, PhaseSound
<1>7. ASSUME NEW r \in Requests, Unmark(r)
      PROVE  PhaseSound'
  BY <1>7 DEF Unmark, PhaseSound
<1>8. ASSUME NEW r \in Requests, Phase(r)
      PROVE  PhaseSound'
  <2>1. row = task[r].view /\ task[r] \in Tasks /\ row.status = "PRE_TRIP"
    BY <1>8, RestIsTyped, TasksAreTyped, AtWork DEF Phase, RequestsSound, RestTyped
  <2> DEFINE d == Derived(task[r].view, task[r].place, task[r].at)
  <2>2. row' = IF d = [phase |-> row.phase, since |-> row.since] THEN row
               ELSE [row EXCEPT !.phase = d.phase, !.since = d.since]
    BY <1>8, <2>1 DEF Phase
  <2>3. row'.status = row.status /\ row'.since = d.since
    BY <2>2, RestIsTyped DEF RestTyped, Rows
  <2>4. d.since = IF ~ task[r].place.atOrigin THEN Nothing
                  ELSE IF row.since = Nothing THEN task[r].at ELSE row.since
    BY <2>1 DEF Derived
  <2>5. d.since = stay'
    BY <1>8, <2>1, <2>4 DEF Phase, PhaseSound
  <2> QED
    BY <2>1, <2>3, <2>5 DEF PhaseSound
<1>9. ASSUME NEW r \in Requests, Promote(r)
      PROVE  PhaseSound'
  BY <1>9 DEF Promote, PhaseSound
<1>10. ASSUME NEW r \in Requests, Start(r)
      PROVE  PhaseSound'
  BY <1>10 DEF Start, Started, PhaseSound
<1>11. ASSUME NEW r \in Requests, Fail(r)
      PROVE  PhaseSound'
  BY <1>11 DEF Fail, PhaseSound
<1>12. CASE TapReads \/ TapStarts \/ Finalize \/ CancelNoShow
  BY <1>12 DEF TapReads, TapStarts, Finalize, CancelNoShow, Started, PhaseSound, TypeOK, Rows
<1>13. ASSUME NEW s \in Stops, Expire(s)
      PROVE  PhaseSound'
  BY <1>13 DEF Expire, PhaseSound
<1>14. CASE UNCHANGED vars
  BY <1>14 DEF vars, PhaseSound
<1> QED
  BY <1>1, <1>2, <1>3, <1>4, <1>5, <1>6, <1>7, <1>8, <1>9, <1>10, <1>11, <1>12, <1>13, <1>14 DEF Next

LEMMA ProgressStep ==
    ASSUME ProgressInv, [Next]_vars
    PROVE  ProgressInv'
BY ProgressTypes, RequestsStep, OrderStep, ClaimsStep, TimesStep, ExcusesStay, PhaseStep DEF ProgressInv

\* Only the phase update leads on to a promotion, and sets a phase.
LEMMA OnlyPhasePromotes ==
    ASSUME TypeOK, [Next]_vars, NEW r \in Requests, pc[r] = "phase", pc'[r] = "promote"
    PROVE  Phase(r)
<1> USE DEF Proceed
<1>1. pc \in [Requests -> Awaits]
  BY DEF TypeOK
<1>2. ASSUME NEW q \in Requests, q # r,
             \/ DriverReads(q) \/ GpsReads(q) \/ MarkerReads(q) \/ Mark(q) \/ Create(q)
             \/ Unmark(q) \/ LatestReads(q) \/ Phase(q) \/ Promote(q) \/ Start(q) \/ Fail(q)
      PROVE  pc'[r] = pc[r]
  BY <1>1, <1>2 DEF DriverReads, GpsReads, MarkerReads, Mark, Create, Unmark, LatestReads, Phase, Promote, Start, Fail
<1>3. CASE \/ DriverReads(r) \/ GpsReads(r) \/ MarkerReads(r) \/ Mark(r) \/ Create(r)
           \/ Unmark(r) \/ LatestReads(r) \/ Promote(r) \/ Start(r)
  BY <1>3 DEF DriverReads, GpsReads, MarkerReads, Mark, Create, Unmark, LatestReads, Promote, Start
<1>4. CASE Fail(r)
  BY <1>1, <1>4 DEF Fail
<1>5. CASE TapReads \/ TapStarts \/ Finalize \/ CancelNoShow \/ \E s \in Stops : Expire(s)
  BY <1>5 DEF TapReads, TapStarts, Finalize, CancelNoShow, Expire
<1>6. CASE UNCHANGED vars
  BY <1>6 DEF vars
<1> QED
  BY <1>2, <1>3, <1>4, <1>5, <1>6 DEF Next

LEMMA OnlyPhaseParks ==
    ASSUME TypeOK, [Next]_vars, row.phase # "AT_DEPOT", row'.phase = "AT_DEPOT"
    PROVE  \E r \in Requests : Phase(r)
<1> USE ProgressConstants
<1>1. Nothing # "AT_DEPOT"
  BY DEF Phases
<1>2. ASSUME NEW q \in Requests,
             \/ DriverReads(q) \/ GpsReads(q) \/ MarkerReads(q) \/ Mark(q) \/ Create(q)
             \/ Unmark(q) \/ LatestReads(q) \/ Promote(q) \/ Fail(q)
      PROVE  row' = row
  BY <1>2 DEF DriverReads, GpsReads, MarkerReads, Mark, Create, Unmark, LatestReads, Promote, Fail
<1>3. ASSUME NEW q \in Requests, Start(q)
      PROVE  FALSE
  BY <1>1, <1>3 DEF Start, Started
<1>4. CASE TapReads \/ TapStarts \/ Finalize \/ CancelNoShow
  BY <1>1, <1>4, RestIsTyped DEF TapReads, TapStarts, Finalize, CancelNoShow, Started, RestTyped, Rows
<1>5. ASSUME NEW s \in Stops, Expire(s)
      PROVE  row' = row
  BY <1>5 DEF Expire
<1>6. CASE UNCHANGED vars
  BY <1>6 DEF vars
<1> QED
  BY <1>2, <1>3, <1>4, <1>5, <1>6 DEF Next

LEMMA ProgressInvariant == Spec => []ProgressInv
<1>1. Init => ProgressInv
  BY ProgressInit
<1>2. ProgressInv /\ [Next]_vars => ProgressInv'
  BY ProgressStep
<1> QED
  BY <1>1, <1>2, PTL DEF Spec

-----------------------------------------------------------------------------
(* Theorems.                                                                *)

\* Type correctness; between two queries of the detection the stop is known.
THEOREM ProgressIsTyped == Spec => []TypeOK
<1>1. ProgressInv => TypeOK
  BY DEF ProgressInv
<1> QED
  BY <1>1, ProgressInvariant, PTL

\* No stop is recorded before the ones ahead of it.
THEOREM StopsAreRecordedInOrder == Spec => []NoStopSkipped
<1>1. ProgressInv => NoStopSkipped
  BY DEF ProgressInv, OrderSound, NoStopSkipped, Arrived
<1> QED
  BY <1>1, ProgressInvariant, PTL

\* No stop is announced twice, or before it is recorded.
THEOREM StopsAreAnnouncedOnce == Spec => []AnnouncedOnce
<1>1. ProgressInv => AnnouncedOnce
  BY DEF ProgressInv, TypeOK, ClaimsSound, Claims, AnnouncedOnce, Arrived
<1> QED
  BY <1>1, ProgressInvariant, PTL

\* The latest arrival is that of the furthest stop, but for late positions.
THEOREM LatestIsFurthest == Spec => []DetectionGoesOn
<1>1. ProgressInv => DetectionGoesOn
  <2> SUFFICES ASSUME TypeOK, TimesSound, NEW s \in Latest, NEW p \in Arrived
               PROVE  p <= s
    BY DEF ProgressInv, DetectionGoesOn
  <2>1. /\ s \in Stops /\ p \in Stops /\ arrivals[p] <= arrivals[s]
        /\ arrivals[p] # Nothing /\ arrivals[s] # Nothing
    BY DEF Latest, Arrived
  <2>2. arrivals[p] \in Nat /\ arrivals[s] \in Nat
    BY <2>1 DEF TypeOK, Times
  <2>3. s < p => arrivals[s] < arrivals[p]
    BY <2>1 DEF TimesSound
  <2> QED
    BY <2>1, <2>2, <2>3 DEF Stops
<1> QED
  BY <1>1, ProgressInvariant, PTL

\* A running trip has no phase, but for handlers that were overtaken.
THEOREM RunningHasNoPhase == Spec => []PhaseEndsAtStart
<1>1. ProgressInv => PhaseEndsAtStart
  BY DEF ProgressInv, PhaseSound, PhaseEndsAtStart
<1> QED
  BY <1>1, ProgressInvariant, PTL

\* No location starts a trip whose bus did not stay at the origin.
THEOREM NoStartInPassing == Spec => StayedBeforeStart
<1> DEFINE Stayed ==
        \A r \in Requests :
            pc[r] = "phase" /\ pc'[r] = "promote" =>
                overtaken' \/ (stay' # Nothing /\ task[r].at >= stay' + OriginDwell)
<1>1. ProgressInv /\ [Next]_vars => [Stayed]_vars
  <2> SUFFICES ASSUME ProgressInv, [Next]_vars, NEW r \in Requests,
                      pc[r] = "phase", pc'[r] = "promote", ~ overtaken'
               PROVE  stay' # Nothing /\ task[r].at >= stay' + OriginDwell
    OBVIOUS
  <2>1. TypeOK /\ RequestsSound /\ (overtaken \/ PhaseSound)
    BY DEF ProgressInv
  <2>2. Phase(r)
    BY <2>1, OnlyPhasePromotes
  <2>3. row = task[r].view /\ ~ overtaken /\ PhaseSound
    BY <2>1, <2>2, RestIsTyped DEF Phase, RestTyped
  <2>4. row.status = "PRE_TRIP"
    BY <2>1, <2>3 DEF RequestsSound
  <2> DEFINE d == Derived(task[r].view, task[r].place, task[r].at)
  <2>5. ShouldStart(d, task[r].at)
    <3>1. Proceed(r, IF ShouldStart(d, task[r].at) THEN "promote" ELSE "done", task[r])
      BY <2>2 DEF Phase
    <3>2. pc \in [Requests -> Awaits]
      BY <2>1 DEF TypeOK
    <3>3. CASE ~ ShouldStart(d, task[r].at)
      <4>1. pc' = [pc EXCEPT ![r] = "done"]
        BY <3>1, <3>3 DEF Proceed
      <4> QED
        BY <3>2, <4>1
    <3> QED
      BY <3>3
  <2>6. d.since = stay'
    BY <2>2, <2>3, <2>4 DEF Derived, Phase, PhaseSound
  <2> QED
    BY <2>5, <2>6 DEF ShouldStart
<1>2. Spec => [][Stayed]_vars
  BY <1>1, ProgressInvariant, PTL DEF Spec
<1> QED
  BY <1>2 DEF StayedBeforeStart

\* A bus on its way to the origin is not back at the depot, but for handlers
\* that were overtaken.
THEOREM NoWayBackToDepot == Spec => NoBounceBack
<1> DEFINE Sticky ==
        row.phase = "APPROACHING_ORIGIN" /\ row'.phase = "AT_DEPOT" => overtaken'
<1>1. ProgressInv /\ [Next]_vars => [Sticky]_vars
  <2> SUFFICES ASSUME ProgressInv, [Next]_vars, ~ overtaken',
                      row.phase = "APPROACHING_ORIGIN", row'.phase = "AT_DEPOT"
               PROVE  FALSE
    OBVIOUS
  <2>1. TypeOK
    BY DEF ProgressInv
  <2>2. PICK r \in Requests : Phase(r)
    BY <2>1, OnlyPhaseParks
  <2>3. row = task[r].view
    BY <2>2 DEF Phase
  <2> DEFINE d == Derived(task[r].view, task[r].place, task[r].at)
  <2>4. d.phase # "AT_DEPOT"
    BY <2>3 DEF Derived
  <2>5. row' = IF d = [phase |-> row.phase, since |-> row.since] THEN row
               ELSE [row EXCEPT !.phase = d.phase, !.since = d.since]
    BY <2>2, <2>3 DEF Phase
  <2>6. row'.phase \in {row.phase, d.phase}
    BY <2>1, <2>5, RestIsTyped DEF RestTyped, Rows
  <2> QED
    BY <2>4, <2>6
<1>2. Spec => [][Sticky]_vars
  BY <1>1, ProgressInvariant, PTL DEF Spec
<1> QED
  BY <1>2 DEF NoBounceBack

=============================================================================
