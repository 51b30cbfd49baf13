----------------------------- MODULE BusService -----------------------------
(***************************************************************************)
(* What passengers and operators may count on of the trips that a driver,  *)
(* an admin or a GPS packet starts: a trip runs once, on one bus, from its *)
(* start to its end, and a bus serves one of them at a time.  The last     *)
(* holds as long as every start is done before its locks time out.         *)
(***************************************************************************)
CONSTANTS Buses, Trips

VARIABLES
    serving,  \* the running trips of each bus
    over,     \* the trips that have ended
    sound     \* no lock has timed out inside a start

serviceVars == <<serving, over, sound>>

ServiceInit ==
    /\ serving = [b \in Buses |-> {}]
    /\ over = {}
    /\ sound = TRUE

Start(b, t) ==
    /\ t \notin over /\ \A c \in Buses : t \notin serving[c]
    /\ sound => serving[b] = {}
    /\ serving' = [serving EXCEPT ![b] = @ \cup {t}]
    /\ UNCHANGED <<over, sound>>

End(b, t) ==
    /\ t \in serving[b]
    /\ serving' = [serving EXCEPT ![b] = @ \ {t}]
    /\ over' = over \cup {t}
    /\ UNCHANGED sound

TimeOut == sound' = FALSE /\ UNCHANGED <<serving, over>>

ServiceNext ==
    \/ \E b \in Buses, t \in Trips : Start(b, t) \/ End(b, t)
    \/ TimeOut

ServiceSpec == ServiceInit /\ [][ServiceNext]_serviceVars

=============================================================================
