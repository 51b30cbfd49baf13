----------------------------- MODULE TraccarLink -----------------------------
(***************************************************************************)
(* What the rest of the backend may count on of the connection to Traccar: *)
(* it is in one state at a time, comes back by itself whatever it fails    *)
(* at, and is down for good only after the server was told to stop.        *)
(***************************************************************************)
VARIABLES
    phase,   \* the state of the connection
    stopped  \* the server was told to stop

linkVars == <<phase, stopped>>

Phases == {"waiting",  \* for the next attempt
           "trying",
           "up",
           "closing",  \* failed or told to close, and not yet closed
           "off"}

LinkInit == phase = "trying" /\ ~stopped

\* The next attempt is due unless the stop has come.
Over == phase' = IF stopped THEN "off" ELSE "waiting"

Try == phase = "waiting" /\ phase' = "trying"

GiveUp == phase = "trying" /\ Over

Up == phase = "trying" /\ phase' = "up"

Fail == phase \in {"trying", "up"} /\ phase' = "closing"

Close == phase \in {"up", "closing"} /\ Over

\* An attempt that has no socket yet does not learn of the stop.
Stop ==
    /\ ~stopped /\ stopped'
    /\ \/ phase = "waiting" /\ phase' = "off"
       \/ phase \in {"trying", "up", "closing"} /\ phase' = "closing"
       \/ phase = "trying" /\ UNCHANGED phase

\* Another process takes over.
Renew == phase' = "trying" /\ ~stopped'

LinkNext ==
    \/ (Try \/ GiveUp \/ Up \/ Fail \/ Close) /\ UNCHANGED stopped
    \/ Stop \/ Renew

LinkSpec == LinkInit /\ [][LinkNext]_linkVars

=============================================================================
