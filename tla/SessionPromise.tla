--------------------------- MODULE SessionPromise ---------------------------
(***************************************************************************)
(* What the holder of a session may count on, whatever requests and admins *)
(* do at the same time: a session starts once, while it is open exactly    *)
(* one refresh token is good for it, each renewal replaces that token, and *)
(* once it is closed it stays closed, for the reason it was closed for.    *)
(***************************************************************************)
CONSTANTS
    Sessions,  \* ids of sessions
    Tokens,    \* ids of refresh tokens
    Reasons,   \* revokedReason
    Nothing    \* no token

VARIABLES
    life,  \* of each session: "none", "open", or the reason it was closed for
    good   \* the refresh token that is good for it

promiseVars == <<life, good>>

PromiseInit ==
    /\ life \in [Sessions -> {"none", "open"}]
    /\ good \in [Sessions -> Tokens \cup {Nothing}]
    /\ \A s \in Sessions : good[s] # Nothing <=> life[s] = "open"

Start(s, t) ==
    /\ life[s] = "none"
    /\ life' = [life EXCEPT ![s] = "open"]
    /\ good' = [good EXCEPT ![s] = t]

Renew(s, t) ==
    /\ life[s] = "open"
    /\ t # good[s]
    /\ good' = [good EXCEPT ![s] = t]
    /\ UNCHANGED life

\* Some of the open sessions are closed at once.
Close(S, why) ==
    /\ \A s \in S : life[s] = "open"
    /\ life' = [s \in Sessions |-> IF s \in S THEN why ELSE life[s]]
    /\ good' = [s \in Sessions |-> IF s \in S THEN Nothing ELSE good[s]]

PromiseNext ==
    \/ \E s \in Sessions, t \in Tokens : Start(s, t) \/ Renew(s, t)
    \/ \E S \in SUBSET Sessions, why \in Reasons : Close(S, why)

PromiseSpec == PromiseInit /\ [][PromiseNext]_promiseVars

=============================================================================
