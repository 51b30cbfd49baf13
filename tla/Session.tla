------------------------------ MODULE Session ------------------------------
(***************************************************************************)
(* The sessions of one account: login, refresh-token rotation, the ways to *)
(* close sessions, the two ways to replace the password, and the admin who *)
(* approves, rejects, deactivates and reactivates the account.             *)
(*                                                                         *)
(* A handler reads the session or the user in one query and writes in a    *)
(* later one; handlers of the same account interleave in between.  The id  *)
(* of a session is the login that created it; a refresh token and a        *)
(* password are named after the request that made them, First being those  *)
(* from before.  A code for a reset (OneTimeCode) may turn up at any time. *)
(***************************************************************************)
EXTENDS Naturals

CONSTANTS
    Requests,      \* requests about the account, in total
    MaxAdminActs,  \* bound: what admins do, in total
    First,         \* the session, token and password from before
    Nothing        \* no token, nothing read

Sessions == Requests \cup {First}
Tokens == Requests \cup {First}
Passwords == Requests \cup {First}

Credentials == [session : Sessions, token : Tokens \cup {Nothing}]

Acts == {"login", "refresh", "logout", "logoutAll", "logoutOthers", "revokeOne", "change", "reset"}

ASSUME SessionConstants ==
    /\ MaxAdminActs \in Nat
    /\ First \notin Requests /\ Nothing \notin Requests /\ First # Nothing
    /\ Nothing \notin Credentials /\ Nothing \notin Acts

Reasons ==
    {"REFRESH_REUSE_DETECTED", "USER_INACTIVE", "LOGOUT", "LOGOUT_ALL", "LOGOUT_OTHERS",
     "SESSION_REVOKED_BY_USER", "SESSION_REVOKED_BY_ADMIN", "PASSWORD_RESET",
     "PASSWORD_CHANGED_LOGOUT_OTHERS", "USER_DEACTIVATED_BY_ADMIN",
     "PASSENGER_REJECTED_BY_ADMIN"}

VARIABLES
    status,    \* of the session rows: no row, open, or revokedReason
    current,   \* refreshTokenHash
    password,  \* of the user row
    active,    \* isActive
    approval,  \* approvalStatus
    held,      \* refresh tokens that reached the client, with their session
    pc,        \* the await a request is at
    act,       \* what it is
    shown,     \* the session, and for a refresh the token, it identified itself with
    basis,     \* the password it was compared with
    adminActs,
    overtaken, \* history: logins that were past their checks when sessions were closed
    unclosed   \* history: a password was replaced, and its sessions were not closed

rowVars == <<status, current>>
userVars == <<password, active, approval>>
vars == <<status, current, password, active, approval, held,
          pc, act, shown, basis, adminActs, overtaken, unclosed>>

Awaits ==
    {"idle", "create", "rotate", "expel", "reuse", "authed", "write", "others", "all", "done"}

TypeOK ==
    /\ status \in [Sessions -> {"none", "open"} \cup Reasons]
    /\ current \in [Sessions -> Tokens \cup {Nothing}]
    /\ password \in Passwords
    /\ active \in BOOLEAN
    /\ approval \in {"PENDING_APPROVAL", "APPROVED", "REJECTED"}
    /\ held \subseteq [session : Sessions, token : Tokens]
    /\ pc \in [Requests -> Awaits]
    /\ act \in [Requests -> Acts \cup {Nothing}]
    /\ shown \in [Requests -> Credentials \cup {Nothing}]
    /\ basis \in [Requests -> Passwords \cup {Nothing}]
    /\ adminActs \in 0 .. MaxAdminActs
    /\ overtaken \subseteq Requests
    /\ unclosed \in BOOLEAN
    /\ \A s \in Sessions : status[s] # "none" => current[s] # Nothing

Open == {s \in Sessions : status[s] = "open"}

\* An account that has just registered, or one that is logged in somewhere.
Init ==
    /\ password = First
    /\ \/ /\ approval = "PENDING_APPROVAL" /\ active = FALSE
          /\ status = [s \in Sessions |-> "none"]
          /\ current = [s \in Sessions |-> Nothing]
          /\ held = {}
       \/ /\ approval = "APPROVED" /\ active = TRUE
          /\ status = [s \in Sessions |-> IF s = First THEN "open" ELSE "none"]
          /\ current = [s \in Sessions |-> IF s = First THEN First ELSE Nothing]
          /\ held = {[session |-> First, token |-> First]}
    /\ pc = [r \in Requests |-> "idle"]
    /\ act = [r \in Requests |-> Nothing]
    /\ shown = [r \in Requests |-> Nothing]
    /\ basis = [r \in Requests |-> Nothing]
    /\ adminActs = 0 /\ overtaken = {} /\ unclosed = FALSE

-----------------------------------------------------------------------------
(* What handlers have in common.                                            *)

GoTo(r, await) == pc' = [pc EXCEPT ![r] = await]

Begin(r, what, await) ==
    /\ pc[r] = "idle"
    /\ act' = [act EXCEPT ![r] = what]
    /\ GoTo(r, await)

\* sessions that were closed before are closed again
Bug_RevokeClosed(S, why) ==
    /\ status' = [s \in Sessions |-> IF s \in S /\ status[s] # "none" THEN why ELSE status[s]]
    /\ overtaken' = overtaken \cup {r \in S \cap Requests : pc[r] = "create"}
    /\ UNCHANGED <<current, held>>

\* updateMany of the sessions in S that are open; their logins are not looked for.
Revoke(S, why) ==
    /\ status' = [s \in Sessions |-> IF s \in S \cap Open THEN why ELSE status[s]]
    /\ overtaken' = overtaken \cup {r \in S \cap Requests : pc[r] = "create"}
    /\ UNCHANGED <<current, held>>

-----------------------------------------------------------------------------
(* Login and refresh.                                                       *)

\* login: the user is read, and the password compared with what was read.
LoginChecks(r) ==
    /\ approval = "APPROVED" /\ active
    /\ Begin(r, "login", "create")
    /\ basis' = [basis EXCEPT ![r] = password]
    /\ UNCHANGED <<rowVars, userVars, held, shown, adminActs, overtaken, unclosed>>

\* createSessionAndTokens; the answer may be lost.
LoginCreates(r, arrives) ==
    /\ pc[r] = "create"
    /\ status' = [status EXCEPT ![r] = "open"]
    /\ current' = [current EXCEPT ![r] = r]
    /\ held' = IF arrives THEN held \cup {[session |-> r, token |-> r]} ELSE held
    /\ GoTo(r, "done")
    /\ UNCHANGED <<userVars, act, shown, basis, adminActs, overtaken, unclosed>>

\* rotateRefreshToken up to its first write: where the session sends it.
Verdict(h) ==
    CASE status[h.session] # "open"      -> "done"
      [] ~ active                        -> "expel"
      [] h.token # current[h.session]    -> "reuse"
      [] OTHER                           -> "rotate"

RefreshReads(r, h) ==
    /\ h \in held
    /\ Begin(r, "refresh", Verdict(h))
    /\ shown' = [shown EXCEPT ![r] = h]
    /\ UNCHANGED <<rowVars, userVars, held, basis, adminActs, overtaken, unclosed>>

\* the new token is signed before the row is written, and the write is forgotten
Bug_RotateForgets(r, arrives) ==
    /\ pc[r] = "rotate"
    /\ current' = current
    /\ held' = IF arrives THEN held \cup {[session |-> shown[r].session, token |-> r]} ELSE held
    /\ GoTo(r, "done")
    /\ UNCHANGED <<status, userVars, act, shown, basis, adminActs, overtaken, unclosed>>

\* ... its write, by id, whatever became of the session meanwhile.
Rotate(r, arrives) ==
    /\ pc[r] = "rotate"
    /\ current' = [current EXCEPT ![shown[r].session] = r]
    /\ held' = IF arrives THEN held \cup {[session |-> shown[r].session, token |-> r]} ELSE held
    /\ GoTo(r, "done")
    /\ UNCHANGED <<status, userVars, act, shown, basis, adminActs, overtaken, unclosed>>

\* revokeSessionFamily: a family is one session, the server signs no other token.
CloseReused(r) ==
    /\ pc[r] = "reuse"
    /\ Revoke({shown[r].session}, "REFRESH_REUSE_DETECTED")
    /\ GoTo(r, "done")
    /\ UNCHANGED <<userVars, act, shown, basis, adminActs, unclosed>>

CloseInactive(r) ==
    /\ pc[r] = "expel"
    /\ Revoke({shown[r].session}, "USER_INACTIVE")
    /\ GoTo(r, "done")
    /\ UNCHANGED <<userVars, act, shown, basis, adminActs, unclosed>>

-----------------------------------------------------------------------------
(* Requests with an access token.                                           *)

\* requireAuth: after it the handler runs, whatever becomes of the session.
Authenticate(r, s, what) ==
    /\ status[s] = "open" /\ active
    /\ Begin(r, what, "authed")
    /\ shown' = [shown EXCEPT ![r] = [session |-> s, token |-> Nothing]]
    /\ UNCHANGED <<rowVars, userVars, held, basis, adminActs, overtaken, unclosed>>

\* What logout, logoutAll, logoutOthers and revokeOneSession close.
CloseSome(r, what, S, why) ==
    /\ pc[r] = "authed" /\ act[r] = what
    /\ Revoke(S, why)
    /\ GoTo(r, "done")
    /\ UNCHANGED <<userVars, act, shown, basis, adminActs, unclosed>>

Logout(r) ==
    \/ CloseSome(r, "logout", {shown[r].session}, "LOGOUT")
    \/ CloseSome(r, "logoutAll", Sessions, "LOGOUT_ALL")
    \/ CloseSome(r, "logoutOthers", Sessions \ {shown[r].session}, "LOGOUT_OTHERS")
    \/ \E s \in Sessions : CloseSome(r, "revokeOne", {s}, "SESSION_REVOKED_BY_USER")

\* changePassword: the user is read and the password compared ...
ChangeChecks(r) ==
    /\ pc[r] = "authed" /\ act[r] = "change"
    /\ basis' = [basis EXCEPT ![r] = password]
    /\ GoTo(r, "write")
    /\ UNCHANGED <<rowVars, userVars, held, act, shown, adminActs, overtaken, unclosed>>

\* resetPassword: a verified code is found, and the user ...
ResetChecks(r) ==
    /\ Begin(r, "reset", "write")
    /\ UNCHANGED <<rowVars, userVars, held, shown, basis, adminActs, overtaken, unclosed>>

\* the new password is written, and the sessions are left as they are
Bug_SetPasswordLast(r) ==
    /\ pc[r] = "write"
    /\ password' = r
    /\ GoTo(r, "done")
    /\ UNCHANGED <<rowVars, active, approval, held, act, shown, basis, adminActs, overtaken, unclosed>>

\* ... the new password is written, by id ...
SetPassword(r) ==
    /\ pc[r] = "write"
    /\ password' = r
    /\ GoTo(r, IF act[r] = "change" THEN "others" ELSE "all")
    /\ UNCHANGED <<rowVars, active, approval, held, act, shown, basis, adminActs, overtaken, unclosed>>

\* ... and all sessions are closed, but for the one that changes its password.
CloseChanged(r) ==
    \/ /\ pc[r] = "others"
       /\ Revoke(Sessions \ {shown[r].session}, "PASSWORD_CHANGED_LOGOUT_OTHERS")
       /\ GoTo(r, "done")
       /\ UNCHANGED <<userVars, act, shown, basis, adminActs, unclosed>>
    \/ /\ pc[r] = "all"
       /\ Revoke(Sessions, "PASSWORD_RESET")
       /\ GoTo(r, "done")
       /\ UNCHANGED <<userVars, act, shown, basis, adminActs, unclosed>>

\* A query throws, or the server stops.
Fail(r) ==
    /\ pc[r] \notin {"idle", "done"}
    /\ unclosed' = (unclosed \/ pc[r] \in {"others", "all"})
    /\ GoTo(r, "done")
    /\ UNCHANGED <<rowVars, userVars, held, act, shown, basis, adminActs, overtaken>>

-----------------------------------------------------------------------------
(* Admins.                                                                  *)

AdminActs ==
    /\ adminActs < MaxAdminActs
    /\ adminActs' = adminActs + 1
    /\ UNCHANGED <<password, pc, act, shown, basis, unclosed>>

\* updateAdminUserStatusService, a transaction
Deactivate ==
    /\ AdminActs
    /\ active' = FALSE
    /\ Revoke(Sessions, "USER_DEACTIVATED_BY_ADMIN")
    /\ UNCHANGED approval

Activate ==
    /\ AdminActs
    /\ active' = TRUE
    /\ UNCHANGED <<rowVars, approval, held, overtaken>>

Approve ==
    /\ AdminActs
    /\ active' = TRUE /\ approval' = "APPROVED"
    /\ UNCHANGED <<rowVars, held, overtaken>>

\* the sessions of a rejected passenger stay as they are
Bug_RejectOnly ==
    /\ AdminActs
    /\ active' = FALSE /\ approval' = "REJECTED"
    /\ UNCHANGED <<rowVars, held, overtaken>>

\* rejectPassengerService, a transaction
Reject ==
    /\ AdminActs
    /\ active' = FALSE /\ approval' = "REJECTED"
    /\ Revoke(Sessions, "PASSENGER_REJECTED_BY_ADMIN")

AdminRevokes(s) ==
    /\ AdminActs
    /\ Revoke({s}, "SESSION_REVOKED_BY_ADMIN")
    /\ UNCHANGED <<active, approval>>

Request(r) ==
    \/ LoginChecks(r)
    \/ \E arrives \in BOOLEAN : LoginCreates(r, arrives) \/ Rotate(r, arrives)
    \/ \E h \in held : RefreshReads(r, h)
    \/ CloseReused(r) \/ CloseInactive(r)
    \/ \E s \in Sessions, what \in Acts \ {"login", "refresh", "reset"} : Authenticate(r, s, what)
    \/ Logout(r)
    \/ ChangeChecks(r) \/ ResetChecks(r) \/ SetPassword(r) \/ CloseChanged(r)
    \/ Fail(r)

Admin ==
    \/ Deactivate \/ Activate \/ Approve \/ Reject
    \/ \E s \in Sessions : AdminRevokes(s)

Next == (\E r \in Requests : Request(r)) \/ Admin

Spec == Init /\ [][Next]_vars

-----------------------------------------------------------------------------
(* Properties.                                                              *)

\* Nobody is logged out for the reuse of a refresh token unless two requests
\* came with the same one: a client that waits for its answers is safe, however
\* the rotations of rotateRefreshToken interleave with everything else.
ReuseMeansTwice ==
    \A s \in Sessions :
        status[s] = "REFRESH_REUSE_DETECTED" =>
            \E q, r \in Requests :
                /\ q # r
                /\ shown[q] # Nothing /\ shown[q].session = s /\ shown[q].token # Nothing
                /\ shown[r] = shown[q]

\* Sessions that changed the password, and may stay.
Changers == {shown[r].session : r \in {q \in Requests : act[q] = "change"}}

\* The password a session was opened with.
OpenedWith(s) == IF s = First THEN First ELSE basis[s]

\* After changePassword and resetPassword a session that was opened with
\* another password is still open only if a request is about to close it, if it
\* changed the password itself, if its login was already past its checks, or if
\* closing failed.
OldPasswordIsOut ==
    \A s \in Open :
        \/ OpenedWith(s) = password
        \/ \E r \in Requests : pc[r] \in {"others", "all"}
        \/ s \in Changers \cup overtaken
        \/ unclosed

\* A deactivated, rejected or not yet approved account has no open session but
\* those of logins that were past their checks when it was locked out, and that
\* stays so when an admin reactivates a rejected account without approving it.
LockedOutIsOut ==
    (~ active \/ approval # "APPROVED") => Open \subseteq overtaken

\* The session rows do what the holder of a session counts on (SessionPromise):
\* a rotation that was overtaken by a revocation gives nobody access, and a
\* session that was closed stays closed for the same reason.
Promise ==
    INSTANCE SessionPromise
        WITH life <- status,
             good <- [s \in Sessions |-> IF status[s] = "open" THEN current[s] ELSE Nothing]

SessionsAsPromised == Promise!PromiseSpec

=============================================================================
