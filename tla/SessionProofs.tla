--------------------------- MODULE SessionProofs ---------------------------
(***************************************************************************)
(* Theorems about Session for any number of requests and admin acts.       *)
(***************************************************************************)
EXTENDS Session, TLAPS

-----------------------------------------------------------------------------
(* The inductive invariant.                                                 *)

\* What a request has at the await it is at.
RequestsSound ==
    \A r \in Requests :
        /\ pc[r] = "idle" => shown[r] = Nothing /\ act[r] = Nothing
        /\ pc[r] = "create" => act[r] = "login"
        /\ pc[r] \in {"rotate", "expel", "reuse", "authed", "others"} => shown[r] # Nothing
        /\ pc[r] \in {"rotate", "reuse"} => shown[r].token # Nothing
        /\ pc[r] = "authed" => act[r] \notin {"login", "refresh", "reset"}
        /\ pc[r] = "write" => act[r] \in {"change", "reset"}
        /\ pc[r] = "write" /\ act[r] = "change" => shown[r] # Nothing
        /\ pc[r] = "others" => act[r] = "change"

\* Only a login that has finished has a session, and only a finished request a
\* token that is in use; who identified himself did so with an existing session.
RowsSound ==
    /\ \A r \in Requests : status[r] # "none" => act[r] = "login" /\ pc[r] = "done"
    /\ \A s \in Sessions, r \in Requests : current[s] = r => pc[r] = "done"
    /\ \A r \in Requests : shown[r] # Nothing => status[shown[r].session] # "none"
    /\ \A h \in held : status[h.session] # "none"

\* A request came with this token of this session.
Spent(s, t) == \E q \in Requests : shown[q] = [session |-> s, token |-> t]

\* Two requests came with the same token of this session.
Twice(s) ==
    \E q, r \in Requests :
        /\ q # r
        /\ shown[q] # Nothing /\ shown[q].session = s /\ shown[q].token # Nothing
        /\ shown[r] = shown[q]

\* A client's token is the current one, was used, or some token was used twice;
\* the same holds, more narrowly, for a rotation that has read the session.
TokensSound ==
    /\ \A s \in Sessions, t \in Tokens :
          [session |-> s, token |-> t] \in held => t = current[s] \/ Spent(s, t) \/ Twice(s)
    /\ \A r \in Requests, s \in Sessions :
          pc[r] = "rotate" /\ shown[r].session = s => shown[r].token = current[s] \/ Twice(s)
    /\ \A r \in Requests, s \in Sessions :
          pc[r] = "reuse" /\ shown[r].session = s => Twice(s)

\* What OldPasswordIsOut and LockedOutIsOut say of a session that is still to be created.
Closing == \E r \in Requests : pc[r] \in {"others", "all"}

LoginsSound ==
    \A r \in Requests :
        pc[r] = "create" =>
            /\ basis[r] = password \/ Closing \/ r \in overtaken \/ unclosed
            /\ (active /\ approval = "APPROVED") \/ r \in overtaken

SessionInv ==
    /\ TypeOK
    /\ RequestsSound
    /\ RowsSound
    /\ TokensSound
    /\ LoginsSound
    /\ ReuseMeansTwice
    /\ OldPasswordIsOut
    /\ LockedOutIsOut

-----------------------------------------------------------------------------
(* The invariant is one.                                                    *)

LEMMA SessionInit == Init => SessionInv
<1> SUFFICES ASSUME Init PROVE SessionInv
  OBVIOUS
<1> USE SessionConstants DEF Init, Sessions, Tokens, Passwords
<1>1. TypeOK
  <2>1. /\ status \in [Sessions -> {"none", "open"} \cup Reasons]
        /\ current \in [Sessions -> Tokens \cup {Nothing}]
        /\ \A s \in Sessions : status[s] # "none" => current[s] # Nothing
    OBVIOUS
  <2>2. held \subseteq [session : Sessions, token : Tokens]
    OBVIOUS
  <2>3. active \in BOOLEAN /\ approval \in {"PENDING_APPROVAL", "APPROVED", "REJECTED"}
    OBVIOUS
  <2>4. /\ pc \in [Requests -> Awaits]
        /\ act \in [Requests -> Acts \cup {Nothing}]
        /\ shown \in [Requests -> Credentials \cup {Nothing}]
        /\ basis \in [Requests -> Passwords \cup {Nothing}]
    BY DEF Awaits
  <2>5. adminActs \in 0 .. MaxAdminActs
    OBVIOUS
  <2> QED
    BY <2>1, <2>2, <2>3, <2>4, <2>5, Zenon DEF TypeOK
<1>2. RequestsSound /\ LoginsSound
  BY DEF RequestsSound, LoginsSound
<1>3. RowsSound
  BY DEF RowsSound
<1>4. TokensSound
  BY DEF TokensSound, Spent
<1>5. ReuseMeansTwice
  BY DEF ReuseMeansTwice
<1>6. OldPasswordIsOut /\ LockedOutIsOut
  BY DEF OldPasswordIsOut, LockedOutIsOut, Open, OpenedWith
<1> QED
  BY <1>1, <1>2, <1>3, <1>4, <1>5, <1>6 DEF SessionInv

LEMMA AdminCounts == TypeOK /\ AdminActs => adminActs' \in 0 .. MaxAdminActs
BY SessionConstants DEF TypeOK, AdminActs

LEMMA SessionTypeStep == TypeOK /\ RequestsSound /\ [Next]_vars => TypeOK'
<1> SUFFICES ASSUME TypeOK /\ RequestsSound, [Next]_vars PROVE TypeOK'
  OBVIOUS
<1> USE SessionConstants DEF Sessions, Tokens, Passwords, rowVars, userVars, TypeOK, RequestsSound, Awaits, Acts,
       Credentials, Reasons, Open
<1>1. ASSUME NEW r \in Requests, LoginChecks(r)
      PROVE  TypeOK'
  BY <1>1 DEF LoginChecks, Begin, GoTo
<1>2. ASSUME NEW r \in Requests, NEW arrives \in BOOLEAN, LoginCreates(r, arrives)
      PROVE  TypeOK'
  BY <1>2 DEF LoginCreates, GoTo
<1>3. ASSUME NEW r \in Requests, NEW h \in held, RefreshReads(r, h)
      PROVE  TypeOK'
  BY <1>3 DEF RefreshReads, Begin, GoTo, Verdict
<1>4. ASSUME NEW r \in Requests, NEW arrives \in BOOLEAN, Rotate(r, arrives)
      PROVE  TypeOK'
  BY <1>4 DEF Rotate, GoTo
<1>5. ASSUME NEW r \in Requests, CloseReused(r) \/ CloseInactive(r)
      PROVE  TypeOK'
  BY <1>5 DEF CloseReused, CloseInactive, GoTo, Revoke
<1>6. ASSUME NEW r \in Requests, NEW s \in Sessions,
             NEW what \in Acts \ {"login", "refresh", "reset"}, Authenticate(r, s, what)
      PROVE  TypeOK'
  BY <1>6 DEF Authenticate, Begin, GoTo
<1>7. ASSUME NEW r \in Requests, Logout(r)
      PROVE  TypeOK'
  BY <1>7 DEF Logout, CloseSome, GoTo, Revoke
<1>8. ASSUME NEW r \in Requests, ChangeChecks(r) \/ ResetChecks(r)
      PROVE  TypeOK'
  BY <1>8 DEF ChangeChecks, ResetChecks, Begin, GoTo
<1>9. ASSUME NEW r \in Requests, SetPassword(r)
      PROVE  TypeOK'
  BY <1>9 DEF SetPassword, GoTo
<1>10. ASSUME NEW r \in Requests, CloseChanged(r)
      PROVE  TypeOK'
  BY <1>10 DEF CloseChanged, GoTo, Revoke
<1>11. ASSUME NEW r \in Requests, Fail(r)
      PROVE  TypeOK'
  BY <1>11 DEF Fail, GoTo
<1>12. CASE Deactivate \/ Reject
  <2>1. AdminActs /\ adminActs' \in 0 .. MaxAdminActs
    BY <1>12, AdminCounts DEF Deactivate, Reject
  <2> QED
    <3>1. CASE Deactivate
      BY <3>1, <2>1 DEF Deactivate, AdminActs, Revoke
    <3>2. CASE Reject
      BY <3>2, <2>1 DEF Reject, AdminActs, Revoke
    <3> QED
      BY <1>12, <3>1, <3>2
<1>13. CASE Activate \/ Approve
  <2>1. AdminActs /\ adminActs' \in 0 .. MaxAdminActs
    BY <1>13, AdminCounts DEF Activate, Approve
  <2> QED
    BY <1>13, <2>1 DEF Activate, Approve, AdminActs
<1>14. ASSUME NEW s \in Sessions, AdminRevokes(s)
      PROVE  TypeOK'
  <2>1. AdminActs /\ adminActs' \in 0 .. MaxAdminActs
    BY <1>14, AdminCounts DEF AdminRevokes
  <2> QED
    BY <1>14, <2>1 DEF AdminRevokes, AdminActs, Revoke
<1>15. CASE UNCHANGED vars
  BY <1>15 DEF vars
<1> HIDE DEF TypeOK, RequestsSound, Sessions, Tokens, Passwords, Awaits, Acts, Credentials, Reasons, Open
<1> QED
  BY <1>1, <1>2, <1>3, <1>4, <1>5, <1>6, <1>7, <1>8, <1>9, <1>10, <1>11, <1>12, <1>13, <1>14, <1>15 DEF Next, Request, Admin

LEMMA RequestsStep == TypeOK /\ RequestsSound /\ [Next]_vars => RequestsSound'
<1> SUFFICES ASSUME TypeOK /\ RequestsSound, [Next]_vars PROVE RequestsSound'
  OBVIOUS
<1> USE SessionConstants DEF Sessions, Tokens, Passwords, rowVars, userVars, TypeOK, RequestsSound, Acts,
       Credentials
<1>1. ASSUME NEW r \in Requests, LoginChecks(r)
      PROVE  RequestsSound'
  BY <1>1 DEF LoginChecks, Begin, GoTo
<1>2. ASSUME NEW r \in Requests, NEW arrives \in BOOLEAN, LoginCreates(r, arrives)
      PROVE  RequestsSound'
  BY <1>2 DEF LoginCreates, GoTo
<1>3. ASSUME NEW r \in Requests, NEW h \in held, RefreshReads(r, h)
      PROVE  RequestsSound'
  BY <1>3 DEF RefreshReads, Begin, GoTo, Verdict
<1>4. ASSUME NEW r \in Requests, NEW arrives \in BOOLEAN, Rotate(r, arrives)
      PROVE  RequestsSound'
  BY <1>4 DEF Rotate, GoTo
<1>5. ASSUME NEW r \in Requests, CloseReused(r) \/ CloseInactive(r)
      PROVE  RequestsSound'
  BY <1>5 DEF CloseReused, CloseInactive, GoTo, Revoke
<1>6. ASSUME NEW r \in Requests, NEW s \in Sessions,
             NEW what \in Acts \ {"login", "refresh", "reset"}, Authenticate(r, s, what)
      PROVE  RequestsSound'
  BY <1>6 DEF Authenticate, Begin, GoTo
<1>7. ASSUME NEW r \in Requests, Logout(r)
      PROVE  RequestsSound'
  BY <1>7 DEF Logout, CloseSome, GoTo, Revoke
<1>8. ASSUME NEW r \in Requests, ChangeChecks(r) \/ ResetChecks(r)
      PROVE  RequestsSound'
  BY <1>8 DEF ChangeChecks, ResetChecks, Begin, GoTo
<1>9. ASSUME NEW r \in Requests, SetPassword(r)
      PROVE  RequestsSound'
  BY <1>9 DEF SetPassword, GoTo
<1>10. ASSUME NEW r \in Requests, CloseChanged(r)
      PROVE  RequestsSound'
  BY <1>10 DEF CloseChanged, GoTo, Revoke
<1>11. ASSUME NEW r \in Requests, Fail(r)
      PROVE  RequestsSound'
  BY <1>11 DEF Fail, GoTo
<1>12. CASE Deactivate \/ Reject
  BY <1>12 DEF Deactivate, Reject, AdminActs, Revoke
<1>13. CASE Activate \/ Approve
  BY <1>13 DEF Activate, Approve, AdminActs
<1>14. ASSUME NEW s \in Sessions, AdminRevokes(s)
      PROVE  RequestsSound'
  BY <1>14 DEF AdminRevokes, AdminActs, Revoke
<1>15. CASE UNCHANGED vars
  BY <1>15 DEF vars
<1> QED
  BY <1>1, <1>2, <1>3, <1>4, <1>5, <1>6, <1>7, <1>8, <1>9, <1>10, <1>11, <1>12, <1>13, <1>14, <1>15 DEF Next, Request, Admin

LEMMA RowsStep == TypeOK /\ RequestsSound /\ RowsSound /\ [Next]_vars => RowsSound'
<1> SUFFICES ASSUME TypeOK /\ RequestsSound /\ RowsSound, [Next]_vars PROVE RowsSound'
  OBVIOUS
<1> USE SessionConstants DEF Sessions, Tokens, Passwords, rowVars, userVars, TypeOK, RequestsSound, RowsSound, Acts,
       Credentials, Open
<1>1. ASSUME NEW r \in Requests, LoginChecks(r)
      PROVE  RowsSound'
  BY <1>1 DEF LoginChecks, Begin, GoTo
<1>2. ASSUME NEW r \in Requests, NEW arrives \in BOOLEAN, LoginCreates(r, arrives)
      PROVE  RowsSound'
  BY <1>2 DEF LoginCreates, GoTo
<1>3. ASSUME NEW r \in Requests, NEW h \in held, RefreshReads(r, h)
      PROVE  RowsSound'
  BY <1>3 DEF RefreshReads, Begin, GoTo, Verdict
<1>4. ASSUME NEW r \in Requests, NEW arrives \in BOOLEAN, Rotate(r, arrives)
      PROVE  RowsSound'
  BY <1>4 DEF Rotate, GoTo
<1>5. ASSUME NEW r \in Requests, CloseReused(r) \/ CloseInactive(r)
      PROVE  RowsSound'
  BY <1>5 DEF CloseReused, CloseInactive, GoTo, Revoke
<1>6. ASSUME NEW r \in Requests, NEW s \in Sessions,
             NEW what \in Acts \ {"login", "refresh", "reset"}, Authenticate(r, s, what)
      PROVE  RowsSound'
  BY <1>6 DEF Authenticate, Begin, GoTo
<1>7. ASSUME NEW r \in Requests, Logout(r)
      PROVE  RowsSound'
  BY <1>7 DEF Logout, CloseSome, GoTo, Revoke
<1>8. ASSUME NEW r \in Requests, ChangeChecks(r) \/ ResetChecks(r)
      PROVE  RowsSound'
  BY <1>8 DEF ChangeChecks, ResetChecks, Begin, GoTo
<1>9. ASSUME NEW r \in Requests, SetPassword(r)
      PROVE  RowsSound'
  BY <1>9 DEF SetPassword, GoTo
<1>10. ASSUME NEW r \in Requests, CloseChanged(r)
      PROVE  RowsSound'
  BY <1>10 DEF CloseChanged, GoTo, Revoke
<1>11. ASSUME NEW r \in Requests, Fail(r)
      PROVE  RowsSound'
  BY <1>11 DEF Fail, GoTo
<1>12. CASE Deactivate \/ Reject
  BY <1>12 DEF Deactivate, Reject, AdminActs, Revoke
<1>13. CASE Activate \/ Approve
  BY <1>13 DEF Activate, Approve, AdminActs
<1>14. ASSUME NEW s \in Sessions, AdminRevokes(s)
      PROVE  RowsSound'
  BY <1>14 DEF AdminRevokes, AdminActs, Revoke
<1>15. CASE UNCHANGED vars
  BY <1>15 DEF vars
<1> QED
  BY <1>1, <1>2, <1>3, <1>4, <1>5, <1>6, <1>7, <1>8, <1>9, <1>10, <1>11, <1>12, <1>13, <1>14, <1>15 DEF Next, Request, Admin

LEMMA UsesStay ==
    ASSUME \A q \in Requests : shown[q] # Nothing => shown'[q] = shown[q], SessionConstants
    PROVE  /\ \A s \in Sessions : Twice(s) => Twice(s)'
           /\ \A s \in Sessions, t \in Tokens : Spent(s, t) => Spent(s, t)'
BY DEF Twice, Spent, Credentials

LEMMA TokensStep == TypeOK /\ RequestsSound /\ RowsSound /\ TokensSound /\ [Next]_vars => TokensSound'
<1> SUFFICES ASSUME TypeOK /\ RequestsSound /\ RowsSound /\ TokensSound, [Next]_vars PROVE TokensSound'
  OBVIOUS
<1> USE SessionConstants DEF Sessions, Tokens, Passwords, rowVars, userVars, TypeOK, RequestsSound, RowsSound, Credentials, Acts
<1>1. ASSUME NEW r \in Requests, LoginChecks(r)
      PROVE  TokensSound'
  <2>1. UNCHANGED <<current, held>> /\ (\A q \in Requests : shown[q] # Nothing => shown'[q] = shown[q])
    BY <1>1 DEF LoginChecks, Begin, GoTo
  <2>2. \A q \in Requests : pc'[q] \in {"rotate", "reuse"} => pc'[q] = pc[q] /\ shown'[q] = shown[q]
    BY <1>1 DEF LoginChecks, Begin, GoTo
  <2> QED
    BY <2>1, <2>2, UsesStay DEF TokensSound
<1>2. ASSUME NEW r \in Requests, NEW arrives \in BOOLEAN, LoginCreates(r, arrives)
      PROVE  TokensSound'
  <2>1. /\ current' = [current EXCEPT ![r] = r] /\ UNCHANGED shown
        /\ pc' = [pc EXCEPT ![r] = "done"] /\ status[r] = "none"
        /\ held' \subseteq held \cup {[session |-> r, token |-> r]}
    BY <1>2 DEF LoginCreates, GoTo
  <2>2. \A h \in held : h.session # r
    BY <2>1
  <2>3. \A q \in Requests : pc'[q] \in {"rotate", "reuse"} =>
            pc[q] = pc'[q] /\ shown[q].session # r
    BY <2>1
  <2> QED
    BY <2>1, <2>2, <2>3, UsesStay DEF TokensSound
<1>3. ASSUME NEW r \in Requests, NEW h \in held, RefreshReads(r, h)
      PROVE  TokensSound'
  <2>1. /\ shown' = [shown EXCEPT ![r] = h] /\ pc' = [pc EXCEPT ![r] = Verdict(h)]
        /\ UNCHANGED <<status, current, held>> /\ shown[r] = Nothing
    BY <1>3 DEF RefreshReads, Begin, GoTo
  <2>2. h.session \in Sessions /\ h.token \in Tokens /\ h = [session |-> h.session, token |-> h.token]
    OBVIOUS
  <2>3. \A q \in Requests : shown[q] # Nothing => shown'[q] = shown[q]
    BY <2>1
  <2>4. ASSUME Spent(h.session, h.token) PROVE Twice(h.session)'
    <3>1. PICK q \in Requests : shown[q] = h
      BY <2>2, <2>4 DEF Spent
    <3>2. q # r /\ shown'[q] = h /\ shown'[r] = h /\ h # Nothing /\ h.token # Nothing
      BY <3>1, <2>1, <2>2
    <3> QED
      BY <3>2 DEF Twice
  <2>5. h.token = current[h.session] \/ Twice(h.session)'
    BY <2>2, <2>3, <2>4, UsesStay DEF TokensSound
  <2>6. ASSUME NEW q \in Requests, NEW s \in Sessions, pc'[q] = "rotate", shown'[q].session = s
        PROVE  shown'[q].token = current'[s] \/ Twice(s)'
    BY <2>6, <2>1, <2>3, <2>5, UsesStay DEF Verdict, TokensSound
  <2>7. ASSUME NEW q \in Requests, NEW s \in Sessions, pc'[q] = "reuse", shown'[q].session = s
        PROVE  Twice(s)'
    BY <2>7, <2>1, <2>3, <2>5, UsesStay DEF Verdict, TokensSound
  <2> QED
    BY <2>1, <2>3, <2>6, <2>7, UsesStay DEF TokensSound
<1>4. ASSUME NEW r \in Requests, NEW arrives \in BOOLEAN, Rotate(r, arrives)
      PROVE  TokensSound'
  <2> DEFINE own == shown[r].session
  <2>1. /\ current' = [current EXCEPT ![own] = r]
        /\ pc' = [pc EXCEPT ![r] = "done"] /\ UNCHANGED shown
        /\ held' \subseteq held \cup {[session |-> own, token |-> r]}
        /\ shown[r] \in Credentials /\ shown[r].token # Nothing /\ pc[r] = "rotate"
        /\ own \in Sessions /\ shown[r] # Nothing
        /\ shown[r] = [session |-> own, token |-> shown[r].token]
    BY <1>4 DEF Rotate, GoTo
  <2>2. /\ \A s \in Sessions : Twice(s) => Twice(s)'
        /\ \A s \in Sessions, t \in Tokens : Spent(s, t) => Spent(s, t)'
    BY <2>1, UsesStay
  <2>3. shown[r].token = current[own] \/ Twice(own)
    BY <2>1 DEF TokensSound
  <2>4. shown[r].token = current[own] => Spent(own, current[own])
    BY <2>1 DEF Spent
  <2>5. ASSUME NEW s \in Sessions, NEW t \in Tokens, [session |-> s, token |-> t] \in held'
        PROVE  t = current'[s] \/ Spent(s, t)' \/ Twice(s)'
    <3>1. CASE s = own /\ t = r
      BY <3>1, <2>1
    <3>2. CASE s # own
      BY <3>2, <2>5, <2>1, <2>2 DEF TokensSound
    <3>3. CASE s = own /\ t # r
      BY <3>3, <2>5, <2>1, <2>2, <2>3, <2>4 DEF TokensSound
    <3> QED
      BY <3>1, <3>2, <3>3
  <2>6. ASSUME NEW q \in Requests, NEW s \in Sessions, pc'[q] = "rotate", shown'[q].session = s
        PROVE  shown'[q].token = current'[s] \/ Twice(s)'
    <3>1. q # r /\ pc[q] = "rotate" /\ shown[q] \in Credentials /\ shown[q].token # Nothing
          /\ shown[q].session = s /\ (shown[q].token = current[s] \/ Twice(s))
      BY <2>6, <2>1 DEF TokensSound
    <3>2. CASE s # own \/ Twice(s)
      BY <3>1, <3>2, <2>1, <2>2
    <3>3. CASE s = own /\ ~ Twice(s)
      <4>1. shown[q].token = shown[r].token /\ shown[q].session = shown[r].session
        BY <3>1, <3>3, <2>3
      <4>2. shown[q] = shown[r]
        BY <4>1, <3>1, <2>1
      <4> QED
        BY <4>2, <3>1, <3>3, <2>1 DEF Twice
    <3> QED
      BY <3>2, <3>3
  <2>7. ASSUME NEW q \in Requests, NEW s \in Sessions, pc'[q] = "reuse", shown'[q].session = s
        PROVE  Twice(s)'
    BY <2>7, <2>1, <2>2 DEF TokensSound
  <2> QED
    BY <2>5, <2>6, <2>7 DEF TokensSound
<1>5. ASSUME NEW r \in Requests, CloseReused(r) \/ CloseInactive(r)
      PROVE  TokensSound'
  <2>1. UNCHANGED <<current, held>> /\ (\A q \in Requests : shown[q] # Nothing => shown'[q] = shown[q])
    BY <1>5 DEF CloseReused, CloseInactive, GoTo, Revoke
  <2>2. \A q \in Requests : pc'[q] \in {"rotate", "reuse"} => pc'[q] = pc[q] /\ shown'[q] = shown[q]
    BY <1>5 DEF CloseReused, CloseInactive, GoTo, Revoke
  <2> QED
    BY <2>1, <2>2, UsesStay DEF TokensSound
<1>6. ASSUME NEW r \in Requests, NEW s \in Sessions,
             NEW what \in Acts \ {"login", "refresh", "reset"}, Authenticate(r, s, what)
      PROVE  TokensSound'
  <2>1. UNCHANGED <<current, held>> /\ (\A q \in Requests : shown[q] # Nothing => shown'[q] = shown[q])
    BY <1>6 DEF Authenticate, Begin, GoTo
  <2>2. \A q \in Requests : pc'[q] \in {"rotate", "reuse"} => pc'[q] = pc[q] /\ shown'[q] = shown[q]
    BY <1>6 DEF Authenticate, Begin, GoTo
  <2> QED
    BY <2>1, <2>2, UsesStay DEF TokensSound
<1>7. ASSUME NEW r \in Requests, Logout(r)
      PROVE  TokensSound'
  <2>1. UNCHANGED <<current, held>> /\ (\A q \in Requests : shown[q] # Nothing => shown'[q] = shown[q])
    BY <1>7 DEF Logout, CloseSome, GoTo, Revoke
  <2>2. \A q \in Requests : pc'[q] \in {"rotate", "reuse"} => pc'[q] = pc[q] /\ shown'[q] = shown[q]
    BY <1>7 DEF Logout, CloseSome, GoTo, Revoke
  <2> QED
    BY <2>1, <2>2, UsesStay DEF TokensSound
<1>8. ASSUME NEW r \in Requests, ChangeChecks(r) \/ ResetChecks(r)
      PROVE  TokensSound'
  <2>1. UNCHANGED <<current, held>> /\ (\A q \in Requests : shown[q] # Nothing => shown'[q] = shown[q])
    BY <1>8 DEF ChangeChecks, ResetChecks, Begin, GoTo
  <2>2. \A q \in Requests : pc'[q] \in {"rotate", "reuse"} => pc'[q] = pc[q] /\ shown'[q] = shown[q]
    BY <1>8 DEF ChangeChecks, ResetChecks, Begin, GoTo
  <2> QED
    BY <2>1, <2>2, UsesStay DEF TokensSound
<1>9. ASSUME NEW r \in Requests, SetPassword(r)
      PROVE  TokensSound'
  <2>1. UNCHANGED <<current, held>> /\ (\A q \in Requests : shown[q] # Nothing => shown'[q] = shown[q])
    BY <1>9 DEF SetPassword, GoTo
  <2>2. \A q \in Requests : pc'[q] \in {"rotate", "reuse"} => pc'[q] = pc[q] /\ shown'[q] = shown[q]
    BY <1>9 DEF SetPassword, GoTo
  <2> QED
    BY <2>1, <2>2, UsesStay DEF TokensSound
<1>10. ASSUME NEW r \in Requests, CloseChanged(r)
      PROVE  TokensSound'
  <2>1. UNCHANGED <<current, held>> /\ (\A q \in Requests : shown[q] # Nothing => shown'[q] = shown[q])
    BY <1>10 DEF CloseChanged, GoTo, Revoke
  <2>2. \A q \in Requests : pc'[q] \in {"rotate", "reuse"} => pc'[q] = pc[q] /\ shown'[q] = shown[q]
    BY <1>10 DEF CloseChanged, GoTo, Revoke
  <2> QED
    BY <2>1, <2>2, UsesStay DEF TokensSound
<1>11. ASSUME NEW r \in Requests, Fail(r)
      PROVE  TokensSound'
  <2>1. UNCHANGED <<current, held>> /\ (\A q \in Requests : shown[q] # Nothing => shown'[q] = shown[q])
    BY <1>11 DEF Fail, GoTo
  <2>2. \A q \in Requests : pc'[q] \in {"rotate", "reuse"} => pc'[q] = pc[q] /\ shown'[q] = shown[q]
    BY <1>11 DEF Fail, GoTo
  <2> QED
    BY <2>1, <2>2, UsesStay DEF TokensSound
<1>12. CASE Deactivate \/ Reject
  <2>1. UNCHANGED <<current, held>> /\ (\A q \in Requests : shown[q] # Nothing => shown'[q] = shown[q])
    BY <1>12 DEF Deactivate, Reject, AdminActs, Revoke
  <2>2. \A q \in Requests : pc'[q] \in {"rotate", "reuse"} => pc'[q] = pc[q] /\ shown'[q] = shown[q]
    BY <1>12 DEF Deactivate, Reject, AdminActs, Revoke
  <2> QED
    BY <2>1, <2>2, UsesStay DEF TokensSound
<1>13. CASE Activate \/ Approve
  <2>1. UNCHANGED <<current, held>> /\ (\A q \in Requests : shown[q] # Nothing => shown'[q] = shown[q])
    BY <1>13 DEF Activate, Approve, AdminActs
  <2>2. \A q \in Requests : pc'[q] \in {"rotate", "reuse"} => pc'[q] = pc[q] /\ shown'[q] = shown[q]
    BY <1>13 DEF Activate, Approve, AdminActs
  <2> QED
    BY <2>1, <2>2, UsesStay DEF TokensSound
<1>14. ASSUME NEW s \in Sessions, AdminRevokes(s)
      PROVE  TokensSound'
  <2>1. UNCHANGED <<current, held>> /\ (\A q \in Requests : shown[q] # Nothing => shown'[q] = shown[q])
    BY <1>14 DEF AdminRevokes, AdminActs, Revoke
  <2>2. \A q \in Requests : pc'[q] \in {"rotate", "reuse"} => pc'[q] = pc[q] /\ shown'[q] = shown[q]
    BY <1>14 DEF AdminRevokes, AdminActs, Revoke
  <2> QED
    BY <2>1, <2>2, UsesStay DEF TokensSound
<1>15. CASE UNCHANGED vars
  BY <1>15, UsesStay DEF vars, TokensSound
<1> QED
  BY <1>1, <1>2, <1>3, <1>4, <1>5, <1>6, <1>7, <1>8, <1>9, <1>10, <1>11, <1>12, <1>13, <1>14, <1>15 DEF Next, Request, Admin

LEMMA ReuseStep == TypeOK /\ RequestsSound /\ TokensSound /\ ReuseMeansTwice /\ [Next]_vars => ReuseMeansTwice'
<1> SUFFICES ASSUME TypeOK /\ RequestsSound /\ TokensSound /\ ReuseMeansTwice, [Next]_vars PROVE ReuseMeansTwice'
  OBVIOUS
<1> USE SessionConstants DEF Sessions, Tokens, Passwords, rowVars, userVars, TypeOK, RequestsSound, TokensSound, Twice,
       ReuseMeansTwice, Open, Credentials, Acts
<1>1. ASSUME NEW r \in Requests, LoginChecks(r)
      PROVE  ReuseMeansTwice'
  BY <1>1 DEF LoginChecks, Begin, GoTo
<1>2. ASSUME NEW r \in Requests, NEW arrives \in BOOLEAN, LoginCreates(r, arrives)
      PROVE  ReuseMeansTwice'
  BY <1>2 DEF LoginCreates, GoTo
<1>3. ASSUME NEW r \in Requests, NEW h \in held, RefreshReads(r, h)
      PROVE  ReuseMeansTwice'
  BY <1>3 DEF RefreshReads, Begin, GoTo, Verdict
<1>4. ASSUME NEW r \in Requests, NEW arrives \in BOOLEAN, Rotate(r, arrives)
      PROVE  ReuseMeansTwice'
  BY <1>4 DEF Rotate, GoTo
<1>5. ASSUME NEW r \in Requests, CloseReused(r) \/ CloseInactive(r)
      PROVE  ReuseMeansTwice'
  BY <1>5 DEF CloseReused, CloseInactive, GoTo, Revoke
<1>6. ASSUME NEW r \in Requests, NEW s \in Sessions,
             NEW what \in Acts \ {"login", "refresh", "reset"}, Authenticate(r, s, what)
      PROVE  ReuseMeansTwice'
  BY <1>6 DEF Authenticate, Begin, GoTo
<1>7. ASSUME NEW r \in Requests, Logout(r)
      PROVE  ReuseMeansTwice'
  BY <1>7 DEF Logout, CloseSome, GoTo, Revoke
<1>8. ASSUME NEW r \in Requests, ChangeChecks(r) \/ ResetChecks(r)
      PROVE  ReuseMeansTwice'
  BY <1>8 DEF ChangeChecks, ResetChecks, Begin, GoTo
<1>9. ASSUME NEW r \in Requests, SetPassword(r)
      PROVE  ReuseMeansTwice'
  BY <1>9 DEF SetPassword, GoTo
<1>10. ASSUME NEW r \in Requests, CloseChanged(r)
      PROVE  ReuseMeansTwice'
  BY <1>10 DEF CloseChanged, GoTo, Revoke
<1>11. ASSUME NEW r \in Requests, Fail(r)
      PROVE  ReuseMeansTwice'
  BY <1>11 DEF Fail, GoTo
<1>12. CASE Deactivate \/ Reject
  BY <1>12 DEF Deactivate, Reject, AdminActs, Revoke
<1>13. CASE Activate \/ Approve
  BY <1>13 DEF Activate, Approve, AdminActs
<1>14. ASSUME NEW s \in Sessions, AdminRevokes(s)
      PROVE  ReuseMeansTwice'
  BY <1>14 DEF AdminRevokes, AdminActs, Revoke
<1>15. CASE UNCHANGED vars
  BY <1>15 DEF vars
<1> QED
  BY <1>1, <1>2, <1>3, <1>4, <1>5, <1>6, <1>7, <1>8, <1>9, <1>10, <1>11, <1>12, <1>13, <1>14, <1>15 DEF Next, Request, Admin

LEMMA LoginsStep == TypeOK /\ RequestsSound /\ RowsSound /\ LoginsSound /\ [Next]_vars => LoginsSound'
<1> SUFFICES ASSUME TypeOK /\ RequestsSound /\ RowsSound /\ LoginsSound, [Next]_vars PROVE LoginsSound'
  OBVIOUS
<1> USE SessionConstants DEF Sessions, Tokens, Passwords, rowVars, userVars, TypeOK, RequestsSound, RowsSound, LoginsSound,
       Closing, Credentials, Acts
<1>1. ASSUME NEW r \in Requests, LoginChecks(r)
      PROVE  LoginsSound'
  BY <1>1 DEF LoginChecks, Begin, GoTo
<1>2. ASSUME NEW r \in Requests, NEW arrives \in BOOLEAN, LoginCreates(r, arrives)
      PROVE  LoginsSound'
  BY <1>2 DEF LoginCreates, GoTo
<1>3. ASSUME NEW r \in Requests, NEW h \in held, RefreshReads(r, h)
      PROVE  LoginsSound'
  BY <1>3 DEF RefreshReads, Begin, GoTo, Verdict
<1>4. ASSUME NEW r \in Requests, NEW arrives \in BOOLEAN, Rotate(r, arrives)
      PROVE  LoginsSound'
  BY <1>4 DEF Rotate, GoTo
<1>5. ASSUME NEW r \in Requests, CloseReused(r) \/ CloseInactive(r)
      PROVE  LoginsSound'
  BY <1>5 DEF CloseReused, CloseInactive, GoTo, Revoke
<1>6. ASSUME NEW r \in Requests, NEW s \in Sessions,
             NEW what \in Acts \ {"login", "refresh", "reset"}, Authenticate(r, s, what)
      PROVE  LoginsSound'
  BY <1>6 DEF Authenticate, Begin, GoTo
<1>7. ASSUME NEW r \in Requests, Logout(r)
      PROVE  LoginsSound'
  BY <1>7 DEF Logout, CloseSome, GoTo, Revoke
<1>8. ASSUME NEW r \in Requests, ChangeChecks(r) \/ ResetChecks(r)
      PROVE  LoginsSound'
  BY <1>8 DEF ChangeChecks, ResetChecks, Begin, GoTo
<1>9. ASSUME NEW r \in Requests, SetPassword(r)
      PROVE  LoginsSound'
  BY <1>9 DEF SetPassword, GoTo
<1>10. ASSUME NEW r \in Requests, CloseChanged(r)
      PROVE  LoginsSound'
  BY <1>10 DEF CloseChanged, GoTo, Revoke
<1>11. ASSUME NEW r \in Requests, Fail(r)
      PROVE  LoginsSound'
  BY <1>11 DEF Fail, GoTo
<1>12. CASE Deactivate \/ Reject
  BY <1>12 DEF Deactivate, Reject, AdminActs, Revoke
<1>13. CASE Activate \/ Approve
  BY <1>13 DEF Activate, Approve, AdminActs
<1>14. ASSUME NEW s \in Sessions, AdminRevokes(s)
      PROVE  LoginsSound'
  BY <1>14 DEF AdminRevokes, AdminActs, Revoke
<1>15. CASE UNCHANGED vars
  BY <1>15 DEF vars
<1> QED
  BY <1>1, <1>2, <1>3, <1>4, <1>5, <1>6, <1>7, <1>8, <1>9, <1>10, <1>11, <1>12, <1>13, <1>14, <1>15 DEF Next, Request, Admin

LEMMA OldPasswordStep == TypeOK /\ RequestsSound /\ RowsSound /\ LoginsSound /\ OldPasswordIsOut /\ [Next]_vars => OldPasswordIsOut'
<1> SUFFICES ASSUME TypeOK /\ RequestsSound /\ RowsSound /\ LoginsSound /\ OldPasswordIsOut, [Next]_vars PROVE OldPasswordIsOut'
  OBVIOUS
<1> USE SessionConstants DEF Sessions, Tokens, Passwords, rowVars, userVars, TypeOK, RequestsSound, RowsSound, LoginsSound,
       Credentials, Acts
<1>1. ASSUME NEW r \in Requests, LoginChecks(r)
      PROVE  OldPasswordIsOut'
  <2>1. Open' = Open /\ UNCHANGED <<password, overtaken, unclosed>>
    BY <1>1 DEF LoginChecks, Begin, GoTo, Open
  <2>2. \A s \in Open : OpenedWith(s)' = OpenedWith(s)
    BY <1>1 DEF LoginChecks, Begin, GoTo, Open, OpenedWith
  <2>3. \A q \in Requests : act[q] = "change" => act'[q] = "change" /\ shown'[q] = shown[q]
    BY <1>1 DEF LoginChecks, Begin, GoTo
  <2>4. Closing => Closing'
    BY <1>1 DEF LoginChecks, Begin, GoTo, Closing
  <2>5. Changers \subseteq Changers'
    BY <2>3 DEF Changers
  <2> QED
    BY <2>1, <2>2, <2>4, <2>5 DEF OldPasswordIsOut, Closing
<1>2. ASSUME NEW r \in Requests, NEW arrives \in BOOLEAN, LoginCreates(r, arrives)
      PROVE  OldPasswordIsOut'
  BY <1>2 DEF LoginCreates, GoTo, Closing, OldPasswordIsOut, Open, OpenedWith, Changers
<1>3. ASSUME NEW r \in Requests, NEW h \in held, RefreshReads(r, h)
      PROVE  OldPasswordIsOut'
  <2>1. Open' = Open /\ UNCHANGED <<password, overtaken, unclosed>>
    BY <1>3 DEF RefreshReads, Begin, GoTo, Verdict, Open
  <2>2. \A s \in Open : OpenedWith(s)' = OpenedWith(s)
    BY <1>3 DEF RefreshReads, Begin, GoTo, Verdict, Open, OpenedWith
  <2>3. \A q \in Requests : act[q] = "change" => act'[q] = "change" /\ shown'[q] = shown[q]
    BY <1>3 DEF RefreshReads, Begin, GoTo, Verdict
  <2>4. Closing => Closing'
    BY <1>3 DEF RefreshReads, Begin, GoTo, Verdict, Closing
  <2>5. Changers \subseteq Changers'
    BY <2>3 DEF Changers
  <2> QED
    BY <2>1, <2>2, <2>4, <2>5 DEF OldPasswordIsOut, Closing
<1>4. ASSUME NEW r \in Requests, NEW arrives \in BOOLEAN, Rotate(r, arrives)
      PROVE  OldPasswordIsOut'
  BY <1>4 DEF Rotate, GoTo, Closing, OldPasswordIsOut, Open, OpenedWith, Changers
<1>5. ASSUME NEW r \in Requests, CloseReused(r) \/ CloseInactive(r)
      PROVE  OldPasswordIsOut'
  BY <1>5 DEF CloseReused, CloseInactive, GoTo, Revoke, Closing, OldPasswordIsOut, Open, OpenedWith, Changers
<1>6. ASSUME NEW r \in Requests, NEW s \in Sessions,
             NEW what \in Acts \ {"login", "refresh", "reset"}, Authenticate(r, s, what)
      PROVE  OldPasswordIsOut'
  <2>1. Open' = Open /\ UNCHANGED <<password, overtaken, unclosed>>
    BY <1>6 DEF Authenticate, Begin, GoTo, Open
  <2>2. \A t \in Open : OpenedWith(t)' = OpenedWith(t)
    BY <1>6 DEF Authenticate, Begin, GoTo, Open, OpenedWith
  <2>3. \A q \in Requests : act[q] = "change" => act'[q] = "change" /\ shown'[q] = shown[q]
    BY <1>6 DEF Authenticate, Begin, GoTo
  <2>4. Closing => Closing'
    BY <1>6 DEF Authenticate, Begin, GoTo, Closing
  <2>5. Changers \subseteq Changers'
    BY <2>3 DEF Changers
  <2> QED
    BY <2>1, <2>2, <2>4, <2>5 DEF OldPasswordIsOut, Closing
<1>7. ASSUME NEW r \in Requests, Logout(r)
      PROVE  OldPasswordIsOut'
  BY <1>7 DEF Logout, CloseSome, GoTo, Revoke, Closing, OldPasswordIsOut, Open, OpenedWith, Changers
<1>8. ASSUME NEW r \in Requests, ChangeChecks(r) \/ ResetChecks(r)
      PROVE  OldPasswordIsOut'
  <2>1. Open' = Open /\ UNCHANGED <<password, overtaken, unclosed>>
    BY <1>8 DEF ChangeChecks, ResetChecks, Begin, GoTo, Open
  <2>2. \A s \in Open : OpenedWith(s)' = OpenedWith(s)
    BY <1>8 DEF ChangeChecks, ResetChecks, Begin, GoTo, Open, OpenedWith
  <2>3. \A q \in Requests : act[q] = "change" => act'[q] = "change" /\ shown'[q] = shown[q]
    BY <1>8 DEF ChangeChecks, ResetChecks, Begin, GoTo
  <2>4. Closing => Closing'
    BY <1>8 DEF ChangeChecks, ResetChecks, Begin, GoTo, Closing
  <2>5. Changers \subseteq Changers'
    BY <2>3 DEF Changers
  <2> QED
    BY <2>1, <2>2, <2>4, <2>5 DEF OldPasswordIsOut, Closing
<1>9. ASSUME NEW r \in Requests, SetPassword(r)
      PROVE  OldPasswordIsOut'
  BY <1>9 DEF SetPassword, GoTo, Closing, OldPasswordIsOut, Open, OpenedWith, Changers
<1>10. ASSUME NEW r \in Requests, CloseChanged(r)
      PROVE  OldPasswordIsOut'
  BY <1>10 DEF CloseChanged, GoTo, Revoke, Closing, OldPasswordIsOut, Open, OpenedWith, Changers
<1>11. ASSUME NEW r \in Requests, Fail(r)
      PROVE  OldPasswordIsOut'
  <2>1. Open' = Open /\ (unclosed => unclosed') /\ UNCHANGED <<password, overtaken>>
    BY <1>11 DEF Fail, GoTo, Open
  <2>2. \A s \in Open : OpenedWith(s)' = OpenedWith(s)
    BY <1>11 DEF Fail, GoTo, Open, OpenedWith
  <2>3. \A q \in Requests : act[q] = "change" => act'[q] = "change" /\ shown'[q] = shown[q]
    BY <1>11 DEF Fail, GoTo
  <2>4. Closing => Closing' \/ unclosed'
    BY <1>11 DEF Fail, GoTo, Closing
  <2>5. Changers \subseteq Changers'
    BY <2>3 DEF Changers
  <2> QED
    BY <2>1, <2>2, <2>4, <2>5 DEF OldPasswordIsOut, Closing
<1>12. CASE Deactivate \/ Reject
  BY <1>12 DEF Deactivate, Reject, AdminActs, Revoke, Closing, OldPasswordIsOut, Open, OpenedWith, Changers
<1>13. CASE Activate \/ Approve
  BY <1>13 DEF Activate, Approve, AdminActs, Closing, OldPasswordIsOut, Open, OpenedWith, Changers
<1>14. ASSUME NEW s \in Sessions, AdminRevokes(s)
      PROVE  OldPasswordIsOut'
  BY <1>14 DEF AdminRevokes, AdminActs, Revoke, Closing, OldPasswordIsOut, Open, OpenedWith, Changers
<1>15. CASE UNCHANGED vars
  BY <1>15 DEF vars, Closing, OldPasswordIsOut, Open, OpenedWith, Changers
<1> QED
  BY <1>1, <1>2, <1>3, <1>4, <1>5, <1>6, <1>7, <1>8, <1>9, <1>10, <1>11, <1>12, <1>13, <1>14, <1>15 DEF Next, Request, Admin

LEMMA LockedOutStep == TypeOK /\ LoginsSound /\ LockedOutIsOut /\ [Next]_vars => LockedOutIsOut'
<1> SUFFICES ASSUME TypeOK /\ LoginsSound /\ LockedOutIsOut, [Next]_vars PROVE LockedOutIsOut'
  OBVIOUS
<1> USE SessionConstants DEF Sessions, Tokens, Passwords, rowVars, userVars, TypeOK, LoginsSound, LockedOutIsOut, Open
<1>1. ASSUME NEW r \in Requests, LoginChecks(r)
      PROVE  LockedOutIsOut'
  BY <1>1 DEF LoginChecks, Begin, GoTo
<1>2. ASSUME NEW r \in Requests, NEW arrives \in BOOLEAN, LoginCreates(r, arrives)
      PROVE  LockedOutIsOut'
  BY <1>2 DEF LoginCreates, GoTo
<1>3. ASSUME NEW r \in Requests, NEW h \in held, RefreshReads(r, h)
      PROVE  LockedOutIsOut'
  BY <1>3 DEF RefreshReads, Begin, GoTo, Verdict
<1>4. ASSUME NEW r \in Requests, NEW arrives \in BOOLEAN, Rotate(r, arrives)
      PROVE  LockedOutIsOut'
  BY <1>4 DEF Rotate, GoTo
<1>5. ASSUME NEW r \in Requests, CloseReused(r) \/ CloseInactive(r)
      PROVE  LockedOutIsOut'
  BY <1>5 DEF CloseReused, CloseInactive, GoTo, Revoke
<1>6. ASSUME NEW r \in Requests, NEW s \in Sessions,
             NEW what \in Acts \ {"login", "refresh", "reset"}, Authenticate(r, s, what)
      PROVE  LockedOutIsOut'
  BY <1>6 DEF Authenticate, Begin, GoTo
<1>7. ASSUME NEW r \in Requests, Logout(r)
      PROVE  LockedOutIsOut'
  BY <1>7 DEF Logout, CloseSome, GoTo, Revoke
<1>8. ASSUME NEW r \in Requests, ChangeChecks(r) \/ ResetChecks(r)
      PROVE  LockedOutIsOut'
  BY <1>8 DEF ChangeChecks, ResetChecks, Begin, GoTo
<1>9. ASSUME NEW r \in Requests, SetPassword(r)
      PROVE  LockedOutIsOut'
  BY <1>9 DEF SetPassword, GoTo
<1>10. ASSUME NEW r \in Requests, CloseChanged(r)
      PROVE  LockedOutIsOut'
  BY <1>10 DEF CloseChanged, GoTo, Revoke
<1>11. ASSUME NEW r \in Requests, Fail(r)
      PROVE  LockedOutIsOut'
  BY <1>11 DEF Fail, GoTo
<1>12. CASE Deactivate \/ Reject
  BY <1>12 DEF Deactivate, Reject, AdminActs, Revoke
<1>13. CASE Activate \/ Approve
  BY <1>13 DEF Activate, Approve, AdminActs
<1>14. ASSUME NEW s \in Sessions, AdminRevokes(s)
      PROVE  LockedOutIsOut'
  BY <1>14 DEF AdminRevokes, AdminActs, Revoke
<1>15. CASE UNCHANGED vars
  BY <1>15 DEF vars
<1> QED
  BY <1>1, <1>2, <1>3, <1>4, <1>5, <1>6, <1>7, <1>8, <1>9, <1>10, <1>11, <1>12, <1>13, <1>14, <1>15 DEF Next, Request, Admin

LEMMA SessionStep == SessionInv /\ [Next]_vars => SessionInv'
BY SessionTypeStep, RequestsStep, RowsStep, TokensStep, ReuseStep, LoginsStep, OldPasswordStep,
   LockedOutStep
   DEF SessionInv

LEMMA SessionInvariant == Spec => []SessionInv
<1>1. Init => SessionInv
  BY SessionInit
<1>2. SessionInv /\ [Next]_vars => SessionInv'
  BY SessionStep
<1> QED
  BY <1>1, <1>2, PTL DEF Spec

-----------------------------------------------------------------------------
(* Theorems.                                                                *)

\* Type correctness: every session row has a token hash, every await its data.
THEOREM SessionTypes == Spec => []TypeOK
<1>1. SessionInv => TypeOK
  BY DEF SessionInv
<1> QED
  BY <1>1, SessionInvariant, PTL

\* rotateRefreshToken reports the reuse of a token only where two requests came
\* with one token of that session.
THEOREM SessionReuse == Spec => []ReuseMeansTwice
<1>1. SessionInv => ReuseMeansTwice
  BY DEF SessionInv
<1> QED
  BY <1>1, SessionInvariant, PTL

\* A replaced password leaves open only the sessions that OldPasswordIsOut names.
THEOREM SessionOldPassword == Spec => []OldPasswordIsOut
<1>1. SessionInv => OldPasswordIsOut
  BY DEF SessionInv
<1> QED
  BY <1>1, SessionInvariant, PTL

\* Whoever is locked out by an admin has no session but overtaken logins.
THEOREM SessionLockedOut == Spec => []LockedOutIsOut
<1>1. SessionInv => LockedOutIsOut
  BY DEF SessionInv
<1> QED
  BY <1>1, SessionInvariant, PTL

-----------------------------------------------------------------------------
(* The session rows implement SessionPromise.                               *)

\* The token that is good for a session.
Good == [s \in Sessions |-> IF status[s] = "open" THEN current[s] ELSE Nothing]

\* Closing sessions in a row is Close of those that were open.
LEMMA RevokeCloses ==
    ASSUME TypeOK, NEW S \in SUBSET Sessions, NEW why \in Reasons, Revoke(S, why)
    PROVE  Promise!PromiseNext
<1>1. Open \cap S \in SUBSET Sessions
  BY DEF Open
<1>2. Promise!Close(Open \cap S, why)
  <2>1. \A s \in Open \cap S : status[s] = "open"
    BY DEF Open
  <2>2. status' = [s \in Sessions |-> IF s \in Open \cap S THEN why ELSE status[s]]
    BY DEF Revoke
  <2>3. why # "open"
    BY DEF Reasons
  <2>4. Good' = [s \in Sessions |-> IF s \in Open \cap S THEN Nothing ELSE Good[s]]
    BY <2>2, <2>3 DEF Good, Revoke, TypeOK
  <2> QED
    BY <2>1, <2>2, <2>4 DEF Promise!Close, Good
<1> QED
  BY <1>1, <1>2 DEF Promise!PromiseNext

LEMMA RefineStep == SessionInv /\ [Next]_vars => [Promise!PromiseNext]_(Promise!promiseVars)
<1> SUFFICES ASSUME TypeOK, RequestsSound, RowsSound, [Next]_vars
             PROVE  [Promise!PromiseNext]_(Promise!promiseVars)
  BY DEF SessionInv
<1> USE SessionConstants DEF Sessions, Tokens
<1>s. ASSUME UNCHANGED rowVars PROVE UNCHANGED Promise!promiseVars
  BY <1>s DEF rowVars, Promise!promiseVars
<1>1. ASSUME NEW r \in Requests, NEW arrives \in BOOLEAN, LoginCreates(r, arrives)
      PROVE  Promise!PromiseNext
  <2>1. status[r] = "none"
    BY <1>1 DEF LoginCreates, RowsSound
  <2>2. /\ status' = [status EXCEPT ![r] = "open"]
        /\ current' = [current EXCEPT ![r] = r]
    BY <1>1 DEF LoginCreates
  <2>3. Good' = [Good EXCEPT ![r] = r]
    BY <2>1, <2>2 DEF Good, TypeOK
  <2>4. Promise!Start(r, r)
    BY <2>1, <2>2, <2>3 DEF Promise!Start, Good
  <2> QED
    BY <2>4 DEF Promise!PromiseNext
<1>2. ASSUME NEW r \in Requests, NEW arrives \in BOOLEAN, Rotate(r, arrives)
      PROVE  [Promise!PromiseNext]_(Promise!promiseVars)
  <2> DEFINE own == shown[r].session
  <2>1. /\ own \in Sessions /\ UNCHANGED status
        /\ current' = [current EXCEPT ![own] = r]
        /\ current[own] # r
    BY <1>2 DEF Rotate, RowsSound, RequestsSound, TypeOK, Credentials
  <2>2. CASE status[own] = "open"
    <3>1. Good' = [Good EXCEPT ![own] = r] /\ Good[own] # r
      BY <2>1, <2>2 DEF Good, TypeOK
    <3>2. Promise!Renew(own, r)
      BY <2>1, <2>2, <3>1 DEF Promise!Renew, Good
    <3> QED
      BY <2>1, <3>2 DEF Promise!PromiseNext
  <2>3. CASE status[own] # "open"
    <3>1. UNCHANGED Good
      BY <2>1, <2>3 DEF Good, TypeOK
    <3> QED
      BY <2>1, <3>1 DEF Good, Promise!promiseVars
  <2> QED
    BY <2>2, <2>3
<1>3. ASSUME NEW r \in Requests,
             CloseReused(r) \/ CloseInactive(r) \/ Logout(r) \/ CloseChanged(r)
      PROVE  Promise!PromiseNext
  <2>1. shown[r] # Nothing \/ pc[r] = "all" => shown[r].session \in Sessions \/ pc[r] = "all"
    BY DEF TypeOK, Credentials
  <2>2. PICK S \in SUBSET Sessions, why \in Reasons : Revoke(S, why)
    <3>1. CASE CloseReused(r) \/ CloseInactive(r)
      BY <3>1, <2>1 DEF CloseReused, CloseInactive, RequestsSound, Reasons
    <3>2. CASE Logout(r)
      BY <3>2, <2>1 DEF Logout, CloseSome, RequestsSound, Reasons
    <3>3. CASE CloseChanged(r)
      BY <3>3, <2>1 DEF CloseChanged, RequestsSound, Reasons
    <3> QED
      BY <1>3, <3>1, <3>2, <3>3
  <2> QED
    BY <2>2, RevokeCloses
<1>4. CASE Deactivate \/ Reject \/ \E s \in Sessions : AdminRevokes(s)
  <2>1. PICK S \in SUBSET Sessions, why \in Reasons : Revoke(S, why)
    BY <1>4 DEF Deactivate, Reject, AdminRevokes, Reasons
  <2> QED
    BY <2>1, RevokeCloses
<1>5. CASE Activate \/ Approve
  BY <1>5, <1>s DEF Activate, Approve
<1>6. ASSUME NEW r \in Requests,
             \/ LoginChecks(r) \/ ChangeChecks(r) \/ ResetChecks(r) \/ SetPassword(r) \/ Fail(r)
             \/ \E h \in held : RefreshReads(r, h)
             \/ \E s \in Sessions, what \in Acts \ {"login", "refresh", "reset"} :
                    Authenticate(r, s, what)
      PROVE  UNCHANGED rowVars
  BY <1>6 DEF LoginChecks, ChangeChecks, ResetChecks, SetPassword, Fail, RefreshReads, Authenticate
<1>7. CASE UNCHANGED vars
  BY <1>7, <1>s DEF vars, rowVars
<1> QED
  BY <1>1, <1>2, <1>3, <1>4, <1>5, <1>6, <1>s, <1>7 DEF Next, Request, Admin

\* Whatever requests and admins interleave, the session rows do what
\* SessionPromise says: a session that was closed stays closed.
THEOREM SessionsKeepPromise == Spec => SessionsAsPromised
<1>1. Init => Promise!PromiseInit
  BY SessionConstants DEF Init, Promise!PromiseInit, Sessions, Tokens
<1>2. SessionInv /\ [Next]_vars => [Promise!PromiseNext]_(Promise!promiseVars)
  BY RefineStep
<1> QED
  BY <1>1, <1>2, SessionInvariant, PTL DEF Spec, SessionsAsPromised, Promise!PromiseSpec

=============================================================================
