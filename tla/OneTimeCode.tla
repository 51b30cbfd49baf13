---------------------------- MODULE OneTimeCode ----------------------------
(***************************************************************************)
(* The one-time codes that are mailed to one address, for registration and *)
(* for a forgotten password: ask for a code, verify it for a token, spend  *)
(* the token.  Every handler reads a row in one query and writes it by id  *)
(* in a later one.  Beside them an admin creates, approves and deletes the *)
(* account of that address.                                                *)
(*                                                                         *)
(* A code row, a token and an account are named after the request that     *)
(* made them; First is the code, or the account, from before.              *)
(***************************************************************************)
EXTENDS Naturals

CONSTANTS
    Requests,     \* requests about the address, in total
    MaxAttempts,  \* *_OTP_MAX_ATTEMPTS
    Ttl,          \* *_OTP_TTL_MINUTES, in ticks of the clock
    Cooldown,     \* *_OTP_RESEND_COOLDOWN_SECONDS, in ticks
    MaxNow,       \* bound: the clock stops here
    First,        \* the code or the account from before
    Nothing       \* no row, no token

Codes == Requests \cup {First}
Purposes == {"PASSENGER_REGISTRATION", "PASSWORD_RESET"}
Acts == {"ask", "verify", "spend", "create", "delete"}

ASSUME CodeConstants ==
    /\ MaxAttempts \in Nat \ {0} /\ Ttl \in Nat /\ Cooldown \in Nat /\ MaxNow \in Nat
    /\ First \notin Requests /\ Nothing \notin Requests /\ First # Nothing
    /\ Nothing \notin Purposes /\ Nothing \notin Acts

VARIABLES
    now,
    purpose,   \* of the code rows; Nothing where there is no row
    askedAt,   \* requestedAt
    attempts,
    token,     \* verificationTokenHash; with it verifiedAt
    consumed,  \* consumedAt
    account,   \* the user row with the address
    approved,  \* accounts with approvalStatus APPROVED
    deleted,   \* accounts that were deleted
    held,      \* tokens that reached the client
    pc,        \* the await a request is at
    act,       \* what it is
    aim,       \* the purpose it is for
    code,      \* the code row it is about
    whose,     \* the account it is about
    beside,    \* history: requests whose read and write overlapped
    spent      \* history: requests that spent a code

rowVars == <<purpose, askedAt, attempts, token, consumed>>
accountVars == <<account, approved, deleted>>
vars == <<now, rowVars, accountVars, held, pc, act, aim, code, whose, beside, spent>>

\* Awaits after a read that the coming write relies on.
Relying == {"issue", "count", "token", "user", "write"}
Awaits == {"idle", "cooldown", "find", "insert", "remove", "done"} \cup Relying

TypeOK ==
    /\ now \in 0 .. MaxNow
    /\ purpose \in [Codes -> Purposes \cup {Nothing}]
    /\ askedAt \in [Codes -> 0 .. MaxNow]
    /\ attempts \in [Codes -> Nat]
    /\ token \in [Codes -> Requests \cup {Nothing}]
    /\ consumed \in [Codes -> BOOLEAN]
    /\ account \in Codes \cup {Nothing}
    /\ approved \subseteq Codes /\ deleted \subseteq Codes
    /\ held \subseteq Requests
    /\ pc \in [Requests -> Awaits]
    /\ act \in [Requests -> Acts \cup {Nothing}]
    /\ aim \in [Requests -> Purposes \cup {Nothing}]
    /\ code \in [Requests -> Codes \cup {Nothing}]
    /\ whose \in [Requests -> Codes \cup {Nothing}]
    /\ beside \in [Requests -> SUBSET Requests]
    /\ spent \subseteq Requests
    /\ \A c \in Codes : consumed[c] => purpose[c] # Nothing /\ token[c] # Nothing

\* A code was sent a while ago, and there may be an account.
Init ==
    /\ now = 0
    /\ \E p \in Purposes \cup {Nothing} : purpose = [c \in Codes |-> IF c = First THEN p ELSE Nothing]
    /\ askedAt = [c \in Codes |-> 0]
    /\ attempts = [c \in Codes |-> 0]
    /\ token = [c \in Codes |-> Nothing]
    /\ consumed = [c \in Codes |-> FALSE]
    /\ account \in {Nothing, First} /\ approved \in {{}, {First}} /\ deleted = {}
    /\ held = {}
    /\ pc = [r \in Requests |-> "idle"]
    /\ act = [r \in Requests |-> Nothing]
    /\ aim = [r \in Requests |-> Nothing]
    /\ code = [r \in Requests |-> Nothing]
    /\ whose = [r \in Requests |-> Nothing]
    /\ beside = [r \in Requests |-> {}]
    /\ spent = {}

-----------------------------------------------------------------------------
(* What the handlers have in common.                                        *)

Live(p) == {c \in Codes : purpose[c] = p /\ ~ consumed[c]}
Fresh(c) == askedAt[c] + Ttl > now

\* findFirst with orderBy requestedAt desc: of two of the same time, either.
Newest(S) == {c \in S : \A d \in S : askedAt[d] <= askedAt[c]}

GoTo(r, await) == pc' = [pc EXCEPT ![r] = await]

Begin(r, what, p, await) ==
    /\ pc[r] = "idle"
    /\ act' = [act EXCEPT ![r] = what]
    /\ aim' = [aim EXCEPT ![r] = p]
    /\ GoTo(r, await)

\* r has read what its write will rely on.
Overlap(r) ==
    LET others == {q \in Requests \ {r} : pc[q] \in Relying}
    IN  beside' = [q \in Requests |->
                     IF q = r THEN beside[r] \cup others
                     ELSE IF q \in others THEN beside[q] \cup {r} ELSE beside[q]]

-----------------------------------------------------------------------------
(* requestPassengerRegistrationOtp and requestPasswordReset.                *)

\* There must be no account to register, and one to reset.
AskChecks(r, p) ==
    /\ (account = Nothing) <=> (p = "PASSENGER_REGISTRATION")
    /\ Begin(r, "ask", p, "cooldown")
    /\ UNCHANGED <<now, rowVars, accountVars, held, code, whose, beside, spent>>

\* the elapsed time is rounded up
Bug_CooledEarly(p) == \A c \in Live(p) : now + 1 >= askedAt[c] + Cooldown

\* The newest unspent code, whether expired or not, must be old enough.
Cooled(p) == \A c \in Live(p) : now >= askedAt[c] + Cooldown

AskReads(r) ==
    /\ pc[r] = "cooldown"
    /\ Cooled(aim[r])
    /\ askedAt' = [askedAt EXCEPT ![r] = now]
    /\ Overlap(r)
    /\ GoTo(r, "issue")
    /\ UNCHANGED <<now, purpose, attempts, token, consumed, accountVars, held,
                   act, aim, code, whose, spent>>

AskRefused(r) ==
    /\ pc[r] = "cooldown"
    /\ ~ Cooled(aim[r])
    /\ GoTo(r, "done")
    /\ UNCHANGED <<now, rowVars, accountVars, held, act, aim, code, whose, beside, spent>>

AskCreates(r) ==
    /\ pc[r] = "issue"
    /\ purpose' = [purpose EXCEPT ![r] = aim[r]]
    /\ GoTo(r, "done")
    /\ UNCHANGED <<now, askedAt, attempts, token, consumed, accountVars, held,
                   act, aim, code, whose, beside, spent>>

-----------------------------------------------------------------------------
(* verifyPassengerRegistrationOtp and verifyPasswordResetOtp.               *)

\* one guess too many
Bug_GuessableTooLong(c) == attempts[c] <= MaxAttempts

Guessable(c) == attempts[c] < MaxAttempts

VerifyReads(r, p, right) ==
    \E c \in Newest({d \in Live(p) : Fresh(d)}) :
        /\ Guessable(c)
        /\ Begin(r, "verify", p, IF right THEN "token" ELSE "count")
        /\ code' = [code EXCEPT ![r] = c]
        /\ Overlap(r)
        /\ UNCHANGED <<now, rowVars, accountVars, held, whose, spent>>

VerifyCounts(r) ==
    /\ pc[r] = "count"
    /\ attempts' = [attempts EXCEPT ![code[r]] = @ + 1]
    /\ GoTo(r, "done")
    /\ UNCHANGED <<now, purpose, askedAt, token, consumed, accountVars, held,
                   act, aim, code, whose, beside, spent>>

\* The token of an earlier verification is good for nothing from now on; the
\* answer may be lost.
VerifyWrites(r, arrives) ==
    /\ pc[r] = "token"
    /\ token' = [token EXCEPT ![code[r]] = r]
    /\ held' = IF arrives THEN held \cup {r} ELSE held
    /\ GoTo(r, "done")
    /\ UNCHANGED <<now, purpose, askedAt, attempts, consumed, accountVars,
                   act, aim, code, whose, beside, spent>>

-----------------------------------------------------------------------------
(* registerPassenger and resetPassword.                                     *)

RegisterChecks(r) ==
    /\ account = Nothing
    /\ Begin(r, "spend", "PASSENGER_REGISTRATION", "find")
    /\ UNCHANGED <<now, rowVars, accountVars, held, code, whose, beside, spent>>

\* the token is not compared
Bug_RedeemsUnverified(t, p) == {c \in Live(p) : Fresh(c)}

Redeems(t, p) == {c \in Live(p) : Fresh(c) /\ token[c] = t}

Finds(r, t, p, await) ==
    \E c \in Redeems(t, p) :
        /\ t \in held
        /\ code' = [code EXCEPT ![r] = c]
        /\ Overlap(r)
        /\ GoTo(r, await)

RegisterFinds(r, t) ==
    /\ pc[r] = "find"
    /\ Finds(r, t, "PASSENGER_REGISTRATION", "write")
    /\ UNCHANGED <<now, rowVars, accountVars, held, act, aim, whose, spent>>

ResetFinds(r, t) ==
    /\ pc[r] = "idle"
    /\ act' = [act EXCEPT ![r] = "spend"]
    /\ aim' = [aim EXCEPT ![r] = "PASSWORD_RESET"]
    /\ Finds(r, t, "PASSWORD_RESET", "user")
    /\ UNCHANGED <<now, rowVars, accountVars, held, whose, spent>>

ResetFindsUser(r) ==
    /\ pc[r] = "user"
    /\ account # Nothing
    /\ whose' = [whose EXCEPT ![r] = account]
    /\ GoTo(r, "write")
    /\ UNCHANGED <<now, rowVars, accountVars, held, act, aim, code, beside, spent>>

Spends(r) ==
    /\ consumed' = [consumed EXCEPT ![code[r]] = TRUE]
    /\ spent' = spent \cup {r}

\* A transaction; the address of a user is unique.
Register(r) ==
    /\ pc[r] = "write" /\ aim[r] = "PASSENGER_REGISTRATION"
    /\ account = Nothing
    /\ account' = r
    /\ Spends(r)
    /\ GoTo(r, "done")
    /\ UNCHANGED <<now, purpose, askedAt, attempts, token, approved, deleted, held, act, aim, code, whose, beside>>

\* A transaction, by id of the user, whatever his address is now; it throws when
\* he is gone (Fail).
Reset(r) ==
    /\ pc[r] = "write" /\ aim[r] = "PASSWORD_RESET"
    /\ whose[r] \notin deleted
    /\ Spends(r)
    /\ GoTo(r, "done")
    /\ UNCHANGED <<now, purpose, askedAt, attempts, token, accountVars, held,
                   act, aim, code, whose, beside>>

-----------------------------------------------------------------------------
(* Admins, failures, time.                                                  *)

\* createUserService: the address is looked up, then the user is created.
AdminChecks(r) ==
    /\ account = Nothing
    /\ Begin(r, "create", Nothing, "insert")
    /\ UNCHANGED <<now, rowVars, accountVars, held, code, whose, beside, spent>>

AdminCreates(r) ==
    /\ pc[r] = "insert"
    /\ account = Nothing
    /\ account' = r /\ approved' = approved \cup {r}
    /\ GoTo(r, "done")
    /\ UNCHANGED <<now, rowVars, deleted, held, act, aim, code, whose, beside, spent>>

Approve ==
    /\ account # Nothing /\ account \notin approved
    /\ approved' = approved \cup {account}
    /\ UNCHANGED <<now, rowVars, account, deleted, held,
                   pc, act, aim, code, whose, beside, spent>>

\* updateAdminUserService gives the user another address.
Readdress ==
    /\ account # Nothing
    /\ account' = Nothing
    /\ UNCHANGED <<now, rowVars, approved, deleted, held,
                   pc, act, aim, code, whose, beside, spent>>

\* deleteUserService: who is not approved is deleted, by id.
DeleteReads(r) ==
    /\ account # Nothing /\ account \notin approved
    /\ Begin(r, "delete", Nothing, "remove")
    /\ whose' = [whose EXCEPT ![r] = account]
    /\ UNCHANGED <<now, rowVars, accountVars, held, code, beside, spent>>

DeleteWrites(r) ==
    /\ pc[r] = "remove"
    /\ whose[r] \notin deleted
    /\ deleted' = deleted \cup {whose[r]}
    /\ account' = IF account = whose[r] THEN Nothing ELSE account
    /\ GoTo(r, "done")
    /\ UNCHANGED <<now, rowVars, approved, held, act, aim, code, whose, beside, spent>>

\* A query throws or finds nothing, the transaction is rolled back, or the server stops.
Fail(r) ==
    /\ pc[r] \notin {"idle", "done"}
    /\ GoTo(r, "done")
    /\ UNCHANGED <<now, rowVars, accountVars, held, act, aim, code, whose, beside, spent>>

Tick ==
    /\ now < MaxNow
    /\ now' = now + 1
    /\ UNCHANGED <<rowVars, accountVars, held, pc, act, aim, code, whose, beside, spent>>

Request(r) ==
    \/ \E p \in Purposes : AskChecks(r, p)
    \/ AskReads(r) \/ AskRefused(r) \/ AskCreates(r)
    \/ \E p \in Purposes, right \in BOOLEAN : VerifyReads(r, p, right)
    \/ VerifyCounts(r)
    \/ \E arrives \in BOOLEAN : VerifyWrites(r, arrives)
    \/ RegisterChecks(r) \/ Register(r) \/ Reset(r) \/ ResetFindsUser(r)
    \/ \E t \in held : RegisterFinds(r, t) \/ ResetFinds(r, t)
    \/ AdminChecks(r) \/ AdminCreates(r)
    \/ DeleteReads(r) \/ DeleteWrites(r)
    \/ Fail(r)

Next == (\E r \in Requests : Request(r)) \/ Approve \/ Readdress \/ Tick

Spec == Init /\ [][Next]_vars

-----------------------------------------------------------------------------
(* Properties.                                                              *)

\* passwordReset.controller.ts: "issues a single-use verification token", and the
\* same in otp.ts.  Then no two requests reset a password, or register, with one
\* token.  The transactions of resetPassword and registerPassenger spend the code
\* by id and do not look again whether it is still unspent.
SingleUse == \A q, r \in spent : code[q] = code[r] => q = r

\* What the code does keep of that: two requests spend the same code only if each
\* had found it before the other spent it.
SpentTwiceByOverlap ==
    \A q, r \in spent :
        q # r /\ code[q] = code[r] => q \in beside[r]

\* Wrong guesses against one code exceed *_OTP_MAX_ATTEMPTS only where guesses
\* were compared while another one was still to be counted: the read of the
\* attempts and their increment are two queries.
GuessesAreLimited ==
    \A c \in Codes :
        attempts[c] > MaxAttempts =>
            \E q, r \in Requests :
                q # r /\ code[q] = c /\ code[r] = c /\ q \in beside[r]

\* Two codes for one purpose are sent within the cooldown only if one of them
\* has been spent, or if they were asked for at the same time: the read of the
\* latest code and the creation of the next are two queries.
CooldownKept ==
    \A r \in Requests, c \in Codes :
        /\ c # r
        /\ purpose[r] # Nothing /\ purpose[c] = purpose[r]
        /\ askedAt[c] <= askedAt[r] /\ askedAt[r] < askedAt[c] + Cooldown
        => consumed[c] \/ consumed[r] \/ c \in beside[r]

=============================================================================
