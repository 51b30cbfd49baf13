------------------------- MODULE OneTimeCodeProofs -------------------------
(***************************************************************************)
(* Theorems about OneTimeCode for any number of requests, any limits and   *)
(* any times.                                                              *)
(***************************************************************************)
EXTENDS OneTimeCode, TLAPS

-----------------------------------------------------------------------------
(* The inductive invariant.                                                 *)

\* What a request and the row named after it have in common with its await.
RequestsSound ==
    \A r \in Requests :
        /\ pc[r] \in {"idle", "cooldown", "issue", "find", "insert", "remove"} => code[r] = Nothing
        /\ pc[r] \in {"cooldown", "issue"} => aim[r] \in Purposes
        /\ pc[r] = "find" => aim[r] = "PASSENGER_REGISTRATION"
        /\ pc[r] \in {"count", "token", "user", "write"} =>
              code[r] \in Codes /\ purpose[code[r]] # Nothing
        /\ pc[r] \in {"user", "write"} => token[code[r]] # Nothing
        /\ pc[r] = "remove" \/ (pc[r] = "write" /\ aim[r] = "PASSWORD_RESET") => whose[r] \in Codes
        /\ purpose[r] # Nothing => pc[r] = "done"
        /\ r \in spent => pc[r] = "done" /\ code[r] \in Codes /\ consumed[code[r]]

\* Requests that rely on what they read know of each other.
BesideSound ==
    \A q, r \in Requests :
        /\ q \in beside[r] => r \in beside[q]
        /\ q # r /\ pc[q] \in Relying /\ pc[r] \in Relying => q \in beside[r]

\* Whoever is about to spend a code knows of all who have spent it.
SpendersSound ==
    \A q \in spent, r \in Requests :
        pc[r] \in {"user", "write"} /\ code[q] = code[r] => q \in beside[r]

\* A guess that is still to be counted beyond the limit was not alone.
Crowded(c) ==
    \E q, r \in Requests :
        q # r /\ code[q] = c /\ code[r] = c /\ q \in beside[r]

GuessesSound ==
    \A r \in Requests, c \in Codes :
        pc[r] = "count" /\ code[r] = c /\ attempts[c] >= MaxAttempts => Crowded(c)

\* Two codes were asked for within the cooldown; unlike CooldownKept this does
\* not say which was first, and speaks of codes that are still to be created.
Near(c, r) == askedAt[c] < askedAt[r] + Cooldown /\ askedAt[r] < askedAt[c] + Cooldown

CodesSound ==
    \A r \in Requests, c \in Codes :
        /\ c # r /\ purpose[c] # Nothing /\ Near(c, r)
        /\ purpose[r] = purpose[c] \/ (pc[r] = "issue" /\ aim[r] = purpose[c])
        => consumed[c] \/ consumed[r] \/ c \in beside[r]

CodeInv ==
    /\ TypeOK
    /\ RequestsSound
    /\ BesideSound
    /\ SpendersSound
    /\ SpentTwiceByOverlap
    /\ GuessesSound
    /\ GuessesAreLimited
    /\ CodesSound

-----------------------------------------------------------------------------
(* The invariant is one.                                                    *)

LEMMA CodeInit == Init => CodeInv
<1> SUFFICES ASSUME Init PROVE CodeInv
  OBVIOUS
<1> USE CodeConstants DEF Init, Codes
<1>1. TypeOK
  <2>1. /\ now \in 0 .. MaxNow /\ askedAt \in [Codes -> 0 .. MaxNow] /\ attempts \in [Codes -> Nat]
        /\ purpose \in [Codes -> Purposes \cup {Nothing}] /\ consumed \in [Codes -> BOOLEAN]
        /\ token \in [Codes -> Requests \cup {Nothing}]
        /\ \A c \in Codes : ~ consumed[c]
    OBVIOUS
  <2>2. /\ account \in Codes \cup {Nothing} /\ held \subseteq Requests /\ spent \subseteq Requests
        /\ approved \subseteq Codes /\ deleted \subseteq Codes
    OBVIOUS
  <2>3. /\ pc \in [Requests -> Awaits]
        /\ act \in [Requests -> Acts \cup {Nothing}] /\ aim \in [Requests -> Purposes \cup {Nothing}]
        /\ code \in [Requests -> Codes \cup {Nothing}] /\ whose \in [Requests -> Codes \cup {Nothing}]
        /\ beside \in [Requests -> SUBSET Requests]
    BY DEF Awaits
  <2> QED
    BY <2>1, <2>2, <2>3 DEF TypeOK
<1>2. RequestsSound /\ BesideSound
  BY DEF RequestsSound, BesideSound, Relying
<1>3. SpendersSound /\ SpentTwiceByOverlap
  BY DEF SpendersSound, SpentTwiceByOverlap
<1>4. GuessesSound /\ GuessesAreLimited
  BY DEF GuessesSound, GuessesAreLimited
<1>5. CodesSound
  BY DEF CodesSound
<1> QED
  BY <1>1, <1>2, <1>3, <1>4, <1>5 DEF CodeInv

\* Overlap only adds pairs, both ways round, and all that are due.
LEMMA OverlapAdds ==
    ASSUME TypeOK, BesideSound, NEW r \in Requests, Overlap(r)
    PROVE  /\ beside' \in [Requests -> SUBSET Requests]
           /\ \A q \in Requests : beside[q] \subseteq beside'[q]
           /\ \A p, q \in Requests : p \in beside'[q] => q \in beside'[p]
           /\ \A q \in Requests \ {r} : pc[q] \in Relying => q \in beside'[r] /\ r \in beside'[q]
BY DEF TypeOK, BesideSound, Overlap

LEMMA CodeTypes ==
    ASSUME TypeOK, RequestsSound, BesideSound, [Next]_vars
    PROVE  TypeOK'
<1> USE CodeConstants DEF Codes, rowVars, accountVars, TypeOK, RequestsSound, Awaits, Relying, Purposes, Acts, Live, Redeems, Newest
<1>1. ASSUME NEW r \in Requests, NEW p \in Purposes, AskChecks(r, p)
      PROVE  TypeOK'
  BY <1>1 DEF AskChecks, Begin, GoTo
<1>2. ASSUME NEW r \in Requests, AskReads(r)
      PROVE  TypeOK'
  BY <1>2, OverlapAdds DEF AskReads, GoTo
<1>3. ASSUME NEW r \in Requests, AskRefused(r)
      PROVE  TypeOK'
  BY <1>3 DEF AskRefused, GoTo
<1>4. ASSUME NEW r \in Requests, AskCreates(r)
      PROVE  TypeOK'
  BY <1>4 DEF AskCreates, GoTo
<1>5. ASSUME NEW r \in Requests, NEW p \in Purposes, NEW right \in BOOLEAN, VerifyReads(r, p, right)
      PROVE  TypeOK'
  BY <1>5, OverlapAdds DEF VerifyReads, Begin, GoTo
<1>6. ASSUME NEW r \in Requests, VerifyCounts(r)
      PROVE  TypeOK'
  BY <1>6 DEF VerifyCounts, GoTo
<1>7. ASSUME NEW r \in Requests, NEW arrives \in BOOLEAN, VerifyWrites(r, arrives)
      PROVE  TypeOK'
  BY <1>7 DEF VerifyWrites, GoTo
<1>8. ASSUME NEW r \in Requests, RegisterChecks(r)
      PROVE  TypeOK'
  BY <1>8 DEF RegisterChecks, Begin, GoTo
<1>9. ASSUME NEW r \in Requests, NEW t \in held, RegisterFinds(r, t)
      PROVE  TypeOK'
  BY <1>9, OverlapAdds DEF RegisterFinds, Finds, GoTo
<1>10. ASSUME NEW r \in Requests, NEW t \in held, ResetFinds(r, t)
      PROVE  TypeOK'
  BY <1>10, OverlapAdds DEF ResetFinds, Finds, GoTo
<1>11. ASSUME NEW r \in Requests, ResetFindsUser(r)
      PROVE  TypeOK'
  BY <1>11 DEF ResetFindsUser, GoTo
<1>12. ASSUME NEW r \in Requests, Register(r)
      PROVE  TypeOK'
  BY <1>12 DEF Register, Spends, GoTo
<1>13. ASSUME NEW r \in Requests, Reset(r)
      PROVE  TypeOK'
  BY <1>13 DEF Reset, Spends, GoTo
<1>14. ASSUME NEW r \in Requests, AdminChecks(r)
      PROVE  TypeOK'
  BY <1>14 DEF AdminChecks, Begin, GoTo
<1>15. ASSUME NEW r \in Requests, AdminCreates(r)
      PROVE  TypeOK'
  BY <1>15 DEF AdminCreates, GoTo
<1>16. ASSUME NEW r \in Requests, DeleteReads(r)
      PROVE  TypeOK'
  BY <1>16 DEF DeleteReads, Begin, GoTo
<1>17. ASSUME NEW r \in Requests, DeleteWrites(r)
      PROVE  TypeOK'
  <2> HIDE DEF Codes
  <2>0. whose[r] \in Codes
    BY <1>17 DEF DeleteWrites
  <2>1. account' \in Codes \cup {Nothing} /\ deleted' \subseteq Codes
    BY <1>17, <2>0 DEF DeleteWrites
  <2>2. pc' \in [Requests -> Awaits]
    BY <1>17 DEF DeleteWrites, GoTo
  <2> QED
    BY <1>17, <2>1, <2>2 DEF DeleteWrites
<1>18. ASSUME NEW r \in Requests, Fail(r)
      PROVE  TypeOK'
  BY <1>18 DEF Fail, GoTo
<1>19. CASE Approve \/ Readdress
  BY <1>19 DEF Approve, Readdress
<1>20. CASE Tick
  BY <1>20 DEF Tick
<1>21. CASE UNCHANGED vars
  BY <1>21 DEF vars
<1> HIDE DEF TypeOK, RequestsSound, BesideSound, Codes, Awaits, Relying, Purposes, Acts, Live, Redeems, Newest
<1> QED
  BY <1>1, <1>2, <1>3, <1>4, <1>5, <1>6, <1>7, <1>8, <1>9, <1>10, <1>11, <1>12, <1>13, <1>14, <1>15, <1>16, <1>17, <1>18, <1>19, <1>20, <1>21 DEF Next, Request

LEMMA RequestsStep ==
    ASSUME TypeOK, RequestsSound, [Next]_vars
    PROVE  RequestsSound'
<1> USE CodeConstants DEF Codes, rowVars, accountVars, TypeOK, RequestsSound, Purposes, Live, Redeems, Newest
<1>1. ASSUME NEW r \in Requests, NEW p \in Purposes, AskChecks(r, p)
      PROVE  RequestsSound'
  BY <1>1 DEF AskChecks, Begin, GoTo
<1>2. ASSUME NEW r \in Requests, AskReads(r)
      PROVE  RequestsSound'
  BY <1>2 DEF AskReads, GoTo
<1>3. ASSUME NEW r \in Requests, AskRefused(r)
      PROVE  RequestsSound'
  BY <1>3 DEF AskRefused, GoTo
<1>4. ASSUME NEW r \in Requests, AskCreates(r)
      PROVE  RequestsSound'
  BY <1>4 DEF AskCreates, GoTo
<1>5. ASSUME NEW r \in Requests, NEW p \in Purposes, NEW right \in BOOLEAN, VerifyReads(r, p, right)
      PROVE  RequestsSound'
  BY <1>5 DEF VerifyReads, Begin, GoTo
<1>6. ASSUME NEW r \in Requests, VerifyCounts(r)
      PROVE  RequestsSound'
  BY <1>6 DEF VerifyCounts, GoTo
<1>7. ASSUME NEW r \in Requests, NEW arrives \in BOOLEAN, VerifyWrites(r, arrives)
      PROVE  RequestsSound'
  BY <1>7 DEF VerifyWrites, GoTo
<1>8. ASSUME NEW r \in Requests, RegisterChecks(r)
      PROVE  RequestsSound'
  BY <1>8 DEF RegisterChecks, Begin, GoTo
<1>9. ASSUME NEW r \in Requests, NEW t \in held, RegisterFinds(r, t)
      PROVE  RequestsSound'
  <2>1. PICK c \in Redeems(t, "PASSENGER_REGISTRATION") :
            code' = [code EXCEPT ![r] = c] /\ pc' = [pc EXCEPT ![r] = "write"]
    BY <1>9 DEF RegisterFinds, Finds, GoTo
  <2>2. c \in Codes /\ purpose[c] # Nothing /\ token[c] = t /\ t # Nothing
    OBVIOUS
  <2>3. pc[r] = "find" /\ UNCHANGED <<purpose, token, consumed, aim, whose, spent>>
    BY <1>9 DEF RegisterFinds
  <2>4. r \notin spent /\ purpose[r] = Nothing
    BY <2>3
  <2>5. aim[r] = "PASSENGER_REGISTRATION"
    BY <2>3
  <2> QED
    BY <2>1, <2>2, <2>3, <2>4, <2>5
<1>10. ASSUME NEW r \in Requests, NEW t \in held, ResetFinds(r, t)
      PROVE  RequestsSound'
  BY <1>10 DEF ResetFinds, Finds, GoTo
<1>11. ASSUME NEW r \in Requests, ResetFindsUser(r)
      PROVE  RequestsSound'
  BY <1>11 DEF ResetFindsUser, GoTo
<1>12. ASSUME NEW r \in Requests, Register(r)
      PROVE  RequestsSound'
  BY <1>12 DEF Register, Spends, GoTo
<1>13. ASSUME NEW r \in Requests, Reset(r)
      PROVE  RequestsSound'
  BY <1>13 DEF Reset, Spends, GoTo
<1>14. ASSUME NEW r \in Requests, AdminChecks(r)
      PROVE  RequestsSound'
  BY <1>14 DEF AdminChecks, Begin, GoTo
<1>15. ASSUME NEW r \in Requests, AdminCreates(r)
      PROVE  RequestsSound'
  BY <1>15 DEF AdminCreates, GoTo
<1>16. ASSUME NEW r \in Requests, DeleteReads(r)
      PROVE  RequestsSound'
  BY <1>16 DEF DeleteReads, Begin, GoTo
<1>17. ASSUME NEW r \in Requests, DeleteWrites(r)
      PROVE  RequestsSound'
  BY <1>17 DEF DeleteWrites, GoTo
<1>18. ASSUME NEW r \in Requests, Fail(r)
      PROVE  RequestsSound'
  BY <1>18 DEF Fail, GoTo
<1>19. CASE Approve \/ Readdress
  BY <1>19 DEF Approve, Readdress
<1>20. CASE Tick
  BY <1>20 DEF Tick
<1>21. CASE UNCHANGED vars
  BY <1>21 DEF vars
<1> HIDE DEF TypeOK, RequestsSound, Codes, Purposes, Live, Redeems, Newest
<1> QED
  BY <1>1, <1>2, <1>3, <1>4, <1>5, <1>6, <1>7, <1>8, <1>9, <1>10, <1>11, <1>12, <1>13, <1>14, <1>15, <1>16, <1>17, <1>18, <1>19, <1>20, <1>21 DEF Next, Request

LEMMA BesideStep ==
    ASSUME TypeOK, BesideSound, [Next]_vars
    PROVE  BesideSound'
<1> USE CodeConstants DEF Codes, rowVars, accountVars, TypeOK, Relying
<1>1. ASSUME NEW r \in Requests, NEW p \in Purposes, AskChecks(r, p)
      PROVE  BesideSound'
  BY <1>1 DEF AskChecks, Begin, GoTo, BesideSound
<1>2. ASSUME NEW r \in Requests, AskReads(r)
      PROVE  BesideSound'
  BY <1>2, OverlapAdds DEF AskReads, GoTo, BesideSound
<1>3. ASSUME NEW r \in Requests, AskRefused(r)
      PROVE  BesideSound'
  BY <1>3 DEF AskRefused, GoTo, BesideSound
<1>4. ASSUME NEW r \in Requests, AskCreates(r)
      PROVE  BesideSound'
  BY <1>4 DEF AskCreates, GoTo, BesideSound
<1>5. ASSUME NEW r \in Requests, NEW p \in Purposes, NEW right \in BOOLEAN, VerifyReads(r, p, right)
      PROVE  BesideSound'
  BY <1>5, OverlapAdds DEF VerifyReads, Begin, GoTo, BesideSound
<1>6. ASSUME NEW r \in Requests, VerifyCounts(r)
      PROVE  BesideSound'
  BY <1>6 DEF VerifyCounts, GoTo, BesideSound
<1>7. ASSUME NEW r \in Requests, NEW arrives \in BOOLEAN, VerifyWrites(r, arrives)
      PROVE  BesideSound'
  BY <1>7 DEF VerifyWrites, GoTo, BesideSound
<1>8. ASSUME NEW r \in Requests, RegisterChecks(r)
      PROVE  BesideSound'
  BY <1>8 DEF RegisterChecks, Begin, GoTo, BesideSound
<1>9. ASSUME NEW r \in Requests, NEW t \in held, RegisterFinds(r, t)
      PROVE  BesideSound'
  BY <1>9, OverlapAdds DEF RegisterFinds, Finds, GoTo, BesideSound
<1>10. ASSUME NEW r \in Requests, NEW t \in held, ResetFinds(r, t)
      PROVE  BesideSound'
  BY <1>10, OverlapAdds DEF ResetFinds, Finds, GoTo, BesideSound
<1>11. ASSUME NEW r \in Requests, ResetFindsUser(r)
      PROVE  BesideSound'
  BY <1>11 DEF ResetFindsUser, GoTo, BesideSound
<1>12. ASSUME NEW r \in Requests, Register(r)
      PROVE  BesideSound'
  BY <1>12 DEF Register, Spends, GoTo, BesideSound
<1>13. ASSUME NEW r \in Requests, Reset(r)
      PROVE  BesideSound'
  BY <1>13 DEF Reset, Spends, GoTo, BesideSound
<1>14. ASSUME NEW r \in Requests, AdminChecks(r)
      PROVE  BesideSound'
  BY <1>14 DEF AdminChecks, Begin, GoTo, BesideSound
<1>15. ASSUME NEW r \in Requests, AdminCreates(r)
      PROVE  BesideSound'
  BY <1>15 DEF AdminCreates, GoTo, BesideSound
<1>16. ASSUME NEW r \in Requests, DeleteReads(r)
      PROVE  BesideSound'
  BY <1>16 DEF DeleteReads, Begin, GoTo, BesideSound
<1>17. ASSUME NEW r \in Requests, DeleteWrites(r)
      PROVE  BesideSound'
  BY <1>17 DEF DeleteWrites, GoTo, BesideSound
<1>18. ASSUME NEW r \in Requests, Fail(r)
      PROVE  BesideSound'
  BY <1>18 DEF Fail, GoTo, BesideSound
<1>19. CASE Approve \/ Readdress
  BY <1>19 DEF Approve, Readdress, BesideSound
<1>20. CASE Tick
  BY <1>20 DEF Tick, BesideSound
<1>21. CASE UNCHANGED vars
  BY <1>21 DEF vars, BesideSound
<1> HIDE DEF TypeOK, Relying, Codes
<1> QED
  BY <1>1, <1>2, <1>3, <1>4, <1>5, <1>6, <1>7, <1>8, <1>9, <1>10, <1>11, <1>12, <1>13, <1>14, <1>15, <1>16, <1>17, <1>18, <1>19, <1>20, <1>21 DEF Next, Request

LEMMA SpendersStep ==
    ASSUME TypeOK, RequestsSound, BesideSound, SpendersSound, [Next]_vars
    PROVE  SpendersSound'
<1> USE CodeConstants DEF Codes, rowVars, accountVars, TypeOK, RequestsSound, SpendersSound, Relying, Live, Redeems, Newest
<1>1. ASSUME NEW r \in Requests, NEW p \in Purposes, AskChecks(r, p)
      PROVE  SpendersSound'
  BY <1>1 DEF AskChecks, Begin, GoTo
<1>2. ASSUME NEW r \in Requests, AskReads(r)
      PROVE  SpendersSound'
  BY <1>2, OverlapAdds DEF AskReads, GoTo
<1>3. ASSUME NEW r \in Requests, AskRefused(r)
      PROVE  SpendersSound'
  BY <1>3 DEF AskRefused, GoTo
<1>4. ASSUME NEW r \in Requests, AskCreates(r)
      PROVE  SpendersSound'
  BY <1>4 DEF AskCreates, GoTo
<1>5. ASSUME NEW r \in Requests, NEW p \in Purposes, NEW right \in BOOLEAN, VerifyReads(r, p, right)
      PROVE  SpendersSound'
  BY <1>5, OverlapAdds DEF VerifyReads, Begin, GoTo
<1>6. ASSUME NEW r \in Requests, VerifyCounts(r)
      PROVE  SpendersSound'
  BY <1>6 DEF VerifyCounts, GoTo
<1>7. ASSUME NEW r \in Requests, NEW arrives \in BOOLEAN, VerifyWrites(r, arrives)
      PROVE  SpendersSound'
  BY <1>7 DEF VerifyWrites, GoTo
<1>8. ASSUME NEW r \in Requests, RegisterChecks(r)
      PROVE  SpendersSound'
  BY <1>8 DEF RegisterChecks, Begin, GoTo
<1>9. ASSUME NEW r \in Requests, NEW t \in held, RegisterFinds(r, t)
      PROVE  SpendersSound'
  BY <1>9, OverlapAdds DEF RegisterFinds, Finds, GoTo
<1>10. ASSUME NEW r \in Requests, NEW t \in held, ResetFinds(r, t)
      PROVE  SpendersSound'
  BY <1>10, OverlapAdds DEF ResetFinds, Finds, GoTo
<1>11. ASSUME NEW r \in Requests, ResetFindsUser(r)
      PROVE  SpendersSound'
  BY <1>11 DEF ResetFindsUser, GoTo
<1>12. ASSUME NEW r \in Requests, Register(r)
      PROVE  SpendersSound'
  BY <1>12 DEF Register, Spends, GoTo, BesideSound
<1>13. ASSUME NEW r \in Requests, Reset(r)
      PROVE  SpendersSound'
  BY <1>13 DEF Reset, Spends, GoTo, BesideSound
<1>14. ASSUME NEW r \in Requests, AdminChecks(r)
      PROVE  SpendersSound'
  BY <1>14 DEF AdminChecks, Begin, GoTo
<1>15. ASSUME NEW r \in Requests, AdminCreates(r)
      PROVE  SpendersSound'
  BY <1>15 DEF AdminCreates, GoTo
<1>16. ASSUME NEW r \in Requests, DeleteReads(r)
      PROVE  SpendersSound'
  BY <1>16 DEF DeleteReads, Begin, GoTo
<1>17. ASSUME NEW r \in Requests, DeleteWrites(r)
      PROVE  SpendersSound'
  BY <1>17 DEF DeleteWrites, GoTo
<1>18. ASSUME NEW r \in Requests, Fail(r)
      PROVE  SpendersSound'
  BY <1>18 DEF Fail, GoTo
<1>19. CASE Approve \/ Readdress
  BY <1>19 DEF Approve, Readdress
<1>20. CASE Tick
  BY <1>20 DEF Tick
<1>21. CASE UNCHANGED vars
  BY <1>21 DEF vars
<1> HIDE DEF TypeOK, RequestsSound, SpendersSound, Relying, Codes, Live, Redeems, Newest
<1> QED
  BY <1>1, <1>2, <1>3, <1>4, <1>5, <1>6, <1>7, <1>8, <1>9, <1>10, <1>11, <1>12, <1>13, <1>14, <1>15, <1>16, <1>17, <1>18, <1>19, <1>20, <1>21 DEF Next, Request

LEMMA SpentStep ==
    ASSUME TypeOK, RequestsSound, BesideSound, SpendersSound, SpentTwiceByOverlap, [Next]_vars
    PROVE  SpentTwiceByOverlap'
<1> USE CodeConstants DEF Codes, rowVars, accountVars, TypeOK, RequestsSound, SpendersSound, SpentTwiceByOverlap
<1>1. ASSUME NEW r \in Requests, NEW p \in Purposes, AskChecks(r, p)
      PROVE  SpentTwiceByOverlap'
  BY <1>1 DEF AskChecks, Begin, GoTo
<1>2. ASSUME NEW r \in Requests, AskReads(r)
      PROVE  SpentTwiceByOverlap'
  BY <1>2, OverlapAdds DEF AskReads, GoTo
<1>3. ASSUME NEW r \in Requests, AskRefused(r)
      PROVE  SpentTwiceByOverlap'
  BY <1>3 DEF AskRefused, GoTo
<1>4. ASSUME NEW r \in Requests, AskCreates(r)
      PROVE  SpentTwiceByOverlap'
  BY <1>4 DEF AskCreates, GoTo
<1>5. ASSUME NEW r \in Requests, NEW p \in Purposes, NEW right \in BOOLEAN, VerifyReads(r, p, right)
      PROVE  SpentTwiceByOverlap'
  BY <1>5, OverlapAdds DEF VerifyReads, Begin, GoTo
<1>6. ASSUME NEW r \in Requests, VerifyCounts(r)
      PROVE  SpentTwiceByOverlap'
  BY <1>6 DEF VerifyCounts, GoTo
<1>7. ASSUME NEW r \in Requests, NEW arrives \in BOOLEAN, VerifyWrites(r, arrives)
      PROVE  SpentTwiceByOverlap'
  BY <1>7 DEF VerifyWrites, GoTo
<1>8. ASSUME NEW r \in Requests, RegisterChecks(r)
      PROVE  SpentTwiceByOverlap'
  BY <1>8 DEF RegisterChecks, Begin, GoTo
<1>9. ASSUME NEW r \in Requests, NEW t \in held, RegisterFinds(r, t)
      PROVE  SpentTwiceByOverlap'
  BY <1>9, OverlapAdds DEF RegisterFinds, Finds, GoTo
<1>10. ASSUME NEW r \in Requests, NEW t \in held, ResetFinds(r, t)
      PROVE  SpentTwiceByOverlap'
  BY <1>10, OverlapAdds DEF ResetFinds, Finds, GoTo
<1>11. ASSUME NEW r \in Requests, ResetFindsUser(r)
      PROVE  SpentTwiceByOverlap'
  BY <1>11 DEF ResetFindsUser, GoTo
<1>12. ASSUME NEW r \in Requests, Register(r)
      PROVE  SpentTwiceByOverlap'
  BY <1>12 DEF Register, Spends, GoTo, BesideSound
<1>13. ASSUME NEW r \in Requests, Reset(r)
      PROVE  SpentTwiceByOverlap'
  BY <1>13 DEF Reset, Spends, GoTo, BesideSound
<1>14. ASSUME NEW r \in Requests, AdminChecks(r)
      PROVE  SpentTwiceByOverlap'
  BY <1>14 DEF AdminChecks, Begin, GoTo
<1>15. ASSUME NEW r \in Requests, AdminCreates(r)
      PROVE  SpentTwiceByOverlap'
  BY <1>15 DEF AdminCreates, GoTo
<1>16. ASSUME NEW r \in Requests, DeleteReads(r)
      PROVE  SpentTwiceByOverlap'
  BY <1>16 DEF DeleteReads, Begin, GoTo
<1>17. ASSUME NEW r \in Requests, DeleteWrites(r)
      PROVE  SpentTwiceByOverlap'
  BY <1>17 DEF DeleteWrites, GoTo
<1>18. ASSUME NEW r \in Requests, Fail(r)
      PROVE  SpentTwiceByOverlap'
  BY <1>18 DEF Fail, GoTo
<1>19. CASE Approve \/ Readdress
  BY <1>19 DEF Approve, Readdress
<1>20. CASE Tick
  BY <1>20 DEF Tick
<1>21. CASE UNCHANGED vars
  BY <1>21 DEF vars
<1> HIDE DEF TypeOK, RequestsSound, SpendersSound, SpentTwiceByOverlap, Codes
<1> QED
  BY <1>1, <1>2, <1>3, <1>4, <1>5, <1>6, <1>7, <1>8, <1>9, <1>10, <1>11, <1>12, <1>13, <1>14, <1>15, <1>16, <1>17, <1>18, <1>19, <1>20, <1>21 DEF Next, Request

LEMMA CrowdStays ==
    ASSUME NEW c \in Codes,
           \A q \in Requests : code[q] = c => code'[q] = c,
           \A q \in Requests : beside[q] \subseteq beside'[q],
           Crowded(c)
    PROVE  Crowded(c)'
BY DEF Crowded

LEMMA GuessesStay ==
    ASSUME GuessesSound, GuessesAreLimited, attempts' = attempts,
           \A q \in Requests : beside[q] \subseteq beside'[q],
           \A q \in Requests : code[q] # Nothing => code'[q] = code[q],
           \A q \in Requests : pc'[q] = "count" => pc[q] = "count" /\ code'[q] = code[q]
    PROVE  GuessesSound' /\ GuessesAreLimited'
<1>1. \A c \in Codes : Crowded(c) => Crowded(c)'
  BY CrowdStays, CodeConstants DEF Codes
<1>2. GuessesSound'
  BY <1>1 DEF GuessesSound
<1>3. \A c \in Codes : attempts'[c] > MaxAttempts => Crowded(c)'
  BY <1>1 DEF GuessesAreLimited, Crowded
<1> QED
  BY <1>2, <1>3 DEF GuessesAreLimited, Crowded

LEMMA GuessesStep ==
    ASSUME TypeOK, RequestsSound, BesideSound, GuessesSound, GuessesAreLimited, [Next]_vars
    PROVE  GuessesSound' /\ GuessesAreLimited'
<1> USE CodeConstants DEF Codes, rowVars, accountVars, TypeOK, RequestsSound
<1>1. ASSUME NEW r \in Requests, \/ \E p \in Purposes : AskChecks(r, p)
             \/ RegisterChecks(r) \/ AdminChecks(r) \/ DeleteReads(r)
      PROVE  GuessesSound' /\ GuessesAreLimited'
  <2>1. /\ attempts' = attempts
        /\ \A q \in Requests : code[q] # Nothing => code'[q] = code[q]
        /\ \A q \in Requests : pc'[q] = "count" => pc[q] = "count" /\ code'[q] = code[q]
    BY <1>1 DEF AskChecks, RegisterChecks, AdminChecks, DeleteReads, Begin, GoTo
  <2>2. \A q \in Requests : beside[q] \subseteq beside'[q]
    BY <1>1, OverlapAdds DEF AskChecks, RegisterChecks, AdminChecks, DeleteReads, Begin, GoTo
  <2> QED
    BY <2>1, <2>2, GuessesStay
<1>2. ASSUME NEW r \in Requests, \/ AskReads(r)
             \/ \E t \in held : RegisterFinds(r, t) \/ ResetFinds(r, t)
      PROVE  GuessesSound' /\ GuessesAreLimited'
  <2>1. /\ attempts' = attempts
        /\ \A q \in Requests : code[q] # Nothing => code'[q] = code[q]
        /\ \A q \in Requests : pc'[q] = "count" => pc[q] = "count" /\ code'[q] = code[q]
    BY <1>2 DEF AskReads, RegisterFinds, ResetFinds, Finds, GoTo
  <2>2. \A q \in Requests : beside[q] \subseteq beside'[q]
    BY <1>2, OverlapAdds DEF AskReads, RegisterFinds, ResetFinds, Finds, GoTo
  <2> QED
    BY <2>1, <2>2, GuessesStay
<1>3. ASSUME NEW r \in Requests, NEW p \in Purposes, NEW right \in BOOLEAN, VerifyReads(r, p, right)
      PROVE  GuessesSound' /\ GuessesAreLimited'
  <2>1. \A q \in Requests : beside[q] \subseteq beside'[q]
    BY <1>3, OverlapAdds DEF VerifyReads
  <2>2. /\ attempts' = attempts
        /\ \A q \in Requests : code[q] # Nothing => code'[q] = code[q]
        /\ \A q \in Requests \ {r} : pc'[q] = "count" => pc[q] = "count" /\ code'[q] = code[q]
    BY <1>3 DEF VerifyReads, Begin, GoTo
  <2>3. code'[r] \in Codes /\ attempts[code'[r]] < MaxAttempts
    BY <1>3 DEF VerifyReads, Guessable, Newest, Live
  <2>4. attempts[code'[r]] \in Nat /\ MaxAttempts \in Nat
    BY <2>3
  <2>5. \A c \in Codes : Crowded(c) => Crowded(c)'
    BY <2>1, <2>2, CrowdStays
  <2>6. GuessesSound'
    BY <2>2, <2>3, <2>4, <2>5 DEF GuessesSound
  <2>7. \A c \in Codes : attempts'[c] > MaxAttempts => Crowded(c)'
    BY <2>2, <2>5 DEF GuessesAreLimited, Crowded
  <2> QED
    BY <2>6, <2>7 DEF GuessesAreLimited, Crowded
<1>4. ASSUME NEW r \in Requests, VerifyCounts(r)
      PROVE  GuessesSound' /\ GuessesAreLimited'
  <2> DEFINE c == code[r]
  <2>1. /\ c \in Codes /\ pc[r] = "count" /\ pc' = [pc EXCEPT ![r] = "done"]
        /\ attempts' = [attempts EXCEPT ![c] = @ + 1] /\ UNCHANGED <<code, beside>>
    BY <1>4 DEF VerifyCounts, GoTo
  <2>2. \A d \in Codes : Crowded(d) => Crowded(d)'
    BY <2>1, CrowdStays
  <2>3. ASSUME NEW q \in Requests, NEW d \in Codes,
               pc'[q] = "count", code'[q] = d, attempts'[d] >= MaxAttempts
        PROVE  Crowded(d)'
    <3>1. q # r /\ pc[q] = "count" /\ code[q] = d
      BY <2>1, <2>3
    <3>2. CASE d = c
      <4>1. q \in beside[r]
        BY <3>1, <2>1 DEF BesideSound, Relying
      <4>2. Crowded(d)
        BY <4>1, <3>1, <3>2 DEF Crowded
      <4> QED
        BY <4>2, <2>2
    <3>3. CASE d # c
      BY <3>1, <3>3, <2>1, <2>2, <2>3 DEF GuessesSound
    <3> QED
      BY <3>2, <3>3
  <2>4. ASSUME NEW d \in Codes, attempts'[d] > MaxAttempts
        PROVE  Crowded(d)'
    <3>1. CASE d = c
      <4>1. attempts[c] \in Nat /\ attempts'[c] = attempts[c] + 1 /\ MaxAttempts \in Nat
        BY <2>1
      <4>2. attempts[c] >= MaxAttempts
        BY <4>1, <2>4, <3>1
      <4> QED
        BY <4>2, <2>1, <2>2, <3>1 DEF GuessesSound
    <3>2. CASE d # c
      <4>1. Crowded(d)
        BY <3>2, <2>1, <2>4 DEF GuessesAreLimited, Crowded
      <4> QED
        BY <4>1, <2>2
    <3> QED
      BY <3>1, <3>2
  <2>5. GuessesSound'
    BY <2>3 DEF GuessesSound
  <2> QED
    BY <2>4, <2>5 DEF GuessesAreLimited, Crowded
<1>5. ASSUME NEW r \in Requests, \/ AskRefused(r) \/ AskCreates(r) \/ ResetFindsUser(r) \/ Register(r) \/ Reset(r)
             \/ AdminCreates(r) \/ DeleteWrites(r) \/ Fail(r)
             \/ \E arrives \in BOOLEAN : VerifyWrites(r, arrives)
      PROVE  GuessesSound' /\ GuessesAreLimited'
  <2>1. /\ attempts' = attempts
        /\ \A q \in Requests : code[q] # Nothing => code'[q] = code[q]
        /\ \A q \in Requests : pc'[q] = "count" => pc[q] = "count" /\ code'[q] = code[q]
    BY <1>5 DEF AskRefused, AskCreates, ResetFindsUser, Register, Reset, AdminCreates, DeleteWrites,
          Fail, VerifyWrites, Spends, GoTo
  <2>2. \A q \in Requests : beside[q] \subseteq beside'[q]
    BY <1>5, OverlapAdds DEF AskRefused, AskCreates, ResetFindsUser, Register, Reset, AdminCreates, DeleteWrites,
          Fail, VerifyWrites, Spends, GoTo
  <2> QED
    BY <2>1, <2>2, GuessesStay
<1>6. CASE Approve \/ Readdress \/ Tick
  <2>1. /\ attempts' = attempts
        /\ \A q \in Requests : code[q] # Nothing => code'[q] = code[q]
        /\ \A q \in Requests : pc'[q] = "count" => pc[q] = "count" /\ code'[q] = code[q]
    BY <1>6 DEF Approve, Readdress, Tick
  <2>2. \A q \in Requests : beside[q] \subseteq beside'[q]
    BY <1>6, OverlapAdds DEF Approve, Readdress, Tick
  <2> QED
    BY <2>1, <2>2, GuessesStay
<1>7. CASE UNCHANGED vars
  <2>1. UNCHANGED <<attempts, code, pc, beside>>
    BY <1>7 DEF vars
  <2> QED
    BY <2>1, GuessesStay
<1> HIDE DEF TypeOK, RequestsSound, Codes
<1> QED
  BY <1>1, <1>2, <1>3, <1>4, <1>5, <1>6, <1>7 DEF Next, Request

LEMMA NearStays ==
    ASSUME TypeOK, RequestsSound, CodesSound,
           \A q \in Requests : beside[q] \subseteq beside'[q],
           \A c \in Codes : purpose'[c] = purpose[c] /\ (consumed[c] => consumed'[c]),
           askedAt' = askedAt,
           \A q \in Requests : pc'[q] = "issue" => pc[q] = "issue" /\ aim'[q] = aim[q]
    PROVE  CodesSound'
BY DEF CodesSound, Near, Codes

LEMMA CodesStep ==
    ASSUME TypeOK, RequestsSound, BesideSound, CodesSound, [Next]_vars
    PROVE  CodesSound'
<1> USE CodeConstants DEF Codes, rowVars, accountVars, TypeOK, RequestsSound, Purposes
<1>1. ASSUME NEW r \in Requests, \/ \E p \in Purposes : AskChecks(r, p)
             \/ RegisterChecks(r) \/ AdminChecks(r) \/ DeleteReads(r)
      PROVE  CodesSound'
  <2>1. /\ askedAt' = askedAt
        /\ \A c \in Codes : purpose'[c] = purpose[c] /\ (consumed[c] => consumed'[c])
        /\ \A q \in Requests : pc'[q] = "issue" => pc[q] = "issue" /\ aim'[q] = aim[q]
    BY <1>1 DEF AskChecks, RegisterChecks, AdminChecks, DeleteReads, Begin, GoTo
  <2>2. \A q \in Requests : beside[q] \subseteq beside'[q]
    BY <1>1, OverlapAdds DEF AskChecks, RegisterChecks, AdminChecks, DeleteReads, Begin, GoTo
  <2> QED
    BY <2>1, <2>2, NearStays
<1>2. ASSUME NEW r \in Requests, \/ \E t \in held : RegisterFinds(r, t) \/ ResetFinds(r, t)
             \/ \E p \in Purposes, right \in BOOLEAN : VerifyReads(r, p, right)
      PROVE  CodesSound'
  <2>1. /\ askedAt' = askedAt
        /\ \A c \in Codes : purpose'[c] = purpose[c] /\ (consumed[c] => consumed'[c])
        /\ \A q \in Requests : pc'[q] = "issue" => pc[q] = "issue" /\ aim'[q] = aim[q]
    <3>1. CASE \E t \in held : RegisterFinds(r, t) \/ ResetFinds(r, t)
      BY <3>1 DEF RegisterFinds, ResetFinds, Finds, GoTo
    <3>2. CASE \E p \in Purposes, right \in BOOLEAN : VerifyReads(r, p, right)
      BY <3>2 DEF VerifyReads, Begin, GoTo
    <3> QED
      BY <1>2, <3>1, <3>2
  <2>2. \A q \in Requests : beside[q] \subseteq beside'[q]
    BY <1>2, OverlapAdds DEF RegisterFinds, ResetFinds, VerifyReads, Begin, Finds, GoTo
  <2> QED
    BY <2>1, <2>2, NearStays
<1>3. ASSUME NEW r \in Requests, AskReads(r)
      PROVE  CodesSound'
  <2>1. /\ \A q \in Requests : beside[q] \subseteq beside'[q]
        /\ Cooled(aim[r]) /\ pc[r] = "cooldown" /\ aim[r] \in Purposes /\ now \in Nat
        /\ askedAt' = [askedAt EXCEPT ![r] = now] /\ pc' = [pc EXCEPT ![r] = "issue"]
        /\ UNCHANGED <<purpose, consumed, aim>> /\ purpose[r] = Nothing
    BY <1>3, OverlapAdds DEF AskReads, GoTo
  <2>2. ASSUME NEW q \in Requests, NEW c \in Codes, c # q, purpose[c] # Nothing, Near(c, q)',
               purpose[q] = purpose[c] \/ (pc'[q] = "issue" /\ aim[q] = purpose[c])
        PROVE  consumed[c] \/ consumed[q] \/ c \in beside'[q]
    <3>1. CASE q = r
      <4>1. aim[r] = purpose[c] /\ askedAt'[r] = now /\ askedAt'[c] = askedAt[c] /\ askedAt[c] \in Nat
        BY <3>1, <2>1, <2>2
      <4>2. ~ consumed[c] => now >= askedAt[c] + Cooldown
        BY <4>1, <2>1, <2>2 DEF Cooled, Live
      <4>3. now < askedAt[c] + Cooldown
        BY <4>1, <2>2, <3>1 DEF Near
      <4> QED
        BY <4>1, <4>2, <4>3, <2>1
    <3>2. CASE q # r
      <4>1. c # r /\ Near(c, q)
        BY <3>2, <2>1, <2>2 DEF Near
      <4> QED
        BY <4>1, <3>2, <2>1, <2>2 DEF CodesSound
    <3> QED
      BY <3>1, <3>2
  <2> QED
    BY <2>1, <2>2 DEF CodesSound, Near
<1>4. ASSUME NEW r \in Requests, AskCreates(r)
      PROVE  CodesSound'
  <2>1. /\ pc[r] = "issue" /\ purpose' = [purpose EXCEPT ![r] = aim[r]]
        /\ pc' = [pc EXCEPT ![r] = "done"] /\ aim[r] \in Purposes
        /\ UNCHANGED <<askedAt, consumed, beside, aim>>
    BY <1>4 DEF AskCreates, GoTo
  <2>2. ASSUME NEW q \in Requests, NEW c \in Codes, c # q, purpose'[c] # Nothing, Near(c, q),
               purpose'[q] = purpose'[c] \/ (pc'[q] = "issue" /\ aim[q] = purpose'[c])
        PROVE  consumed[c] \/ consumed[q] \/ c \in beside[q]
    <3>1. CASE q = r
      <4>1. aim[r] = purpose[c] /\ purpose[c] # Nothing
        BY <3>1, <2>1, <2>2
      <4> QED
        BY <4>1, <3>1, <2>1, <2>2 DEF CodesSound
    <3>2. CASE c = r /\ pc'[q] = "issue"
      BY <3>2, <2>1, <2>2 DEF BesideSound, Relying
    <3>3. CASE c = r /\ pc'[q] # "issue"
      <4>1. purpose[q] = aim[r] /\ purpose[q] # Nothing /\ Near(q, r) /\ q # r
        BY <3>3, <2>1, <2>2 DEF Near
      <4>2. consumed[q] \/ consumed[r] \/ q \in beside[r]
        BY <4>1, <2>1 DEF CodesSound
      <4> QED
        BY <4>2, <3>3, <2>1 DEF BesideSound
    <3>4. CASE c # r /\ q # r
      BY <3>4, <2>1, <2>2 DEF CodesSound
    <3> QED
      BY <3>1, <3>2, <3>3, <3>4
  <2> QED
    BY <2>1, <2>2 DEF CodesSound, Near
<1>5. ASSUME NEW r \in Requests, \/ AskRefused(r) \/ VerifyCounts(r) \/ ResetFindsUser(r) \/ Register(r) \/ Reset(r)
             \/ AdminCreates(r) \/ DeleteWrites(r) \/ Fail(r)
             \/ \E arrives \in BOOLEAN : VerifyWrites(r, arrives)
      PROVE  CodesSound'
  <2>1. /\ askedAt' = askedAt
        /\ \A c \in Codes : purpose'[c] = purpose[c] /\ (consumed[c] => consumed'[c])
        /\ \A q \in Requests : pc'[q] = "issue" => pc[q] = "issue" /\ aim'[q] = aim[q]
    BY <1>5 DEF AskRefused, VerifyCounts, ResetFindsUser, Register, Reset, AdminCreates,
          DeleteWrites, Fail, VerifyWrites, Spends, GoTo
  <2>2. \A q \in Requests : beside[q] \subseteq beside'[q]
    BY <1>5, OverlapAdds DEF AskRefused, VerifyCounts, ResetFindsUser, Register, Reset, AdminCreates,
          DeleteWrites, Fail, VerifyWrites, Spends, GoTo
  <2> QED
    BY <2>1, <2>2, NearStays
<1>6. CASE Approve \/ Readdress \/ Tick
  <2>1. /\ askedAt' = askedAt
        /\ \A c \in Codes : purpose'[c] = purpose[c] /\ (consumed[c] => consumed'[c])
        /\ \A q \in Requests : pc'[q] = "issue" => pc[q] = "issue" /\ aim'[q] = aim[q]
    BY <1>6 DEF Approve, Readdress, Tick
  <2>2. \A q \in Requests : beside[q] \subseteq beside'[q]
    BY <1>6, OverlapAdds DEF Approve, Readdress, Tick
  <2> QED
    BY <2>1, <2>2, NearStays
<1>7. CASE UNCHANGED vars
  <2>1. UNCHANGED <<askedAt, purpose, consumed, pc, aim, beside>>
    BY <1>7 DEF vars
  <2> QED
    BY <2>1, NearStays
<1> HIDE DEF TypeOK, RequestsSound, Purposes, Codes
<1> QED
  BY <1>1, <1>2, <1>3, <1>4, <1>5, <1>6, <1>7 DEF Next, Request

LEMMA CodeStep ==
    ASSUME CodeInv, [Next]_vars
    PROVE  CodeInv'
BY CodeTypes, RequestsStep, BesideStep, SpendersStep, SpentStep, GuessesStep, CodesStep DEF CodeInv

LEMMA CodeInvariant == Spec => []CodeInv
<1>1. Init => CodeInv
  BY CodeInit
<1>2. CodeInv /\ [Next]_vars => CodeInv'
  BY CodeStep
<1> QED
  BY <1>1, <1>2, PTL DEF Spec

-----------------------------------------------------------------------------
(* Theorems.                                                                *)

\* Type correctness; what is consumed was verified.
THEOREM CodeIsTyped == Spec => []TypeOK
<1>1. CodeInv => TypeOK
  BY DEF CodeInv
<1> QED
  BY <1>1, CodeInvariant, PTL

\* A code is spent twice only by requests that overlap.
THEOREM CodeSpentTwice == Spec => []SpentTwiceByOverlap
<1>1. CodeInv => SpentTwiceByOverlap
  BY DEF CodeInv
<1> QED
  BY <1>1, CodeInvariant, PTL

\* The limit of wrong guesses is exceeded only by guesses that overlap.
THEOREM CodeGuessesLimited == Spec => []GuessesAreLimited
<1>1. CodeInv => GuessesAreLimited
  BY DEF CodeInv
<1> QED
  BY <1>1, CodeInvariant, PTL

\* The cooldown is passed over only by requests that overlap.
THEOREM CodeCooldown == Spec => []CooldownKept
<1>1. CodeInv => CooldownKept
  <2> SUFFICES ASSUME TypeOK, CodesSound, NEW r \in Requests, NEW c \in Codes, c # r,
                      purpose[r] # Nothing, purpose[c] = purpose[r],
                      askedAt[c] <= askedAt[r], askedAt[r] < askedAt[c] + Cooldown
               PROVE  consumed[c] \/ consumed[r] \/ c \in beside[r]
    BY DEF CodeInv, CooldownKept
  <2>1. askedAt[c] \in Nat /\ askedAt[r] \in Nat /\ Cooldown \in Nat
    BY CodeConstants DEF TypeOK, Codes
  <2>2. Near(c, r)
    BY <2>1 DEF Near
  <2> QED
    BY <2>2 DEF CodesSound, Codes
<1> QED
  BY <1>1, CodeInvariant, PTL

=============================================================================
