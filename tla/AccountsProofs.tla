---------------------------- MODULE AccountsProofs ----------------------------
(***************************************************************************)
(* Proofs about Accounts, for any number of requests and any limit.        *)
(*                                                                         *)
(* The bound on guesses: a request that has been let through and has not   *)
(* checked its password yet (InFlight) will be counted at most once.  Every *)
(* one let through raises the counter as well, up to the limit; the end of *)
(* the window and Reset forget the counter and the guesses, but not those  *)
(* still in flight, of which there are no more than requests.              *)
(***************************************************************************)
EXTENDS Accounts, TLAPS, FiniteSetTheorems

USE CallsFinite, BoundsAreNaturals DEF At

InFlight == {c \in Calls : pc[c] \in {"expire", "password"}}

GuessInv ==
  wrong + Cardinality(InFlight) <= UpTo(count, Limit) + Cardinality(Calls)

\* Whoever is about to switch the second factor on has checked a code against
\* the secret, or overlaps the enrolment that stored it.
EnableInv ==
  \A c \in Calls : At(c, "enable") => secret \in confirmed \/ overlapped

IInv ==
  TypeOK /\ GuessInv /\ EnableInv
  /\ OnlyALostExpireStopsTheClock /\ OnlyAnOverlapEnablesUnconfirmed

-----------------------------------------------------------------------------
\* The sets of requests are finite.
LEMMA Sizes ==
  /\ Cardinality(Calls) \in Nat
  /\ MaxWrong \in Nat /\ MaxWrong = Limit + Cardinality(Calls) + 1
  /\ IsFiniteSet(InFlight) /\ Cardinality(InFlight) \in Nat
  /\ Cardinality(InFlight) <= Cardinality(Calls)
  /\ TooMany \in Nat /\ TooMany = Limit + 2
<1>1. Cardinality(Calls) \in Nat
  BY FS_CardinalityType
<1>2. /\ IsFiniteSet(InFlight)
      /\ Cardinality(InFlight) <= Cardinality(Calls)
  <2>1. InFlight \subseteq Calls
    BY DEF InFlight
  <2> QED
    BY <2>1, FS_Subset
<1>3. Cardinality(InFlight) \in Nat
  BY <1>2, FS_CardinalityType
<1> QED
  BY <1>1, <1>2, <1>3 DEF MaxWrong, TooMany

\* ... and after a step.
LEMMA SizesAfter ==
  /\ Cardinality(InFlight)' \in Nat
  /\ Cardinality(InFlight)' <= Cardinality(Calls)
<1>1. InFlight' \subseteq Calls
  BY DEF InFlight
<1>2. IsFiniteSet(InFlight') /\ Cardinality(InFlight') <= Cardinality(Calls)
  BY <1>1, FS_Subset
<1> QED
  BY <1>2, FS_CardinalityType

\* No request is in flight, and nothing is enabled.
LEMMA Initially == Init => IInv
<1> SUFFICES ASSUME Init PROVE IInv
  OBVIOUS
<1>1. TypeOK
  <2>1. 0 \in 0..TooMany /\ 0 \in 0..MaxWrong /\ 0 \in 0..MaxSecrets
    BY Sizes
  <2>2. made \in 0..MaxSecrets /\ secret \in 0..made /\ confirmed \subseteq 1..made
    BY <2>1 DEF Init
  <2>3. pc \in [Calls -> Steps] /\ arg \in [Calls -> Nat]
    BY DEF Init, Steps
  <2> QED
    BY <2>1, <2>2, <2>3 DEF Init, TypeOK
<1>2. GuessInv
  <2>1. InFlight = {}
    BY DEF Init, InFlight
  <2>2. Cardinality(InFlight) = 0
    BY <2>1, FS_EmptySet
  <2> QED
    BY <2>2, Sizes DEF Init, GuessInv, UpTo
<1> QED
  BY <1>1, <1>2 DEF Init, IInv, EnableInv, OnlyALostExpireStopsTheClock,
    OnlyAnOverlapEnablesUnconfirmed

-----------------------------------------------------------------------------
\* Every action leaves well-typed variables behind.
LEMMA TypeStep ==
  ASSUME TypeOK, [Next]_vars
  PROVE  TypeOK'
<1> USE Sizes DEF TypeOK, Steps, Then, Answer, totpVars, heldVars, limitVars, callVars
<1>1. ASSUME NEW c \in Calls, Request(c) PROVE TypeOK'
  <2>1. ASSUME NEW step \in Steps, NEW what \in Nat, Arrive(c, step, what)
        PROVE  TypeOK'
    BY <2>1 DEF Arrive
  <2> QED
    BY <1>1, <2>1 DEF Request
<1>2. ASSUME NEW c \in Calls, Fail(c) PROVE TypeOK'
  BY <1>2 DEF Fail
<1>3. ASSUME NEW c \in Calls, Create(c) PROVE TypeOK'
  BY <1>3 DEF Create
<1>4. ASSUME NEW c \in Calls, Incr(c) PROVE TypeOK'
  <2>1. count' \in 0..TooMany
    BY <1>4 DEF Incr, UpTo, TooMany
  <2>2. Then(c, "expire") \/ Then(c, "password") \/ Answer(c)
    BY <1>4 DEF Incr
  <2>3. pc' \in [Calls -> Steps] /\ arg' \in [Calls -> Nat]
    BY <2>2
  <2> QED
    BY <1>4, <2>1, <2>3 DEF Incr
<1>5. ASSUME NEW c \in Calls, Expire(c) PROVE TypeOK'
  BY <1>5 DEF Expire
<1>6. ASSUME NEW c \in Calls, CheckPassword(c) PROVE TypeOK'
  BY <1>6 DEF CheckPassword, UpTo
<1>7. ASSUME NEW c \in Calls, Reset(c) PROVE TypeOK'
  <2>1. 0 \in 0..TooMany /\ 0 \in 0..MaxWrong
    OBVIOUS
  <2>2. Then(c, "issue") \/ Answer(c)
    BY <1>7 DEF Reset
  <2>3. pc' \in [Calls -> Steps] /\ arg' \in [Calls -> Nat]
    BY <2>2
  <2>4. pending' \in BOOLEAN
    BY <1>7 DEF Reset
  <2> QED
    BY <1>7, <2>1, <2>3, <2>4 DEF Reset, CountAfterReset, NewWindow
<1>8. ASSUME NEW c \in Calls, CheckCode(c) PROVE TypeOK'
  BY <1>8 DEF CheckCode
<1>9. ASSUME NEW c \in Calls, IssueTokens(c) PROVE TypeOK'
  BY <1>9 DEF IssueTokens
<1>10. ASSUME NEW c \in Calls, Enrol(c) PROVE TypeOK'
  <2>1. /\ made' \in 0..MaxSecrets /\ secret' \in 0..made'
        /\ confirmed' \subseteq 1..made'
    BY <1>10 DEF Enrol
  <2>2. enabled' \in BOOLEAN /\ overlapped' \in BOOLEAN
    BY <1>10 DEF Enrol, EnabledAfterEnrol
  <2> QED
    BY <1>10, <2>1, <2>2 DEF Enrol
<1>11. ASSUME NEW c \in Calls, CheckEnrolment(c) PROVE TypeOK'
  <2>1. confirmed' \subseteq 1..made
    <3>1. secret # 0 => secret \in 1..made
      OBVIOUS
    <3>2. confirmed' = confirmed \/ (secret # 0 /\ confirmed' = confirmed \union {secret})
      BY <1>11 DEF CheckEnrolment
    <3> QED
      BY <3>1, <3>2
  <2>2. Then(c, "enable") \/ Answer(c)
    BY <1>11 DEF CheckEnrolment
  <2>3. pc' \in [Calls -> Steps] /\ arg' \in [Calls -> Nat]
    BY <2>2
  <2> QED
    BY <1>11, <2>1, <2>3 DEF CheckEnrolment
<1>12. ASSUME NEW c \in Calls, Enable(c) PROVE TypeOK'
  BY <1>12 DEF Enable
<1>13. ASSUME WindowEnds PROVE TypeOK'
  <2>1. 0 \in 0..TooMany /\ 0 \in 0..MaxWrong
    OBVIOUS
  <2> QED
    BY <1>13, <2>1 DEF WindowEnds, NewWindow
<1>14. CASE UNCHANGED vars
  BY <1>14 DEF vars
<1> QED
  BY <1>1, <1>2, <1>3, <1>4, <1>5, <1>6, <1>7, <1>8, <1>9, <1>10, <1>11, <1>12,
     <1>13, <1>14 DEF Next, Step

-----------------------------------------------------------------------------
(***************************************************************************)
(* Guesses.                                                                *)
(***************************************************************************)

\* How many requests are in flight after one of them has moved on.
LEMMA FlightChanges ==
  ASSUME TypeOK, NEW c \in Calls, NEW step, pc' = [pc EXCEPT ![c] = step]
  PROVE  /\ Cardinality(InFlight)' <= Cardinality(InFlight) + 1
         /\ c \in InFlight \/ step \notin {"expire", "password"} =>
              Cardinality(InFlight)' <= Cardinality(InFlight)
         /\ c \in InFlight /\ step \notin {"expire", "password"} =>
              Cardinality(InFlight)' = Cardinality(InFlight) - 1
<1>1. IsFiniteSet(InFlight) /\ Cardinality(InFlight) \in Nat
  BY Sizes
<1>2. CASE step \in {"expire", "password"}
  <2>1. InFlight' = InFlight \union {c}
    BY <1>2 DEF InFlight, TypeOK
  <2>2. Cardinality(InFlight \union {c}) =
          IF c \in InFlight THEN Cardinality(InFlight) ELSE Cardinality(InFlight) + 1
    BY <1>1, FS_AddElement
  <2> QED
    BY <1>1, <1>2, <2>1, <2>2
<1>3. CASE step \notin {"expire", "password"}
  <2>1. InFlight' = InFlight \ {c}
    BY <1>3 DEF InFlight, TypeOK
  <2>2. Cardinality(InFlight \ {c}) =
          IF c \in InFlight THEN Cardinality(InFlight) - 1 ELSE Cardinality(InFlight)
    BY <1>1, FS_RemoveElement
  <2> QED
    BY <1>1, <1>3, <2>1, <2>2
<1> QED
  BY <1>2, <1>3

\* A request that neither guesses nor counts, and is not let through.
LEMMA QuietKeepsGuesses ==
  ASSUME TypeOK, GuessInv, NEW c \in Calls, NEW step,
         pc' = [pc EXCEPT ![c] = step],
         c \in InFlight \/ step \notin {"expire", "password"},
         wrong' = wrong, count' = count
  PROVE  GuessInv'
<1>1. Cardinality(InFlight)' <= Cardinality(InFlight)
  BY FlightChanges
<1> QED
  BY <1>1, SizesAfter, Sizes DEF GuessInv, UpTo, TypeOK

\* The counter and the guesses are forgotten.
LEMMA ForgettingKeepsGuesses ==
  ASSUME count' = 0, wrong' = 0
  PROVE  GuessInv'
BY SizesAfter, Sizes DEF GuessInv, UpTo

\* Every action keeps the bound: Incr raises both sides, CheckPassword moves a
\* request from InFlight to the wrong guesses.
LEMMA GuessStep ==
  ASSUME TypeOK, GuessInv, [Next]_vars
  PROVE  GuessInv'
<1> USE DEF Then, Answer
<1>1. ASSUME NEW c \in Calls, Request(c) PROVE GuessInv'
  <2>1. ASSUME NEW step \in {"create", "incr", "code", "enrol", "check"}, NEW what,
               Arrive(c, step, what)
        PROVE  GuessInv'
    BY <2>1, QuietKeepsGuesses DEF Arrive, limitVars
  <2> QED
    BY <1>1, <2>1 DEF Request
<1>2. ASSUME NEW c \in Calls, Fail(c) PROVE GuessInv'
  BY <1>2, QuietKeepsGuesses DEF Fail
<1>3. ASSUME NEW c \in Calls, Create(c) PROVE GuessInv'
  <2>1. \E step \in {"idle", "issue"} : pc' = [pc EXCEPT ![c] = step]
    BY <1>3 DEF Create
  <2> QED
    BY <1>3, <2>1, QuietKeepsGuesses DEF Create, limitVars
<1>4. ASSUME NEW c \in Calls, Incr(c) PROVE GuessInv'
  <2>1. /\ wrong' = wrong /\ count' = UpTo(count + 1, TooMany)
        /\ count \in 0..TooMany /\ wrong \in Nat
    BY <1>4, Sizes DEF Incr, TypeOK
  <2>2. PICK step \in {"expire", "password", "idle"} :
          pc' = [pc EXCEPT ![c] = step]
    BY <1>4 DEF Incr
  <2>3. CASE WithinLimit(count')
    <3>1. /\ UpTo(count', Limit) = UpTo(count, Limit) + 1
          /\ UpTo(count, Limit) \in Nat
      BY <2>1, <2>3, Sizes DEF WithinLimit, UpTo
    <3>2. Cardinality(InFlight)' <= Cardinality(InFlight) + 1
      BY <2>2, FlightChanges
    <3> QED
      BY <2>1, <3>1, <3>2, SizesAfter, Sizes DEF GuessInv
  <2>4. CASE ~WithinLimit(count')
    <3>1. pc' = [pc EXCEPT ![c] = "idle"]
      BY <1>4, <2>1, <2>4, Sizes DEF Incr, FirstAttempt, WithinLimit, UpTo
    <3>2. Cardinality(InFlight)' <= Cardinality(InFlight)
      <4> DEFINE idle == "idle"
      <4>1. pc' = [pc EXCEPT ![c] = idle] /\ idle \notin {"expire", "password"}
        BY <3>1
      <4> HIDE DEF idle
      <4> QED
        BY <4>1, FlightChanges
    <3>3. UpTo(count', Limit) >= UpTo(count, Limit) /\ UpTo(count', Limit) \in Nat
      BY <2>1, <2>4, Sizes DEF WithinLimit, UpTo
    <3> QED
      BY <2>1, <3>2, <3>3, SizesAfter, Sizes DEF GuessInv, UpTo
  <2> QED
    BY <2>3, <2>4
<1>5. ASSUME NEW c \in Calls, Expire(c) PROVE GuessInv'
  <2>1. c \in InFlight
    BY <1>5 DEF Expire, InFlight
  <2> QED
    BY <1>5, <2>1, QuietKeepsGuesses DEF Expire
<1>6. ASSUME NEW c \in Calls, CheckPassword(c) PROVE GuessInv'
  <2>1. c \in InFlight
    BY <1>6 DEF CheckPassword, InFlight
  <2>2. PICK step \in {"reset2fa", "reset", "idle"} : pc' = [pc EXCEPT ![c] = step]
    BY <1>6 DEF CheckPassword
  <2>3. Cardinality(InFlight)' = Cardinality(InFlight) - 1
    BY <2>1, <2>2, FlightChanges
  <2>4. wrong \in Nat /\ wrong' \in Nat /\ wrong' <= wrong + 1 /\ count' = count
    BY <1>6, Sizes DEF CheckPassword, TypeOK, UpTo
  <2> QED
    BY <2>3, <2>4, SizesAfter, Sizes DEF GuessInv, UpTo, TypeOK
<1>7. ASSUME NEW c \in Calls, Reset(c) PROVE GuessInv'
  BY <1>7, ForgettingKeepsGuesses DEF Reset, CountAfterReset, NewWindow
<1>8. ASSUME NEW c \in Calls, CheckCode(c) PROVE GuessInv'
  <2>1. \E step \in {"idle", "issue"} : pc' = [pc EXCEPT ![c] = step]
    BY <1>8 DEF CheckCode
  <2> QED
    BY <1>8, <2>1, QuietKeepsGuesses DEF CheckCode, limitVars
<1>9. ASSUME NEW c \in Calls, IssueTokens(c) PROVE GuessInv'
  BY <1>9, QuietKeepsGuesses DEF IssueTokens, limitVars
<1>10. ASSUME NEW c \in Calls, Enrol(c) PROVE GuessInv'
  BY <1>10, QuietKeepsGuesses DEF Enrol, limitVars
<1>11. ASSUME NEW c \in Calls, CheckEnrolment(c) PROVE GuessInv'
  <2>1. \E step \in {"idle", "enable"} : pc' = [pc EXCEPT ![c] = step]
    BY <1>11 DEF CheckEnrolment
  <2> QED
    BY <1>11, <2>1, QuietKeepsGuesses DEF CheckEnrolment, limitVars
<1>12. ASSUME NEW c \in Calls, Enable(c) PROVE GuessInv'
  BY <1>12, QuietKeepsGuesses DEF Enable, limitVars
<1>13. CASE WindowEnds
  BY <1>13, ForgettingKeepsGuesses DEF WindowEnds, NewWindow
<1>14. CASE UNCHANGED vars
  BY <1>14 DEF vars, limitVars, callVars, GuessInv, InFlight
<1> QED
  BY <1>1, <1>2, <1>3, <1>4, <1>5, <1>6, <1>7, <1>8, <1>9, <1>10, <1>11, <1>12,
     <1>13, <1>14 DEF Next, Step

-----------------------------------------------------------------------------
(***************************************************************************)
(* The clock of the counter.                                               *)
(***************************************************************************)

\* Whoever raises the counter from 0 goes on to set its TTL, and does, or fails.
LEMMA ClockStep ==
  ASSUME TypeOK, OnlyALostExpireStopsTheClock, [Next]_vars
  PROVE  OnlyALostExpireStopsTheClock'
<1> USE DEF Then, Answer, OnlyALostExpireStopsTheClock
<1>a. /\ pc \in [Calls -> Steps] /\ count \in Nat /\ TooMany \in Nat /\ TooMany > 1
  BY Sizes DEF TypeOK
<1>b. ASSUME NEW c \in Calls, ~At(c, "expire"), NEW step, pc' = [pc EXCEPT ![c] = step],
             count' = count, expires' = expires, lost' = lost
      PROVE  OnlyALostExpireStopsTheClock'
  BY <1>a, <1>b
<1>1. ASSUME NEW c \in Calls, Request(c) PROVE OnlyALostExpireStopsTheClock'
  <2>1. ASSUME NEW step, NEW what, Arrive(c, step, what)
        PROVE  OnlyALostExpireStopsTheClock'
    BY <2>1, <1>b DEF Arrive, limitVars
  <2> QED
    BY <1>1, <2>1 DEF Request
<1>2. ASSUME NEW c \in Calls, Fail(c) PROVE OnlyALostExpireStopsTheClock'
  BY <1>2, <1>a DEF Fail
<1>3. ASSUME NEW c \in Calls, Create(c) PROVE OnlyALostExpireStopsTheClock'
  BY <1>3, <1>b DEF Create, limitVars
<1>4. ASSUME NEW c \in Calls, Incr(c) PROVE OnlyALostExpireStopsTheClock'
  <2>1. CASE count = 0
    <3>1. pc' = [pc EXCEPT ![c] = "expire"]
      BY <1>4, <1>a, <2>1 DEF Incr, FirstAttempt, UpTo
    <3> QED
      BY <3>1, <1>a
  <2>2. CASE count > 0
    <3>1. \E step : pc' = [pc EXCEPT ![c] = step]
      BY <1>4 DEF Incr
    <3> QED
      BY <1>4, <1>a, <2>2, <3>1 DEF Incr
  <2> QED
    BY <1>a, <2>1, <2>2
<1>5. ASSUME NEW c \in Calls, Expire(c) PROVE OnlyALostExpireStopsTheClock'
  BY <1>5 DEF Expire
<1>6. ASSUME NEW c \in Calls, CheckPassword(c) PROVE OnlyALostExpireStopsTheClock'
  BY <1>6, <1>b DEF CheckPassword
<1>7. ASSUME NEW c \in Calls, Reset(c) PROVE OnlyALostExpireStopsTheClock'
  BY <1>7 DEF Reset, CountAfterReset
<1>8. ASSUME NEW c \in Calls, CheckCode(c) PROVE OnlyALostExpireStopsTheClock'
  BY <1>8, <1>b DEF CheckCode, limitVars
<1>9. ASSUME NEW c \in Calls, IssueTokens(c) PROVE OnlyALostExpireStopsTheClock'
  BY <1>9, <1>b DEF IssueTokens, limitVars
<1>10. ASSUME NEW c \in Calls, Enrol(c) PROVE OnlyALostExpireStopsTheClock'
  BY <1>10, <1>b DEF Enrol, limitVars
<1>11. ASSUME NEW c \in Calls, CheckEnrolment(c) PROVE OnlyALostExpireStopsTheClock'
  BY <1>11, <1>b DEF CheckEnrolment, limitVars
<1>12. ASSUME NEW c \in Calls, Enable(c) PROVE OnlyALostExpireStopsTheClock'
  BY <1>12, <1>b DEF Enable, limitVars
<1>13. CASE WindowEnds
  BY <1>13 DEF WindowEnds
<1>14. CASE UNCHANGED vars
  BY <1>14 DEF vars, limitVars, callVars
<1> QED
  BY <1>1, <1>2, <1>3, <1>4, <1>5, <1>6, <1>7, <1>8, <1>9, <1>10, <1>11, <1>12,
     <1>13, <1>14 DEF Next, Step

-----------------------------------------------------------------------------
(***************************************************************************)
(* The second factor.                                                      *)
(***************************************************************************)

\* Only Enable switches the second factor on, and EnableInv is what it knows.
LEMMA FactorStep ==
  ASSUME TypeOK, EnableInv, OnlyAnOverlapEnablesUnconfirmed, [Next]_vars
  PROVE  EnableInv' /\ OnlyAnOverlapEnablesUnconfirmed'
<1> DEFINE Good == EnableInv /\ OnlyAnOverlapEnablesUnconfirmed
<1> USE DEF Then, Answer
<1>a. pc \in [Calls -> Steps]
  BY DEF TypeOK
<1>b. ASSUME NEW c \in Calls, NEW step, step # "enable", pc' = [pc EXCEPT ![c] = step],
             UNCHANGED totpVars
      PROVE  Good'
  BY <1>a, <1>b DEF EnableInv, OnlyAnOverlapEnablesUnconfirmed, totpVars
<1>1. ASSUME NEW c \in Calls, Request(c) PROVE Good'
  <2>1. ASSUME NEW step, step # "enable", NEW what, Arrive(c, step, what)
        PROVE  Good'
    BY <2>1, <1>b DEF Arrive
  <2> QED
    BY <1>1, <2>1 DEF Request
<1>2. ASSUME NEW c \in Calls, Fail(c) PROVE Good'
  BY <1>2, <1>b DEF Fail
<1>3. ASSUME NEW c \in Calls, Create(c) PROVE Good'
  BY <1>3, <1>b DEF Create
<1>4. ASSUME NEW c \in Calls, Incr(c) PROVE Good'
  BY <1>4, <1>b DEF Incr
<1>5. ASSUME NEW c \in Calls, Expire(c) PROVE Good'
  BY <1>5, <1>b DEF Expire
<1>6. ASSUME NEW c \in Calls, CheckPassword(c) PROVE Good'
  BY <1>6, <1>b DEF CheckPassword
<1>7. ASSUME NEW c \in Calls, Reset(c) PROVE Good'
  BY <1>7, <1>b DEF Reset
<1>8. ASSUME NEW c \in Calls, CheckCode(c) PROVE Good'
  BY <1>8, <1>b DEF CheckCode
<1>9. ASSUME NEW c \in Calls, IssueTokens(c) PROVE Good'
  BY <1>9, <1>b DEF IssueTokens
<1>10. ASSUME NEW c \in Calls, Enrol(c) PROVE Good'
  BY <1>10, <1>a DEF Enrol, EnabledAfterEnrol, EnableInv,
    OnlyAnOverlapEnablesUnconfirmed
<1>11. ASSUME NEW c \in Calls, CheckEnrolment(c) PROVE Good'
  <2>1. CASE secret # 0 /\ arg[c] = secret
    BY <1>11, <2>1 DEF CheckEnrolment, EnableInv, OnlyAnOverlapEnablesUnconfirmed
  <2>2. CASE ~(secret # 0 /\ arg[c] = secret)
    BY <1>11, <1>b, <2>2 DEF CheckEnrolment, totpVars
  <2> QED
    BY <2>1, <2>2
<1>12. ASSUME NEW c \in Calls, Enable(c) PROVE Good'
  BY <1>12, <1>a DEF Enable, EnableInv, OnlyAnOverlapEnablesUnconfirmed
<1>13. CASE WindowEnds
  BY <1>13 DEF WindowEnds, totpVars, callVars, EnableInv,
    OnlyAnOverlapEnablesUnconfirmed
<1>14. CASE UNCHANGED vars
  BY <1>14 DEF vars, totpVars, callVars, EnableInv, OnlyAnOverlapEnablesUnconfirmed
<1> QED
  BY <1>1, <1>2, <1>3, <1>4, <1>5, <1>6, <1>7, <1>8, <1>9, <1>10, <1>11, <1>12,
     <1>13, <1>14 DEF Next, Step

-----------------------------------------------------------------------------

\* The inductive invariant holds of every behaviour.
LEMMA Inductive == Spec => []IInv
<1>1. IInv /\ [Next]_vars => IInv'
  BY TypeStep, GuessStep, ClockStep, FactorStep DEF IInv
<1> QED
  BY Initially, <1>1, PTL DEF Spec

\* Every variable keeps its type (the rows, the Redis key, the requests).
THEOREM TypeCorrect == Spec => []TypeOK
<1>1. IInv => TypeOK
  BY DEF IInv
<1> QED
  BY Inductive, <1>1, PTL

\* A window lets at most Limit wrong passwords through, and one more for each
\* request that an earlier window had let through (RateLimiter and Login).
THEOREM GuessesLimited == Spec => []GuessesAreLimited
<1>1. IInv => GuessesAreLimited
  BY Sizes DEF IInv, TypeOK, GuessInv, UpTo, GuessesAreLimited
<1> QED
  BY Inductive, <1>1, PTL

\* The counter loses its TTL only with a failed EXPIRE (RateLimiter.Allow).
THEOREM ClockRuns == Spec => []OnlyALostExpireStopsTheClock
<1>1. IInv => OnlyALostExpireStopsTheClock
  BY DEF IInv
<1> QED
  BY Inductive, <1>1, PTL

\* Only an enrolment that overlaps a confirmation switches on a secret nobody
\* has confirmed (EnrollTOTP, VerifyTOTP).
THEOREM UnconfirmedOnlyByOverlap == Spec => []OnlyAnOverlapEnablesUnconfirmed
<1>1. IInv => OnlyAnOverlapEnablesUnconfirmed
  BY DEF IInv
<1> QED
  BY Inductive, <1>1, PTL
=============================================================================
