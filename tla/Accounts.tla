------------------------------- MODULE Accounts -------------------------------
(***************************************************************************)
(* The account service: the handlers of backend/internal/api/api.go over    *)
(* the account store and the login limits of backend/internal/auth.  What   *)
(* becomes of the refresh tokens they store is in RefreshTokens.            *)
(*                                                                         *)
(* Everything is keyed by the account, so one account is enough.  A handler *)
(* is a goroutine; each of its round trips to PostgreSQL or Redis is one    *)
(* atomic step here, the steps of different requests interleave, and any of *)
(* them may be the last (Fail).  Checks that read nothing shared are part   *)
(* of the step before them.  Audit rows and counters of outcomes are left   *)
(* out: no handler reads them.                                             *)
(*                                                                         *)
(* A definition whose comment says "Mistake" is the definition after it     *)
(* with a plausible error; no action of the specification uses it.          *)
(***************************************************************************)
EXTENDS Integers, FiniteSets

CONSTANTS
  Calls,       \* requests in flight at the same time
  Limit,       \* loginRateLimitAttempts
  MaxSecrets   \* bound: enrolments

ASSUME CallsFinite == IsFiniteSet(Calls)
ASSUME BoundsAreNaturals == Limit \in Nat \ {0} /\ MaxSecrets \in Nat

VARIABLES
  registered,  \* the row of `users` is there
  secret,      \* users.totp_secret: the number of the enrolment, 0 is NULL
  enabled,     \* users.totp_enabled
  made,        \* secrets generated so far
  issued,      \* access and refresh tokens have been handed out
  count,       \* the attempts in Redis, 0 when there is no key
  expires,     \* the key has a TTL
  pending,     \* a pending-login token has been handed out
  pc, arg,     \* where each request is, and what it asks for
  \* What happened, for the properties alone:
  wrong,       \* wrong passwords checked since the key was last removed
  lost,        \* the request that was to set the key's TTL has failed
  confirmed,   \* secrets a code has been validated against by VerifyTOTP
  overlapped   \* the secret was stored while a VerifyTOTP was under way

totpVars  == <<secret, enabled, made, confirmed, overlapped>>
heldVars  == <<pending, issued>>
limitVars == <<count, expires, wrong, lost>>
callVars  == <<pc, arg>>
vars == <<registered, totpVars, limitVars, heldVars, callVars>>

\* Counts above this one are not told apart.
TooMany == Limit + 2

\* More wrong passwords than this are not counted.
MaxWrong == Limit + Cardinality(Calls) + 1

UpTo(n, bound) == IF n < bound THEN n ELSE bound

Init ==
  /\ registered = FALSE
  /\ secret = 0 /\ enabled = FALSE /\ made = 0
  /\ issued = FALSE
  /\ count = 0 /\ expires = FALSE
  /\ pending = FALSE
  /\ pc = [c \in Calls |-> "idle"]
  /\ arg = [c \in Calls |-> 0]
  /\ wrong = 0 /\ lost = FALSE
  /\ confirmed = {} /\ overlapped = FALSE

At(c, step) == pc[c] = step

Then(c, step) ==
  /\ pc' = [pc EXCEPT ![c] = step]
  /\ UNCHANGED arg

\* The response is written.
Answer(c) ==
  /\ pc' = [pc EXCEPT ![c] = "idle"]
  /\ arg' = [arg EXCEPT ![c] = 0]

\* A request arrives at the first step that touches a store.
Arrive(c, step, what) ==
  /\ At(c, "idle")
  /\ pc' = [pc EXCEPT ![c] = step]
  /\ arg' = [arg EXCEPT ![c] = what]
  /\ UNCHANGED <<registered, totpVars, limitVars, heldVars>>

\* The requests, with what their handlers check before the first round trip:
\* a password that is right (1) or not (0), the secret a code was computed
\* from (0 is none of them), a refresh token.  Access tokens are handed out
\* with refresh tokens; one that has expired only makes for fewer requests, as
\* does a pending-login token.
Request(c) ==
  \/ Arrive(c, "create", 0)
  \/ \E right \in {0, 1} : Arrive(c, "incr", right)
  \/ \E code \in 0..made : pending /\ Arrive(c, "code", code)
  \/ issued /\ Arrive(c, "enrol", 0)
  \/ \E code \in 0..made : issued /\ Arrive(c, "check", code)

\* A round trip fails, or the request is cancelled: an error is answered, an
\* open transaction is rolled back.
Fail(c) ==
  /\ ~At(c, "idle")
  /\ Answer(c)
  /\ lost' = (lost \/ (At(c, "expire") /\ count > 0))
  /\ UNCHANGED <<registered, totpVars, heldVars, count, expires, wrong>>

-----------------------------------------------------------------------------
(***************************************************************************)
(* Register, Login, LoginTwoFactor.                                        *)
(***************************************************************************)

\* CreateUser: the unique index on email decides between two registrations.
Create(c) ==
  /\ At(c, "create")
  /\ registered' = TRUE
  /\ IF registered THEN Answer(c) ELSE Then(c, "issue")
  /\ UNCHANGED <<totpVars, limitVars, heldVars>>

\* Mistake: one attempt too many.
WithinLimitAndOne(n) == n <= Limit + 1

WithinLimit(n) == n <= Limit

\* Mistake: INCR is taken to return the value before.
CountsFromZero(n) == n = 0

FirstAttempt(n) == n = 1

\* Allow: INCR, and what its result leads to.
Incr(c) ==
  LET n == UpTo(count + 1, TooMany) IN
  /\ At(c, "incr")
  /\ count' = n
  /\ CASE FirstAttempt(n) -> Then(c, "expire")
       [] ~FirstAttempt(n) /\ WithinLimit(n) -> Then(c, "password")
       [] OTHER -> Answer(c)
  /\ UNCHANGED <<registered, totpVars, heldVars, expires, wrong, lost>>

\* Allow: EXPIRE, which does nothing to a key that is not there.
Expire(c) ==
  /\ At(c, "expire")
  /\ expires' = (count > 0)
  /\ Then(c, "password")
  /\ UNCHANGED <<registered, totpVars, heldVars, count, wrong, lost>>

\* The key is gone and with it the window.
NewWindow == expires' = FALSE /\ wrong' = 0 /\ lost' = FALSE

\* Redis removes the key at the end of the window.
WindowEnds ==
  /\ expires
  /\ count' = 0
  /\ NewWindow
  /\ UNCHANGED <<registered, totpVars, heldVars, callVars>>

\* VerifyPassword: what it read of totp_enabled decides how the login goes on.
CheckPassword(c) ==
  /\ At(c, "password")
  /\ IF registered /\ arg[c] = 1
       THEN /\ Then(c, IF enabled THEN "reset2fa" ELSE "reset")
            /\ UNCHANGED wrong
       ELSE /\ Answer(c)
            /\ wrong' = UpTo(wrong + 1, MaxWrong)
  /\ UNCHANGED <<registered, totpVars, heldVars, count, expires, lost>>

\* Mistake: a login that succeeds takes back its own attempt (DECR).
OneTakenBack == count - 1

CountAfterReset == 0

\* Reset: DEL; then the tokens, or a pending-login token.
Reset(c) ==
  /\ count' = CountAfterReset
  /\ NewWindow
  /\ \/ At(c, "reset") /\ Then(c, "issue") /\ UNCHANGED pending
     \/ At(c, "reset2fa") /\ Answer(c) /\ pending' = TRUE
  /\ UNCHANGED <<registered, totpVars, issued>>

\* LoginTwoFactor: the code is checked against the stored secret.
CheckCode(c) ==
  /\ At(c, "code")
  /\ IF secret # 0 /\ arg[c] = secret THEN Then(c, "issue") ELSE Answer(c)
  /\ UNCHANGED <<registered, totpVars, limitVars, heldVars>>

\* issueTokens: the refresh token is stored, both tokens are answered.
IssueTokens(c) ==
  /\ At(c, "issue")
  /\ issued' = TRUE
  /\ Answer(c)
  /\ UNCHANGED <<registered, totpVars, limitVars, pending>>

-----------------------------------------------------------------------------
(***************************************************************************)
(* EnrollTOTP, VerifyTOTP.                                                 *)
(***************************************************************************)

\* Mistake: an account that has a second factor keeps it switched on.
StillEnabled == enabled

EnabledAfterEnrol == FALSE

\* SetPendingTOTPSecret stores a new secret; the answer shows it.
Enrol(c) ==
  /\ At(c, "enrol")
  /\ made < MaxSecrets
  /\ made' = made + 1
  /\ secret' = made + 1
  /\ enabled' = EnabledAfterEnrol
  /\ overlapped' = (\E d \in Calls : At(d, "enable"))
  /\ Answer(c)
  /\ UNCHANGED <<registered, limitVars, heldVars, confirmed>>

\* VerifyTOTP reads the secret and checks the code ...
CheckEnrolment(c) ==
  /\ At(c, "check")
  /\ IF secret # 0 /\ arg[c] = secret
       THEN Then(c, "enable") /\ confirmed' = confirmed \union {secret}
       ELSE Answer(c) /\ UNCHANGED confirmed
  /\ UNCHANGED <<registered, limitVars, heldVars,
                 secret, enabled, made, overlapped>>

\* ... and EnableTOTP switches the second factor on, whatever the secret now is.
Enable(c) ==
  /\ At(c, "enable")
  /\ enabled' = TRUE
  /\ Answer(c)
  /\ UNCHANGED <<registered, limitVars, heldVars,
                 secret, made, confirmed, overlapped>>

-----------------------------------------------------------------------------

Step(c) ==
  \/ Create(c) \/ Incr(c) \/ Expire(c) \/ CheckPassword(c) \/ Reset(c)
  \/ CheckCode(c) \/ IssueTokens(c)
  \/ Enrol(c) \/ CheckEnrolment(c) \/ Enable(c)

Next ==
  \/ \E c \in Calls : Request(c) \/ Step(c) \/ Fail(c)
  \/ WindowEnds

Spec == Init /\ [][Next]_vars

-----------------------------------------------------------------------------
(***************************************************************************)
(* Properties.                                                             *)
(***************************************************************************)

Steps == {"idle", "create", "issue", "incr", "expire", "password", "reset",
          "reset2fa", "code", "enrol", "check", "enable"}

\* Every variable keeps its type (the rows, the Redis key, the requests).
TypeOK ==
  /\ registered \in BOOLEAN
  /\ made \in 0..MaxSecrets /\ secret \in 0..made /\ enabled \in BOOLEAN
  /\ issued \in BOOLEAN
  /\ count \in 0..TooMany /\ expires \in BOOLEAN
  /\ pending \in BOOLEAN
  /\ pc \in [Calls -> Steps]
  /\ arg \in [Calls -> Nat]
  /\ wrong \in 0..MaxWrong /\ lost \in BOOLEAN
  /\ confirmed \subseteq 1..made /\ overlapped \in BOOLEAN

\* Between two successful logins or ends of the window, the password is tried
\* at most Limit times, and once more by each request that a window now over
\* had let through, however the requests interleave (RateLimiter and Login).
GuessesAreLimited == wrong <= Limit + Cardinality(Calls)

\* An attempt counter without a TTL - which would lock the account out for
\* good - is about to be given one, unless the very request that was to set it
\* has failed between INCR and EXPIRE (RateLimiter.Allow).
OnlyALostExpireStopsTheClock ==
  count > 0 /\ ~expires => lost \/ \E c \in Calls : At(c, "expire")

\* A second factor that is switched on, but whose secret no code has been
\* checked against, was stored by an EnrollTOTP that overlapped a VerifyTOTP:
\* no sequence of whole requests, failed ones included, leads there.
OnlyAnOverlapEnablesUnconfirmed ==
  enabled => secret \in confirmed \/ overlapped

\* "A broken enrollment can't lock someone out" (account.go:102-104,
\* api.go:217-219): 2FA is on only with a secret VerifyTOTP has confirmed.
EnabledIsConfirmed == enabled => secret \in confirmed

=============================================================================
