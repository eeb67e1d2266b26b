--------------------------- MODULE AccountBootstrap ---------------------------
(***************************************************************************)
(* The account the desktop application makes for itself                     *)
(* (desktop/main/accountIdentity.ts): calls of bootstrapAccessToken, which   *)
(* interleave at their awaits, against a backend that may refuse or not be   *)
(* reached, and an application that may be killed anywhere.                  *)
(*                                                                         *)
(* Credentials are the number of the launch that generated them.            *)
(*                                                                         *)
(* A definition whose comment says "Mistake" is the definition after it     *)
(* with a plausible error; no action of the specification uses it.          *)
(***************************************************************************)
EXTENDS Integers, FiniteSets

CONSTANTS
  Bootstraps,  \* calls of the IPC handlers that may be open at a time
  MaxMade      \* bound: credentials generated

ASSUME BootstrapType == MaxMade \in Nat \ {0}

VARIABLES
  made,       \* credentials generated so far
  stored,     \* account-identity.json: NoFile, TornFile or credentials
  cached,     \* cachedAccessToken is set
  waitsFor,   \* the answer a call awaits, or "none"
  using,      \* the credentials in its hands
  accounts,   \* credentials the backend has an account for
  late,       \* registrations that were given up and may still be carried out
  disturbed,  \* history: the backend has refused a login to an account that
              \*   exists, or has made one while another call registers it
  conflict    \* history: a call has failed because its account exists

accountVars == <<made, stored, cached, waitsFor, using, accounts, late, disturbed, conflict>>

NoFile == -1
TornFile == 0
Credentials == 1..MaxMade

AccountInit ==
  /\ made = 0 /\ stored = NoFile /\ cached = FALSE
  /\ waitsFor = [c \in Bootstraps |-> "none"]
  /\ using = [c \in Bootstraps |-> NoFile]
  /\ accounts = {} /\ late = {} /\ disturbed = FALSE /\ conflict = FALSE

Awaits(c, answer) == waitsFor' = [waitsFor EXCEPT ![c] = answer]

\* Mistake: they are stored after the first registration.
StoredLater == stored

\* Credentials that have been generated are in the file before they are used.
StoredNow == made + 1

\* bootstrapAccessToken up to the login: the cached token, the stored
\* credentials, or new ones.  A torn file makes JSON.parse throw.
Bootstrap(c) ==
  /\ waitsFor[c] = "none" /\ ~cached /\ stored # TornFile
  /\ IF stored # NoFile
     THEN using' = [using EXCEPT ![c] = stored] /\ UNCHANGED <<made, stored>>
     ELSE /\ made < MaxMade
          /\ made' = made + 1
          /\ stored' = StoredNow
          /\ using' = [using EXCEPT ![c] = made']
  /\ Awaits(c, "login")
  /\ UNCHANGED <<cached, accounts, late, disturbed, conflict>>

\* The application is killed while writeFileSync has emptied the file.
KilledWhileWriting ==
  /\ stored = NoFile /\ ~cached /\ \A c \in Bootstraps : waitsFor[c] = "none"
  /\ stored' = TornFile
  /\ UNCHANGED <<made, cached, waitsFor, using, accounts, late, disturbed, conflict>>

Returned(c) == Awaits(c, "none") /\ using' = [using EXCEPT ![c] = NoFile]

\* The backend knows the account.
LoggedIn(c) ==
  /\ waitsFor[c] = "login" /\ using[c] \in accounts
  /\ cached' = TRUE
  /\ Returned(c)
  /\ UNCHANGED <<made, stored, accounts, late, disturbed, conflict>>

\* It does not, or refuses for another reason: both go on to register.
NotLoggedIn(c) ==
  /\ waitsFor[c] = "login"
  /\ disturbed' = (disturbed \/ using[c] \in accounts)
  /\ Awaits(c, "register")
  /\ UNCHANGED <<made, stored, cached, using, accounts, late, conflict>>

Register(creds, others) ==
  /\ accounts' = accounts \cup {creds}
  /\ disturbed' = (disturbed \/ \E d \in others : waitsFor[d] = "register")

Registered(c) ==
  /\ waitsFor[c] = "register" /\ using[c] \notin accounts
  /\ Register(using[c], Bootstraps \ {c})
  /\ cached' = TRUE
  /\ Returned(c)
  /\ UNCHANGED <<made, stored, late, conflict>>

\* The backend carries out what nobody waits for any more.
RegisteredLate ==
  /\ \E creds \in late \ accounts : Register(creds, Bootstraps) /\ late' = late \ {creds}
  /\ UNCHANGED <<made, stored, cached, waitsFor, using, conflict>>

\* Registrations that are under way in these calls.
Sent(calls) == {using[c] : c \in {d \in calls : waitsFor[d] = "register"}}

\* The account exists already: the call fails.
Conflicts(c) ==
  /\ waitsFor[c] = "register" /\ using[c] \in accounts
  /\ conflict' = TRUE
  /\ Returned(c)
  /\ UNCHANGED <<made, stored, cached, accounts, late, disturbed>>

\* fetch rejects, or the backend refuses to register: the call fails.
Unreached(c) ==
  /\ waitsFor[c] # "none"
  /\ late' = late \cup Sent({c})
  /\ Returned(c)
  /\ UNCHANGED <<made, stored, cached, accounts, disturbed, conflict>>

\* The application ends and may be started again.
KillApp ==
  /\ cached' = FALSE
  /\ late' = late \cup Sent(Bootstraps)
  /\ waitsFor' = [c \in Bootstraps |-> "none"]
  /\ using' = [c \in Bootstraps |-> NoFile]
  /\ UNCHANGED <<made, stored, accounts, disturbed, conflict>>

AccountNext ==
  \/ KilledWhileWriting \/ KillApp \/ RegisteredLate
  \/ \E c \in Bootstraps :
       Bootstrap(c) \/ LoggedIn(c) \/ NotLoggedIn(c) \/ Registered(c) \/ Conflicts(c) \/ Unreached(c)

AccountSpec == AccountInit /\ [][AccountNext]_accountVars

-----------------------------------------------------------------------------
AccountTypeOK ==
  /\ made \in 0..MaxMade
  /\ stored \in Credentials \cup {NoFile, TornFile}
  /\ cached \in BOOLEAN
  /\ waitsFor \in [Bootstraps -> {"none", "login", "register"}]
  /\ using \in [Bootstraps -> Credentials \cup {NoFile}]
  /\ accounts \subseteq Credentials /\ late \subseteq Credentials
  /\ disturbed \in BOOLEAN /\ conflict \in BOOLEAN

\* The backend has at most one account of this install, and its credentials are
\* in the file, wherever the application was killed and whatever answers were
\* lost; a call finds its account taken only if the backend has refused a login
\* to an account that exists, or has made it while the call was registering
\* (desktop/main/accountIdentity.ts 48-50 and 63-84).
AccountIsKept ==
  /\ accounts \subseteq {stored}
  /\ conflict => disturbed
=============================================================================
