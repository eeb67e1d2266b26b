------------------------------ MODULE Rendezvous ------------------------------
(***************************************************************************)
(* The rendezvous service (backend/internal/rendezvous/rendezvous.go) over  *)
(* the device registry in PostgreSQL and the presence keys in Redis         *)
(* (backend/internal/registry).                                             *)
(*                                                                         *)
(* An RPC is a goroutine that makes several round trips: it authenticates   *)
(* the caller, asks the database whether the caller owns the device, acts,  *)
(* and writes an audit row.  Each round trip is one atomic step here; the   *)
(* steps of different calls interleave, any of them may fail, and a write   *)
(* may be committed although its caller is told that it failed.             *)
(*                                                                         *)
(* A public key and an endpoint are represented by the user who supplied    *)
(* them, which is all that the properties ask of them.  Of the audit rows   *)
(* and of the session tokens the model keeps one of each, chosen            *)
(* arbitrarily: what holds of an arbitrary one holds of all.                *)
(*                                                                         *)
(* A definition whose comment says "Mistake" is the definition after it     *)
(* with a plausible error; no action of the specification uses it.          *)
(***************************************************************************)
EXTENDS Integers

CONSTANTS
  Users, Devices,
  Calls,         \* RPCs in flight at the same time
  Unregistered,  \* no row in `devices`
  NoOwner,       \* a row that was there before migration 5 added the owner
  None,          \* no audit row, no token
  EphemeralKey   \* NEXDESK_SESSION_SIGNING_KEY is not set

ASSUME NamesAreNotUsers == {Unregistered, NoOwner, None} \cap Users = {}
ASSUME NamesDiffer == Unregistered # NoOwner /\ Unregistered # None /\ NoOwner # None
ASSUME EphemeralKeyType == EphemeralKey \in BOOLEAN

VARIABLES
  owner,    \* devices.owner_user_id
  keyFrom,  \* who supplied devices.public_key
  allowed,  \* device_authorizations: <<owner device, allowed device>>
  online,   \* presence keys: who supplied the endpoint, or Unregistered
  event,    \* one row of audit_events
  token,    \* one session token that has been issued and not forgotten
  pc,       \* where each call is
  req       \* what each call asks for

vars == <<owner, keyFrom, allowed, online, event, token, pc, req>>
store == <<owner, keyFrom, allowed, online>>

Requests ==
  [op : {"register", "heartbeat", "lookup"}, user : Users, dev : Devices]
  \union [op : {"authorize", "request"}, user : Users, dev : Devices,
          other : Devices]

Steps == {"idle", "owner", "act", "grant", "issue", "presence", "audit"}

Events == [op : {"register"}, user : Users, dev : Devices]
          \union [op : {"authorize"}, user : Users, dev : Devices, other : Devices]

SessionTokens == [requester : Devices, target : Devices, user : Users]

Init ==
  /\ owner \in [Devices -> {Unregistered, NoOwner}]
  /\ keyFrom = owner
  /\ allowed \in SUBSET ({d \in Devices : owner[d] = NoOwner} \X Devices)
  /\ online = [d \in Devices |-> Unregistered]
  /\ event = None
  /\ token = None
  /\ pc = [c \in Calls |-> "idle"]
  /\ req = [c \in Calls |-> None]

-----------------------------------------------------------------------------

\* The call goes on to its next round trip.
Then(c, step) ==
  /\ pc' = [pc EXCEPT ![c] = step]
  /\ UNCHANGED req

\* The call answers, or fails: nothing of it is left in the service.
Answer(c) ==
  /\ pc' = [pc EXCEPT ![c] = "idle"]
  /\ req' = [req EXCEPT ![c] = None]

\* The first round trip of each RPC; the arguments have been checked and
\* the caller's access token verified.
FirstStep(op) ==
  CASE op = "register" -> "act"
    [] op = "lookup" -> "act"
    [] op \in {"heartbeat", "authorize", "request"} -> "owner"

Begin(c) ==
  /\ pc[c] = "idle"
  /\ \E r \in Requests :
       /\ req' = [req EXCEPT ![c] = r]
       /\ pc' = [pc EXCEPT ![c] = FirstStep(r.op)]
  /\ UNCHANGED <<store, event, token>>

\* A failed round trip, a cancelled call: the call ends with an error.  A
\* write that is committed although its caller was told that it failed is
\* the step of that write followed by this one.
Fail(c) ==
  /\ pc[c] # "idle"
  /\ Answer(c)
  /\ UNCHANGED <<store, event, token>>

\* Mistake: any registered device will do.
IsRegistered(c) == owner[req[c].dev] # Unregistered

IsDeviceOwner(c) == owner[req[c].dev] = req[c].user

\* requireOwner: go on, or answer PermissionDenied.
RequireOwner(c) ==
  /\ pc[c] = "owner"
  /\ IF IsDeviceOwner(c)
       THEN Then(c, IF req[c].op = "request" THEN "grant" ELSE "act")
       ELSE Answer(c)
  /\ UNCHANGED <<store, event, token>>

\* Mistake: ON CONFLICT DO UPDATE without the WHERE.
Unconditional(c) == TRUE

\* The rows the INSERT ... ON CONFLICT ... WHERE may write: SQL's comparison
\* with a NULL owner is not true.
MayUpsert(c) == owner[req[c].dev] \in {Unregistered, req[c].user}

\* Mistake: the last writer becomes the owner.
LastWriterOwns(c) == [owner |-> req[c].user, key |-> req[c].user, affected |-> 1]

\* The row after the statement; the owner is written by the insert alone.
Upserted(c) ==
  LET d == req[c].dev  u == req[c].user IN
  IF MayUpsert(c)
    THEN [owner |-> IF owner[d] = Unregistered THEN u ELSE owner[d],
          key |-> u, affected |-> 1]
    ELSE [owner |-> owner[d], key |-> keyFrom[d], affected |-> 0]

\* UpsertDevice: no row affected means ErrOwnershipMismatch.
Register(c) ==
  LET d == req[c].dev  row == Upserted(c) IN
  /\ pc[c] = "act" /\ req[c].op = "register"
  /\ owner' = [owner EXCEPT ![d] = row.owner]
  /\ keyFrom' = [keyFrom EXCEPT ![d] = row.key]
  /\ IF row.affected > 0 THEN Then(c, "audit") ELSE Answer(c)
  /\ UNCHANGED <<allowed, online, event, token>>

\* SET presence:<device> <endpoint> EX 30.
Heartbeat(c) ==
  /\ pc[c] = "act" /\ req[c].op = "heartbeat"
  /\ online' = [online EXCEPT ![req[c].dev] = req[c].user]
  /\ Answer(c)
  /\ UNCHANGED <<owner, keyFrom, allowed, event, token>>

\* The presence key's TTL runs out.
PresenceExpires(d) ==
  /\ online[d] # Unregistered
  /\ online' = [online EXCEPT ![d] = Unregistered]
  /\ UNCHANGED <<owner, keyFrom, allowed, event, token, pc, req>>

\* GetDevice: not found, an error for a row whose owner is NULL (the scan
\* into a string fails), or on to the presence key.
LookupDevice(c) ==
  /\ pc[c] = "act" /\ req[c].op = "lookup"
  /\ IF owner[req[c].dev] \in {Unregistered, NoOwner}
       THEN Answer(c)
       ELSE Then(c, "presence")
  /\ UNCHANGED <<store, event, token>>

\* Endpoint: whatever it finds is the answer.
LookupPresence(c) ==
  /\ pc[c] = "presence"
  /\ Answer(c)
  /\ UNCHANGED <<store, event, token>>

\* INSERT ... ON CONFLICT DO NOTHING.
Authorize(c) ==
  /\ pc[c] = "act" /\ req[c].op = "authorize"
  /\ allowed' = allowed \union {<<req[c].dev, req[c].other>>}
  /\ Then(c, "audit")
  /\ UNCHANGED <<owner, keyFrom, online, event, token>>

\* Mistake: the two devices of the query are swapped.
IsAuthorizedSwapped(c) == <<req[c].dev, req[c].other>> \in allowed

IsAuthorized(c) == <<req[c].other, req[c].dev>> \in allowed

\* IsAuthorized(target, requester): go on, or answer Authorized: false.
CheckGrant(c) ==
  /\ pc[c] = "grant"
  /\ IF IsAuthorized(c) THEN Then(c, "issue") ELSE Answer(c)
  /\ UNCHANGED <<store, event, token>>

\* Issue: the token names requester and target.
Issue(c) ==
  /\ pc[c] = "issue"
  /\ token' \in {token, [requester |-> req[c].dev, target |-> req[c].other,
                         user |-> req[c].user]}
  /\ Answer(c)
  /\ UNCHANGED <<store, event>>

\* Mistake: logged without the user, as a failed login would be.
AuditRowOfNobody(c) == [req[c] EXCEPT !.user = None]

\* The row that records what the call did.
AuditRow(c) == req[c]

\* audit.Log.
Audit(c) ==
  /\ pc[c] = "audit"
  /\ event' \in {event, AuditRow(c)}
  /\ Answer(c)
  /\ UNCHANGED <<store, token>>

\* The server restarts: calls in flight are lost, and so is the signing key
\* unless the environment sets it.  The database and Redis keep their data.
Restart ==
  /\ pc' = [c \in Calls |-> "idle"]
  /\ req' = [c \in Calls |-> None]
  /\ token' = IF EphemeralKey THEN None ELSE token
  /\ UNCHANGED <<store, event>>

Step(c) ==
  \/ RequireOwner(c) \/ Register(c) \/ Heartbeat(c)
  \/ LookupDevice(c) \/ LookupPresence(c)
  \/ Authorize(c) \/ CheckGrant(c) \/ Issue(c) \/ Audit(c)

Next ==
  \/ \E c \in Calls : Begin(c) \/ Step(c) \/ Fail(c)
  \/ \E d \in Devices : PresenceExpires(d)
  \/ Restart

Spec == Init /\ [][Next]_vars

-----------------------------------------------------------------------------
(***************************************************************************)
(* Properties.                                                             *)
(***************************************************************************)

\* Every variable keeps its type (the tables, the presence keys, the calls).
TypeOK ==
  /\ owner \in [Devices -> Users \union {Unregistered, NoOwner}]
  /\ keyFrom \in [Devices -> Users \union {Unregistered, NoOwner}]
  /\ allowed \subseteq Devices \X Devices
  /\ online \in [Devices -> Users \union {Unregistered}]
  /\ event \in Events \union {None}
  /\ token \in SessionTokens \union {None}
  /\ pc \in [Calls -> Steps]
  /\ req \in [Calls -> Requests \union {None}]

\* Ownership is fixed at first registration (registry.go:36): whatever calls
\* race, fail and are retried, a device never gets a second owner, and a row
\* once there is never gone.
OwnershipIsFixed ==
  [][\A d \in Devices : owner[d] # Unregistered => owner'[d] = owner[d]]_vars

\* What peers are told about a device comes from its owner: nobody else's
\* registration replaced the key, nobody else's heartbeat set the endpoint,
\* although the check of ownership and the write are separate round trips.
PeersSeeOwnersData ==
  \A d \in Devices :
    /\ keyFrom[d] = owner[d]
    /\ online[d] # Unregistered => online[d] = owner[d]

\* The answer of requireOwner stays true until the call acts on it.
OwnerCheckStaysTrue ==
  \A c \in Calls :
    pc[c] \in {"act", "grant", "issue", "audit"} /\ req[c].op # "lookup" =>
      \/ pc[c] = "act" /\ req[c].op = "register"
      \/ owner[req[c].dev] = req[c].user

\* A session token's requester is a device of the user who asked for it, and
\* the target is a registered device that has allowed the requester.
TokensAreGranted ==
  token # None =>
    /\ owner[token.requester] = token.user
    /\ owner[token.target] # Unregistered
    /\ <<token.target, token.requester>> \in allowed

\* Only registered devices grant access to themselves.
GrantsAreRegistered == \A p \in allowed : owner[p[1]] # Unregistered

\* An audit row tells what happened: the device is its user's, and the grant
\* it records is there.
AuditTellsTheTruth ==
  event # None =>
    /\ owner[event.dev] = event.user
    /\ event.op = "authorize" => <<event.dev, event.other>> \in allowed
=============================================================================
