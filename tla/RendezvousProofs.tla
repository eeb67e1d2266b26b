--------------------------- MODULE RendezvousProofs ---------------------------
(***************************************************************************)
(* Proofs about Rendezvous, for any number of users, devices and calls.    *)
(*                                                                         *)
(* The argument: an owner, once written, stays (StoreGrows), and grants    *)
(* are only added.  So a check of ownership or of a grant, a token and an  *)
(* audit row stay right however long after the check they are used.        *)
(***************************************************************************)
EXTENDS Rendezvous, TLAPS

\* What each call that is under way has asked for and found out.
CallsInv ==
  \A c \in Calls :
    /\ pc[c] # "idle" => req[c] \in Requests
    /\ pc[c] = "owner" => req[c].op \in {"heartbeat", "authorize", "request"}
    /\ pc[c] = "act" =>
         req[c].op \in {"register", "lookup", "heartbeat", "authorize"}
    /\ pc[c] = "grant" => req[c].op = "request"
    /\ pc[c] = "issue" => req[c].op = "request" /\ IsAuthorized(c)
    /\ pc[c] = "audit" =>
         /\ req[c].op \in {"register", "authorize"}
         /\ req[c].op = "authorize" => <<req[c].dev, req[c].other>> \in allowed

IInv ==
  /\ TypeOK /\ CallsInv /\ OwnerCheckStaysTrue
  /\ PeersSeeOwnersData /\ GrantsAreRegistered
  /\ TokensAreGranted /\ AuditTellsTheTruth

\* No registered device changes hands, and no grant is withdrawn.
StoreGrew ==
  /\ \A d \in Devices : owner[d] # Unregistered => owner'[d] = owner[d]
  /\ allowed \subseteq allowed'

-----------------------------------------------------------------------------
\* What a request is made of.
LEMMA RequestFields ==
  ASSUME NEW r \in Requests
  PROVE  /\ r.user \in Users /\ r.dev \in Devices
         /\ r.op \in {"register", "heartbeat", "lookup", "authorize", "request"}
         /\ r.op \in {"authorize", "request"} => r.other \in Devices
         /\ r.op \in {"register", "authorize"} => r \in Events
BY DEF Requests, Events

\* The names that are not users are told apart from them.
LEMMA Names ==
  ASSUME NEW u \in Users
  PROVE  u # Unregistered /\ u # NoOwner /\ u # None
BY NamesAreNotUsers

\* The row after the statement of UpsertDevice.
LEMMA UpsertedRow ==
  ASSUME TypeOK, NEW c \in Calls, req[c] \in Requests
  PROVE  LET d == req[c].dev  row == Upserted(c) IN
           /\ row.owner \in Users \union {Unregistered, NoOwner}
           /\ row.key \in Users \union {Unregistered, NoOwner}
           /\ owner[d] # Unregistered => row.owner = owner[d]
           /\ keyFrom[d] = owner[d] => row.key = row.owner
           /\ row.affected > 0 => row.owner = req[c].user
BY RequestFields, Names, NamesDiffer DEF Upserted, MayUpsert, TypeOK

\* What a step of UpsertDevice or AuthorizeDevice does to the tables is all
\* that is ever done to them.
LEMMA StoreGrows ==
  ASSUME IInv, [Next]_vars
  PROVE  StoreGrew
<1> USE DEF StoreGrew
<1>1. ASSUME NEW c \in Calls, Register(c) PROVE StoreGrew
  <2>1. req[c] \in Requests
    BY <1>1 DEF IInv, CallsInv, Register
  <2> QED
    BY <1>1, <2>1, UpsertedRow DEF IInv, TypeOK, Register
<1>2. ASSUME NEW c \in Calls, Authorize(c) PROVE StoreGrew
  BY <1>2 DEF Authorize
<1>3. CASE UNCHANGED <<owner, allowed>>
  BY <1>3
<1> QED
  BY <1>1, <1>2, <1>3
  DEF Next, Step, Begin, Fail, RequireOwner, Heartbeat, LookupDevice,
      LookupPresence, CheckGrant, Issue, Audit, PresenceExpires, Restart,
      store, vars

\* Every action leaves well-typed variables behind.
LEMMA TypeStep ==
  ASSUME IInv, [Next]_vars
  PROVE  TypeOK'
<1> USE DEF TypeOK
<1> SUFFICES ASSUME Next PROVE TypeOK'
  BY DEF IInv, vars
<1>1. ASSUME NEW c \in Calls, Begin(c) PROVE TypeOK'
  <2>1. PICK r \in Requests : /\ req' = [req EXCEPT ![c] = r]
                              /\ pc' = [pc EXCEPT ![c] = FirstStep(r.op)]
    BY <1>1 DEF Begin
  <2>2. FirstStep(r.op) \in Steps
    BY <2>1, RequestFields DEF FirstStep, Steps
  <2> QED
    BY <1>1, <2>1, <2>2 DEF Begin, store, IInv
<1>2. ASSUME NEW c \in Calls, Step(c) PROVE TypeOK'
  <2>1. req[c] \in Requests
    BY <1>2 DEF IInv, CallsInv, Step, RequireOwner, Register, Heartbeat,
      LookupDevice, LookupPresence, Authorize, CheckGrant, Issue, Audit
  <2> DEFINE r == req[c]
  <2>2. /\ r.user \in Users /\ r.dev \in Devices
        /\ r.op \in {"authorize", "request"} => r.other \in Devices
        /\ r.op \in {"register", "authorize"} => r \in Events
    BY <2>1, RequestFields
  <2> HIDE DEF r
  <2> USE DEF IInv, Then, Answer, Steps, store
  <2>3. CASE RequireOwner(c)
    BY <2>3 DEF RequireOwner
  <2>4. CASE Register(c)
    BY <2>1, <2>2, <2>4, UpsertedRow DEF Register, r
  <2>5. CASE Heartbeat(c)
    BY <2>2, <2>5 DEF Heartbeat, r
  <2>6. CASE LookupDevice(c)
    BY <2>6 DEF LookupDevice
  <2>7. CASE LookupPresence(c)
    BY <2>7 DEF LookupPresence
  <2>8. CASE Authorize(c)
    BY <2>2, <2>8 DEF Authorize, r
  <2>9. CASE CheckGrant(c)
    BY <2>9 DEF CheckGrant
  <2>10. CASE Issue(c)
    <3>1. r.op = "request"
      BY <2>10 DEF Issue, r, CallsInv
    <3>2. [requester |-> r.dev, target |-> r.other, user |-> r.user]
            \in SessionTokens
      BY <2>2, <3>1 DEF SessionTokens
    <3> QED
      BY <2>10, <3>2 DEF Issue, r
  <2>11. CASE Audit(c)
    BY <2>2, <2>11 DEF Audit, AuditRow, r, CallsInv
  <2> QED
    BY <1>2, <2>3, <2>4, <2>5, <2>6, <2>7, <2>8, <2>9, <2>10, <2>11 DEF Step
<1>3. ASSUME NEW c \in Calls, Fail(c) PROVE TypeOK'
  BY <1>3 DEF Fail, Answer, store, IInv, Steps
<1>4. ASSUME NEW d \in Devices, PresenceExpires(d) PROVE TypeOK'
  BY <1>4 DEF PresenceExpires, IInv
<1>5. CASE Restart
  BY <1>5 DEF Restart, store, IInv, Steps
<1> QED
  BY <1>1, <1>2, <1>3, <1>4, <1>5 DEF Next

\* A fact about the database that a call relies on stays a fact.
LEMMA CallsStep ==
  ASSUME IInv, [Next]_vars
  PROVE  CallsInv' /\ OwnerCheckStaysTrue'
<1> DEFINE CallOK(c) ==
      /\ pc[c] # "idle" => req[c] \in Requests
      /\ pc[c] = "owner" => req[c].op \in {"heartbeat", "authorize", "request"}
      /\ pc[c] = "act" =>
           req[c].op \in {"register", "lookup", "heartbeat", "authorize"}
      /\ pc[c] = "grant" => req[c].op = "request"
      /\ pc[c] = "issue" => req[c].op = "request" /\ IsAuthorized(c)
      /\ pc[c] = "audit" =>
           /\ req[c].op \in {"register", "authorize"}
           /\ req[c].op = "authorize" => <<req[c].dev, req[c].other>> \in allowed
      /\ pc[c] \in {"act", "grant", "issue", "audit"} /\ req[c].op # "lookup" =>
           \/ pc[c] = "act" /\ req[c].op = "register"
           \/ owner[req[c].dev] = req[c].user
<1> SUFFICES ASSUME NEW e \in Calls PROVE CallOK(e)'
  BY DEF CallsInv, OwnerCheckStaysTrue
<1>1. CallOK(e)
  BY DEF IInv, CallsInv, OwnerCheckStaysTrue
<1>2. StoreGrew
  BY StoreGrows
<1>3. pc[e] # "idle" => req[e].user \in Users /\ req[e].dev \in Devices
  BY <1>1, RequestFields
<1>4. CASE UNCHANGED <<pc[e], req[e]>>
  BY <1>1, <1>2, <1>3, <1>4, Names DEF StoreGrew, IsAuthorized
<1>5. CASE pc'[e] = "idle"
  BY <1>5
<1>6. CASE Begin(e)
  <2>1. PICK r \in Requests : /\ req' = [req EXCEPT ![e] = r]
                              /\ pc' = [pc EXCEPT ![e] = FirstStep(r.op)]
    BY <1>6 DEF Begin
  <2>2. req'[e] = r /\ pc'[e] = FirstStep(r.op)
    BY <2>1 DEF IInv, TypeOK
  <2> QED
    BY <2>2, RequestFields DEF FirstStep
<1>7. CASE Step(e)
  <2> USE <1>1 DEF Then, Answer, IInv, TypeOK
  <2>1. CASE RequireOwner(e)
    BY <2>1 DEF RequireOwner, IsDeviceOwner, store
  <2>2. CASE Register(e)
    <3>1. Upserted(e).affected > 0 => Upserted(e).owner = req[e].user
      BY <2>2, UpsertedRow DEF Register
    <3> QED
      BY <1>3, <2>2, <3>1 DEF Register
  <2>3. CASE Heartbeat(e) \/ LookupPresence(e) \/ Issue(e) \/ Audit(e)
    BY <2>3 DEF Heartbeat, LookupPresence, Issue, Audit
  <2>4. CASE LookupDevice(e)
    BY <2>4 DEF LookupDevice
  <2>5. CASE Authorize(e)
    BY <2>5 DEF Authorize
  <2>6. CASE CheckGrant(e)
    BY <2>6 DEF CheckGrant, IsAuthorized, store
  <2> QED
    BY <1>7, <2>1, <2>2, <2>3, <2>4, <2>5, <2>6 DEF Step
<1>8. ASSUME NEW c \in Calls, c # e, Begin(c) \/ Step(c) \/ Fail(c)
      PROVE  UNCHANGED <<pc[e], req[e]>>
  BY <1>8 DEF Begin, Fail, Step, RequireOwner, Register, Heartbeat,
    LookupDevice, LookupPresence, Authorize, CheckGrant, Issue, Audit,
    Then, Answer, IInv, TypeOK
<1>9. CASE Fail(e) \/ Restart
  BY <1>5, <1>9 DEF Fail, Answer, Restart, IInv, TypeOK
<1>10. CASE \E d \in Devices : PresenceExpires(d)
  BY <1>4, <1>10 DEF PresenceExpires
<1>11. CASE UNCHANGED vars
  BY <1>4, <1>11 DEF vars
<1> QED
  BY <1>4, <1>6, <1>7, <1>8, <1>9, <1>10, <1>11 DEF Next

\* Only an owner's Register and Heartbeat write what peers will be told.
LEMMA PeersStep ==
  ASSUME IInv, [Next]_vars
  PROVE  PeersSeeOwnersData'
<1> USE DEF PeersSeeOwnersData
<1>1. StoreGrew /\ PeersSeeOwnersData
  BY StoreGrows DEF IInv
<1>2. ASSUME NEW c \in Calls, Register(c) PROVE PeersSeeOwnersData'
  <2>1. req[c] \in Requests /\ req[c].dev \in Devices
    BY <1>2, RequestFields DEF IInv, CallsInv, Register
  <2>2. Upserted(c).key = Upserted(c).owner
    BY <1>1, <2>1, UpsertedRow DEF IInv
  <2>3. \A d \in Devices : keyFrom'[d] = owner'[d]
    BY <1>1, <1>2, <2>1, <2>2 DEF Register, IInv, TypeOK
  <2>4. \A d \in Devices : online[d] # Unregistered => owner[d] # Unregistered
    BY <1>1
  <2> QED
    BY <1>1, <1>2, <2>3, <2>4 DEF Register, StoreGrew
<1>3. ASSUME NEW c \in Calls, Heartbeat(c) PROVE PeersSeeOwnersData'
  <2>1. owner[req[c].dev] = req[c].user
    BY <1>3 DEF Heartbeat, IInv, OwnerCheckStaysTrue
  <2> QED
    BY <1>1, <1>3, <2>1 DEF Heartbeat, IInv, TypeOK
<1>4. ASSUME NEW d \in Devices, PresenceExpires(d) PROVE PeersSeeOwnersData'
  BY <1>1, <1>4 DEF PresenceExpires, IInv, TypeOK
<1>5. CASE UNCHANGED <<owner, keyFrom, online>>
  BY <1>1, <1>5
<1> QED
  BY <1>2, <1>3, <1>4, <1>5
  DEF Next, Step, Begin, Fail, RequireOwner, LookupDevice, LookupPresence,
      Authorize, CheckGrant, Issue, Audit, Restart, store, vars

\* A grant is added by a call whose check of the owner still holds.
LEMMA GrantsStep ==
  ASSUME IInv, [Next]_vars
  PROVE  GrantsAreRegistered'
<1> USE DEF GrantsAreRegistered
<1>1. StoreGrew /\ GrantsAreRegistered /\ allowed \subseteq Devices \X Devices
  BY StoreGrows DEF IInv, TypeOK
<1>2. ASSUME NEW c \in Calls, Authorize(c) PROVE GrantsAreRegistered'
  <2>1. req[c] \in Requests
    BY <1>2 DEF Authorize, IInv, CallsInv
  <2>2. owner[req[c].dev] = req[c].user
    BY <1>2 DEF Authorize, IInv, OwnerCheckStaysTrue
  <2>3. owner[req[c].dev] # Unregistered
    BY <2>1, <2>2, RequestFields, Names
  <2> QED
    BY <1>1, <1>2, <2>3 DEF Authorize
<1>3. CASE allowed' = allowed
  BY <1>1, <1>3 DEF StoreGrew
<1> QED
  BY <1>2, <1>3
  DEF Next, Step, Begin, Fail, RequireOwner, Register, Heartbeat, LookupDevice,
      LookupPresence, CheckGrant, Issue, Audit, PresenceExpires, Restart,
      store, vars

\* A token is issued on a grant and an owner that do not change any more.
LEMMA TokensStep ==
  ASSUME IInv, [Next]_vars
  PROVE  TokensAreGranted'
<1> USE DEF TokensAreGranted
<1>1. /\ StoreGrew /\ TokensAreGranted /\ GrantsAreRegistered
      /\ token \in SessionTokens \union {None}
  BY StoreGrows DEF IInv, TypeOK
<1>2. CASE token' = token
  <2>1. token # None => /\ token.requester \in Devices
                        /\ token.target \in Devices /\ token.user \in Users
    BY <1>1 DEF SessionTokens
  <2> QED
    BY <1>1, <1>2, <2>1, Names DEF StoreGrew
<1>3. CASE token' = None
  BY <1>3
<1>4. ASSUME NEW c \in Calls, Issue(c), token' # token PROVE TokensAreGranted'
  <2>1. /\ owner[req[c].dev] = req[c].user
        /\ <<req[c].other, req[c].dev>> \in allowed
    BY <1>4 DEF Issue, IInv, OwnerCheckStaysTrue, CallsInv, IsAuthorized
  <2>2. owner[req[c].other] # Unregistered
    BY <1>1, <2>1 DEF GrantsAreRegistered
  <2> QED
    BY <1>4, <2>1, <2>2 DEF Issue, store
<1> QED
  BY <1>2, <1>3, <1>4
  DEF Next, Step, Begin, Fail, RequireOwner, Register, Heartbeat, LookupDevice,
      LookupPresence, Authorize, CheckGrant, Audit, PresenceExpires, Restart,
      vars

\* An audit row is written after what it tells, which is never undone.
LEMMA AuditStep ==
  ASSUME IInv, [Next]_vars
  PROVE  AuditTellsTheTruth'
<1> USE DEF AuditTellsTheTruth
<1>1. StoreGrew /\ AuditTellsTheTruth /\ event \in Events \union {None}
  BY StoreGrows DEF IInv, TypeOK
<1>2. CASE event' = event
  <2>1. event # None => event.dev \in Devices /\ event.user \in Users
    BY <1>1 DEF Events
  <2> QED
    BY <1>1, <1>2, <2>1, Names DEF StoreGrew
<1>3. ASSUME NEW c \in Calls, Audit(c), event' # event PROVE AuditTellsTheTruth'
  <2>1. /\ owner[req[c].dev] = req[c].user
        /\ req[c].op = "authorize" => <<req[c].dev, req[c].other>> \in allowed
    BY <1>3 DEF Audit, IInv, OwnerCheckStaysTrue, CallsInv
  <2> QED
    BY <1>3, <2>1 DEF Audit, AuditRow, store
<1> QED
  BY <1>2, <1>3
  DEF Next, Step, Begin, Fail, RequireOwner, Register, Heartbeat, LookupDevice,
      LookupPresence, Authorize, CheckGrant, Issue, PresenceExpires, Restart,
      vars

\* The strengthened invariant holds initially.
LEMMA Initially == Init => IInv
<1> SUFFICES ASSUME Init PROVE IInv
  OBVIOUS
<1>1. TypeOK
  BY DEF Init, TypeOK, Steps
<1>2. CallsInv /\ OwnerCheckStaysTrue
  BY DEF Init, CallsInv, OwnerCheckStaysTrue
<1>3. PeersSeeOwnersData /\ GrantsAreRegistered
  BY NamesDiffer DEF Init, PeersSeeOwnersData, GrantsAreRegistered
<1>4. TokensAreGranted /\ AuditTellsTheTruth
  BY DEF Init, TokensAreGranted, AuditTellsTheTruth
<1> QED
  BY <1>1, <1>2, <1>3, <1>4 DEF IInv

LEMMA Preserved == IInv /\ [Next]_vars => IInv'
BY TypeStep, CallsStep, PeersStep, GrantsStep, TokensStep, AuditStep DEF IInv

\* The strengthened invariant is one.
THEOREM Inductive == Spec => []IInv
BY Initially, Preserved, PTL DEF Spec

\* The tables, the presence keys and the calls keep their types.
THEOREM TypeCorrect == Spec => []TypeOK
<1>1. IInv => TypeOK
  BY DEF IInv
<1> QED
  BY <1>1, Inductive, PTL

\* UpsertDevice never gives a registered device another owner.
THEOREM OwnersStay == Spec => OwnershipIsFixed
<1>1. IInv /\ [Next]_vars =>
        [\A d \in Devices : owner[d] # Unregistered => owner'[d] = owner[d]]_vars
  BY StoreGrows DEF StoreGrew
<1> QED
  BY <1>1, Inductive, PTL DEF Spec, OwnershipIsFixed

\* Nobody but its owner sets what LookupPeer tells of a device.
THEOREM PeersAreTold == Spec => []PeersSeeOwnersData
<1>1. IInv => PeersSeeOwnersData
  BY DEF IInv
<1> QED
  BY <1>1, Inductive, PTL

\* requireOwner's answer is still right when the call acts on it.
THEOREM ChecksLast == Spec => []OwnerCheckStaysTrue
<1>1. IInv => OwnerCheckStaysTrue
  BY DEF IInv
<1> QED
  BY <1>1, Inductive, PTL

\* Every session token was issued on its target's grant, to the requester's
\* owner, and both still stand.
THEOREM TokensHaveGrants == Spec => []TokensAreGranted
<1>1. IInv => TokensAreGranted
  BY DEF IInv
<1> QED
  BY <1>1, Inductive, PTL

\* Every audit row tells what the tables hold.
THEOREM AuditIsTrue == Spec => []AuditTellsTheTruth
<1>1. IInv => AuditTellsTheTruth
  BY DEF IInv
<1> QED
  BY <1>1, Inductive, PTL
=============================================================================
