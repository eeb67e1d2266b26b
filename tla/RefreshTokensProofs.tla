------------------------- MODULE RefreshTokensProofs -------------------------
(***************************************************************************)
(* Proofs about RefreshTokens, for any number of requests and tokens.      *)
(***************************************************************************)
EXTENDS RefreshTokens, TLAPS

USE MaxTokensType DEF At

\* A request whose transaction has read the row of t as usable.
Working(c, t) == pc[c] \in {"revoke", "commit"} /\ arg[c] = t

\* Who presents a token presents one that was issued; rotations of one token
\* at the same time are rivals, and so is one that outlasts a commit.
CallsInv ==
  /\ \A c \in Calls : pc[c] \in {"select", "revoke", "commit"} => arg[c] # 0
  /\ \A c, d \in Calls : \A t \in Tokens :
       c # d /\ Working(c, t) /\ Working(d, t) => t \in rivals
  /\ \A c \in Calls : \A t \in Tokens :
       Working(c, t) /\ rows[t].revoked => t \in rivals

\* A parent was issued, and is revoked.
ParentsInv ==
  \A u \in 1..issued :
    rows[u].parent # 0 => /\ rows[u].parent \in 1..issued
                          /\ rows[rows[u].parent].revoked

IInv == TypeOK /\ CallsInv /\ ParentsInv /\ RotationIsAtomic /\ OnlyRivalsForkAToken

-----------------------------------------------------------------------------

\* No token has been issued.
LEMMA Initially == Init => IInv
BY DEF Init, IInv, TypeOK, CallsInv, ParentsInv, RotationIsAtomic,
  OnlyRivalsForkAToken, Children, Rows, Steps, Tokens, Working

\* Every action leaves well-typed variables behind.
LEMMA TypeStep ==
  ASSUME IInv, [Next]_vars
  PROVE  TypeOK'
<1> USE DEF TypeOK, IInv, CallsInv, Steps, Tokens, Rows
<1>1. ASSUME NEW c \in Calls, Request(c) PROVE TypeOK'
  <2>1. CASE pc' = [pc EXCEPT ![c] = "issue"] /\ UNCHANGED arg
    BY <1>1, <2>1 DEF Request
  <2>2. ASSUME NEW t \in 1..issued,
               pc' = [pc EXCEPT ![c] = "select"], arg' = [arg EXCEPT ![c] = t]
        PROVE  TypeOK'
    BY <1>1, <2>2 DEF Request
  <2> QED
    BY <1>1, <2>1, <2>2 DEF Request, Then
<1>2. ASSUME NEW c \in Calls, Fail(c) PROVE TypeOK'
  BY <1>2 DEF Fail, Answer
<1>3. ASSUME NEW c \in Calls, IssueTokens(c) PROVE TypeOK'
  BY <1>3 DEF IssueTokens, Answer, Inserted
<1>4. ASSUME NEW c \in Calls, Select(c) PROVE TypeOK'
  <2>1. arg[c] \in 1..issued
    BY <1>4 DEF Select
  <2>2. pc' \in [Calls -> Steps] /\ arg' \in [Calls -> 0..issued]
    <3>1. Then(c, "revoke") \/ Answer(c)
      BY <1>4 DEF Select
    <3>2. CASE Then(c, "revoke")
      BY <3>2 DEF Then
    <3>3. CASE Answer(c)
      BY <3>3 DEF Answer
    <3> QED
      BY <3>1, <3>2, <3>3
  <2>3. rivals' \subseteq 1..issued
    BY <1>4, <2>1 DEF Select
  <2> QED
    BY <1>4, <2>2, <2>3 DEF Select
<1>5. ASSUME NEW c \in Calls, Revoke(c) PROVE TypeOK'
  BY <1>5 DEF Revoke, Then, BeforeCommit
<1>6. ASSUME NEW c \in Calls, Commit(c) PROVE TypeOK'
  <2>1. arg[c] \in 1..issued
    BY <1>6 DEF Commit
  <2>2. issued' = issued + 1 /\ issued' \in 0..MaxTokens
    BY <1>6 DEF Commit
  <2>3. Inserted(arg[c]) \in [Tokens -> Rows]
    <3>1. [parent |-> arg[c], revoked |-> FALSE, expired |-> FALSE] \in Rows
      BY <2>1
    <3> HIDE DEF Rows
    <3> QED
      BY <3>1 DEF Inserted
  <2>4. rows' \in [Tokens -> Rows]
    BY <1>6, <2>1, <2>3 DEF Commit
  <2>5. pc' \in [Calls -> Steps] /\ arg' \in [Calls -> 0..issued']
    BY <1>6, <2>2 DEF Commit, Answer
  <2> QED
    BY <1>6, <2>2, <2>4, <2>5 DEF Commit
<1>7. ASSUME NEW t \in 1..issued, RowExpires(t) PROVE TypeOK'
  BY <1>7 DEF RowExpires, RunOut, callVars
<1>8. CASE UNCHANGED vars
  BY <1>8 DEF vars, callVars
<1> QED
  BY <1>1, <1>2, <1>3, <1>4, <1>5, <1>6, <1>7, <1>8 DEF Next

-----------------------------------------------------------------------------
(***************************************************************************)
(* The table of refresh tokens under a step.                               *)
(***************************************************************************)

TableInv == ParentsInv /\ RotationIsAtomic /\ OnlyRivalsForkAToken

\* A step that leaves the table alone, or only lets a row expire.
SameTokens ==
  /\ issued' = issued
  /\ \A t \in Tokens : /\ rows'[t].parent = rows[t].parent
                       /\ rows'[t].revoked = rows[t].revoked

\* A step that stores one token, in exchange for p unless p is 0.
Stores(p) ==
  /\ issued' = issued + 1
  /\ rows'[issued + 1].parent = p /\ ~rows'[issued + 1].revoked
  /\ \A t \in 1..issued : /\ rows'[t].parent = rows[t].parent
                          /\ rows'[t].revoked <=> (rows[t].revoked \/ t = p)

\* A step that leaves the table alone keeps what holds of it.
LEMMA SameTokensKeepTable ==
  ASSUME IInv, SameTokens, rivals \subseteq rivals'
  PROVE  TableInv'
<1>1. \A t \in 1..issued : Children(t)' = Children(t)
  BY DEF IInv, TypeOK, SameTokens, Children, Tokens
<1> QED
  BY <1>1 DEF IInv, TypeOK, TableInv, ParentsInv, RotationIsAtomic,
    OnlyRivalsForkAToken, SameTokens, Tokens

\* The new token has no children yet; if p has another child it was revoked
\* before, so the second exchange needs p to be among the rivals.
LEMMA StoringKeepsTable ==
  ASSUME IInv, TypeOK', NEW p \in 0..issued, Stores(p), rivals' = rivals,
         p # 0 /\ rows[p].revoked => p \in rivals
  PROVE  TableInv'
<1>a. /\ issued \in Nat /\ issued' = issued + 1
      /\ 1..issued' = 1..issued \union {issued + 1} /\ issued + 1 \notin 1..issued
  BY DEF IInv, TypeOK, Stores
<1>b. /\ ParentsInv
      /\ \A u \in 1..issued : rows[u].parent \in Nat
  BY DEF IInv, TypeOK, Rows, Tokens
<1>1. \A t \in 1..issued :
        Children(t)' = Children(t) \union (IF t = p THEN {issued + 1} ELSE {})
  BY <1>a DEF Children, Stores
<1>2. ASSUME NEW t, t = issued + 1 PROVE Children(t)' = {}
  <2>1. p # issued + 1
    BY <1>a
  <2>2. \A u \in 1..issued : rows[u].parent # issued + 1
    BY <1>a, <1>b DEF ParentsInv
  <2> QED
    BY <1>a, <1>2, <2>1, <2>2 DEF Children, Stores
<1>3. ParentsInv'
  <2> SUFFICES ASSUME NEW u \in 1..issued', rows'[u].parent # 0
               PROVE  /\ rows'[u].parent \in 1..issued
                      /\ rows'[rows'[u].parent].revoked
    BY <1>a DEF ParentsInv
  <2>1. CASE u = issued + 1
    <3>1. p \in 1..issued /\ rows'[u].parent = p
      BY <1>a, <2>1 DEF Stores
    <3> QED
      BY <3>1 DEF Stores
  <2>2. CASE u \in 1..issued
    BY <1>a, <1>b, <2>2 DEF Stores, ParentsInv
  <2> QED
    BY <1>a, <2>1, <2>2
<1>4. RotationIsAtomic'
  <2> SUFFICES ASSUME NEW t \in 1..issued'
               PROVE  rows'[t].revoked <=> Children(t)' # {}
    BY DEF RotationIsAtomic
  <2>1. CASE t = issued + 1
    BY <1>2, <2>1 DEF Stores
  <2>2. CASE t \in 1..issued
    <3>1. rows[t].revoked <=> Children(t) # {}
      BY <2>2 DEF IInv, RotationIsAtomic
    <3>2. rows'[t].revoked <=> (rows[t].revoked \/ t = p)
      BY <2>2 DEF Stores
    <3> QED
      BY <1>1, <2>2, <3>1, <3>2
  <2> QED
    BY <1>a, <2>1, <2>2
<1>5. OnlyRivalsForkAToken'
  <2> SUFFICES ASSUME NEW t \in 1..issued', NEW u \in Children(t)',
                      NEW v \in Children(t)', u # v
               PROVE  t \in rivals
    BY DEF OnlyRivalsForkAToken
  <2>1. t \in 1..issued
    BY <1>a, <1>2
  <2>2. CASE u \in Children(t) /\ v \in Children(t)
    BY <2>1, <2>2 DEF IInv, OnlyRivalsForkAToken
  <2>3. CASE Children(t) # {} /\ t = p
    BY <2>1, <2>3 DEF IInv, RotationIsAtomic
  <2> QED
    BY <1>1, <2>1, <2>2, <2>3
<1> QED
  BY <1>3, <1>4, <1>5 DEF TableInv

-----------------------------------------------------------------------------
(***************************************************************************)
(* The requests under a step.                                              *)
(***************************************************************************)

\* No request starts to work on a token and none is revoked.
LEMMA NothingNewKeepsCalls ==
  ASSUME IInv,
         \A c \in Calls : pc'[c] \in {"select", "revoke", "commit"} => arg'[c] # 0,
         \A c \in Calls : \A t \in Tokens : Working(c, t)' => Working(c, t),
         \A t \in Tokens : rows'[t].revoked => rows[t].revoked,
         rivals \subseteq rivals'
  PROVE  CallsInv'
BY DEF IInv, CallsInv

\* A request has read nothing yet when it arrives.
LEMMA RequestKeepsInvariant ==
  ASSUME IInv, TypeOK', NEW c \in Calls, Request(c)
  PROVE  IInv'
<1> USE DEF IInv, TypeOK, Request, Then
<1>1. SameTokens /\ rivals' = rivals
  BY DEF SameTokens
<1>2. TableInv'
  BY <1>1, SameTokensKeepTable
<1>3. CallsInv'
  <2>1. \A d \in Calls : pc'[d] \in {"select", "revoke", "commit"} => arg'[d] # 0
    BY DEF CallsInv
  <2>2. \A d \in Calls : \A t \in Tokens : Working(d, t)' => Working(d, t)
    BY DEF Working
  <2> QED
    BY <2>1, <2>2, NothingNewKeepsCalls
<1> QED
  BY <1>2, <1>3 DEF TableInv

\* A rollback ends the work on a token.
LEMMA FailKeepsInvariant ==
  ASSUME IInv, TypeOK', NEW c \in Calls, Fail(c)
  PROVE  IInv'
<1> USE DEF IInv, TypeOK, Fail, Answer
<1>1. SameTokens /\ rivals' = rivals
  BY DEF SameTokens
<1>2. TableInv'
  BY <1>1, SameTokensKeepTable
<1>3. CallsInv'
  <2>1. \A d \in Calls : pc'[d] \in {"select", "revoke", "commit"} => arg'[d] # 0
    BY DEF CallsInv
  <2>2. \A d \in Calls : \A t \in Tokens : Working(d, t)' => Working(d, t)
    BY DEF Working
  <2> QED
    BY <2>1, <2>2, NothingNewKeepsCalls
<1> QED
  BY <1>2, <1>3 DEF TableInv

\* A transaction that reads a token others work on makes it a rival's.
LEMMA SelectKeepsInvariant ==
  ASSUME IInv, TypeOK', NEW c \in Calls, Select(c)
  PROVE  IInv'
<1> DEFINE t == arg[c]
<1>a. pc[c] = "select" /\ t \in 1..issued /\ t \in Tokens
  BY DEF IInv, TypeOK, CallsInv, Select, Tokens
<1>b. SameTokens /\ rivals \subseteq rivals' /\ rows' = rows /\ issued' = issued
  BY DEF Select, SameTokens
<1>1. TableInv'
  BY <1>b, SameTokensKeepTable
<1>2. CallsInv'
  <2>1. CASE Usable(t)
    <3>1. /\ pc' = [pc EXCEPT ![c] = "revoke"] /\ arg' = arg
          /\ rivals' = IF Rotating(t) # {} THEN rivals \union {t} ELSE rivals
      BY <2>1 DEF Select, Then
    <3>2. \A d \in Calls : pc'[d] \in {"select", "revoke", "commit"} => arg'[d] # 0
      BY <3>1, <1>a DEF IInv, TypeOK, CallsInv
    <3>3. \A d \in Calls : \A u \in Tokens :
            Working(d, u)' => Working(d, u) \/ (d = c /\ u = t)
      BY <3>1, <1>a DEF IInv, TypeOK, Working
    <3>4. ~Working(c, t) /\ ~rows[t].revoked
      BY <1>a, <2>1 DEF Working, Usable
    <3>5. \A d \in Calls : Working(d, t) => t \in rivals'
      BY <3>1 DEF Working, Rotating
    <3> QED
      BY <1>b, <3>2, <3>3, <3>4, <3>5 DEF IInv, CallsInv
  <2>2. CASE ~Usable(t)
    <3>1. Answer(c)
      BY <2>2 DEF Select
    <3>2. \A d \in Calls : pc'[d] \in {"select", "revoke", "commit"} => arg'[d] # 0
      BY <3>1 DEF IInv, TypeOK, CallsInv, Answer
    <3>3. \A d \in Calls : \A u \in Tokens : Working(d, u)' => Working(d, u)
      BY <3>1 DEF IInv, TypeOK, Working, Answer
    <3> QED
      BY <1>b, <3>2, <3>3, NothingNewKeepsCalls
  <2> QED
    BY <2>1, <2>2
<1> QED
  BY <1>1, <1>2 DEF IInv, TableInv

\* Before the commit nobody sees the UPDATE.
LEMMA RevokeKeepsInvariant ==
  ASSUME IInv, TypeOK', NEW c \in Calls, Revoke(c)
  PROVE  IInv'
<1> USE DEF IInv, TypeOK, Revoke, Then, BeforeCommit
<1>1. SameTokens /\ rivals' = rivals
  BY DEF SameTokens
<1>2. TableInv'
  BY <1>1, SameTokensKeepTable
<1>3. CallsInv'
  <2>1. \A d \in Calls : pc'[d] \in {"select", "revoke", "commit"} => arg'[d] # 0
    BY DEF CallsInv
  <2>2. \A d \in Calls : \A t \in Tokens : Working(d, t)' => Working(d, t)
    BY DEF Working
  <2> QED
    BY <2>1, <2>2, NothingNewKeepsCalls
<1> QED
  BY <1>2, <1>3 DEF TableInv

\* Expiry changes neither parents nor revocations.
LEMMA RowExpiresKeepsInvariant ==
  ASSUME IInv, TypeOK', NEW t \in 1..issued, RowExpires(t)
  PROVE  IInv'
<1> USE DEF IInv, TypeOK, RowExpires, RunOut, callVars
<1>1. SameTokens /\ rivals' = rivals
  BY DEF SameTokens, Tokens, Rows
<1>2. TableInv'
  BY <1>1, SameTokensKeepTable
<1>3. CallsInv'
  BY <1>1, NothingNewKeepsCalls DEF CallsInv, SameTokens, Working
<1> QED
  BY <1>2, <1>3 DEF TableInv

\* A login's token replaces none.
LEMMA IssueTokensKeepsInvariant ==
  ASSUME IInv, TypeOK', NEW c \in Calls, IssueTokens(c)
  PROVE  IInv'
<1> USE DEF IInv, TypeOK, IssueTokens, Inserted, Tokens
<1>1. Stores(0) /\ rivals' = rivals
  BY DEF Stores, Rows
<1>2. TableInv'
  BY <1>1, StoringKeepsTable
<1>3. CallsInv'
  <2>1. \A d \in Calls : pc'[d] \in {"select", "revoke", "commit"} => arg'[d] # 0
    BY DEF CallsInv, Answer
  <2>2. \A d \in Calls : \A t \in Tokens : Working(d, t)' => Working(d, t)
    BY DEF Working, Answer
  <2>3. \A t \in Tokens : rows'[t].revoked => rows[t].revoked
    OBVIOUS
  <2> QED
    BY <1>1, <2>1, <2>2, <2>3, NothingNewKeepsCalls
<1> QED
  BY <1>2, <1>3 DEF TableInv

\* Whoever still works on the token a commit revokes is a rival of it.
LEMMA CommitKeepsInvariant ==
  ASSUME IInv, TypeOK', NEW c \in Calls, Commit(c)
  PROVE  IInv'
<1> DEFINE p == arg[c]
<1>a. /\ pc[c] = "commit" /\ p \in 1..issued /\ p \in Tokens /\ Working(c, p)
      /\ issued \in Nat /\ issued + 1 \in Tokens /\ issued + 1 # p
  BY DEF IInv, TypeOK, CallsInv, Commit, Tokens, Working
<1>b. Stores(p) /\ rivals' = rivals
  <2>1. /\ rows' = [Inserted(p) EXCEPT ![p].revoked = TRUE]
        /\ issued' = issued + 1 /\ rivals' = rivals
        /\ rows \in [Tokens -> Rows]
    BY DEF IInv, TypeOK, Commit
  <2>2. /\ Inserted(p)[issued + 1] = [parent |-> p, revoked |-> FALSE, expired |-> FALSE]
        /\ rows'[issued + 1] = Inserted(p)[issued + 1]
    BY <1>a, <2>1 DEF Inserted
  <2>3. ASSUME NEW t \in 1..issued
        PROVE  /\ rows'[t].parent = rows[t].parent
               /\ rows'[t].revoked <=> (rows[t].revoked \/ t = p)
    <3>1. t \in Tokens /\ t # issued + 1
      BY <2>1 DEF IInv, TypeOK, Tokens
    <3>2. Inserted(p)[t] = rows[t] /\ rows[t] \in Rows
      BY <1>a, <2>1, <3>1 DEF Inserted
    <3>3. CASE t = p
      <4>1. rows'[t] = [rows[t] EXCEPT !.revoked = TRUE]
        BY <1>a, <2>1, <3>1, <3>2, <3>3 DEF Inserted
      <4> QED
        BY <3>2, <3>3, <4>1 DEF Rows
    <3>4. CASE t # p
      BY <1>a, <2>1, <3>1, <3>2, <3>4 DEF Inserted
    <3> QED
      BY <3>3, <3>4
  <2> QED
    BY <2>1, <2>2, <2>3 DEF Stores
<1>1. TableInv'
  <2>1. rows[p].revoked => p \in rivals
    BY <1>a DEF IInv, CallsInv
  <2> QED
    BY <1>a, <1>b, <2>1, StoringKeepsTable
<1>2. CallsInv'
  <2>0. /\ pc' = [pc EXCEPT ![c] = "idle"] /\ arg' = [arg EXCEPT ![c] = 0]
        /\ pc \in [Calls -> Steps] /\ arg \in [Calls -> 0..issued]
    BY DEF Commit, Answer, IInv, TypeOK
  <2>1. \A d \in Calls : pc'[d] \in {"select", "revoke", "commit"} => arg'[d] # 0
    BY <2>0 DEF IInv, CallsInv
  <2>2. \A d \in Calls : \A t \in Tokens : Working(d, t)' => Working(d, t) /\ d # c
    BY <2>0 DEF Working
  <2>3. \A d \in Calls : \A t \in Tokens : Working(d, t) /\ t = p /\ d # c => t \in rivals
    BY <1>a DEF IInv, CallsInv
  <2>4. \A t \in Tokens : rows'[t].revoked => rows[t].revoked \/ t = p
    BY <1>a DEF IInv, TypeOK, Commit, Inserted, Rows
  <2> QED
    BY <1>b, <2>1, <2>2, <2>3, <2>4 DEF IInv, CallsInv
<1> QED
  BY <1>1, <1>2 DEF IInv, TableInv

-----------------------------------------------------------------------------

\* Every step of Next keeps the invariant.
LEMMA Preserved ==
  ASSUME IInv, [Next]_vars
  PROVE  IInv'
<1>1. TypeOK'
  BY TypeStep
<1>2. CASE UNCHANGED vars
  BY <1>2 DEF vars, callVars, IInv, TypeOK, CallsInv, ParentsInv, Children,
    RotationIsAtomic, OnlyRivalsForkAToken, Working
<1> QED
  BY <1>1, <1>2, RequestKeepsInvariant, FailKeepsInvariant, SelectKeepsInvariant,
    RevokeKeepsInvariant, CommitKeepsInvariant, IssueTokensKeepsInvariant,
    RowExpiresKeepsInvariant DEF Next

\* The inductive invariant holds of every behaviour.
LEMMA Inductive == Spec => []IInv
<1>1. IInv /\ [Next]_vars => IInv'
  BY Preserved
<1> QED
  BY Initially, <1>1, PTL DEF Spec

\* Every variable keeps its type.
THEOREM TypeCorrect == Spec => []TypeOK
<1>1. IInv => TypeOK
  BY DEF IInv
<1> QED
  BY Inductive, <1>1, PTL

\* A refresh token is revoked exactly if its replacement is stored.
THEOREM RotationAtomic == Spec => []RotationIsAtomic
<1>1. IInv => RotationIsAtomic
  BY DEF IInv
<1> QED
  BY Inductive, <1>1, PTL

\* Only rotations that overlap exchange one refresh token twice.
THEOREM ForksNeedRivals == Spec => []OnlyRivalsForkAToken
<1>1. IInv => OnlyRivalsForkAToken
  BY DEF IInv
<1> QED
  BY Inductive, <1>1, PTL
=============================================================================
