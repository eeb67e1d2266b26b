---------------------------- MODULE RefreshTokens ----------------------------
(***************************************************************************)
(* Refresh tokens and their rotation (backend/internal/auth/refresh.go),    *)
(* as the handlers of backend/internal/api/api.go use them.                 *)
(*                                                                         *)
(* A request is a goroutine; each statement of its transaction is one       *)
(* atomic step, at PostgreSQL's default isolation (read committed), and the *)
(* statements of different requests interleave.  Any of them may fail.      *)
(*                                                                         *)
(* A definition whose comment says "Mistake" is the definition after it     *)
(* with a plausible error; no action of the specification uses it.          *)
(***************************************************************************)
EXTENDS Integers

CONSTANTS
  Calls,      \* requests in flight at the same time
  MaxTokens   \* bound: refresh tokens issued

ASSUME MaxTokensType == MaxTokens \in Nat

VARIABLES
  rows,    \* refresh_tokens, numbered in the order they were committed
  issued,  \* how many there are
  pc, arg, \* where each request is, and the token it presents
  rivals   \* tokens two rotations worked on at the same time (history)

callVars == <<pc, arg>>
vars == <<rows, issued, rivals, callVars>>

Tokens == 1..MaxTokens

\* parent: the token this one replaced, 0 if it was issued by a login.
Rows == [parent : 0..MaxTokens, revoked : BOOLEAN, expired : BOOLEAN]

Steps == {"idle", "issue", "select", "revoke", "commit"}

Init ==
  /\ rows = [t \in Tokens |-> [parent |-> 0, revoked |-> FALSE, expired |-> FALSE]]
  /\ issued = 0
  /\ pc = [c \in Calls |-> "idle"]
  /\ arg = [c \in Calls |-> 0]
  /\ rivals = {}

At(c, step) == pc[c] = step

Then(c, step) ==
  /\ pc' = [pc EXCEPT ![c] = step]
  /\ UNCHANGED arg

\* The response is written.
Answer(c) ==
  /\ pc' = [pc EXCEPT ![c] = "idle"]
  /\ arg' = [arg EXCEPT ![c] = 0]

\* A login that has succeeded, or a Refresh with a token somebody was given:
\* usable, used or expired.
Request(c) ==
  /\ At(c, "idle")
  /\ \/ Then(c, "issue")
     \/ \E t \in 1..issued : /\ pc' = [pc EXCEPT ![c] = "select"]
                             /\ arg' = [arg EXCEPT ![c] = t]
  /\ UNCHANGED <<rows, issued, rivals>>

\* A statement fails, the request is cancelled or the server crashes: the
\* transaction is rolled back.  A commit whose client never hears of it is
\* the step Commit.
Fail(c) ==
  /\ ~At(c, "idle")
  /\ Answer(c)
  /\ UNCHANGED <<rows, issued, rivals>>

\* A row is inserted: the child of the one it replaces, or of none.
Inserted(parent) ==
  [rows EXCEPT ![issued + 1] =
     [parent |-> parent, revoked |-> FALSE, expired |-> FALSE]]

\* issueTokens: a login's refresh token is stored.
IssueTokens(c) ==
  /\ At(c, "issue")
  /\ issued < MaxTokens
  /\ rows' = Inserted(0)
  /\ issued' = issued + 1
  /\ Answer(c)
  /\ UNCHANGED rivals

\* Mistake: the state of the row is not looked at.
AnyRow(t) == rows[t] \in Rows

Usable(t) == ~rows[t].revoked /\ ~rows[t].expired

Rotating(t) == {c \in Calls : pc[c] \in {"revoke", "commit"} /\ arg[c] = t}

\* SELECT: at read committed it sees no uncommitted change and waits for none.
Select(c) ==
  LET t == arg[c] IN
  /\ At(c, "select")
  /\ IF Usable(t)
       THEN /\ Then(c, "revoke")
            /\ rivals' = IF Rotating(t) # {} THEN rivals \union {t} ELSE rivals
       ELSE Answer(c) /\ UNCHANGED rivals
  /\ UNCHANGED <<rows, issued>>

\* Mistake: there is no transaction around the statements.
RevokedAtOnce(t) == [rows EXCEPT ![t].revoked = TRUE]

\* What others see of the UPDATE before the commit.
BeforeCommit(t) == rows

\* UPDATE waits while another transaction has the row locked.
Revoke(c) ==
  LET t == arg[c] IN
  /\ At(c, "revoke")
  /\ \A d \in Calls : At(d, "commit") => arg[d] # t
  /\ rows' = BeforeCommit(t)
  /\ Then(c, "commit")
  /\ UNCHANGED <<issued, rivals>>

\* INSERT and COMMIT: both changes become visible; the answer carries the new
\* tokens.
Commit(c) ==
  LET t == arg[c] IN
  /\ At(c, "commit")
  /\ issued < MaxTokens
  /\ rows' = [Inserted(t) EXCEPT ![t].revoked = TRUE]
  /\ issued' = issued + 1
  /\ Answer(c)
  /\ UNCHANGED rivals

\* Mistake: what has expired is wiped, also under a running rotation.
Wiped(t) == [rows EXCEPT ![t] = [parent |-> 0]]

RunOut(t) == [rows EXCEPT ![t].expired = TRUE]

\* A refresh token's expires_at passes.
RowExpires(t) ==
  /\ ~rows[t].expired
  /\ rows' = RunOut(t)
  /\ UNCHANGED <<issued, rivals, callVars>>

Next ==
  \/ \E c \in Calls : \/ Request(c) \/ Fail(c) \/ IssueTokens(c)
                      \/ Select(c) \/ Revoke(c) \/ Commit(c)
  \/ \E t \in 1..issued : RowExpires(t)

Spec == Init /\ [][Next]_vars

-----------------------------------------------------------------------------
(***************************************************************************)
(* Properties.                                                             *)
(***************************************************************************)

\* Every variable keeps its type (the table and the transactions).
TypeOK ==
  /\ issued \in 0..MaxTokens /\ rows \in [Tokens -> Rows]
  /\ pc \in [Calls -> Steps]
  /\ arg \in [Calls -> 0..issued]
  /\ rivals \subseteq 1..issued

Children(t) == {u \in 1..issued : rows[u].parent = t}

\* Rotation is all or nothing: a refresh token is revoked exactly if a token
\* that replaces it is stored, wherever Rotate fails (refresh.go's transaction).
RotationIsAtomic ==
  \A t \in 1..issued : rows[t].revoked <=> Children(t) # {}

\* A refresh token that was exchanged twice was exchanged by two rotations at
\* the same time; presented again after its first use it is refused.
OnlyRivalsForkAToken ==
  \A t \in 1..issued : \A u, v \in Children(t) : u # v => t \in rivals

\* "Refresh tokens are single-use" (refresh.go:51).
RefreshTokensAreSingleUse ==
  \A t \in 1..issued : \A u, v \in Children(t) : u = v
=============================================================================
