----------------------------- MODULE ReplayGuard -----------------------------
(***************************************************************************)
(* The replay window (core/nexdesk-core/src/crypto/replay.rs): the highest  *)
(* nonce so far and the accepted ones inside the window below it.  Nonces   *)
(* are u64; subtraction saturates at zero.                                  *)
(*                                                                         *)
(* A definition whose comment says "Mistake" is the definition after it     *)
(* with a plausible error; no action of the specification uses it.          *)
(***************************************************************************)
EXTENDS Integers

CONSTANT MaxNonce  \* u64::MAX

ASSUME MaxNonceType == MaxNonce \in Nat \ {0}

VARIABLES
  window,   \* never changes
  highest,  \* NoNonce before the first nonce
  seen,     \* the HashSet
  accepted  \* every nonce ever accepted (history; the code forgets them)

guardVars == <<window, highest, seen, accepted>>

Nonces == 0..MaxNonce
NoNonce == -1

\* new() refuses a window of zero.
GuardInit ==
  /\ window \in Nonces \ {0}
  /\ highest = NoNonce
  /\ seen = {}
  /\ accepted = {}

SaturatingSub(a, b) == IF a < b THEN 0 ELSE a - b

\* Mistake: the window's length instead of its length less one.
ShortFloor(top) == SaturatingSub(top, window) + 1

\* The oldest nonce inside the window whose newest is top.
Floor(top) == SaturatingSub(top, window - 1)

\* What retain keeps when the window moves up.
Keep(top) == {n \in seen : n >= Floor(top)}

\* check_and_record returns Ok.
Accepts(n) ==
  \/ highest = NoNonce
  \/ n > highest
  \/ n >= Floor(highest) /\ n \notin seen

CheckAndRecord(n) ==
  /\ IF Accepts(n)
     THEN /\ highest' = IF n > highest THEN n ELSE highest
          /\ seen' = {n} \cup (IF n > highest THEN Keep(n) ELSE seen)
          /\ accepted' = accepted \cup {n}
     ELSE UNCHANGED <<highest, seen, accepted>>
  /\ UNCHANGED window

GuardNext == \E n \in Nonces : CheckAndRecord(n)

GuardSpec == GuardInit /\ [][GuardNext]_guardVars

-----------------------------------------------------------------------------
GuardTypeOK ==
  /\ window \in Nonces \ {0}
  /\ highest \in Nonces \cup {NoNonce}
  /\ seen \subseteq Nonces
  /\ accepted \subseteq Nonces

\* The decision a guard with unbounded memory would make: a nonce is fresh if it
\* was never accepted and no accepted one is a window or more ahead of it.
Fresh(n) == n \notin accepted /\ \A m \in accepted : m < n + window

\* The guard, which forgets, always decides like the one that does not
\* (crypto/replay.rs 32-59): nothing is accepted twice, nothing fresh is refused,
\* also next to 0 and to u64::MAX.
GuardDecidesRight == \A n \in Nonces : Accepts(n) <=> Fresh(n)
=============================================================================
