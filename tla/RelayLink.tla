------------------------------ MODULE RelayLink ------------------------------
(***************************************************************************)
(* What a relay promises to the calls it pairs: a call is linked with at   *)
(* most one other call, that one presented the same token at the same      *)
(* instance, and a linked call's frames reach its partner complete and in  *)
(* order until one of the two calls ends.  How the handlers find each      *)
(* other, and what they hold in between, is not part of the promise.       *)
(***************************************************************************)
EXTENDS Integers, Sequences

CONSTANTS Streams, None, MaxFrames

VARIABLES
  at,       \* where and with which token each call presents itself
  partner,  \* the call each call is linked with
  ended,    \* the calls that are over
  sent,     \* frames each client has sent
  got       \* frames each client has been given

vars == <<at, partner, ended, sent, got>>

\* The relay starts with no link, no ended call and no frame.
Init ==
  /\ partner = [s \in Streams |-> None]
  /\ ended = {}
  /\ sent = [s \in Streams |-> 0]
  /\ got = [s \in Streams |-> <<>>]

\* Two calls that are not over and linked with nobody become a link.
Link(s, d) ==
  /\ s # d
  /\ at[s] = at[d]
  /\ {s, d} \cap ended = {}
  /\ partner[s] = None /\ partner[d] = None
  /\ partner' = [partner EXCEPT ![s] = d, ![d] = s]
  /\ UNCHANGED <<at, ended, sent, got>>

Put(s) ==
  /\ s \notin ended
  /\ sent[s] < MaxFrames
  /\ sent' = [sent EXCEPT ![s] = @ + 1]
  /\ UNCHANGED <<at, partner, ended, got>>

\* The next frame of s, and no other, reaches its partner.
Deliver(s) ==
  LET d == partner[s] IN
  /\ d # None
  /\ {s, d} \cap ended = {}
  /\ Len(got[d]) < sent[s]
  /\ got' = [got EXCEPT ![d] = Append(@, [src |-> s, n |-> Len(@) + 1])]
  /\ UNCHANGED <<at, partner, ended, sent>>

End(s) ==
  /\ s \notin ended
  /\ ended' = ended \union {s}
  /\ UNCHANGED <<at, partner, sent, got>>

Next ==
  \/ \E s, d \in Streams : Link(s, d)
  \/ \E s \in Streams : Put(s) \/ Deliver(s) \/ End(s)

Spec == Init /\ [][Next]_vars
=============================================================================
