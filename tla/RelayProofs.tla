----------------------------- MODULE RelayProofs -----------------------------
(***************************************************************************)
(* Proofs about Relay, for any number of calls, instances and tokens and   *)
(* any flow-control window.                                                *)
(***************************************************************************)
EXTENDS Relay, TLAPS, FiniteSetTheorems

\* The one-line helpers of the actions are expanded in every proof below.
USE DEF NobodyWaits, EntryDeleted, MatchedSent, OwnEntryDeleted, FreeHand,
        NextFrame, Destination, OneIfDeferred, RecvError

(***************************************************************************)
(* The inductive invariant: who is paired with whom, and what has moved.   *)
(***************************************************************************)

\* A map entry is a handler in (or just out of) its select that nobody has
\* claimed and that has been handed nothing (Service.waiting).
EntriesInv ==
  \A k \in Slots :
    LET w == waiting[k] IN
      w # None => /\ phase[w] \in {"waiting", "leaving"}
                  /\ at[w] = k
                  /\ ~Claimed(w) /\ peer[w] = None /\ matched[w] = None

\* Which phases go with having a peer and with being claimed.
PeersInv ==
  \A s \in Streams :
    /\ phase[s] \in {"handing", "piping"} => peer[s] # None
    /\ peer[s] # None =>
         /\ phase[s] \in {"handing", "piping", "done"}
         /\ phase[peer[s]] \in {"waiting", "leaving", "piping", "done"}
    /\ matched[s] # None =>
         /\ peer[matched[s]] = s /\ peer[s] = None
         /\ phase[matched[s]] \in {"piping", "done"}

\* A handler that has no peer has received nothing; one that has has written
\* all it received but what it holds.
CountInv ==
  \A s \in Streams :
    /\ taken[s] <= sent[s]
    /\ hand[s] = 0 \/ hand[s] = taken[s]
    /\ peer[s] = None => taken[s] = 0
    /\ peer[s] # None =>
         taken[s] = Len(out[peer[s]]) + (IF hand[s] = 0 THEN 0 ELSE 1)

\* The k-th frame a client was given is the k-th of the stream paired with it.
FrameInv ==
  \A s \in Streams : \A k \in 1..Len(out[s]) :
    out[s][k].n = k /\ peer[out[s][k].src] = s

FlowInv == CountInv /\ FrameInv

\* The types of what PairInv is about.
PairTypes ==
  /\ phase \in [Streams -> Phases]
  /\ at \in [Streams -> Slots]
  /\ waiting \in [Slots -> Streams \union {None}]
  /\ matched \in [Streams -> Streams \union {None}]
  /\ peer \in [Streams -> Streams \union {None}]

PairInv ==
  /\ PairedByToken
  /\ PairsAreExclusive
  /\ EveryWaiterIsReachable
  /\ EntriesInv
  /\ PeersInv

IInv == TypeOK /\ PairInv /\ FlowInv

-----------------------------------------------------------------------------
\* Appending an element of S to a sequence over S gives another one.
LEMMA AppendType ==
  ASSUME NEW S, NEW q \in Seq(S), NEW e \in S
  PROVE  Append(q, e) \in Seq(S)
OBVIOUS

LEMMA ElementOfSeq ==
  ASSUME NEW S, NEW q \in Seq(S), NEW k \in 1..Len(q)
  PROVE  q[k] \in S
OBVIOUS

\* Every step of the relay keeps the variables' types.
THEOREM TypeCorrect == Spec => []TypeOK
<1> USE NoneIsNoStream, BoundsAreNaturals
<1>1. Init => TypeOK
  BY DEF Init, TypeOK, Phases
<1>2. TypeOK /\ [Next]_vars => TypeOK'
  <2> SUFFICES ASSUME TypeOK, [Next]_vars PROVE TypeOK'
    OBVIOUS
  <2> USE DEF TypeOK, Phases, Goto, callVars, pairVars, metricVars, flowVars
  <2>1. ASSUME NEW s \in Streams, SendHeader(s) PROVE TypeOK'
    BY <2>1 DEF SendHeader
  <2>2. ASSUME NEW s \in Streams, Park(s) PROVE TypeOK'
    BY <2>2 DEF Park
  <2>3. ASSUME NEW s \in Streams, Claim(s) PROVE TypeOK'
    BY <2>3 DEF Claim
  <2>4. ASSUME NEW s \in Streams, HandOver(s) PROVE TypeOK'
    <3>1. at[s].inst \in Instances
      BY DEF Slots
    <3>2. active' \in [Instances -> Int] /\ pairings' \in [Instances -> Nat]
      BY <2>4, <3>1 DEF HandOver
    <3> QED BY <2>4, <3>2 DEF HandOver
  <2>5. ASSUME NEW s \in Streams, Resume(s) PROVE TypeOK'
    BY <2>5 DEF Resume
  <2>6. ASSUME NEW s \in Streams, GiveUp(s) PROVE TypeOK'
    BY <2>6 DEF GiveUp
  <2>7. ASSUME NEW s \in Streams, Withdraw(s) PROVE TypeOK'
    BY <2>7 DEF Withdraw
  <2>8. ASSUME NEW s \in Streams, Recv(s) PROVE TypeOK'
    BY <2>8 DEF Recv
  <2>9. ASSUME NEW s \in Streams, Forward(s) PROVE TypeOK'
    <3> DEFINE f == [src |-> s, n |-> hand[s]]
    <3>1. f \in [src : Streams, n : Nat]
      OBVIOUS
    <3>2. out' = [out EXCEPT ![peer[s]] = Append(@, f)]
      BY <2>9 DEF Forward
    <3>3. out' \in [Streams -> Seq([src : Streams, n : Nat])]
      <4>1. CASE peer[s] = None
        BY <3>2, <4>1
      <4>2. CASE peer[s] \in Streams
        <5>1. Append(out[peer[s]], f) \in Seq([src : Streams, n : Nat])
          <6>1. out[peer[s]] \in Seq([src : Streams, n : Nat])
            BY <4>2
          <6> HIDE DEF f
          <6> QED BY <3>1, <6>1, AppendType
        <5> HIDE DEF f
        <5> QED BY <3>2, <4>2, <5>1
      <4> QED BY <4>1, <4>2
    <3> HIDE DEF f
    <3> QED BY <2>9, <3>3 DEF Forward
  <2>10. ASSUME NEW s \in Streams, RecvEnds(s) \/ ForwardFails(s) PROVE TypeOK'
    <3>1. at[s].inst \in Instances
      BY DEF Slots
    <3>2. Return(s)
      BY <2>10 DEF RecvEnds, ForwardFails
    <3> QED BY <3>1, <3>2 DEF Return
  <2>11. ASSUME NEW s \in Streams, Client(s) PROVE TypeOK'
    <3>1. CASE Dial(s)
      BY <3>1 DEF Dial
    <3>2. CASE ClientSend(s)
      <4>1. sent' \in [Streams -> Nat]
        BY <3>2 DEF ClientSend
      <4> QED BY <3>2, <4>1 DEF ClientSend
    <3>3. CASE ClientRead(s)
      <4> DEFINE r == read[s] + 1
      <4>0. read' = [read EXCEPT ![s] = r]
        BY <3>3, Zenon DEF ClientRead
      <4>1. read' \in [Streams -> Nat]
        <5>1. r \in Nat
          OBVIOUS
        <5> HIDE DEF r
        <5> QED BY <4>0, <5>1
      <4> QED BY <3>3, <4>1 DEF ClientRead
    <3>4. CASE ClientHalfClose(s)
      BY <3>4 DEF ClientHalfClose
    <3>5. CASE ClientGone(s)
      BY <3>5 DEF ClientGone
    <3> QED BY <2>11, <3>1, <3>2, <3>3, <3>4, <3>5 DEF Client
  <2>12. ASSUME NEW t \in Tokens, Expire(t) PROVE TypeOK'
    BY <2>12 DEF Expire
  <2>13. CASE UNCHANGED vars
    BY <2>13 DEF vars
  <2> QED
    BY <2>1, <2>2, <2>3, <2>4, <2>5, <2>6, <2>7, <2>8, <2>9, <2>10, <2>11,
       <2>12, <2>13 DEF Next, Handler
<1> QED BY <1>1, <1>2, PTL DEF Spec

-----------------------------------------------------------------------------
(***************************************************************************)
(* Pairing.  Each step below names the conjuncts its action can disturb.   *)
(***************************************************************************)

\* The part of the state PairInv is about is left alone by what clients send
\* and read, by the clock, and by frames moving through a handler.
LEMMA PairFrame ==
  ASSUME PairInv, UNCHANGED <<phase, at, waiting, matched, peer>>
  PROVE  PairInv'
BY DEF PairInv, PairedByToken, PairsAreExclusive, EveryWaiterIsReachable,
       EntriesInv, PeersInv, Claimed

\* So does a handler that moves on without touching the map or a peer.
LEMMA PairPhase ==
  ASSUME PairTypes, PairInv, NEW s \in Streams, NEW p \in Phases,
         UNCHANGED <<at, waiting, matched, peer>>, Goto(s, p),
         \/ phase[s] \in {"idle", "header"} /\ p \in {"header", "admitted", "done"}
         \/ phase[s] = "waiting" /\ p = "leaving"
         \/ phase[s] = "piping" /\ p = "done"
  PROVE  PairInv'
<1> USE NoneIsNoStream DEF PairTypes, Goto, PairInv, Claimed
<1>1. PairedByToken'
  BY DEF PairedByToken
<1>2. PairsAreExclusive'
  BY DEF PairsAreExclusive
<1>3. EveryWaiterIsReachable'
  BY DEF EveryWaiterIsReachable
<1>4. EntriesInv'
  BY DEF EntriesInv
<1>5. PeersInv'
  BY DEF PeersInv
<1> QED BY <1>1, <1>2, <1>3, <1>4, <1>5

LEMMA PairPark ==
  ASSUME PairTypes, PairInv, NEW s \in Streams, Park(s)
  PROVE  PairInv'
<1> USE NoneIsNoStream DEF PairTypes, Goto, PairInv, Claimed, Park
<1>1. PairedByToken'
  BY DEF PairedByToken
<1>2. PairsAreExclusive'
  BY DEF PairsAreExclusive
<1>3. EveryWaiterIsReachable'
  BY DEF EveryWaiterIsReachable
<1>4. EntriesInv'
  <2>1. /\ peer[s] = None
        /\ matched[s] = None
        /\ \A r \in Streams : peer[r] # s
    BY DEF PeersInv
  <2> SUFFICES ASSUME NEW k \in Slots, waiting'[k] # None
               PROVE  LET w == waiting'[k] IN
                        /\ phase'[w] \in {"waiting", "leaving"}
                        /\ at[w] = k
                        /\ \A r \in Streams : peer[r] # w
                        /\ peer[w] = None /\ matched[w] = None
    BY DEF EntriesInv
  <2>2. CASE k = at[s]
    BY <2>1, <2>2
  <2>3. CASE k # at[s]
    BY <2>3 DEF EntriesInv
  <2> QED BY <2>2, <2>3
<1>5. PeersInv'
  BY DEF PeersInv
<1> QED BY <1>1, <1>2, <1>3, <1>4, <1>5

LEMMA PairClaim ==
  ASSUME PairTypes, PairInv, NEW s \in Streams, Claim(s)
  PROVE  PairInv'
<1> DEFINE w == waiting[at[s]]
<1> USE NoneIsNoStream
<1>0. /\ phase[s] = "admitted"
      /\ peer' = [peer EXCEPT ![s] = w]
      /\ waiting' = [waiting EXCEPT ![at[s]] = None]
      /\ phase' = [phase EXCEPT ![s] = "handing"]
      /\ UNCHANGED <<at, matched>>
      /\ at[s] \in Slots
      /\ w \in Streams
  BY DEF Claim, Goto, PairTypes
<1>a. /\ phase[w] \in {"waiting", "leaving"}
      /\ at[w] = at[s]
      /\ \A r \in Streams : peer[r] # w
      /\ peer[w] = None /\ matched[w] = None
      /\ w # s
  BY <1>0 DEF PairInv, EntriesInv, Claimed
<1>b. peer[s] = None /\ matched[s] = None /\ \A r \in Streams : peer[r] # s
  BY <1>0 DEF PairInv, PeersInv, PairTypes
<1> HIDE DEF w
<1> USE DEF PairInv, PairTypes
<1>1. PairedByToken'
  <2>1. \A r \in Streams : peer'[r] = peer[r] \/ (r = s /\ peer'[r] = w)
    BY <1>0
  <2> QED BY <1>0, <1>a, <2>1 DEF PairedByToken
<1>2. PairsAreExclusive'
  BY <1>0, <1>a, <1>b DEF PairsAreExclusive
<1>3. EveryWaiterIsReachable'
  <2> SUFFICES ASSUME NEW v \in Streams, phase'[v] = "waiting", ~Claimed(v)'
               PROVE  waiting'[at'[v]] = v
    BY DEF EveryWaiterIsReachable
  <2>1. v # s /\ phase[v] = "waiting"
    BY <1>0
  <2>2. v # w
    BY <1>0 DEF Claimed
  <2>3. ~Claimed(v)
    BY <1>0, <1>b DEF Claimed
  <2>4. waiting[at[v]] = v
    BY <2>1, <2>3 DEF EveryWaiterIsReachable
  <2>5. at[v] # at[s]
    BY <2>2, <2>4 DEF w
  <2> QED BY <1>0, <2>4, <2>5
<1>4. EntriesInv'
  <2> SUFFICES ASSUME NEW k \in Slots, waiting'[k] # None
               PROVE  LET v == waiting'[k] IN
                        /\ phase'[v] \in {"waiting", "leaving"}
                        /\ at'[v] = k
                        /\ \A r \in Streams : peer'[r] # v
                        /\ peer'[v] = None /\ matched'[v] = None
    BY DEF EntriesInv, Claimed
  <2>1. k # at[s] /\ waiting'[k] = waiting[k]
    BY <1>0
  <2>2. waiting[k] # s /\ waiting[k] # w
    BY <1>0, <1>a, <2>1 DEF EntriesInv
  <2> QED BY <1>0, <2>1, <2>2 DEF EntriesInv, Claimed
<1>5. PeersInv'
  <2> SUFFICES ASSUME NEW r \in Streams
               PROVE
         /\ phase'[r] \in {"handing", "piping"} => peer'[r] # None
         /\ peer'[r] # None =>
              /\ phase'[r] \in {"handing", "piping", "done"}
              /\ phase'[peer'[r]] \in {"waiting", "leaving", "piping", "done"}
         /\ matched'[r] # None =>
              /\ peer'[matched'[r]] = r /\ peer'[r] = None
              /\ phase'[matched'[r]] \in {"piping", "done"}
    BY DEF PeersInv
  <2>1. CASE r = s
    BY <1>0, <1>a, <1>b, <2>1 DEF PeersInv
  <2>2. CASE r # s
    <3>1. matched[r] # s
      BY <1>b DEF PeersInv
    <3>2. peer'[r] = peer[r] /\ phase'[r] = phase[r] /\ peer[r] # s
      BY <1>0, <1>b, <2>2
    <3> QED BY <1>0, <1>b, <2>2, <3>1, <3>2 DEF PeersInv
  <2> QED BY <2>1, <2>2
<1> QED BY <1>1, <1>2, <1>3, <1>4, <1>5

LEMMA PairHandOver ==
  ASSUME PairTypes, PairInv, NEW s \in Streams, HandOver(s)
  PROVE  PairInv'
<1> DEFINE w == peer[s]
<1> USE NoneIsNoStream
<1>0. /\ phase[s] = "handing"
      /\ matched' = [matched EXCEPT ![w] = s]
      /\ phase' = [phase EXCEPT ![s] = "piping"]
      /\ UNCHANGED <<at, waiting, peer>>
      /\ w \in Streams
  BY DEF HandOver, Goto, PairTypes, PairInv, PeersInv
<1>a. w # s /\ peer[w] = None
  BY <1>0 DEF PairInv, PeersInv, PairsAreExclusive, PairedByToken, PairTypes
<1>b. \A k \in Slots : waiting[k] # w
  BY <1>0 DEF PairInv, EntriesInv, Claimed
<1> HIDE DEF w
<1> USE DEF PairInv, PairTypes
<1>1. PairedByToken'
  BY <1>0 DEF PairedByToken
<1>2. PairsAreExclusive'
  BY <1>0 DEF PairsAreExclusive
<1>3. EveryWaiterIsReachable'
  BY <1>0 DEF EveryWaiterIsReachable, Claimed
<1>4. EntriesInv'
  <2>1. \A k \in Slots : waiting[k] # s
    BY <1>0 DEF EntriesInv
  <2> QED BY <1>0, <1>b, <2>1 DEF EntriesInv, Claimed
<1>5. PeersInv'
  <2>1. \A r \in Streams : phase'[r] = phase[r] \/ r = s
    BY <1>0
  <2>2. phase'[s] = "piping" /\ peer[s] = w
    BY <1>0 DEF w
  <2>3. \A r \in Streams \ {w} : matched'[r] = matched[r]
    BY <1>0
  <2>4. matched'[w] = s
    BY <1>0
  <2> QED BY <1>0, <1>a, <2>1, <2>2, <2>3, <2>4 DEF PeersInv
<1> QED BY <1>1, <1>2, <1>3, <1>4, <1>5

LEMMA PairResume ==
  ASSUME PairTypes, PairInv, NEW s \in Streams, Resume(s)
  PROVE  PairInv'
<1> DEFINE d == matched[s]
<1> USE NoneIsNoStream
<1>0. /\ phase[s] = "waiting"
      /\ peer' = [peer EXCEPT ![s] = d]
      /\ matched' = [matched EXCEPT ![s] = None]
      /\ phase' = [phase EXCEPT ![s] = "piping"]
      /\ UNCHANGED <<at, waiting>>
      /\ d \in Streams
  BY DEF Resume, Goto, PairTypes
<1>a. /\ peer[d] = s /\ peer[s] = None /\ d # s
      /\ phase[d] \in {"piping", "done"}
  BY <1>0 DEF PairInv, PeersInv
<1>b. \A r \in Streams : peer[r] # d
  BY <1>0, <1>a DEF PairInv, PairsAreExclusive
<1>c. \A r \in Streams : peer[r] = s => r = d
  BY <1>0, <1>a DEF PairInv, PairsAreExclusive
<1> HIDE DEF d
<1> USE DEF PairInv, PairTypes
<1>1. PairedByToken'
  BY <1>0, <1>a DEF PairedByToken
<1>2. PairsAreExclusive'
  BY <1>0, <1>a, <1>b, <1>c DEF PairsAreExclusive
<1>3. EveryWaiterIsReachable'
  BY <1>0, <1>a DEF EveryWaiterIsReachable, Claimed
<1>4. EntriesInv'
  <2>1. \A k \in Slots : waiting[k] # s /\ waiting[k] # d
    BY <1>0, <1>a DEF EntriesInv, Claimed
  <2> QED BY <1>0, <2>1 DEF EntriesInv, Claimed
<1>5. PeersInv'
  <2>1. \A r \in Streams \ {s} :
          peer'[r] = peer[r] /\ phase'[r] = phase[r] /\ matched'[r] = matched[r]
    BY <1>0
  <2>2. peer'[s] = d /\ phase'[s] = "piping" /\ matched'[s] = None
    BY <1>0
  <2>3. \A r \in Streams \ {s} : matched[r] # s
    BY <1>0, <1>a DEF PeersInv
  <2> QED BY <1>0, <1>a, <2>1, <2>2, <2>3 DEF PeersInv
<1> QED BY <1>1, <1>2, <1>3, <1>4, <1>5

LEMMA PairWithdraw ==
  ASSUME PairTypes, PairInv, NEW s \in Streams, Withdraw(s)
  PROVE  PairInv'
<1> USE NoneIsNoStream DEF PairTypes, Goto, PairInv, Claimed, Withdraw
<1>1. PairedByToken'
  BY DEF PairedByToken
<1>2. PairsAreExclusive'
  BY DEF PairsAreExclusive
<1>3. EveryWaiterIsReachable'
  BY DEF EveryWaiterIsReachable
<1>4. EntriesInv'
  BY DEF EntriesInv
<1>5. PeersInv'
  BY DEF PeersInv
<1> QED BY <1>1, <1>2, <1>3, <1>4, <1>5

LEMMA PairStep ==
  ASSUME TypeOK, PairInv, [Next]_vars
  PROVE  PairInv'
<1>0. PairTypes
  BY DEF TypeOK, PairTypes
<1>1. ASSUME NEW s \in Streams, Handler(s) PROVE PairInv'
  <2>1. CASE SendHeader(s)
    BY <1>0, <2>1, PairPhase, Zenon DEF SendHeader, pairVars, Phases
  <2>2. CASE Park(s)
    BY <1>0, <2>2, PairPark
  <2>3. CASE Claim(s)
    BY <1>0, <2>3, PairClaim
  <2>4. CASE HandOver(s)
    BY <1>0, <2>4, PairHandOver
  <2>5. CASE Resume(s)
    BY <1>0, <2>5, PairResume
  <2>6. CASE GiveUp(s)
    BY <1>0, <2>6, PairPhase DEF GiveUp, pairVars, Phases
  <2>7. CASE Withdraw(s)
    BY <1>0, <2>7, PairWithdraw
  <2>8. CASE Recv(s) \/ Forward(s)
    BY <2>8, PairFrame DEF Recv, Forward, callVars, pairVars
  <2>9. CASE RecvEnds(s) \/ ForwardFails(s)
    BY <1>0, <2>9, PairPhase
       DEF RecvEnds, ForwardFails, Return, pairVars, Phases
  <2> QED
    BY <1>1, <2>1, <2>2, <2>3, <2>4, <2>5, <2>6, <2>7, <2>8, <2>9 DEF Handler
<1>2. ASSUME NEW s \in Streams, Client(s) PROVE PairInv'
  <2>1. CASE Dial(s)
    <3>1. PICK p \in {"header", "done"} :
            Goto(s, p) /\ phase[s] = "idle"
            /\ UNCHANGED <<at, waiting, matched, peer>>
      BY <2>1 DEF Dial, pairVars
    <3> QED BY <1>0, <3>1, PairPhase DEF Phases
  <2>2. CASE ClientSend(s) \/ ClientRead(s) \/ ClientHalfClose(s) \/ ClientGone(s)
    BY <2>2, PairFrame DEF ClientSend, ClientRead, ClientHalfClose,
       ClientGone, callVars, pairVars
  <2> QED BY <1>2, <2>1, <2>2 DEF Client
<1>3. ASSUME NEW t \in Tokens, Expire(t) PROVE PairInv'
  BY <1>3, PairFrame DEF Expire, pairVars
<1>4. CASE UNCHANGED vars
  BY <1>4, PairFrame DEF vars, callVars, pairVars
<1> QED BY <1>1, <1>2, <1>3, <1>4 DEF Next

-----------------------------------------------------------------------------
(***************************************************************************)
(* Frames.                                                                 *)
(***************************************************************************)

FlowTypes ==
  /\ peer \in [Streams -> Streams \union {None}]
  /\ sent \in [Streams -> Nat]
  /\ taken \in [Streams -> Nat]
  /\ hand \in [Streams -> Nat]
  /\ out \in [Streams -> Seq([src : Streams, n : Nat])]

LEMMA FrameType ==
  ASSUME FlowTypes, NEW r \in Streams
  PROVE  /\ Len(out[r]) \in Nat
         /\ \A k \in 1..Len(out[r]) : out[r][k].src \in Streams
<1>1. out[r] \in Seq([src : Streams, n : Nat])
  BY DEF FlowTypes
<1>2. Len(out[r]) \in Nat
  BY <1>1
<1>3. ASSUME NEW k \in 1..Len(out[r])
      PROVE  out[r][k].src \in Streams
  <2>1. out[r][k] \in [src : Streams, n : Nat]
    BY <1>1, ElementOfSeq
  <2> QED BY <2>1
<1> QED BY <1>2, <1>3

\* A client that sends only adds frames its handler has not received.
LEMMA FlowSend ==
  ASSUME FlowTypes, FlowInv, NEW s \in Streams,
         sent' = [sent EXCEPT ![s] = @ + 1],
         UNCHANGED <<peer, taken, hand, out>>
  PROVE  FlowInv'
<1>1. \A r \in Streams : sent'[r] >= sent[r] /\ sent[r] \in Nat /\ sent'[r] \in Nat /\ taken[r] \in Nat
  BY DEF FlowTypes
<1>2. CountInv'
  <2> SUFFICES ASSUME NEW r \in Streams PROVE taken[r] <= sent'[r]
    BY DEF FlowInv, CountInv
  <2>1. taken[r] <= sent[r]
    BY DEF FlowInv, CountInv
  <2> QED BY <1>1, <2>1
<1>3. FrameInv'
  BY DEF FlowInv, FrameInv
<1> QED BY <1>2, <1>3 DEF FlowInv

LEMMA FlowFrame ==
  ASSUME FlowInv, UNCHANGED <<peer, sent, taken, hand, out>>
  PROVE  FlowInv'
BY DEF FlowInv, CountInv, FrameInv

\* A handler gets a peer when neither of the two has moved a frame.
LEMMA FlowPeer ==
  ASSUME FlowTypes, FlowInv, NEW s \in Streams, NEW d \in Streams,
         peer[s] = None, \A r \in Streams : peer[r] # d,
         peer' = [peer EXCEPT ![s] = d],
         UNCHANGED <<sent, taken, hand, out>>
  PROVE  FlowInv'
<1> USE NoneIsNoStream
<1>1. Len(out[d]) = 0
  <2>1. 1 \notin 1..Len(out[d])
    BY FrameType DEF FlowInv, FrameInv
  <2> QED BY <2>1, FrameType
<1>2. taken[s] = 0 /\ hand[s] = 0
  BY DEF FlowInv, CountInv
<1>3. \A r \in Streams : r # s => peer'[r] = peer[r]
  BY DEF FlowTypes
<1>4. peer'[s] = d
  BY DEF FlowTypes
<1>5. FrameInv'
  <2> SUFFICES ASSUME NEW r \in Streams, NEW k \in 1..Len(out[r])
               PROVE  out[r][k].n = k /\ peer'[out[r][k].src] = r
    BY DEF FrameInv
  <2>1. out[r][k].src \in Streams
    BY FrameType
  <2>2. out[r][k].n = k /\ peer[out[r][k].src] = r
    BY DEF FlowInv, FrameInv
  <2> QED BY <1>3, <2>1, <2>2
<1>6. CountInv'
  <2> SUFFICES ASSUME NEW r \in Streams
               PROVE
        /\ taken[r] <= sent[r]
        /\ hand[r] = 0 \/ hand[r] = taken[r]
        /\ peer'[r] = None => taken[r] = 0
        /\ peer'[r] # None =>
             taken[r] = Len(out[peer'[r]]) + (IF hand[r] = 0 THEN 0 ELSE 1)
    BY DEF CountInv
  <2>1. CASE r = s
    <3>1. taken[s] <= sent[s]
      BY DEF FlowInv, CountInv
    <3> QED BY <1>1, <1>2, <1>4, <2>1, <3>1
  <2>2. CASE r # s
    BY <1>3, <2>2 DEF FlowInv, CountInv
  <2> QED BY <2>1, <2>2
<1> QED BY <1>5, <1>6 DEF FlowInv

LEMMA FlowRecv ==
  ASSUME FlowTypes, FlowInv, NEW s \in Streams, peer[s] # None, Recv(s)
  PROVE  FlowInv'
<1>1. /\ hand[s] = 0 /\ taken[s] < sent[s]
      /\ taken' = [taken EXCEPT ![s] = taken[s] + 1]
      /\ hand' = [hand EXCEPT ![s] = taken[s] + 1]
      /\ UNCHANGED <<peer, sent, out>>
  BY DEF Recv, pairVars
<1>2. /\ taken'[s] = taken[s] + 1 /\ hand'[s] = taken[s] + 1
      /\ taken[s] \in Nat /\ sent[s] \in Nat
      /\ \A r \in Streams \ {s} : taken'[r] = taken[r] /\ hand'[r] = hand[r]
  BY <1>1 DEF FlowTypes
<1>3. FrameInv'
  BY <1>1 DEF FlowInv, FrameInv
<1>4. CountInv'
  <2> SUFFICES ASSUME NEW r \in Streams
               PROVE
        /\ taken'[r] <= sent[r]
        /\ hand'[r] = 0 \/ hand'[r] = taken'[r]
        /\ peer[r] = None => taken'[r] = 0
        /\ peer[r] # None =>
             taken'[r] = Len(out[peer[r]]) + (IF hand'[r] = 0 THEN 0 ELSE 1)
    BY <1>1 DEF CountInv
  <2>1. CASE r = s
    <3>1. taken[s] = Len(out[peer[s]])  + 0
      BY <1>1 DEF FlowInv, CountInv
    <3>2. Len(out[peer[s]]) \in Nat
      BY FrameType DEF FlowTypes
    <3>3. taken[s] + 1 # 0 /\ taken[s] + 1 <= sent[s]
      BY <1>1, <1>2
    <3>4. taken[s] + 1 = Len(out[peer[s]]) + 1
      BY <3>1, <3>2
    <3> QED BY <1>2, <2>1, <3>3, <3>4
  <2>2. CASE r # s
    BY <1>1, <1>2, <2>2 DEF FlowInv, CountInv
  <2> QED BY <2>1, <2>2
<1> QED BY <1>3, <1>4 DEF FlowInv

LEMMA FlowForward ==
  ASSUME FlowTypes, PairsAreExclusive, FlowInv, NEW s \in Streams,
         peer[s] # None, Forward(s)
  PROVE  FlowInv'
<1> USE NoneIsNoStream
<1> DEFINE d == peer[s]
           f == [src |-> s, n |-> hand[s]]
<1>1. /\ hand[s] # 0
      /\ out' = [out EXCEPT ![d] = Append(out[d], f)]
      /\ hand' = [hand EXCEPT ![s] = 0]
      /\ UNCHANGED <<peer, sent, taken>>
      /\ d \in Streams
  BY DEF Forward, pairVars, FlowTypes
<1>2. hand[s] = taken[s] /\ taken[s] = Len(out[d]) + 1
  BY <1>1 DEF FlowInv, CountInv
<1>3. f.src = s /\ f.n = Len(out[d]) + 1
  BY <1>2
<1>4. \A r \in Streams : peer[r] = d => r = s
  BY <1>1 DEF PairsAreExclusive
<1>5. peer[s] = d
  OBVIOUS
<1>6. /\ Len(out'[d]) = Len(out[d]) + 1
      /\ \A k \in 1..Len(out[d]) : out'[d][k] = out[d][k]
      /\ out'[d][Len(out[d]) + 1] = f
      /\ \A r \in Streams \ {d} : out'[r] = out[r]
      /\ Len(out[d]) \in Nat
  <2>1. out[d] \in Seq([src : Streams, n : Nat]) /\ out'[d] = Append(out[d], f)
    BY <1>1 DEF FlowTypes
  <2>2. \A r \in Streams \ {d} : out'[r] = out[r]
    BY <1>1 DEF FlowTypes
  <2> HIDE DEF d, f
  <2> QED BY <2>1, <2>2
<1>a. hand'[s] = 0 /\ \A r \in Streams \ {s} : hand'[r] = hand[r]
  BY <1>1 DEF FlowTypes
<1> HIDE DEF d, f
<1>7. FrameInv'
  <2> SUFFICES ASSUME NEW r \in Streams, NEW k \in 1..Len(out'[r])
               PROVE  out'[r][k].n = k /\ peer[out'[r][k].src] = r
    BY <1>1 DEF FrameInv
  <2>1. CASE r = d /\ k = Len(out[d]) + 1
    BY <1>3, <1>5, <1>6, <2>1
  <2>2. CASE r = d /\ k # Len(out[d]) + 1
    <3>1. k \in 1..Len(out[d])
      BY <1>6, <2>2
    <3> QED BY <1>6, <2>2, <3>1 DEF FlowInv, FrameInv
  <2>3. CASE r # d
    BY <1>6, <2>3 DEF FlowInv, FrameInv
  <2> QED BY <2>1, <2>2, <2>3
<1>8. CountInv'
  <2> SUFFICES ASSUME NEW r \in Streams
               PROVE
        /\ taken[r] <= sent[r]
        /\ hand'[r] = 0 \/ hand'[r] = taken[r]
        /\ peer[r] = None => taken[r] = 0
        /\ peer[r] # None =>
             taken[r] = Len(out'[peer[r]]) + (IF hand'[r] = 0 THEN 0 ELSE 1)
    BY <1>1 DEF CountInv
  <2>1. CASE r = s
    <3>1. taken[s] <= sent[s]
      BY DEF FlowInv, CountInv
    <3> QED BY <1>1, <1>2, <1>5, <1>6, <1>a, <2>1, <3>1
  <2>2. CASE r # s
    <3>1. peer[r] # d
      BY <1>4, <2>2
    <3>2. peer[r] # None => out'[peer[r]] = out[peer[r]]
      BY <1>6, <3>1 DEF FlowTypes
    <3> QED BY <1>1, <1>a, <2>2, <3>2 DEF FlowInv, CountInv
  <2> QED BY <2>1, <2>2
<1> QED BY <1>7, <1>8 DEF FlowInv

LEMMA FlowStep ==
  ASSUME TypeOK, PairInv, FlowInv, [Next]_vars
  PROVE  FlowInv'
<1>0. FlowTypes
  BY DEF TypeOK, FlowTypes
<1>1. ASSUME NEW s \in Streams, Handler(s) PROVE FlowInv'
  <2>1. CASE SendHeader(s) \/ Park(s) \/ GiveUp(s) \/ Withdraw(s)
    BY <2>1, FlowFrame DEF SendHeader, Park, GiveUp, Withdraw, pairVars, flowVars
  <2>2. CASE Claim(s)
    <3>1. /\ waiting[at[s]] \in Streams
          /\ peer[s] = None
          /\ \A r \in Streams : peer[r] # waiting[at[s]]
          /\ peer' = [peer EXCEPT ![s] = waiting[at[s]]]
      <4>1. /\ phase[s] = "admitted" /\ waiting[at[s]] # None
            /\ at[s] \in Slots /\ waiting[at[s]] \in Streams
            /\ peer' = [peer EXCEPT ![s] = waiting[at[s]]]
        BY <2>2 DEF Claim, TypeOK
      <4>2. \A r \in Streams : peer[r] # waiting[at[s]]
        BY <4>1 DEF PairInv, EntriesInv, Claimed
      <4>3. peer[s] = None
        BY <4>1 DEF PairInv, PeersInv
      <4> QED BY <4>1, <4>2, <4>3
    <3>2. UNCHANGED <<sent, taken, hand, out>>
      BY <2>2 DEF Claim, flowVars
    <3> QED BY <1>0, <3>1, <3>2, FlowPeer
  <2>3. CASE HandOver(s)
    BY <2>3, FlowFrame DEF HandOver, flowVars
  <2>4. CASE Resume(s)
    <3>1. /\ matched[s] \in Streams
          /\ peer[s] = None /\ peer[matched[s]] = s
          /\ peer' = [peer EXCEPT ![s] = matched[s]]
      BY <2>4 DEF Resume, PairInv, PeersInv, TypeOK
    <3>2. \A r \in Streams : peer[r] # matched[s]
      BY <3>1, NoneIsNoStream DEF PairInv, PairsAreExclusive
    <3>3. UNCHANGED <<sent, taken, hand, out>>
      BY <2>4 DEF Resume, flowVars
    <3> QED BY <1>0, <3>1, <3>2, <3>3, FlowPeer
  <2>5. CASE Recv(s)
    <3>1. peer[s] # None
      BY <2>5 DEF Recv, PairInv, PeersInv
    <3> QED BY <1>0, <2>5, <3>1, FlowRecv
  <2>6. CASE Forward(s)
    <3>1. peer[s] # None
      BY <2>6 DEF Forward, PairInv, PeersInv
    <3> QED BY <1>0, <2>6, <3>1, FlowForward DEF PairInv
  <2>7. CASE RecvEnds(s) \/ ForwardFails(s)
    BY <2>7, FlowFrame DEF RecvEnds, ForwardFails, Return, pairVars, flowVars
  <2> QED
    BY <1>1, <2>1, <2>2, <2>3, <2>4, <2>5, <2>6, <2>7 DEF Handler
<1>2. ASSUME NEW s \in Streams, Client(s) PROVE FlowInv'
  <2>1. CASE ClientSend(s)
    BY <1>0, <2>1, FlowSend DEF ClientSend, pairVars
  <2>2. CASE Dial(s) \/ ClientRead(s) \/ ClientHalfClose(s) \/ ClientGone(s)
    BY <2>2, FlowFrame DEF Dial, ClientRead, ClientHalfClose, ClientGone,
       pairVars, flowVars
  <2> QED BY <1>2, <2>1, <2>2 DEF Client
<1>3. ASSUME NEW t \in Tokens, Expire(t) PROVE FlowInv'
  BY <1>3, FlowFrame DEF Expire, pairVars, flowVars
<1>4. CASE UNCHANGED vars
  BY <1>4, FlowFrame DEF vars, pairVars, flowVars
<1> QED BY <1>1, <1>2, <1>3, <1>4 DEF Next

\* IInv holds initially and every step keeps it.
THEOREM Inductive == Spec => []IInv
<1>1. Init => PairInv
  BY NoneIsNoStream DEF Init, PairInv, PairedByToken, PairsAreExclusive,
     EveryWaiterIsReachable, EntriesInv, PeersInv, Claimed
<1>2. Init => FlowInv
  <2> SUFFICES ASSUME Init PROVE FlowInv
    OBVIOUS
  <2>1. CountInv
    BY DEF Init, CountInv
  <2>2. FrameInv
    BY DEF Init, FrameInv
  <2> QED BY <2>1, <2>2 DEF FlowInv
<1>3. TypeOK /\ (PairInv /\ FlowInv) /\ [Next]_vars => (PairInv /\ FlowInv)'
  BY PairStep, FlowStep
<1> QED BY <1>1, <1>2, <1>3, TypeCorrect, PTL DEF Spec, IInv

-----------------------------------------------------------------------------
(***************************************************************************)
(* What follows from the inductive invariant.                              *)
(***************************************************************************)

\* A stream and the one it has been paired with are each other's partner.
LEMMA PartnerIs ==
  ASSUME PairTypes, PairsAreExclusive,
         NEW s \in Streams, NEW d \in Streams, peer[s] = d
  PROVE  Partner(s) = d /\ Partner(d) = s
<1> USE NoneIsNoStream
<1>1. Partner(s) = d
  BY DEF Partner
<1>2. CASE peer[d] # None
  BY <1>2 DEF Partner, PairsAreExclusive
<1>3. CASE peer[d] = None
  <2>1. Claimed(d) /\ \A r \in Streams : peer[r] = d <=> r = s
    BY DEF Claimed, PairsAreExclusive
  <2>2. (CHOOSE r \in Streams : peer[r] = d) = s
    BY <2>1
  <2> QED BY <1>3, <2>1, <2>2 DEF Partner
<1> QED BY <1>1, <1>2, <1>3

\* A stream that has neither a peer nor a claimant has no partner.
LEMMA PartnerNone ==
  ASSUME NEW s \in Streams, peer[s] = None, ~Claimed(s)
  PROVE  Partner(s) = None
BY DEF Partner

\* A stream's partner has it as a peer, or is its peer.
LEMMA PartnerCases ==
  ASSUME PairTypes, PairsAreExclusive, NEW s \in Streams, Partner(s) # None
  PROVE  /\ Partner(s) \in Streams
         /\ peer[s] = Partner(s) \/ (peer[s] = None /\ peer[Partner(s)] = s)
<1>1. CASE peer[s] # None
  BY <1>1 DEF Partner, PairTypes
<1>2. CASE peer[s] = None /\ Claimed(s)
  <2>1. PICK d \in Streams : peer[d] = s
    BY <1>2 DEF Claimed
  <2>2. Partner(s) = d
    BY <2>1, PartnerIs
  <2> QED BY <1>2, <2>1, <2>2
<1>3. CASE peer[s] = None /\ ~Claimed(s)
  BY <1>3, PartnerNone
<1> QED BY <1>1, <1>2, <1>3

\* Pairing is by token, one to one, and loses no waiter: for any number of
\* calls presenting any tokens in any order.
THEOREM PairingIsSafe ==
  Spec => [](/\ PairedByToken /\ PairsAreExclusive
             /\ EveryWaiterIsReachable /\ MapNamesOnlyWaiters)
<1>1. IInv => /\ PairedByToken /\ PairsAreExclusive
              /\ EveryWaiterIsReachable /\ MapNamesOnlyWaiters
  BY DEF IInv, PairInv, EntriesInv, MapNamesOnlyWaiters
<1> QED BY <1>1, Inductive, PTL

\* A late withdrawal never hides a waiter from the next caller (Stream 110-118).
THEOREM WaitersStayReachable == Spec => []EveryWaiterIsReachable
BY PairingIsSafe, PTL

\* The map holds nothing but calls that wait (Service.waiting).
THEOREM MapIsExact == Spec => []MapNamesOnlyWaiters
BY PairingIsSafe, PTL

\* A client is given its partner's frames from the first on, in order and
\* complete: no gap, no duplicate, nothing of a third stream.
THEOREM FramesAreIntact == Spec => []FramesIntact
<1>1. IInv => FramesIntact
  <2> SUFFICES ASSUME IInv, NEW d \in Streams, NEW k \in 1..Len(out[d])
               PROVE  /\ out[d][k] = [src |-> Partner(d), n |-> k]
                      /\ k <= sent[Partner(d)]
    BY DEF FramesIntact
  <2>0. PairTypes /\ FlowTypes /\ PairsAreExclusive /\ CountInv /\ FrameInv
    BY DEF IInv, TypeOK, PairTypes, FlowTypes, PairInv, FlowInv
  <2> DEFINE s == out[d][k].src
  <2>1. out[d][k] \in [src : Streams, n : Nat]
    BY <2>0, ElementOfSeq DEF FlowTypes
  <2>2. s \in Streams /\ peer[s] = d /\ out[d][k].n = k
    BY <2>0, <2>1 DEF FrameInv
  <2>3. Partner(d) = s
    BY <2>0, <2>2, PartnerIs
  <2>4. out[d][k] = [src |-> s, n |-> k]
    BY <2>1, <2>2
  <2>5. k <= sent[s]
    <3>1. Len(out[d]) \in Nat /\ taken[s] \in Nat /\ sent[s] \in Nat
      BY <2>0, <2>2, FrameType DEF FlowTypes
    <3>2. taken[s] <= sent[s] /\ Len(out[d]) <= taken[s]
      <4>1. taken[s] <= sent[s] /\ peer[s] # None
        BY <2>0, <2>2, NoneIsNoStream DEF CountInv
      <4>2. taken[s] = Len(out[d]) + (IF hand[s] = 0 THEN 0 ELSE 1)
        BY <2>0, <2>2, <4>1 DEF CountInv
      <4> HIDE DEF s
      <4>3. CASE hand[s] = 0
        BY <3>1, <4>1, <4>2, <4>3
      <4>4. CASE hand[s] # 0
        BY <3>1, <4>1, <4>2, <4>4
      <4> QED BY <4>3, <4>4
    <3> QED BY <3>1, <3>2
  <2> QED BY <2>3, <2>4, <2>5
<1> QED BY <1>1, Inductive, PTL

\* When a Send fails, the frame in the handler's hand is all that is lost.
THEOREM OnlyOneFrameIsLost == Spec => []OnlyTheFrameInHandIsLost
<1>1. IInv => OnlyTheFrameInHandIsLost
  <2> SUFFICES ASSUME IInv, NEW s \in Streams, Partner(s) # None
               PROVE  taken[s] = Len(out[Partner(s)])
                                  + (IF hand[s] = 0 THEN 0 ELSE 1)
    BY DEF OnlyTheFrameInHandIsLost
  <2>0. PairTypes /\ FlowTypes /\ PairsAreExclusive /\ CountInv /\ FrameInv
    BY DEF IInv, TypeOK, PairTypes, FlowTypes, PairInv, FlowInv
  <2>1. CASE peer[s] # None
    BY <2>0, <2>1, PartnerCases DEF CountInv
  <2>2. CASE peer[s] = None
    <3> DEFINE d == Partner(s)
    <3>1. d \in Streams /\ peer[d] = s
      BY <2>0, <2>2, PartnerCases
    <3>2. Len(out[d]) = 0
      <4> SUFFICES ASSUME Len(out[d]) # 0 PROVE FALSE
        OBVIOUS
      <4>1. 1 \in 1..Len(out[d])
        BY <2>0, <3>1, FrameType
      <4>2. out[d][1].src \in Streams /\ peer[out[d][1].src] = d
        BY <2>0, <3>1, <4>1, FrameType DEF FrameInv
      <4> HIDE DEF d
      <4>3. out[d][1].src = s
        BY <2>0, <3>1, <4>2, NoneIsNoStream DEF PairsAreExclusive
      <4> QED BY <2>2, <3>1, <4>2, <4>3, NoneIsNoStream
    <3>3. taken[s] = 0 /\ hand[s] = 0
      <4>1. taken[s] = 0 /\ (hand[s] = 0 \/ hand[s] = taken[s])
        BY <2>0, <2>2 DEF CountInv
      <4> QED BY <4>1
    <3> QED BY <3>2, <3>3
  <2> QED BY <2>1, <2>2
<1> QED BY <1>1, Inductive, PTL

-----------------------------------------------------------------------------
(***************************************************************************)
(* Relay implements RelayLink: every step of a handler or a client is a    *)
(* step of the promise or leaves it unchanged.                             *)
(***************************************************************************)

partners == [s \in Streams |-> Partner(s)]

over == {s \in Streams : phase[s] = "done"}

\* Of two paired streams each is the other's partner; stated so that it can
\* be used of the state after a step as well.
PartnerLaw ==
  /\ \A s, d \in Streams : peer[s] = d => partners[s] = d /\ partners[d] = s
  /\ partners = [s \in Streams |-> partners[s]]

LEMMA PartnerLawHolds == PairTypes /\ PairsAreExclusive => PartnerLaw
BY PartnerIs DEF PartnerLaw, partners

LEMMA PartnerLawNext == PairTypes' /\ PairsAreExclusive' => PartnerLaw'
BY PartnerLawHolds, PTL

LEMMA PartnersFrame ==
  ASSUME UNCHANGED peer
  PROVE  UNCHANGED partners
BY DEF partners, Partner, Claimed

\* A handler that moves between two phases other than done ends no call.
LEMMA OverFrame ==
  ASSUME PairTypes, NEW s \in Streams, NEW p \in Phases \ {"done"},
         phase[s] # "done", Goto(s, p)
  PROVE  UNCHANGED over
BY DEF over, Goto, PairTypes

LEMMA OverDone ==
  ASSUME PairTypes, NEW s \in Streams, phase[s] # "done", Goto(s, "done")
  PROVE  s \notin over /\ over' = over \union {s}
BY DEF over, Goto, PairTypes

\* A stuttering step of the promise.
LEMMA LinkStutter ==
  ASSUME UNCHANGED <<at, peer, over, sent, out>>
  PROVE  UNCHANGED Promise!vars
BY PartnersFrame DEF Promise!vars, partners, over

LEMMA LinkEnd ==
  ASSUME NEW s \in Streams, s \notin over, over' = over \union {s},
         UNCHANGED <<at, peer, sent, out>>
  PROVE  Promise!Next
<1>1. Promise!End(s)
  BY PartnersFrame DEF Promise!End, partners, over
<1> QED BY <1>1 DEF Promise!Next

LEMMA LinkClaim ==
  ASSUME IInv, NEW s \in Streams, Claim(s)
  PROVE  Promise!Next
<1> DEFINE w == waiting[at[s]]
<1> USE NoneIsNoStream
<1>0. PairTypes /\ PairInv
  BY DEF IInv, TypeOK, PairTypes
<1>1. /\ phase[s] = "admitted" /\ w # None
      /\ at[s] \in Slots /\ w \in Streams
      /\ peer' = [peer EXCEPT ![s] = w]
      /\ Goto(s, "handing")
      /\ UNCHANGED <<at, sent, out>>
  BY <1>0 DEF Claim, PairTypes, flowVars
<1>2. /\ phase[w] \in {"waiting", "leaving"} /\ at[w] = at[s] /\ w # s
      /\ peer[w] = None /\ ~Claimed(w)
  BY <1>0, <1>1 DEF PairInv, EntriesInv
<1>3. peer[s] = None /\ ~Claimed(s)
  BY <1>0, <1>1 DEF PairInv, PeersInv, Claimed, PairTypes
<1> HIDE DEF w
<1>4. partners[s] = None /\ partners[w] = None
  BY <1>1, <1>2, <1>3, PartnerNone DEF partners
<1>5. PairTypes' /\ PairsAreExclusive'
  <2>1. PairInv'
    BY <1>0, PairClaim
  <2> QED BY <1>0, <1>1, <2>1 DEF PairInv, PairTypes, Claim, Goto, Phases
<1>6. partners' = [partners EXCEPT ![s] = w, ![w] = s]
  <2>1. peer'[s] = w
    BY <1>0, <1>1 DEF PairTypes
  <2>2. PartnerLaw' /\ PartnerLaw
    BY <1>0, <1>5, PartnerLawHolds, PartnerLawNext DEF PairInv
  <2>3. partners'[s] = w /\ partners'[w] = s
    BY <1>1, <2>1, <2>2 DEF PartnerLaw
  <2>4. ASSUME NEW r \in Streams \ {s, w} PROVE partners'[r] = partners[r]
    <3>1. peer'[r] = peer[r]
      BY <1>0, <1>1 DEF PairTypes
    <3>2. \A x \in Streams : peer'[x] = r <=> peer[x] = r
      BY <1>0, <1>1, <1>3 DEF PairTypes
    <3>3. (CHOOSE x \in Streams : peer'[x] = r) = (CHOOSE x \in Streams : peer[x] = r)
      BY <3>2
    <3> QED BY <3>1, <3>2, <3>3 DEF partners, Partner, Claimed
  <2> HIDE DEF partners
  <2> QED BY <1>1, <1>2, <2>2, <2>3, <2>4 DEF PartnerLaw
<1>7. UNCHANGED over /\ {s, w} \cap over = {}
  <2>1. UNCHANGED over
    BY <1>0, <1>1, OverFrame DEF Phases
  <2> QED BY <1>1, <1>2, <2>1 DEF over
<1>8. Promise!Link(s, w)
  BY <1>1, <1>2, <1>4, <1>6, <1>7 DEF Promise!Link, partners, over
<1> QED BY <1>1, <1>8 DEF Promise!Next

LEMMA LinkForward ==
  ASSUME IInv, NEW s \in Streams, Forward(s)
  PROVE  Promise!Next
<1> DEFINE d == peer[s]
<1> USE NoneIsNoStream
<1>0. PairTypes /\ FlowTypes /\ PairInv /\ CountInv
  BY DEF IInv, TypeOK, PairTypes, FlowTypes, FlowInv
<1>1. /\ phase[s] = "piping" /\ hand[s] # 0 /\ Running(d)
      /\ out' = [out EXCEPT ![d] = Append(out[d], [src |-> s, n |-> hand[s]])]
      /\ UNCHANGED <<at, phase, peer, sent>>
  BY DEF Forward, Writable, callVars, pairVars
<1>2. d \in Streams
  BY <1>0, <1>1 DEF PairInv, PeersInv, PairTypes
<1>3. taken[s] = Len(out[d]) + 1 /\ hand[s] = taken[s] /\ taken[s] <= sent[s]
  BY <1>0, <1>1, <1>2 DEF CountInv
<1>4. Len(out[d]) \in Nat /\ sent[s] \in Nat
  BY <1>0, <1>2, FrameType DEF FlowTypes
<1>5. partners[s] = d
  BY <1>0, <1>2, PartnerIs DEF partners, PairInv
<1> HIDE DEF d
<1>6. Len(out[d]) < sent[s] /\ hand[s] = Len(out[d]) + 1
  BY <1>3, <1>4
<1>7. UNCHANGED over /\ {s, d} \cap over = {}
  BY <1>1 DEF over, Running
<1>8. UNCHANGED partners
  BY <1>1, PartnersFrame
<1>9. Promise!Deliver(s)
  BY <1>1, <1>2, <1>5, <1>6, <1>7, <1>8 DEF Promise!Deliver, partners, over
<1> QED BY <1>9 DEF Promise!Next

LEMMA LinkStep ==
  ASSUME IInv, [Next]_vars
  PROVE  [Promise!Next]_(Promise!vars)
<1>0. PairTypes /\ FlowTypes /\ PairInv
  BY DEF IInv, TypeOK, PairTypes, FlowTypes
<1>1. ASSUME NEW s \in Streams, Handler(s) PROVE [Promise!Next]_(Promise!vars)
  <2>1. CASE SendHeader(s)
    <3>1. Goto(s, "admitted") \/ Goto(s, "done")
      BY <2>1 DEF SendHeader
    <3>2. phase[s] # "done" /\ UNCHANGED <<at, peer, sent, out>>
      BY <2>1 DEF SendHeader, pairVars, flowVars
    <3>3. CASE Goto(s, "admitted")
      BY <1>0, <3>2, <3>3, OverFrame, LinkStutter DEF Phases
    <3>4. CASE Goto(s, "done")
      BY <1>0, <3>2, <3>4, OverDone, LinkEnd
    <3> QED BY <3>1, <3>3, <3>4
  <2>2. CASE Park(s)
    BY <1>0, <2>2, OverFrame, LinkStutter DEF Park, flowVars, Phases
  <2>3. CASE Claim(s)
    BY <2>3, LinkClaim
  <2>4. CASE HandOver(s)
    BY <1>0, <2>4, OverFrame, LinkStutter DEF HandOver, flowVars, Phases
  <2>5. CASE Resume(s)
    <3> DEFINE d == matched[s]
    <3>1. /\ phase[s] = "waiting" /\ d \in Streams
          /\ Goto(s, "piping")
          /\ peer' = [peer EXCEPT ![s] = d]
          /\ UNCHANGED <<at, sent, out>>
      BY <1>0, <2>5 DEF Resume, PairTypes, flowVars
    <3>2. peer[d] = s /\ peer[s] = None /\ d # s
      BY <1>0, <3>1, NoneIsNoStream DEF PairInv, PeersInv
    <3>3. PairTypes' /\ PairsAreExclusive'
      <4>1. PairInv'
        BY <1>0, <2>5, PairResume
      <4>2. PairTypes'
        BY <1>0, <2>5 DEF PairTypes, Resume, Goto, Phases
      <4> QED BY <4>1, <4>2 DEF PairInv
    <3> HIDE DEF d
    <3>4. peer'[s] = d /\ \A r \in Streams \ {s} : peer'[r] = peer[r]
      BY <1>0, <3>1 DEF PairTypes
    <3>5. UNCHANGED partners
      <4>1. PartnerLaw' /\ PartnerLaw
        BY <1>0, <3>3, PartnerLawHolds, PartnerLawNext DEF PairInv
      <4>2. partners[s] = d /\ partners[d] = s
        BY <3>1, <3>2, <4>1 DEF PartnerLaw
      <4>3. partners'[s] = d /\ partners'[d] = s
        BY <3>1, <3>4, <4>1 DEF PartnerLaw
      <4>4. ASSUME NEW r \in Streams \ {s, d} PROVE partners'[r] = partners[r]
        <5>1. \A x \in Streams : peer'[x] = r <=> peer[x] = r
          BY <3>2, <3>4, NoneIsNoStream
        <5>2. (CHOOSE x \in Streams : peer'[x] = r) = (CHOOSE x \in Streams : peer[x] = r)
          BY <5>1
        <5> QED BY <3>4, <5>1, <5>2 DEF partners, Partner, Claimed
      <4> QED BY <4>1, <4>2, <4>3, <4>4 DEF PartnerLaw
    <3>6. UNCHANGED over
      BY <1>0, <3>1, OverFrame DEF Phases
    <3> QED BY <3>1, <3>5, <3>6 DEF Promise!vars, partners, over
  <2>6. CASE GiveUp(s)
    BY <1>0, <2>6, OverFrame, LinkStutter DEF GiveUp, pairVars, flowVars, Phases
  <2>7. CASE Withdraw(s)
    BY <1>0, <2>7, OverDone, LinkEnd DEF Withdraw, flowVars
  <2>8. CASE Recv(s)
    BY <2>8, LinkStutter DEF Recv, callVars, pairVars, over
  <2>9. CASE Forward(s)
    BY <2>9, LinkForward
  <2>10. CASE RecvEnds(s) \/ ForwardFails(s)
    BY <1>0, <2>10, OverDone, LinkEnd
       DEF RecvEnds, ForwardFails, Return, pairVars, flowVars
  <2> QED
    BY <1>1, <2>1, <2>2, <2>3, <2>4, <2>5, <2>6, <2>7, <2>8, <2>9, <2>10
       DEF Handler
<1>2. ASSUME NEW s \in Streams, Client(s) PROVE [Promise!Next]_(Promise!vars)
  <2>1. CASE Dial(s)
    <3>1. Goto(s, "header") \/ Goto(s, "done")
      BY <2>1 DEF Dial
    <3>2. phase[s] # "done" /\ UNCHANGED <<at, peer, sent, out>>
      BY <2>1 DEF Dial, pairVars, flowVars
    <3>3. CASE Goto(s, "header")
      BY <1>0, <3>2, <3>3, OverFrame, LinkStutter DEF Phases
    <3>4. CASE Goto(s, "done")
      BY <1>0, <3>2, <3>4, OverDone, LinkEnd
    <3> QED BY <3>1, <3>3, <3>4
  <2>2. CASE ClientSend(s)
    <3>1. Promise!Put(s)
      BY <2>2, PartnersFrame
         DEF ClientSend, Running, callVars, pairVars, Promise!Put, partners
    <3> QED BY <3>1 DEF Promise!Next
  <2>3. CASE ClientRead(s) \/ ClientHalfClose(s) \/ ClientGone(s)
    BY <2>3, LinkStutter DEF ClientRead, ClientHalfClose, ClientGone,
       callVars, pairVars, flowVars, over
  <2> QED BY <1>2, <2>1, <2>2, <2>3 DEF Client
<1>3. ASSUME NEW t \in Tokens, Expire(t) PROVE [Promise!Next]_(Promise!vars)
  BY <1>3, LinkStutter DEF Expire, pairVars, flowVars, over
<1>4. CASE UNCHANGED vars
  BY <1>4, LinkStutter DEF vars, callVars, pairVars, flowVars, over
<1> QED BY <1>1, <1>2, <1>3, <1>4 DEF Next

\* The relay implements its promise: links are symmetric, permanent, between
\* two calls with the same token, and deliver each frame once and in order.
THEOREM RelayImplementsLink == Spec => ImplementsLink
<1>1. Init => Promise!Init
  <2> SUFFICES ASSUME Init PROVE Promise!Init
    OBVIOUS
  <2>1. \A s \in Streams : Partner(s) = None
    BY NoneIsNoStream DEF Init, Partner, Claimed
  <2> QED BY <2>1 DEF Init, Promise!Init
<1>2. IInv /\ [Next]_vars => [Promise!Next]_(Promise!vars)
  BY LinkStep
<1> QED BY <1>1, <1>2, Inductive, PTL DEF Spec, ImplementsLink, Promise!Spec

-----------------------------------------------------------------------------
(***************************************************************************)
(* The gauge.                                                              *)
(***************************************************************************)

DeferredAt(i) == {s \in deferred : at[s].inst = i}

\* The gauge counts the handlers whose deferred Dec is still to run, and
\* those are the ones that are forwarding for the second half of a pair.
GaugeInv ==
  /\ \A s \in deferred : phase[s] = "piping"
  /\ \A i \in Instances : active[i] = Cardinality(DeferredAt(i))

LEMMA GaugeFrame ==
  ASSUME TypeOK, GaugeInv, NEW s \in Streams, UNCHANGED <<at, active, deferred>>,
         \A r \in Streams \ {s} : phase'[r] = phase[r],
         phase'[s] = "piping" \/ phase[s] # "piping"
  PROVE  GaugeInv'
<1>1. \A r \in deferred' : phase'[r] = "piping"
  BY DEF TypeOK, GaugeInv
<1> QED BY <1>1 DEF GaugeInv, DeferredAt

LEMMA GaugeHandOver ==
  ASSUME TypeOK, GaugeInv, NEW s \in Streams, HandOver(s)
  PROVE  GaugeInv'
<1>1. /\ phase[s] = "handing" /\ at[s].inst \in Instances
      /\ active' = [active EXCEPT ![at[s].inst] = @ + 1]
      /\ deferred' = deferred \union {s} /\ at' = at
      /\ phase' = [phase EXCEPT ![s] = "piping"]
  BY DEF HandOver, Goto, TypeOK, Slots
<1>2. s \notin deferred
  BY <1>1 DEF GaugeInv
<1>3. \A r \in deferred' : phase'[r] = "piping"
  BY <1>1 DEF GaugeInv, TypeOK
<1>4. ASSUME NEW i \in Instances PROVE active'[i] = Cardinality(DeferredAt(i)')
  <2>1. IsFiniteSet(DeferredAt(i)) /\ active[i] = Cardinality(DeferredAt(i))
    <3>1. DeferredAt(i) \in SUBSET Streams
      BY DEF DeferredAt, TypeOK
    <3> QED BY <3>1, StreamsFinite, FS_Subset DEF GaugeInv
  <2>2. CASE i = at[s].inst
    <3>1. DeferredAt(i)' = DeferredAt(i) \union {s} /\ s \notin DeferredAt(i)
      BY <1>1, <1>2, <2>2 DEF DeferredAt
    <3>2. Cardinality(DeferredAt(i)') = Cardinality(DeferredAt(i)) + 1
      BY <2>1, <3>1, FS_AddElement
    <3>3. active'[i] = active[i] + 1
      BY <1>1, <2>2 DEF TypeOK
    <3> QED BY <2>1, <3>2, <3>3
  <2>3. CASE i # at[s].inst
    <3>1. DeferredAt(i)' = DeferredAt(i)
      BY <1>1, <2>3 DEF DeferredAt
    <3>2. active'[i] = active[i]
      BY <1>1, <2>3 DEF TypeOK
    <3> QED BY <2>1, <3>1, <3>2
  <2> QED BY <2>2, <2>3
<1> QED BY <1>3, <1>4 DEF GaugeInv

LEMMA GaugeReturn ==
  ASSUME TypeOK, GaugeInv, NEW s \in Streams, phase[s] = "piping", Return(s)
  PROVE  GaugeInv'
<1>1. /\ at[s].inst \in Instances
      /\ active' = [active EXCEPT ![at[s].inst] =
                       @ - (IF s \in deferred THEN 1 ELSE 0)]
      /\ deferred' = deferred \ {s} /\ at' = at
      /\ phase' = [phase EXCEPT ![s] = "done"]
  BY DEF Return, Goto, TypeOK, Slots
<1>2. \A r \in deferred' : phase'[r] = "piping"
  BY <1>1 DEF GaugeInv, TypeOK
<1>3. ASSUME NEW i \in Instances PROVE active'[i] = Cardinality(DeferredAt(i)')
  <2>1. IsFiniteSet(DeferredAt(i)) /\ active[i] = Cardinality(DeferredAt(i))
    <3>1. DeferredAt(i) \in SUBSET Streams
      BY DEF DeferredAt, TypeOK
    <3> QED BY <3>1, StreamsFinite, FS_Subset DEF GaugeInv
  <2>2. CASE i = at[s].inst /\ s \in deferred
    <3>1. DeferredAt(i)' = DeferredAt(i) \ {s} /\ s \in DeferredAt(i)
      BY <1>1, <2>2 DEF DeferredAt
    <3>2. Cardinality(DeferredAt(i)') = Cardinality(DeferredAt(i)) - 1
      BY <2>1, <3>1, FS_RemoveElement
    <3>3. active'[i] = active[i] - 1
      BY <1>1, <2>2 DEF TypeOK
    <3> QED BY <2>1, <3>2, <3>3
  <2>3. CASE ~(i = at[s].inst /\ s \in deferred)
    <3>1. DeferredAt(i)' = DeferredAt(i)
      BY <1>1, <2>3 DEF DeferredAt
    <3>2. active'[i] = active[i]
      BY <1>1, <2>3 DEF TypeOK
    <3> QED BY <2>1, <3>1, <3>2
  <2> QED BY <2>2, <2>3
<1> QED BY <1>2, <1>3 DEF GaugeInv

\* The gauge never hides a pair that is forwarding and never drifts: when the
\* calls of an instance are over it reads zero.
THEOREM GaugeIsCovering == Spec => []GaugeCoversLivePairs
<1>1. Init => GaugeInv
  <2> SUFFICES ASSUME Init, NEW i \in Instances
               PROVE  active[i] = Cardinality(DeferredAt(i))
    BY DEF Init, GaugeInv
  <2>1. DeferredAt(i) = {}
    BY DEF Init, DeferredAt
  <2> QED BY <2>1, FS_EmptySet DEF Init
<1>2. TypeOK /\ GaugeInv /\ [Next]_vars => GaugeInv'
  <2> SUFFICES ASSUME TypeOK, GaugeInv, [Next]_vars PROVE GaugeInv'
    OBVIOUS
  <2> USE DEF TypeOK, Goto
  <2>1. ASSUME NEW s \in Streams, Handler(s) PROVE GaugeInv'
    <3>1. CASE SendHeader(s) \/ Park(s) \/ Claim(s) \/ Resume(s)
               \/ GiveUp(s) \/ Withdraw(s)
      BY <3>1, GaugeFrame DEF SendHeader, Park, Claim, Resume, GiveUp,
         Withdraw, metricVars
    <3>2. CASE HandOver(s)
      BY <3>2, GaugeHandOver
    <3>3. CASE Recv(s) \/ Forward(s)
      BY <3>3, GaugeFrame DEF Recv, Forward, callVars, metricVars
    <3>4. CASE RecvEnds(s) \/ ForwardFails(s)
      BY <3>4, GaugeReturn DEF RecvEnds, ForwardFails
    <3> QED BY <2>1, <3>1, <3>2, <3>3, <3>4 DEF Handler
  <2>2. ASSUME NEW s \in Streams, Client(s) PROVE GaugeInv'
    BY <2>2, GaugeFrame DEF Client, Dial, ClientSend, ClientRead,
       ClientHalfClose, ClientGone, callVars, metricVars
  <2>3. CASE UNCHANGED <<phase, at, active, deferred>>
    BY <2>3 DEF GaugeInv, DeferredAt
  <2> QED BY <2>1, <2>2, <2>3 DEF Next, Expire, vars, callVars, metricVars
<1>3. TypeOK /\ GaugeInv => GaugeCoversLivePairs
  <2> SUFFICES ASSUME TypeOK, GaugeInv, NEW i \in Instances
               PROVE  /\ active[i] >= LivePairs(i)
                      /\ (\A s \in Streams : at[s].inst = i => ~Running(s))
                           => active[i] = 0
    BY DEF GaugeCoversLivePairs
  <2>1. DeferredAt(i) \in SUBSET Streams
    BY DEF DeferredAt, TypeOK
  <2>2. IsFiniteSet(DeferredAt(i)) /\ active[i] = Cardinality(DeferredAt(i))
    BY <2>1, StreamsFinite, FS_Subset DEF GaugeInv
  <2>3. active[i] >= LivePairs(i)
    <3> DEFINE L == {s \in Streams : at[s].inst = i /\ LivePair(s)}
    <3>1. L \in SUBSET DeferredAt(i)
      BY DEF LivePair, DeferredAt
    <3>2. Cardinality(L) <= Cardinality(DeferredAt(i)) /\ IsFiniteSet(L)
      BY <2>2, <3>1, FS_Subset
    <3>3. Cardinality(L) \in Nat /\ Cardinality(DeferredAt(i)) \in Nat
      BY <2>2, <3>2, FS_CardinalityType
    <3> QED BY <2>2, <3>2, <3>3 DEF LivePairs
  <2>4. ASSUME \A s \in Streams : at[s].inst = i => ~Running(s)
        PROVE  active[i] = 0
    <3>1. DeferredAt(i) = {}
      BY <2>1, <2>4 DEF DeferredAt, GaugeInv, Running
    <3> QED BY <2>2, <3>1, FS_EmptySet
  <2> QED BY <2>3, <2>4
<1> QED BY <1>1, <1>2, <1>3, TypeCorrect, PTL DEF Spec
=============================================================================
