-------------------------------- MODULE Relay --------------------------------
(***************************************************************************)
(* The byte relay of backend/internal/relay/relay.go.                      *)
(*                                                                         *)
(* A client that cannot reach its peer directly calls Stream on a relay    *)
(* instance and presents a session token.  The handler of the first call   *)
(* with a token parks itself in the instance's `waiting` map; the handler  *)
(* of the next one takes it out, hands its own stream over through the     *)
(* waiter's one-slot channel, and each of the two handlers then copies     *)
(* frames from its own stream to the other's.  Every handler is a          *)
(* goroutine: its steps interleave with those of all the others, with what *)
(* the clients do, and with the expiry of tokens.                          *)
(*                                                                         *)
(* One element of Streams is one call of Stream.  HTTP/2 delivers a call's *)
(* frames in order, so what a client has sent and what its handler has     *)
(* received are two counters.                                              *)
(*                                                                         *)
(* A definition whose comment says "Mistake" is not the code: it is the    *)
(* definition after it with a plausible error, with which PROJECT.json     *)
(* shows that a property would notice the error.                           *)
(***************************************************************************)
EXTENDS Integers, Sequences, FiniteSets

CONSTANTS
  Streams,    \* calls of RelayService.Stream
  Instances,  \* relay processes; each has a map of its own
  Tokens,     \* session tokens the rendezvous service has issued
  None,       \* no stream
  MaxFrames,  \* bound: frames one client sends
  Window      \* HTTP/2 flow control: frames in flight in one direction

ASSUME NoneIsNoStream == None \notin Streams
ASSUME BoundsAreNaturals == MaxFrames \in Nat /\ Window \in Nat \ {0}
ASSUME StreamsFinite == IsFiniteSet(Streams)

VARIABLES
  phase,    \* where each handler is
  ctx,      \* the client's side of the call, as the server sees it
  at,       \* [inst, tok] of each call
  valid,    \* tokens Verify accepts
  waiting,  \* Service.waiting of every instance
  matched,  \* waitingPeer.matched: a channel with one slot
  peer,     \* the stream a handler has been paired with
  active,   \* metrics.RelaySessionsActive of every instance
  pairings, \* metrics.RelayPairingsTotal of every instance
  deferred, \* handlers with a deferred RelaySessionsActive.Dec
  sent,     \* frames each client has sent
  taken,    \* frames each handler has received
  hand,     \* the frame a handler holds between Recv and Send, or 0
  out,      \* frames written to each client
  read      \* how many of those the client has read

callVars   == <<phase, ctx, at, valid>>
pairVars   == <<waiting, matched, peer>>
metricVars == <<active, pairings, deferred>>
flowVars   == <<sent, taken, hand, out, read>>
vars       == <<callVars, pairVars, metricVars, flowVars>>

Phases == {"idle", "header", "admitted", "waiting", "handing", "piping",
           "leaving", "done"}

Slots == [inst : Instances, tok : Tokens]

Init ==
  /\ phase = [s \in Streams |-> "idle"]
  /\ ctx = [s \in Streams |-> "open"]
  /\ at \in [Streams -> Slots]
  /\ valid = Tokens
  /\ waiting = [k \in Slots |-> None]
  /\ matched = [s \in Streams |-> None]
  /\ peer = [s \in Streams |-> None]
  /\ active = [i \in Instances |-> 0]
  /\ pairings = [i \in Instances |-> 0]
  /\ deferred = {}
  /\ sent = [s \in Streams |-> 0]
  /\ taken = [s \in Streams |-> 0]
  /\ hand = [s \in Streams |-> 0]
  /\ out = [s \in Streams |-> <<>>]
  /\ read = [s \in Streams |-> 0]

Goto(s, p) == phase' = [phase EXCEPT ![s] = p]

(***************************************************************************)
(* The clients and the clock.                                              *)
(***************************************************************************)

\* A client calls Stream; Verify admits it while its token has not expired,
\* otherwise the handler returns Unauthenticated.
Dial(s) ==
  /\ phase[s] = "idle"
  /\ Goto(s, IF at[s].tok \in valid THEN "header" ELSE "done")
  /\ UNCHANGED <<ctx, at, valid, pairVars, metricVars, flowVars>>

\* A token outlives its TTL.
Expire(t) ==
  /\ t \in valid
  /\ valid' = valid \ {t}
  /\ UNCHANGED <<phase, ctx, at, pairVars, metricVars, flowVars>>

Running(s) == phase[s] \notin {"idle", "done"}

\* A client sends only once the response headers told it that it is connected.
ClientSend(s) ==
  /\ Running(s) /\ phase[s] # "header"
  /\ ctx[s] = "open"
  /\ sent[s] < MaxFrames
  /\ sent[s] - taken[s] < Window
  /\ sent' = [sent EXCEPT ![s] = @ + 1]
  /\ UNCHANGED <<callVars, pairVars, metricVars, taken, hand, out, read>>

ClientRead(s) ==
  /\ ctx[s] # "gone"
  /\ read[s] < Len(out[s])
  /\ read' = [read EXCEPT ![s] = @ + 1]
  /\ UNCHANGED <<callVars, pairVars, metricVars, sent, taken, hand, out>>

\* CloseSend: the handler reads what is left and then sees io.EOF.
ClientHalfClose(s) ==
  /\ Running(s)
  /\ ctx[s] = "open"
  /\ ctx' = [ctx EXCEPT ![s] = "eof"]
  /\ UNCHANGED <<phase, at, valid, pairVars, metricVars, flowVars>>

\* The client cancels the call or its connection is lost.
ClientGone(s) ==
  /\ Running(s)
  /\ ctx[s] # "gone"
  /\ ctx' = [ctx EXCEPT ![s] = "gone"]
  /\ UNCHANGED <<phase, at, valid, pairVars, metricVars, flowVars>>

(***************************************************************************)
(* Stream: pairing.                                                        *)
(***************************************************************************)

\* stream.SendHeader fails when the call is already gone.
SendHeader(s) ==
  /\ phase[s] = "header"
  /\ Goto(s, IF ctx[s] = "gone" THEN "done" ELSE "admitted")
  /\ UNCHANGED <<ctx, at, valid, pairVars, metricVars, flowVars>>

\* Mistake: a second waiter replaces the first.
NotChecked(s) == waiting[at[s]] \in Streams \union {None}

NobodyWaits(s) == waiting[at[s]] = None

\* Under the lock: nobody waits with this token, so this handler does.
Park(s) ==
  /\ phase[s] = "admitted"
  /\ NobodyWaits(s)
  /\ waiting' = [waiting EXCEPT ![at[s]] = s]
  /\ Goto(s, "waiting")
  /\ UNCHANGED <<ctx, at, valid, matched, peer, metricVars, flowVars>>

\* Mistake: the entry stays in the map.
MapKept(s) == waiting

EntryDeleted(s) == [waiting EXCEPT ![at[s]] = None]

\* Under the lock: somebody waits with this token; take it out of the map.
Claim(s) ==
  /\ phase[s] = "admitted"
  /\ waiting[at[s]] # None
  /\ peer' = [peer EXCEPT ![s] = waiting[at[s]]]
  /\ waiting' = EntryDeleted(s)
  /\ Goto(s, "handing")
  /\ UNCHANGED <<ctx, at, valid, matched, metricVars, flowVars>>

\* Mistake: the waiter is not told.
MatchedKept(s) == matched

MatchedSent(s) == [matched EXCEPT ![peer[s]] = s]

\* peer.matched <- stream, the two metrics, and the deferred decrement.
HandOver(s) ==
  /\ phase[s] = "handing"
  /\ matched' = MatchedSent(s)
  /\ active' = [active EXCEPT ![at[s].inst] = @ + 1]
  /\ pairings' = [pairings EXCEPT ![at[s].inst] = @ + 1]
  /\ deferred' = deferred \union {s}
  /\ Goto(s, "piping")
  /\ UNCHANGED <<ctx, at, valid, waiting, peer, flowVars>>

\* The waiter's select takes its first arm.
Resume(s) ==
  /\ phase[s] = "waiting"
  /\ matched[s] # None
  /\ peer' = [peer EXCEPT ![s] = matched[s]]
  /\ matched' = [matched EXCEPT ![s] = None]
  /\ Goto(s, "piping")
  /\ UNCHANGED <<ctx, at, valid, waiting, metricVars, flowVars>>

\* The waiter's select takes its second arm, which it may do even when the
\* first is ready as well.
GiveUp(s) ==
  /\ phase[s] = "waiting"
  /\ ctx[s] = "gone"
  /\ Goto(s, "leaving")
  /\ UNCHANGED <<ctx, at, valid, pairVars, metricVars, flowVars>>

\* The check under the lock: a concurrent pairing may have taken the entry,
\* and another waiter may have made a new one.
OwnEntryDeleted(s) == [waiting EXCEPT ![at[s]] = IF @ = s THEN None ELSE @]

\* ... and removes its own entry, if the entry is still its own.
Withdraw(s) ==
  /\ phase[s] = "leaving"
  /\ waiting' = OwnEntryDeleted(s)
  /\ Goto(s, "done")
  /\ UNCHANGED <<ctx, at, valid, matched, peer, metricVars, flowVars>>

(***************************************************************************)
(* pipeOneDirection.                                                       *)
(***************************************************************************)

\* Mistake: a frame is received over the one not yet sent.
AnyHand(s) == hand[s] \in Nat

FreeHand(s) == hand[s] = 0

\* Mistake: frames are counted from the one before the first.
PreviousFrame(s) == taken[s] - 1

NextFrame(s) == taken[s] + 1

\* src.Recv returns a frame; a cancelled call may still yield buffered ones.
Recv(s) ==
  /\ phase[s] = "piping"
  /\ FreeHand(s)
  /\ taken[s] < sent[s]
  /\ taken' = [taken EXCEPT ![s] = @ + 1]
  /\ hand' = [hand EXCEPT ![s] = NextFrame(s)]
  /\ UNCHANGED <<callVars, pairVars, metricVars, sent, out, read>>

\* A call takes writes until its client is gone or its handler has returned.
Writable(d) == Running(d) /\ ctx[d] # "gone"

\* Mistake: source and destination swapped.
Source(s) == s

Destination(s) == peer[s]

\* dst.Send succeeds as soon as flow control lets the frame through.
Forward(s) ==
  LET d == Destination(s) IN
  /\ phase[s] = "piping"
  /\ hand[s] # 0
  /\ Writable(d)
  /\ Len(out[d]) - read[d] < Window
  /\ out' = [out EXCEPT ![d] = Append(@, [src |-> s, n |-> hand[s]])]
  /\ hand' = [hand EXCEPT ![s] = 0]
  /\ UNCHANGED <<callVars, pairVars, metricVars, sent, taken, read>>

\* Mistake: both handlers of a pair decrement the gauge.
AlwaysOne(s) == 1

OneIfDeferred(s) == IF s \in deferred THEN 1 ELSE 0

\* The handler returns: the runtime ends the call and runs the deferred Dec.
Return(s) ==
  /\ Goto(s, "done")
  /\ active' = [active EXCEPT ![at[s].inst] = @ - OneIfDeferred(s)]
  /\ deferred' = deferred \ {s}
  /\ UNCHANGED <<ctx, at, valid, pairVars, pairings, flowVars>>

\* Mistake: only io.EOF ends the loop.
Eof(s) == ctx[s] = "eof" /\ taken[s] = sent[s]

\* io.EOF once everything was read, or the error of a call that is gone.
RecvError(s) ==
  \/ ctx[s] = "eof" /\ taken[s] = sent[s]
  \/ ctx[s] = "gone"

\* src.Recv fails and the handler returns.
RecvEnds(s) ==
  /\ phase[s] = "piping"
  /\ hand[s] = 0
  /\ RecvError(s)
  /\ Return(s)

\* Mistake: the error of dst.Send is ignored.
SendErrorIgnored(s) ==
  /\ phase[s] = "piping"
  /\ hand[s] # 0
  /\ ~Writable(peer[s])
  /\ hand' = [hand EXCEPT ![s] = 0]
  /\ UNCHANGED <<callVars, pairVars, metricVars, sent, taken, out, read>>

\* dst.Send fails: the frame in hand is lost and the handler returns.
ForwardFails(s) ==
  /\ phase[s] = "piping"
  /\ hand[s] # 0
  /\ ~Writable(peer[s])
  /\ Return(s)

-----------------------------------------------------------------------------

Handler(s) ==
  \/ SendHeader(s) \/ Park(s) \/ Claim(s) \/ HandOver(s) \/ Resume(s)
  \/ GiveUp(s) \/ Withdraw(s)
  \/ Recv(s) \/ Forward(s) \/ RecvEnds(s) \/ ForwardFails(s)

Client(s) ==
  \/ Dial(s) \/ ClientSend(s) \/ ClientRead(s)
  \/ ClientHalfClose(s) \/ ClientGone(s)

Next ==
  \/ \E s \in Streams : Handler(s) \/ Client(s)
  \/ \E t \in Tokens : Expire(t)

Spec == Init /\ [][Next]_vars

\* The Go scheduler runs every handler that can take a step, and a connected
\* client reads what reaches it.  Nothing else is promised of clients.
FairSpec ==
  /\ Spec
  /\ \A s \in Streams : WF_vars(Handler(s)) /\ WF_vars(ClientRead(s))

-----------------------------------------------------------------------------
(***************************************************************************)
(* Properties.                                                             *)
(***************************************************************************)

\* Every variable keeps its type (Service, waitingPeer and the metrics).
TypeOK ==
  /\ phase \in [Streams -> Phases]
  /\ ctx \in [Streams -> {"open", "eof", "gone"}]
  /\ at \in [Streams -> Slots]
  /\ valid \subseteq Tokens
  /\ waiting \in [Slots -> Streams \union {None}]
  /\ matched \in [Streams -> Streams \union {None}]
  /\ peer \in [Streams -> Streams \union {None}]
  /\ active \in [Instances -> Int]
  /\ pairings \in [Instances -> Nat]
  /\ deferred \subseteq Streams
  /\ sent \in [Streams -> Nat]
  /\ taken \in [Streams -> Nat]
  /\ hand \in [Streams -> Nat]
  /\ out \in [Streams -> Seq([src : Streams, n : Nat])]
  /\ read \in [Streams -> Nat]

\* A waiter that another handler has taken out of the map.
Claimed(w) == \E s \in Streams : peer[s] = w

\* The other half of a call's pair, whichever half has recorded it.
Partner(s) ==
  IF peer[s] # None THEN peer[s]
  ELSE IF Claimed(s) THEN CHOOSE d \in Streams : peer[d] = s
  ELSE None

\* Two streams are paired only if they presented the same token to the same
\* instance, and a stream is never paired with itself (the map of relay.go
\* is keyed by token; an instance never sees another's map).
PairedByToken ==
  \A s \in Streams : peer[s] # None => peer[s] # s /\ at[peer[s]] = at[s]

\* Pairing is one to one, whatever third stream presents the same token
\* meanwhile: so every stream has one goroutine that Sends to it and another
\* that Recvs from it, the usage pipeOneDirection's comment says grpc needs.
PairsAreExclusive ==
  /\ \A r, s \in Streams : peer[r] = peer[s] /\ peer[r] # None => r = s
  /\ \A s \in Streams :
       peer[s] # None /\ peer[peer[s]] # None => peer[peer[s]] = s

\* A handler that waits and has not been claimed is the one its token's map
\* entry names, so the next caller will find it: no late Withdraw of an
\* earlier waiter has removed the entry, no later waiter has replaced it.
EveryWaiterIsReachable ==
  \A w \in Streams :
    phase[w] = "waiting" /\ ~Claimed(w) => waiting[at[w]] = w

\* The map never names a handler that has left, is claimed, or waits with
\* another token: a caller is never handed such a stream.
MapNamesOnlyWaiters ==
  \A k \in Slots :
    LET w == waiting[k] IN
      w # None => /\ phase[w] \in {"waiting", "leaving"}
                  /\ at[w] = k
                  /\ ~Claimed(w) /\ peer[w] = None

\* What a client is given is what its partner sent: from the first frame on,
\* in order, without a gap, a duplicate or a frame of a third stream.
FramesIntact ==
  \A d \in Streams : \A k \in 1..Len(out[d]) :
    out[d][k] = [src |-> Partner(d), n |-> k] /\ k <= sent[Partner(d)]

\* Of the frames a handler has received, all but the one it holds have been
\* written to the partner: a failing Send loses that frame and no other.
OnlyTheFrameInHandIsLost ==
  \A s \in Streams :
    Partner(s) # None =>
      taken[s] = Len(out[Partner(s)]) + (IF hand[s] = 0 THEN 0 ELSE 1)

\* Both halves of the pair the handler of s is in are forwarding.
LivePair(s) ==
  phase[s] = "piping" /\ s \in deferred /\ phase[peer[s]] = "piping"

LivePairs(i) == Cardinality({s \in Streams : at[s].inst = i /\ LivePair(s)})

\* nexdesk_relay_sessions_active never hides a pair that is forwarding and
\* is back at zero once every call of the instance is over.
GaugeCoversLivePairs ==
  \A i \in Instances :
    /\ active[i] >= LivePairs(i)
    /\ (\A s \in Streams : at[s].inst = i => ~Running(s)) => active[i] = 0

\* The relay keeps the promise of RelayLink.
Promise ==
  INSTANCE RelayLink WITH
    partner <- [s \in Streams |-> Partner(s)],
    ended <- {s \in Streams : phase[s] = "done"},
    got <- out

ImplementsLink == Promise!Spec

\* A waiter that has been claimed leaves the select of Stream: it forwards,
\* or its own call is over.  It is never left parked beside its partner.
ClaimedWaiterResumes(w) == Claimed(w) ~> peer[w] # None \/ phase[w] = "done"

\* Two calls with one token at one instance do not both stay parked: while
\* neither is cancelled, one of them gets a partner (perhaps a third call).
CallersMeet(s, d) ==
  (at[s] = at[d] /\ {phase[s], phase[d]} \subseteq {"admitted", "waiting"}) ~>
    \/ Partner(s) # None \/ Partner(d) # None
    \/ ctx[s] = "gone" \/ ctx[d] = "gone"

\* The first n frames a client sends are written to its partner unless one of
\* the two calls ends first (clients read what reaches them).
FramesArrive(s, n) ==
  (phase[s] = "piping" /\ sent[s] >= n) ~>
    \/ phase[s] = "done"
    \/ \E d \in Streams : peer[s] = d /\ (Len(out[d]) >= n \/ ~Writable(d))

\* The stream this handler writes to takes no more frames.
PartnerIsLost(s) == \E d \in Streams : peer[s] = d /\ ~Writable(d)

\* A handler whose partner is gone for good returns at the next frame its own
\* client sends: how a client of the relay learns that it talks to nobody.
NextFrameReportsLoss(s) ==
  (phase[s] = "piping" /\ PartnerIsLost(s) /\ taken[s] < sent[s]) ~>
    phase[s] = "done"

\* The handler of a call whose client is gone returns: no goroutine and no
\* map entry outlives its call for ever.
GoneCallIsReleased(s) == ctx[s] = "gone" ~> phase[s] = "done"

\* Stream's comment (relay.go:58): the frames are forwarded "until either side
\* disconnects" - one side's disconnecting ends the call of the other.
EitherSideEndsBoth(s) ==
  (phase[s] = "piping" /\ PartnerIsLost(s)) ~> phase[s] = "done"
=============================================================================
