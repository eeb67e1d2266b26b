# NexDesk in TLA+

NexDesk (this repository) is a remote-desktop system: a Go backend that registers devices,
authorises sessions and relays bytes between peers that cannot reach each other; a Rust core
with the client and host programs; a C++ codec; and an Electron desktop application. This
directory models the parts of it whose correctness depends on the order in which things happen.

Everything is translated from the code under `src/`; where a comment and the code disagree, the
model follows the code and `PROJECT.json` records the disagreement with a run that shows it.
Line numbers refer to files under `src/`.

- [Inventory](#inventory)
- [What is modelled](#what-is-modelled)
- [Runs](#runs)
- [Bounds](#bounds)
- [Fairness](#fairness)
- [Proofs](#proofs)
- [Findings](#findings)
- [Not modelled](#not-modelled)
- [Plan](#plan)

## Inventory

### Backend (Go)

| part | state it keeps | operations | what is hard | what makes it correct |
|---|---|---|---|---|
| relay (`backend/internal/relay/relay.go`) | per process: the map `waiting` from session token to the parked call; a one-slot channel per waiter; two gauges | `Stream`, `pipeOneDirection` | two goroutines per pair, hand-over outside the lock, cancellation of a waiter that has just been claimed, three calls with one token, a partner that goes away silently | pairing is one to one and by token; no waiter is lost; frames arrive complete and in order, and a handler ends with its call |
| rendezvous (`rendezvous/rendezvous.go`, `registry/registry.go`, `registry/presence.go`) | `devices`, `device_authorizations` in PostgreSQL, presence keys in Redis | `RegisterDevice`, `Heartbeat`, `LookupPeer`, `AuthorizeDevice`, `RequestSession` | each RPC is several round trips without a transaction; any of them may fail after it has taken effect | what a check established still holds when the call acts; a device keeps its owner; peers are told what the owner said |
| session token (`rendezvous/token.go`) | a signing key, perhaps generated at start | `Issue`, `Verify` | expiry between pairing steps, restart with an ephemeral key | a token stands for a grant |
| audit (`audit/audit.go`) | `audit_events` | `Log`, `List` | written after, and apart from, what it reports | a row tells the truth |
| accounts (`api/api.go`, `auth/account.go`, `auth/totp.go`, `auth/pending_login.go`, `auth/token.go`) | `users` | `Register`, `Login`, `LoginTwoFactor`, `EnrollTOTP`, `VerifyTOTP` | check and write in different round trips | 2FA is on only with a confirmed secret |
| login limits (`auth/ratelimit.go`) | a counter with a TTL in Redis | `Allow`, `Reset` | INCR and EXPIRE are two calls; logins outlast the window | guesses are limited; the counter ends |
| refresh tokens (`auth/refresh.go`) | `refresh_tokens` | `Issue`, `Rotate` | concurrent transactions at read committed; failure inside one | rotation is atomic; a token is used once |
| migrations (`registry/migrate.go`) | `schema_migrations` | `Migrate` | replicas that start together, a crash between files | each file is applied once |
| server (`cmd/server/main.go`) | listeners, keys | start, signals, stop | `GracefulStop` waits for relay streams without a bound | the process ends |
| metrics, load test, billing (empty), generated code | counters | - | - | - |

The parts meet in the database and in Redis, not in memory: the rendezvous RPCs and the HTTP
handlers share no variable of the process. The rendezvous service and the relay share only the
session token's key: `RequestSession` issues a token, both peers present it to `Stream`.

### Core (Rust)

| part | state | operations | what is hard | what makes it correct |
|---|---|---|---|---|
| session state machine (`core/nexdesk-core/src/session/mod.rs`) | a state | `handle` | events in states that do not expect them; errors dropped by the caller | the state says what the program does |
| client and host (`bin/client.rs`, `bin/host.rs`, `bin/common/mod.rs`) | session, backoff, a connection | connect, hello, heartbeat and receive in one `select!`, shutdown | cancelled receives, waits outside the `select!`, a backoff that is never reset | shutdown ends the program; a reconnect starts over |
| transports (`transport/*`, `rendezvous/relay.rs`, `crypto/tls.rs`) | sockets, queues of 16 frames | connect, send, recv | `read_frame` is two reads; limits checked on one side only | frames are kept whole |
| replay guard (`crypto/replay.rs`) | the highest nonce, the recent ones | `check_and_record` | the floor of the window near 0 and near 2^64 | no nonce is accepted twice |
| media path (`protocol/reassembly.rs`, `jitter.rs`, `backpressure.rs`) | partial frames, frames waiting for a gap, a bounded queue | `accept`, `push`, `pop_ready`, `push`/`pop` | duplicates, reordering and loss; chunks that disagree; late duplicates of a finished frame | frames leave once, in order, and never wait for ever |
| host identity (`bin/host.rs`, `crypto/tls.rs`) | two files | load or generate, verify a pinned certificate | killed between, and inside, the two writes | a client that was given the certificate can trust the host again |
| input events (`input/mod.rs`) | none | `encode`, `decode` | signs, bytes cut short | decoding gives back what was captured, or an error |
| configuration, credential store | a file / the keyring | load | - | - |

### Codec (C++) and desktop (TypeScript, Rust)

| part | state | operations | what is hard | what makes it correct |
|---|---|---|---|---|
| codec (`codec/src`, `core/ffi/src/codec.rs`) | an x264 encoder or a libav context, packet and frame, with the struct around them | create, encode, decode, destroy | a dozen library calls in a row, each of which may fail; half of a pair allocated; a panic between them | nothing leaks, nothing is freed twice |
| main process (`desktop/main/*.ts`) | cached access token, identity files, relay sessions | bootstrap, IPC handlers | two calls that both find nothing cached; a crash while a file is written; a token that has expired in the cache | one account, one device |
| native session (`desktop/native/src/lib.rs`) | a connection behind a mutex | `send`, `recv` | `recv` holds the mutex while it waits; the relay does not tell who stays that the peer has gone | a send does not wait for the peer |
| renderer (`desktop/renderer/src/*.tsx`) | React state | connect, chat loop | overlapping requests, unmount during a receive | the screen shows the last request |

`PROJECT.json` lists every part with its files and, under `hazards`, every behaviour above at the
line where it bites.

## What is modelled

In every module a definition whose comment starts with "Mistake" is not the code: it is the
definition after it with a plausible error. No action uses it; `PROJECT.json` pairs it with the
property that notices it.

### `Relay` - `relay.go`

One element of `Streams` is one call of `Stream`; `at[s]` says to which instance it went and with
which token. `phase[s]` is the place in the handler:

| phase | code | left by |
|---|---|---|
| `header` | 73-83, about to `SendHeader` | `SendHeader` |
| `admitted` | 85, about to take the lock | `Park` (102-104) or `Claim` (86-90), each one critical section |
| `handing` | 91-98, outside the lock | `HandOver`: the channel send, both metrics, the deferred decrement |
| `waiting` | the `select` at 106 | `Resume` (107) or `GiveUp` (109) |
| `leaving` | 110, about to take the lock | `Withdraw` |
| `piping` | `pipeOneDirection` 128-141 | `Recv`, `Forward` alternate; `RecvEnds`, `ForwardFails` return |

`Claim` and `HandOver` are two steps because the lock is released between them; `GiveUp` and
`Withdraw` are two because the lock is taken between them. These two gaps are what the pairing
properties are about. `waiting` is the map, `matched` the one-slot channel, `peer` the local
variable that holds the other stream. `hand` is a frame that has been received and not yet been
sent. Clients send, read, half-close, cancel or go away whenever they like (`Client`), with HTTP/2
flow control as a window; they do not send before the response header has come, as
`rendezvous/relay.rs` 87-120 does not. gRPC itself (ordered delivery, cancellation, when `Send`
fails) is not in `src/`; it is modelled from how the code uses it and marked external.

`RelayLink` is the abstract specification: calls, an exclusive link between two that presented the
same token at the same instance, in-order delivery, and an end. It has no map, no channel, no lock
and no frame in hand. `Relay` implements it under the mapping `Promise` (a call is linked as soon
as either half of the pair knows of it), which is both model-checked and proved.

### `Rendezvous` - `rendezvous.go`, `registry.go`, `presence.go`, `audit.go`

One element of `Calls` is an RPC in flight. Each round trip is one action: `RequireOwner`
(`IsDeviceOwner`), `Register` (the upsert with its `WHERE`), `Heartbeat`, `LookupDevice` and
`LookupPresence`, `Authorize`, `CheckGrant`, `Issue`, `Audit`. Between any two of them other calls
may do anything. `Fail` ends a call at any point; because a write and the answer to it are
different steps, a failed call may have taken effect. `PresenceExpires` is Redis' TTL and `Restart`
the loss of an ephemeral key.

Public keys and endpoints are represented by the user who supplied them: the properties ask whose
data is shown, not what it is. Of audit rows and session tokens the model keeps one, any one, since
what holds of an arbitrary row holds of every row. Rows from before migration 5 have no owner
(`NoOwner`) and may already have grants; `Init` allows both.

### `Accounts` - `api.go`, `account.go`, `ratelimit.go`

One account (everything is keyed by it) and any number of requests. `Create`, `Incr`, `Expire`,
`CheckPassword`, `Reset`, `CheckCode`, `IssueTokens`, `Enrol`, `CheckEnrolment` and `Enable` are one
round trip each, followed by whatever the handler decides from its result; `WindowEnds` is Redis'
TTL and `Fail` an error, a cancelled request or a crash. A password is right or wrong, a secret is
the number of its enrolment, a code is the number of the secret it was computed from. What is only
recorded for the properties (`wrong`, `lost`, `confirmed`, `overlapped`) is never read by a guard.

### `RefreshTokens` - `refresh.go`

The table of tokens with, for each, the one it replaced; a transaction is `Select`, `Revoke`,
`Commit`. At read committed `Select` neither sees nor waits for uncommitted changes, the UPDATE
waits for the row's lock (`Revoke` needs that no other rotation of the token is at its commit), and
both writes become visible at once at `Commit`. `Fail` rolls back. The UPDATE's `WHERE id = $1` is
true again after the wait, which is why the second of two rivals goes on. `rivals` remembers for
which tokens two rotations were open at the same time.

### `PeerSession` - `bin/client.rs`, `bin/host.rs`, `bin/common/mod.rs` and what they use

Two programs and the connections between them. An action is what the code does between two
`await`s. `main[s]` is where `main()` is, `at[e]` where the task that owns an end of a connection is:

| place | code | left by |
|---|---|---|
| `dialing` | `TcpTransport::connect`, `relay::connect` | `Connected`, `Admitted`, `Fails` |
| `backlog` | connected by the kernel, not yet accepted | `Accept` |
| `tls` | the TLS handshake | `Secured`, `Fails` |
| `hello` | `send_frame` of the hello | `SendHello`, `Fails` |
| `await` | the peer's hello, `common/mod.rs` 75, before the `select!` | `Receive`, `Fails` |
| `loop` | the `select!` at 82-101 | `Tick`, `RecvFails`, `StopInLoop` |
| `over` | the function has returned or its process has ended | - |

`machine` holds the `Session` objects and `Handle` their transition table with the refused events;
the client has one `Session` for all its attempts, which is why `Owner` and `Current` exist. A byte
stream is a pair of counters (frames sent, pieces read): `ReadLength` and the body's `Receive` are
two steps in direct mode because `read_frame` is two reads, and `Tick` clears `got` because the
`select!` drops the `recv` that loses. In relay mode gRPC hands over whole messages. `Reset` is the
network, `Crash` the end of a process anywhere, `Trigger` Ctrl-C. That a `recv` fails once the peer is
`Lost` holds over a relay too, though later: the relay says nothing until the survivor's next heartbeat
cannot be forwarded, and the loop sends one every five seconds.

### `ReplayGuard` - `crypto/replay.rs`

`check_and_record` with the real arithmetic (saturating at 0, at most `MaxNonce`). `accepted` is
what the code forgets; `GuardDecidesRight` compares each decision with that of a guard that has it.

### `MediaPath` and `Playout` - `protocol/backpressure.rs`, `reassembly.rs`, `jitter.rs`

`FrameQueue`, `FrameReassembler` and `JitterBuffer` in a row. The library offers them and no program
uses them yet, so how they are joined is taken from their comments: what `pop` returns is cut into
chunks, the network delivers each chunk up to `MaxCopies` times in any order, and what `accept`
returns is pushed under its `frame_id`. `Arrive` is the whole of `accept` with the eviction, the
cleaning of `order` and the push; `PopReady` is `pop_ready` with its skip. Time is the age of a
buffered frame. `Playout` is the abstract specification: frames are played whole, once, in order,
some never. `MediaPath` implements it with the same `captured` and `played`.

### `HostIdentity` - `bin/host.rs` 71-95, `crypto/tls.rs`

The start of the host step by step: read both files, or generate and write the one and then the
other, each write being a truncation and a write; `Kill` is possible between any two. A certificate
is the number of its generation. `CopyCert` is the user who hands the file to a client, and
`Verifies` the pinned verifier.

### `NativeSession` - `desktop/native/src/lib.rs`, `rendezvous/relay.rs`, `RelayChat.tsx`

Two ends of a relayed session: a desktop, and another desktop or a program. `calls[e]` is the queue
of tokio's fair mutex, and its head holds it while it waits in `send` or `recv`. `out` is the
channel behind the connection, `under` what is on its way through the relay. `Unmount` is the
component leaving the screen: the loop ends, the session stays open.

`stream[e]` is e's call at the relay (`relay.go` 85-141): parked, paired, or over. A client that goes ends
its own handler only (`Notices`); the other handler stays in `src.Recv` and ends when a frame of its own
client's cannot be forwarded (`CarryFails`), which is the only thing that makes the survivor's `recv`,
`send` or handshake fail (`Ended`). So a desktop whose `recv` holds the mutex when its peer goes, with
nothing left to forward, waits for ever, and all its sends behind it (`Stranded`); a desktop that
waits for the hello of a peer that has gone does too. Both follow from what the run
`relay_either_side` shows of the relay alone.

### `Codec` - `codec/src/encoder.cpp`, `decoder.cpp`, `core/ffi/src/codec.rs`

Each call of x264, libav, `new` and `malloc` is a step that may fail, followed by the frees the
code has there: `AllocContext` and `OpenDecoder` are two calls with a context to free between them, and
`AllocPacket` and `AllocFrame` are both made before either result is looked at (`CheckBoth`), so that one of
the two may be missing. `heap` counts the objects of each kind. A packet owns its payload and a frame its
image: freeing the one frees the other (`Inside`), `av_packet_unref` and `av_frame_unref` empty them, and
so does `avcodec_receive_frame` before it fills a frame. A failed status makes the Rust side panic, and
unwinding drops the handle.

### `InputEvents` - `input/mod.rs`

`encode` and `decode` with bytes of a smaller base, two's complement included, and a receiver that
gets fewer bytes or more.

### `AccountBootstrap` - `desktop/main/accountIdentity.ts`

`bootstrapAccessToken` between its `await`s, for any number of overlapping calls: `Bootstrap` up to
the login, then `LoggedIn` or `NotLoggedIn`, then `Registered` or `Conflicts`; `Unreached` is a
`fetch` that rejects, after which the backend may still carry out the registration
(`RegisteredLate`). `KillApp` ends the application anywhere, `KilledWhileWriting` inside
`writeFileSync`. The backend is external, modelled from the answers the code distinguishes.

### `MCCore`: seven parts in one run

`ReplayGuard`, `MediaPath`, `HostIdentity`, `NativeSession`, `Codec`, `InputEvents` and
`AccountBootstrap` share no state. `MCCore` lets its initial state choose one of them, and only that
one steps, so their state spaces are added. Nothing is lost by that, as none reads what another
writes; each property is about one part and holds trivially in the states of the others.

## Runs

| run | asks | shows |
|---|---|---|
| `relay_safety` | three calls, two tokens, any behaviour of clients and clock | `PairsAreExclusive`: pairing is one to one, so each stream has one sender and one receiver. `EveryWaiterIsReachable`, `MapNamesOnlyWaiters`: no late withdrawal removes somebody else's entry and nobody is handed a stream that has left. `OnlyTheFrameInHandIsLost`: a failing `Send` costs one frame. `GaugeCoversLivePairs`: the gauge hides no live pair and ends at 0. `ImplementsLink`: all of it implements `RelayLink`. |
| `relay_liveness` | three calls with one token, under fairness | `TwoCallersMeet`: two callers with one token meet, and a waiter that has been claimed resumes. `AllFramesArrive`; `LossIsReported`: the next frame after a loss ends the call; `GoneIsReleased`: a cancelled call's handler returns |
| `relay_either_side` | violation | a handler does not learn that its partner is gone while its own client is silent |
| `rendezvous` | two users, two devices, two RPCs | `OwnerCheckStaysTrue`: what was checked before is still so when it is used. `TokensAreGranted`: each token was signed on a matching grant. `PeersSeeOwnersData`: key and endpoint come from the owner. `AuditTellsTheTruth`; `OwnershipIsFixed` for every step |
| `accounts` | three requests to one account | `GuessesAreLimited`: at most `Limit` wrong passwords per window and one more for each request that an earlier window may have let through. `OnlyALostExpireStopsTheClock`: only a failure between INCR and EXPIRE leaves a counter that locks the account for good. `OnlyAnOverlapEnablesUnconfirmed`: only an overlap of enrolment and confirmation switches on an unconfirmed secret |
| `accounts_enrol` | violation | that overlap does |
| `refresh` | three requests, four tokens | `RotationIsAtomic`: revoked exactly if replaced. `OnlyRivalsForkAToken`: an exchange in sequence is never repeated |
| `refresh_single_use` | violation | two rivals both succeed |
| `peer_session` | a client and a host in either mode; resets, crashes and Ctrl-C anywhere | `EstablishedIsTheLoop`: the session machine says what its task does, although the client's is in `handshaking` when a retry starts and refuses that retry's first events. `OnlyATornReadEndsALiveSession`: the five ways a live session ends. `EndsEndTogether`: no end outlives the other, `ShutdownEndsTheProgram`, both except before the hello in relay mode. `LostSessionsAreRetried` |
| `peer_framing` | violation | a heartbeat that is due between a frame's length and its body ends a session whose peer is there |
| `peer_shutdown` | violation | Ctrl-C does not end a program that waits for the peer's hello |
| `core` | seven parts, one at a time | `GuardDecidesRight`: the sliding window decides like an unbounded memory. `BuffersKeepTheNewest`: queue and reassembler are bounded, lose the oldest and keep map and order in step. `ImplementsPlayout`, `EveryFrameIsPlayed`: whatever the network does, frames are played whole, once, in order, and a gap blocks nobody for ever. `ComesBackAsItself`: a host that is started again listens with the certificate its client trusts, or was killed inside the write of the key. `SendsFinish`: every send returns but in four deadlocks of two desktops and in a fifth of one whose peer has gone while its `recv` holds the mutex, which the property spells out (each clause is needed: without it TLC finds the deadlock). `NothingLeaks`: between two calls a handle has its parts, each once, packet and frame empty, and nothing else is allocated. `DecodeInvertsEncode`. `AccountIsKept`: one install has one account, under the stored credentials |

Every passing run's properties have each a mutant: the same run with one definition replaced by its
"Mistake", in which TLC finds the property violated.

## Bounds

- Relay: three calls are enough for every pattern of pairing: a waiter, its claimant, and a third
  caller with the same token between any two of their steps; with two tokens also a caller that
  must not be paired. `MaxFrames = 2` has a frame lost in hand behind one delivered; `Window = 1`
  makes every `Send` wait once. Two instances differ from two tokens only in the gauge, so one is
  used. Liveness runs have one frame and no symmetry.
- Rendezvous: two RPCs are enough for one to act between the check and the write of the other; two
  users for a rival, two devices for a grant between devices.
- Accounts: `Limit = 2` distinguishes the first, the last allowed and the first refused attempt;
  three requests let two logins straddle a window while a third resets it; two enrolments overlap
  one confirmation. Counters above `Limit + 2` behave alike and are not told apart.
- RefreshTokens: three requests make two rivals and a login or a late third; four tokens allow a
  fork and an exchange of one of its branches.
- PeerSession: two connections have a failed or lost one and its retry; one heartbeat per end and
  connection is enough to cancel a `recv` between the two reads. `Base = 2` and `MaxDelay = 3` let
  the second delay reach the cap.
- Core: 9 nonces let every window from 1 to 8 touch both ends of the range. Four frames, two of them
  in two chunks, with room for two in the queue, in the reassembler and with two copies of each
  chunk: a frame that is evicted half-way, a late copy of a finished one, a gap of two. Three
  generations of certificates: one lost before it was saved, one torn, one that works. Three sends
  with a channel of one and one frame on its way fill every buffer. `ByteBase = 6` is the smallest
  even base that has all five tags; the sample has 0, 1, -1 and the extremes of 32 bits. Two
  overlapping bootstraps and two generated accounts.

`CHECK_DEADLOCK FALSE` is set for the relay, for PeerSession and for Core, where things end: calls
are over, programs have stopped, a decoded event is done. The other modules accept requests for ever.

## Fairness

Relay: `WF(Handler(s))`: a goroutine that can take a step takes it; Go's
scheduler is preemptive and the mutex is fair, and no handler depends on more (strong fairness is
nowhere needed, because a step of a handler, once enabled, is disabled only by another step of the
same handler or by the events the properties name). `WF(ClientRead(s))`: a connected client reads
what has reached it, as the receive loops of the Rust and TypeScript clients do; without it flow
control would stop the sender for good, correctly. Nothing is assumed of clients' sending, closing
or dialling, nor of token expiry.

PeerSession: tokio runs every task that is ready, so `main()` (`ClientMain`, `StopListening`,
`AfterRelay`) and each connection's task (`Opens`, `Loops`) are weakly fair. `Opens` includes
failing, so a dial ends with a connection or an error, as a connect with a timeout does. Heartbeats,
resets, crashes, Ctrl-C and the start of a program in relay mode are not assumed.

Core: the player polls and time passes (`MediaFairness`; nothing of the sender or the network); a
host that has been started goes on (`IdentityFairness`, though nobody has to start it, and it may be
killed); the relay, the receive loop and the tasks behind a session go on, and the relay sees in the end
that a client's connection has closed (`NativeFairness`, of which `Notices` is the last; users type, leave
and quit as they like). `HeartbeatDue` puts into a guard what five seconds between two
heartbeats mean: the last one has been read before the next one is due. The mutant of that property
is a program without heartbeats, against which a desktop's `send` may wait for ever.

## Proofs

The theorems hold for every value of the constants (any number of calls, tokens, instances,
devices, users, any window), under the named assumptions in the modules: the constants' types, that
the values standing for "nobody" are nobody, and that the set of calls of a relay is finite.

### `RelayProofs`

None of the relay's invariants is inductive alone: that a waiter is reachable depends on what the
map may contain, which depends on who has been claimed, which depends on who has which peer in
which phase. The inductive invariant is `IInv == TypeOK /\ PairInv /\ FlowInv`:

- `PairInv` joins `PairedByToken`, `PairsAreExclusive`, `EveryWaiterIsReachable` with `EntriesInv`
  (a map entry is an unclaimed handler in or just out of its select, with an empty channel) and
  `PeersInv` (the phases that go with having a peer and with being claimed). It is what survives
  the two unlocked gaps.
- `FlowInv` says that what a handler took is what its partner's client was given plus the frame in
  hand, and that the k-th frame given is the k-th of its source.

From it follow `TypeCorrect`, `PairingIsSafe`, `FramesAreIntact`, `OnlyOneFrameIsLost`,
`WaitersStayReachable`, `MapIsExact`, `GaugeIsCovering` (with an argument about the cardinality of the set of deferred decrements) and
`RelayImplementsLink`: the initial states map to initial states, and under `IInv` every step maps to
`Link`, `Put`, `Deliver`, `End` or a stutter.

### `RendezvousProofs`

The key fact is monotonicity (`StoreGrew`): an owner, once written, stays, and grants are only
added. So whatever a call has read of ownership or of a grant is still so at each of its later
steps, and so are tokens and audit rows; `IInv` adds what each call knows at each step
(`CallsInv`). Theorems: `TypeCorrect`, `OwnersStay`, `PeersAreTold`, `ChecksLast`, `TokensHaveGrants`,
`AuditIsTrue`.

### `RefreshTokensProofs`

`IInv` adds `CallsInv` (two transactions that have read one token as usable are rivals, and so is
one that is still open when the token has been revoked) and `ParentsInv` (a token that has been
replaced was issued and is revoked) to `TypeOK`, `RotationIsAtomic` and `OnlyRivalsForkAToken`. The
point is the commit that gives a token its second child: by `RotationIsAtomic` the token was
already revoked, so by `CallsInv` it is among the rivals. Theorems: `TypeCorrect`,
`RotationAtomic`, `ForksNeedRivals`.

### `AccountsProofs`

`IInv` adds two conjuncts to the properties. `GuessInv` says that the wrong guesses and the requests
still in flight (let through, password not yet checked) are together no more than the counter, up to
the limit, and the number of requests: a request that is let through raises both sides, one that
checks its password moves from the one count to the other, and when the counter is forgotten the
requests in flight are what remains. `EnableInv` says what a request about to write `totp_enabled`
knows. Theorems: `TypeCorrect`, `GuessesLimited` (for every limit and every number of requests),
`ClockRuns`, `UnconfirmedOnlyByOverlap`.

### `PeerSessionProofs`

For any number of attempts, heartbeats, resets and crashes. `EstablishedIsTheLoop` says nothing of a
task that is not in the loop, so it is not inductive: what matters is in which states the client's
one `Session` may be when it is used again. `IInv == TypeInv /\ MachineInv /\ ClientInv /\ DirectInv /\
RelayInv`:

- `MachineInv` gives for each place of a task the states of its machine (`Good`). After a session it
  is `closed`, or still `handshaking` if the attempt failed; both take the next `Connect` and
  `HandshakeStart` to `handshaking` (`Transitions`), one because they are accepted, the other because
  both are refused.
- `ClientInv` says that only the current connection of the client is in use, so that no late event
  of an old one reaches the machine; `DirectInv` that the client is done with one connection before
  it dials the next, and that the host knows none that the client has not made; `RelayInv` that a
  program in relay mode has one connection.

`OnlyATornReadEndsALiveSession` follows from the same invariant by a look at every step that may
take an end from the loop (`LoopsEndForAReason`); the invariant is needed where `main()` ends with its
session, which must not be another one than the session in the loop.

`SessionIsTyped` and `BackoffEscalates` need two more conjuncts. `StreamInv` keeps the counters of the
streams in their ranges; over the relay it has to say that whole frames have been read, so that a
read of two pieces cannot pass the end. `MainInv` says that the delay is at most the one that follows
from the failures so far, so the next one is never
shorter. That needs the value of `Multiplier`, a recursive function: `DoublingIsDefined` builds
the function of its first steps and shows, from a least number that it does not reach
(`LeastMember`, from the well-foundedness of `<`), that it is defined on the whole domain, and
`MultiplierDoubles` that its values are naturals, each twice the one before. Theorems: `SessionInductive`,
`EstablishedMeansTheLoop`, `LiveSessionsEndForAReason`, `SessionIsTyped`, `BackoffEscalates`.

### `MediaPathProofs`

For any number of frames and chunks, any size of the buffers and any network. `IInv` says that
whatever is queued, on its way, partial or held was captured (`SenderInv`, `ReassemblerInv`), and that
a frame in the jitter buffer is whole and not older than `nextSeq` (`JitterInv`). The step that
matters is the one that completes a frame: the code counts chunks, and by `CompleteIsWhole` counting
is enough, since no chunk from outside the frame is ever held; which frame was evicted before
(`RoomIsMade`), and whether the frame was already played once, does not matter. Theorems:
`MediaInductive`, `MediaImplementsPlayout` (every step maps to a step of `Playout` or a stutter).

`BuffersAreNewest` rests on `BuffersInv`. `QueueInv` says that the frames in the queue are the last
ones captured; `Matches` that the reassembler's `order` names exactly the frames of its map,
each once. The code evicts when the *map* is full and takes the head of `order`, so the bound on the
one and the bound on the other are the same fact only because of `Matches`: by `NamedCount` a queue
without repetitions is as long as the set of what it names. A frame that completes leaves from the
middle of `order`; `Forget` cuts the queue around its one place, and `ForgetNames` says that
everything else stays, once.

### `DesktopProofs`

`Codec`: `CodecInv` is a table, `Held`, of what is on the heap when each library call is made, beside
which `Unsure` names what av_packet_alloc and av_frame_alloc may have returned before both are looked at.
Every other action allocates something that is not there, or frees or empties something that is, and
arrives at the next row (`HeapFollows`); a double free or a forgotten one would be a step between two rows
that do not fit. For the pair, `Made` is what is there, in each of the four cases
(`PairKeepsCodecInv`). What a freed packet or frame takes with it is `WithContents`. `HandlesAreClean` is
the row `idle`, for the decoder's and the encoder's every failure path.

`NativeSession`, for any size of the channel and any number of sends: `NativeInv` accounts for the
sends. Each that was called has returned or is in the queue for the mutex, among at most one `recv`,
and only a desktop with a session has a queue (`NativeInductive`). `StreamsInv` says that no call at
the relay ends while both applications run (`StreamsOutliveBoth`), so nothing fails between two desktops.
From both follows `DeadlocksAreFinal`: the five deadlocks that `SendsFinish` excuses are not passing
states. Between two desktops (`EmbraceStep`) whoever holds the mutex keeps it (`HolderStays`), nobody who
does not hold it moves the channels, and a component that has left the screen makes no call. For the one
who was left (`StrandedStep`) nothing remains but to queue more calls and, at the relay, to notice the
one who went.

`InputEvents`, for any byte base and any sample: `FourBytes` says that the four bytes of a number below
`ByteBase^4` are bytes and give the number back (from `LastByte`, the one fact about division),
`Signs` that two's complement is undone, `DecodeShort` that a prefix which is too short for its tag
is refused whatever the tag. `EventsSurvive` puts them together for the bytes that arrive.

`AccountBootstrap`, for any number of overlapping calls: `AccountInv` adds that what any call uses, and
any late registration carries, is what the file holds, and that a call about to register an account
that exists has been disturbed. Because credentials are stored before they are used, the file never
changes once it has some; that is the whole of `OneAccount`.

### `CoreProofs`

`ReplayGuard`, for every width of the nonces and every window: `GuardInv` says that `highest` is the
greatest nonce ever accepted and that `seen` is exactly the accepted nonces at or above the floor.
It survives a step because the floor never falls (`FloorRises`): what `retain` throws away cannot be
inside the window again. `FloorIsTheWindow` turns the code's saturating subtraction into the distance
the property speaks of, so `GuardIsRight` follows for 64 bits as for 3.

`HostIdentity`: the key is written after the certificate and only while there is no key file, so once a
key file exists neither file changes, and a client is given a certificate only by a host that
has both (`IdentityInv`). `IdentityIsStable` is the safety half of `ComesBackAsItself`: a host that
listens serves the certificate the client was given, and one that panics has a torn key.

`MCCore`: a step of one part is a step of that part or a stutter of every other (`PartsStepAlone`), so the
conjunction of the parts' invariants is an invariant of the composition, and `CoreIsTyped` follows.

### Only model-checked

Every invariant, action property and refinement of the passing runs is stated by a theorem. Liveness
is not, since the temporal prover does not handle fairness and ENABLED: `TwoCallersMeet`,
`AllFramesArrive`, `LossIsReported`, `GoneIsReleased`, `ShutdownEndsTheProgram`, `EndsEndTogether`,
`LostSessionsAreRetried`, `EveryFrameIsPlayed`, `ComesBackAsItself` and `SendsFinish` are properties TLC
checks. Of the last two a safety half is proved (`IdentityIsStable`, `DeadlocksAreFinal`). The
violations are TLC's counterexamples.

`ServesWhatWasPinned`, `DeadlockLasts` and `WaitsNeverShrink` are stated next to their proofs and belong to
no run.

## Findings

1. `relay.go:130`: one side's disconnect does not end the other's call, as the comment at
   `relay.go:58` says it does, until the other client sends a frame. The run has a handler that stays
   in `Recv` for ever.
2. `api.go:271`: an `EnrollTOTP` between the two round trips of `VerifyTOTP` leaves an unconfirmed
   secret enabled, against `api.go:217`.
3. `refresh.go:75`: overlapping rotations of one token both succeed, against `refresh.go:51`.
4. `bin/common/mod.rs:91`: a heartbeat cancels a `recv` that has read a frame's length, the next one
   takes the body for a length and the session ends; the comment at line 94 says "peer disconnected".
5. `bin/common/mod.rs:75`: the peer's hello is awaited outside the `select!`, so in relay mode Ctrl-C
   does not end a program whose peer never comes, against line 63.

## Not modelled

- Cryptography (signatures and hashes are taken as unforgeable), TLS records, pixel and sample
  arithmetic, bit streams, wording of errors, logging, layout of screens, and generated code.
- `transport/quic.rs`, `Backoff::reset`, `credential_store.rs` and `config.rs` have no caller
  in the programs. The relay client's request encoding is the generated code's.
- In the media path, chunks of one frame that disagree on `total_chunks`, and frame ids that are used
  again: there is no sender in the library yet, and one that cuts each frame once makes neither.
- `deviceIdentity.ts` keeps its file the way `accountIdentity.ts` does; the rest of the desktop's main
  process forwards calls. The cached access token is never renewed, so there is no behaviour to
  check (it is listed as a hazard).
- `migrate.go` and the server's graceful stop: listed as hazards; each is a few lines without a state
  of its own. `metrics` beyond the relay's gauges counts and decides nothing; `billing` is an empty
  package; the load test and the deployment files are not part of the running system.

## Plan

| step | module | abstract specification | theorems |
|---|---|---|---|
| done | `Relay`, `Rendezvous`, `Accounts`, `RefreshTokens` | `RelayLink` | all their safety properties |
| done | `PeerSession` | - | all its safety properties, and the backoff |
| done | `MediaPath` | `Playout` | the refinement and the buffers |
| done | `ReplayGuard`, `HostIdentity`, `NativeSession`, `Codec`, `InputEvents`, `AccountBootstrap`, `MCCore` | - | all their safety properties |
| next | `Rendezvous` | owners and grants that are only added, as `StoreGrew` has it | that the five RPCs implement it |
| next | `PeerSession`, `Relay` | - | the safety halves of their liveness properties, as `IdentityIsStable` is of `ComesBackAsItself` |
