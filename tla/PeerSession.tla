----------------------------- MODULE PeerSession -----------------------------
(***************************************************************************)
(* The client and host programs (core/nexdesk-core/src/bin) with what they  *)
(* are built from: the session state machine, the shutdown token, the       *)
(* backoff, the heartbeat and the framed connection.                        *)
(*                                                                         *)
(* In direct mode a client dials a host again and again and the host runs   *)
(* one task per connection it accepts; connection k joins the ends          *)
(* <<"client", k>> and <<"host", k>>.  In relay mode each program dials the *)
(* relay once.  An await is a point between two actions; everything the     *)
(* code does between two awaits is one action.                              *)
(*                                                                         *)
(* A byte stream is two counters: the frames one end has sent, each a       *)
(* length and a body, and how many of these pieces the other end has read.  *)
(*                                                                         *)
(* A definition whose comment says "Mistake" is the definition after it     *)
(* with a plausible error; no action of the specification uses it.          *)
(***************************************************************************)
EXTENDS Integers

CONSTANTS
  MaxAttempts,   \* bound: connections the client dials
  MaxPings,      \* bound: heartbeats one end sends on one connection
  Base, MaxDelay \* the backoff's parameters

ASSUME BoundsType ==
  /\ MaxAttempts \in Nat \ {0} /\ MaxPings \in Nat
  /\ Base \in Nat \ {0} /\ MaxDelay \in Nat /\ Base <= MaxDelay

VARIABLES
  mode,      \* how the programs were started: "direct" or "relay"
  main,      \* where main() of each program is
  shutdown,  \* each program's Shutdown token
  attempt,   \* the connection the client is working on, or has worked on last
  delay,     \* what next_delay returned last, 0 before the first call
  at,        \* where the task that owns an end is
  machine,   \* the Session objects
  sent,      \* frames written by an end
  taken,     \* pieces (lengths and bodies) of the peer's frames it has read
  got,       \* its recv has read a length and waits for the body
  broken     \* connections the network has reset

programVars == <<mode, main, shutdown, attempt, delay>>
streamVars == <<sent, taken, got, broken>>
vars == <<programVars, at, machine, streamVars>>

Sides == {"client", "host"}
Connections == 1..MaxAttempts
Ends == Sides \X Connections
Places == {"none", "backlog", "dialing", "tls", "hello", "await", "loop", "over"}

Side(e) == e[1]
Peer(e) == <<IF e[1] = "client" THEN "host" ELSE "client", e[2]>>

\* The client has one Session for all its connections, the host one for each.
Owner(e) == IF Side(e) = "client" THEN <<"client", 1>> ELSE e

States == {"idle", "connecting", "handshaking", "established", "closing", "closed"}

\* Session::handle; an event that is refused leaves the state alone, and all
\* callers drop the error.
Handle(state, event) ==
  CASE state \in {"idle", "closed"} /\ event = "Connect" -> "connecting"
    [] state = "connecting" /\ event = "HandshakeStart" -> "handshaking"
    [] state = "handshaking" /\ event = "HandshakeComplete" -> "established"
    [] state \in {"connecting", "handshaking"} /\ event = "Fail" -> "closed"
    [] state = "established" /\ event \in {"Disconnect", "Fail"} -> "closing"
    [] state = "closing" /\ event = "Closed" -> "closed"
    [] OTHER -> state

Minimum(a, b) == IF a < b THEN a ELSE b

\* `1 << n`, shifted by 20 at most.
Multiplier[n \in 0..20] == IF n = 0 THEN 1 ELSE 2 * Multiplier[n - 1]

\* Mistake: the delay is not capped.
Uncapped(failures) == Base * Multiplier[Minimum(failures, 20)]

\* Backoff::next_delay after so many calls; the client never calls reset.
NextDelay(failures) == Minimum(Base * Multiplier[Minimum(failures, 20)], MaxDelay)

Init ==
  /\ mode \in {"direct", "relay"}
  /\ main = [s \in Sides |-> IF mode = "direct" /\ s = "host" THEN "listening" ELSE "top"]
  /\ shutdown = [s \in Sides |-> FALSE]
  /\ attempt = 0
  /\ delay = 0
  /\ at = [e \in Ends |-> "none"]
  /\ machine = [e \in Ends |-> "idle"]
  /\ sent = [e \in Ends |-> 0]
  /\ taken = [e \in Ends |-> 0]
  /\ got = [e \in Ends |-> FALSE]
  /\ broken = {}

Go(e, place) == at' = [at EXCEPT ![e] = place]
Notify(e, event) == machine' = [machine EXCEPT ![Owner(e)] = Handle(@, event)]
NotifyBoth(e, first, second) ==
  machine' = [machine EXCEPT ![Owner(e)] = Handle(Handle(@, first), second)]

\* The other end's socket is closed or the connection has been reset.  A relay
\* tells of it only when the next heartbeat cannot be forwarded, which the loop
\* sends every five seconds: a failing recv stands for that too.
Lost(e) == at[Peer(e)] = "over" \/ e[2] \in broken

\* Tasks end and their sockets are closed, with all that has not been read.
CloseAll(ends) ==
  /\ at' = [e \in Ends |-> IF e \in ends THEN "over" ELSE at[e]]
  /\ taken' = [e \in Ends |-> IF e \in ends THEN 0 ELSE taken[e]]
  /\ got' = [e \in Ends |-> got[e] /\ e \notin ends]
  /\ UNCHANGED <<sent, broken>>

Close(e) == CloseAll({e})

\* The process ends: its tasks are dropped where they are.
End(s, how) ==
  /\ main' = [main EXCEPT ![s] = how]
  /\ CloseAll({e \in Ends : Side(e) = s /\ at[e] # "none"})

Exit(s) == End(s, "gone")

-----------------------------------------------------------------------------
\* In relay mode a program at "top" has not been started yet.
Running(s) == main[s] \notin {"gone", "crashed"} /\ (mode = "relay" => main[s] # "top")

\* Ctrl-C.
Trigger(s) ==
  /\ Running(s) /\ ~shutdown[s]
  /\ shutdown' = [shutdown EXCEPT ![s] = TRUE]
  /\ UNCHANGED <<mode, main, attempt, delay, at, machine, streamVars>>

Crash(s) ==
  /\ Running(s)
  /\ End(s, "crashed")
  /\ UNCHANGED <<mode, shutdown, attempt, delay, machine>>

Reset(k) ==
  /\ mode = "direct" /\ k \notin broken
  /\ \E s \in Sides : at[<<s, k>>] \in {"tls", "hello", "await", "loop"}
  /\ broken' = broken \cup {k}
  /\ UNCHANGED <<programVars, at, machine, sent, taken, got>>

\* main(): the next connection is dialled.
Dial ==
  /\ mode = "direct" /\ main["client"] = "top"
  /\ ~shutdown["client"]
  /\ attempt < MaxAttempts
  /\ attempt' = attempt + 1
  /\ main' = [main EXCEPT !["client"] = "session"]
  /\ Go(<<"client", attempt'>>, "dialing")
  /\ NotifyBoth(<<"client", attempt'>>, "Connect", "HandshakeStart")
  /\ UNCHANGED <<mode, shutdown, delay, streamVars>>

StopAtTop ==
  /\ mode = "direct" /\ main["client"] = "top" /\ shutdown["client"]
  /\ Exit("client")
  /\ UNCHANGED <<mode, shutdown, attempt, delay, machine>>

\* Started with --relay, either program.
DialRelay(s) ==
  /\ mode = "relay" /\ main[s] = "top"
  /\ main' = [main EXCEPT ![s] = "session"]
  /\ attempt' = 1
  /\ Go(<<s, 1>>, "dialing")
  /\ NotifyBoth(<<s, 1>>, "Connect", "HandshakeStart")
  /\ UNCHANGED <<mode, shutdown, delay, streamVars>>

\* The host's kernel completes the connection before the program accepts it.
Connected(e) ==
  /\ mode = "direct" /\ at[e] = "dialing"
  /\ main["host"] = "listening"
  /\ at' = [at EXCEPT ![e] = "tls", ![Peer(e)] = "backlog"]
  /\ UNCHANGED <<programVars, machine, streamVars>>

\* relay::connect returns with the response header, whether or not the peer
\* has dialled.
Admitted(e) ==
  /\ mode = "relay" /\ at[e] = "dialing"
  /\ Go(e, "hello")
  /\ UNCHANGED <<programVars, machine, streamVars>>

Accept(e) ==
  /\ at[e] = "backlog" /\ main["host"] = "listening"
  /\ Go(e, "tls")
  /\ NotifyBoth(e, "Connect", "HandshakeStart")
  /\ UNCHANGED <<programVars, streamVars>>

\* The client has verified the certificate the host sent, or the host has
\* heard that the client did.
Secured(e) ==
  /\ at[e] = "tls" /\ e[2] \notin broken
  /\ IF Side(e) = "client"
     THEN at[Peer(e)] = "tls"
     ELSE at[Peer(e)] \in {"hello", "await", "loop"} \/ sent[Peer(e)] > 0
  /\ Go(e, "hello")
  /\ UNCHANGED <<programVars, machine, streamVars>>

SendHello(e) ==
  /\ at[e] = "hello" /\ e[2] \notin broken
  /\ sent' = [sent EXCEPT ![e] = 1]
  /\ Go(e, "await")
  /\ UNCHANGED <<programVars, machine, taken, got, broken>>

\* Dialling, the TLS handshake or the hello exchange fails and `?` returns the
\* error; no event is sent to the Session.
Fails(e) ==
  /\ \/ at[e] = "dialing"
     \/ at[e] = "tls" /\ (Side(e) = "client" \/ Lost(e))
     \/ at[e] \in {"hello", "await"} /\ Lost(e)
  /\ Close(e)
  /\ UNCHANGED <<programVars, machine>>

-----------------------------------------------------------------------------
\* Pieces of the peer's frames that have not been read.
Unread(e) == 2 * sent[Peer(e)] - taken[e]

\* The next piece is a body although a length is expected.
Torn(e) == ~got[e] /\ taken[e] % 2 = 1

\* read_frame: the length, then the body.
ReadLength(e) ==
  /\ mode = "direct" /\ at[e] \in {"await", "loop"}
  /\ ~got[e] /\ ~Torn(e) /\ Unread(e) > 0
  /\ taken' = [taken EXCEPT ![e] = @ + 1]
  /\ got' = [got EXCEPT ![e] = TRUE]
  /\ UNCHANGED <<programVars, at, machine, sent, broken>>

\* A message is complete: the peer's hello, or one more in the loop.
Receive(e) ==
  /\ at[e] \in {"await", "loop"} /\ Unread(e) > 0
  /\ IF mode = "direct"
     THEN got[e] /\ taken' = [taken EXCEPT ![e] = @ + 1]
     ELSE taken' = [taken EXCEPT ![e] = @ + 2]
  /\ got' = [got EXCEPT ![e] = FALSE]
  /\ Go(e, "loop")
  /\ IF at[e] = "await" THEN Notify(e, "HandshakeComplete") ELSE UNCHANGED machine
  /\ UNCHANGED <<programVars, sent, broken>>

\* Mistake: the tail forgets Closed.
HalfClosed(e) == Close(e) /\ Notify(e, "Disconnect")

\* The loop is left and the function returns Ok.
Leave(e) == Close(e) /\ NotifyBoth(e, "Disconnect", "Closed")

\* Mistake: the end of the stream is not noticed, only a reset.
OnlyReset(e) == e[2] \in broken

\* Mistake: a frame that has arrived in part is the end of the stream.
PartOfAFrame(e) == Lost(e) \/ got[e]

\* recv or send returns an error.
ConnectionFails(e) == Lost(e)

\* The heartbeat's branch of the select: recv is dropped, wherever it was.
Tick(e) ==
  /\ at[e] = "loop"
  /\ \/ /\ sent[e] <= MaxPings /\ e[2] \notin broken
        /\ sent' = [sent EXCEPT ![e] = @ + 1]
        /\ got' = [got EXCEPT ![e] = FALSE]
        /\ UNCHANGED <<at, machine, taken, broken>>
     \/ ConnectionFails(e) /\ Leave(e)
  /\ UNCHANGED programVars

\* The receiving branch: the peer has gone, or a body ("PING") is read as a
\* length, which exceeds MAX_FRAME_LEN.
RecvFails(e) ==
  /\ at[e] = "loop"
  /\ ConnectionFails(e) \/ (Torn(e) /\ Unread(e) > 0)
  /\ Leave(e)
  /\ UNCHANGED programVars

\* Mistake: the select has no branch for it.
NoShutdownBranch(e) == FALSE

\* The shutdown branch.
StopInLoop(e) ==
  /\ at[e] = "loop" /\ shutdown[Side(e)]
  /\ Leave(e)
  /\ UNCHANGED programVars

-----------------------------------------------------------------------------
\* Mistake: the client gives up after its session.
GiveUp ==
  /\ mode = "direct" /\ main["client"] = "session"
  /\ at[<<"client", attempt>>] = "over"
  /\ Exit("client")
  /\ UNCHANGED <<mode, shutdown, attempt, delay, machine>>

\* The client's session has returned; it stops or sleeps.
AfterSession ==
  /\ mode = "direct" /\ main["client"] = "session"
  /\ at[<<"client", attempt>>] = "over"
  /\ \/ /\ shutdown["client"]
        /\ Exit("client")
        /\ UNCHANGED delay
     \/ /\ ~shutdown["client"]
        /\ delay' = NextDelay(attempt - 1)
        /\ main' = [main EXCEPT !["client"] = "sleep"]
        /\ UNCHANGED <<at, streamVars>>
  /\ UNCHANGED <<mode, shutdown, attempt, machine>>

Wake ==
  /\ main["client"] = "sleep"
  /\ main' = [main EXCEPT !["client"] = "top"]
  /\ UNCHANGED <<mode, shutdown, attempt, delay, at, machine, streamVars>>

\* In relay mode the program ends with its session.
AfterRelay(s) ==
  /\ mode = "relay" /\ main[s] = "session" /\ at[<<s, 1>>] = "over"
  /\ Exit(s)
  /\ UNCHANGED <<mode, shutdown, attempt, delay, machine>>

\* The accept loop sees the shutdown; main returns and drops the tasks.
StopListening ==
  /\ main["host"] = "listening" /\ shutdown["host"]
  /\ Exit("host")
  /\ UNCHANGED <<mode, shutdown, attempt, delay, machine>>

ClientMain == Dial \/ StopAtTop \/ AfterSession \/ Wake
Opens(e) == Connected(e) \/ Admitted(e) \/ Accept(e) \/ Secured(e) \/ SendHello(e) \/ Fails(e)
Loops(e) == ReadLength(e) \/ Receive(e) \/ RecvFails(e) \/ StopInLoop(e)

Next ==
  \/ ClientMain \/ StopListening
  \/ \E s \in Sides : Trigger(s) \/ Crash(s) \/ DialRelay(s) \/ AfterRelay(s)
  \/ \E k \in Connections : Reset(k)
  \/ \E e \in Ends : Opens(e) \/ Loops(e) \/ Tick(e)

Spec == Init /\ [][Next]_vars

\* Tasks that can run do; ticks, failures of the environment, Ctrl-C and the
\* start of a program in relay mode are up to others.
FairSpec ==
  /\ Spec
  /\ WF_vars(ClientMain) /\ WF_vars(StopListening)
  /\ \A s \in Sides : WF_vars(AfterRelay(s))
  /\ \A e \in Ends : WF_vars(Opens(e)) /\ WF_vars(Loops(e))

-----------------------------------------------------------------------------
\* Every variable has its type; the backoff's delay is never above its cap.
TypeOK ==
  /\ mode \in {"direct", "relay"}
  /\ main \in [Sides -> {"top", "session", "sleep", "listening", "gone", "crashed"}]
  /\ shutdown \in [Sides -> BOOLEAN]
  /\ attempt \in 0..MaxAttempts
  /\ delay \in 0..MaxDelay
  /\ at \in [Ends -> Places]
  /\ machine \in [Ends -> States]
  /\ sent \in [Ends -> 0..(MaxPings + 1)]
  /\ taken \in [Ends -> 0..(2 * (MaxPings + 1))]
  /\ got \in [Ends -> BOOLEAN]
  /\ broken \subseteq Connections

\* The task that works with a Session now: the client's last connection.
Current(e) == Side(e) = "host" \/ e[2] = attempt

\* A Session says "established" exactly while its task is in the heartbeat loop
\* (or was when the process died), although a failed attempt leaves it in
\* "handshaking" and the events of the next attempt are refused
\* (bin/client.rs 73 and 107).
EstablishedIsTheLoop ==
  \A e \in Ends :
    Current(e) /\ Running(Side(e)) =>
      (machine[Owner(e)] = "established" <=> at[e] = "loop")

\* A session in the loop ends with a shutdown, with its process, with the peer
\* or the connection - or after a heartbeat has cancelled a recv that had read
\* a length (bin/common/mod.rs 84-98).
OnlyATornReadEndsALiveSession ==
  [][\A e \in Ends :
       at[e] = "loop" /\ at'[e] = "over" =>
         \/ shutdown[Side(e)] \/ main'[Side(e)] = "crashed"
         \/ Lost(e) \/ Torn(e)]_vars

\* Ctrl-C ends the program, except in relay mode while the peer's hello is
\* awaited: that wait is outside the select (bin/common/mod.rs 75).
ShutdownEndsTheProgram ==
  \A s \in Sides :
    shutdown[s] ~> (~Running(s) \/ (mode = "relay" /\ at[<<s, 1>>] = "await"))

\* When one end is over the other one ends too: a host keeps no task for a
\* client that has gone, except in relay mode before the hello.
EndsEndTogether ==
  \A e \in Ends :
    at[e] = "over" ~>
      (at[Peer(e)] \in {"none", "over"} \/ (mode = "relay" /\ at[Peer(e)] = "await"))

\* A client whose session has ended dials again, unless it is told to stop.
LostSessionsAreRetried ==
  \A k \in 1..(MaxAttempts - 1) :
    at[<<"client", k>>] = "over" /\ mode = "direct"
      ~> (at[<<"client", k + 1>>] # "none" \/ shutdown["client"] \/ main["client"] = "crashed")

\* What the comment at bin/common/mod.rs 94 says of an error in the loop: the
\* peer has disconnected.
RecvFailsOnlyWithThePeer ==
  [][\A e \in Ends :
       at[e] = "loop" /\ at'[e] = "over" =>
         \/ shutdown[Side(e)] \/ main'[Side(e)] = "crashed" \/ Lost(e)]_vars

\* What the comment at bin/common/mod.rs 63 says: a session returns once the
\* shutdown fires.
ShutdownEndsEverySession ==
  \A s \in Sides : shutdown[s] ~> ~Running(s)
=============================================================================
