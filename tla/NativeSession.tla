---------------------------- MODULE NativeSession ----------------------------
(***************************************************************************)
(* A RelaySession of the desktop application (desktop/native/src/lib.rs)     *)
(* over a RelayConnection (core/nexdesk-core/src/rendezvous/relay.rs), as     *)
(* the renderer uses it: one receive loop and sends when the user types.     *)
(* Its peer is another desktop or one of the programs, which reads all the   *)
(* time and sends heartbeats.  Of the relay (backend/internal/relay/relay.go) *)
(* there is what the two see of it: their calls are paired, frames are        *)
(* forwarded, and the one who stays learns that the other one has gone only  *)
(* when a frame of its own cannot be forwarded.                             *)
(*                                                                         *)
(* send and recv hold one fair mutex until they are through: calls[e] is     *)
(* the queue for it, and its head holds it.  Frames are counted.            *)
(*                                                                         *)
(* A definition whose comment says "Mistake" is the definition after it     *)
(* with a plausible error; no action of the specification uses it.          *)
(***************************************************************************)
EXTENDS Integers, Sequences

CONSTANTS
  OutboundBuffer,  \* OUTBOUND_BUFFER
  Window,          \* frames under way from one end to the other, the channel apart
  MaxSends         \* bound: what one user types

ASSUME NativeType == OutboundBuffer \in Nat \ {0} /\ Window \in Nat \ {0} /\ MaxSends \in Nat

VARIABLES
  kind,     \* "desktop" or "program"
  place,    \* "dialing", "await" (the peer's hello), "open" or "gone"
  looping,  \* the receive loop of the component on the screen still runs
  calls,    \* "send" and "recv" calls that have not returned
  typed, finished,  \* sends called, sends returned
  stream,   \* the call at the relay: "none", "waiting", "paired" or "over"
  out,      \* frames in the outbound channel
  under     \* frames on their way to an end

nativeVars == <<kind, place, looping, calls, typed, finished, stream, out, under>>
wireVars == <<out, under>>

Users == {"A", "B"}
Other(e) == IF e = "A" THEN "B" ELSE "A"

NativeInit ==
  /\ \E k \in {"desktop", "program"} : kind = [e \in Users |-> IF e = "A" THEN "desktop" ELSE k]
  /\ place = [e \in Users |-> "dialing"]
  /\ looping = [e \in Users |-> FALSE]
  /\ calls = [e \in Users |-> <<>>]
  /\ typed = [e \in Users |-> 0] /\ finished = [e \in Users |-> 0]
  /\ stream = [e \in Users |-> "none"]
  /\ out = [e \in Users |-> 0] /\ under = [e \in Users |-> 0]

Desktop(e) == kind[e] = "desktop"
Open(e) == place[e] = "open"

\* The handler of e's call claims the one that waits, or waits itself.
Pairing(e) ==
  IF stream[Other(e)] = "waiting" THEN [d \in Users |-> "paired"]
  ELSE [stream EXCEPT ![e] = "waiting"]

\* connect_and_handshake: the relay has accepted, the hello is sent.
SayHello(e) ==
  /\ place[e] = "dialing"
  /\ place' = [place EXCEPT ![e] = "await"]
  /\ stream' = Pairing(e)
  /\ out' = [out EXCEPT ![e] = @ + 1]
  /\ UNCHANGED <<kind, looping, calls, typed, finished, under>>

\* The peer's hello: the session exists, and on a desktop the loop starts.
HearHello(e) ==
  /\ place[e] = "await" /\ under[e] > 0
  /\ under' = [under EXCEPT ![e] = @ - 1]
  /\ place' = [place EXCEPT ![e] = "open"]
  /\ looping' = [looping EXCEPT ![e] = Desktop(e)]
  /\ UNCHANGED <<kind, calls, typed, finished, stream, out>>

\* e's call has ended: what was under way can still be read, then recv fails, and
\* so does send.
Ended(e) == stream[e] = "over"

\* e's handler forwards a frame to the other end.
Carry(e) ==
  /\ out[e] > 0 /\ stream[e] = "paired"
  /\ ~Ended(Other(e)) /\ under[Other(e)] < Window
  /\ out' = [out EXCEPT ![e] = @ - 1]
  /\ under' = [under EXCEPT ![Other(e)] = @ + 1]
  /\ UNCHANGED <<kind, place, looping, calls, typed, finished, stream>>

\* It cannot, because the other call is over: the handler returns.  Nothing else
\* tells e that its peer has gone.
CarryFails(e) ==
  /\ out[e] > 0 /\ stream[e] = "paired" /\ Ended(Other(e))
  /\ out' = [out EXCEPT ![e] = @ - 1]
  /\ stream' = [stream EXCEPT ![e] = "over"]
  /\ UNCHANGED <<kind, place, looping, calls, typed, finished, under>>

\* The relay sees that e's process has gone; until then it takes frames for it.
Notices(e) ==
  /\ place[e] = "gone" /\ stream[e] \in {"waiting", "paired"}
  /\ stream' = [stream EXCEPT ![e] = "over"]
  /\ UNCHANGED <<kind, place, looping, calls, typed, finished, wireVars>>

-----------------------------------------------------------------------------
InCall(e, call) == \E n \in 1..Len(calls[e]) : calls[e][n] = call
Holds(e, call) == calls[e] # <<>> /\ Head(calls[e]) = call
Return(e) == calls' = [calls EXCEPT ![e] = Tail(@)]

\* lock().await: tokio's mutex is handed over in the order of the calls.
Call(e, call) == calls' = [calls EXCEPT ![e] = Append(@, call)]

\* The receive loop calls recv.
CallRecv(e) ==
  /\ Open(e) /\ looping[e] /\ ~InCall(e, "recv")
  /\ Call(e, "recv")
  /\ UNCHANGED <<kind, place, looping, typed, finished, stream, wireVars>>

\* The user sends a message, whether or not earlier calls have returned.
CallSend(e) ==
  /\ Open(e) /\ looping[e] /\ typed[e] < MaxSends
  /\ typed' = [typed EXCEPT ![e] = @ + 1]
  /\ Call(e, "send")
  /\ UNCHANGED <<kind, place, looping, finished, stream, wireVars>>

\* recv has something to return, or the stream has ended.
Answered(e) == under[e] > 0 \/ Ended(e)

\* recv returns; after an error the loop is over.
FinishRecv(e) ==
  /\ Open(e) /\ Holds(e, "recv") /\ Answered(e)
  /\ Return(e)
  /\ IF under[e] > 0
     THEN under' = [under EXCEPT ![e] = @ - 1] /\ UNCHANGED looping
     ELSE looping' = [looping EXCEPT ![e] = FALSE] /\ UNCHANGED under
  /\ UNCHANGED <<kind, place, typed, finished, stream, out>>

\* send returns: the frame is in the channel, or the stream has ended.
FinishSend(e) ==
  /\ Open(e) /\ Holds(e, "send")
  /\ \/ Ended(e) /\ UNCHANGED out
     \/ out[e] < OutboundBuffer /\ out' = [out EXCEPT ![e] = @ + 1]
  /\ finished' = [finished EXCEPT ![e] = @ + 1]
  /\ Return(e)
  /\ UNCHANGED <<kind, place, looping, typed, stream, under>>

\* The component leaves the screen.  Nothing closes the session: a recv that
\* is waiting goes on, and after it nobody reads.
Unmount(e) ==
  /\ Open(e) /\ looping[e]
  /\ looping' = [looping EXCEPT ![e] = FALSE]
  /\ UNCHANGED <<kind, place, calls, typed, finished, stream, wireVars>>

\* A program reads whatever comes.
ProgramReads(e) ==
  /\ Open(e) /\ ~Desktop(e) /\ under[e] > 0
  /\ under' = [under EXCEPT ![e] = @ - 1]
  /\ UNCHANGED <<kind, place, looping, calls, typed, finished, stream, out>>

\* Mistake: a program never speaks first.
NoHeartbeat(e) == FALSE

\* Mistake: the heartbeat does not wait for room in the channel.
AlwaysDue(e) == TRUE

\* A heartbeat is due; five seconds are enough for the last one to be read, if
\* there is still somebody who reads.
HeartbeatDue(e) == out[e] = 0 /\ (under[Other(e)] = 0 \/ place[Other(e)] = "gone")

ProgramPings(e) ==
  /\ Open(e) /\ ~Desktop(e) /\ ~Ended(e) /\ HeartbeatDue(e)
  /\ out' = [out EXCEPT ![e] = @ + 1]
  /\ UNCHANGED <<kind, place, looping, calls, typed, finished, stream, under>>

\* The process ends; its calls end with it.
Quit(e) ==
  /\ place[e] # "gone"
  /\ place' = [place EXCEPT ![e] = "gone"]
  /\ looping' = [looping EXCEPT ![e] = FALSE]
  /\ calls' = [calls EXCEPT ![e] = <<>>]
  /\ out' = [out EXCEPT ![e] = 0]
  /\ UNCHANGED <<kind, typed, finished, stream, under>>

\* The handshake of the one who is left fails.
HelloFails(e) ==
  /\ place[e] = "await" /\ Ended(e) /\ under[e] = 0
  /\ place' = [place EXCEPT ![e] = "gone"]
  /\ out' = [out EXCEPT ![e] = 0]
  /\ UNCHANGED <<kind, looping, calls, typed, finished, stream, under>>

Handshake(e) == HearHello(e) \/ HelloFails(e)
Answers(e) == FinishRecv(e) \/ FinishSend(e)
Program(e) == ProgramReads(e) \/ ProgramPings(e)
Relays(e) == Carry(e) \/ CarryFails(e) \/ Notices(e)

NativeNext ==
  \E e \in Users :
    \/ SayHello(e) \/ Handshake(e) \/ Relays(e) \/ CallRecv(e) \/ Answers(e) \/ Program(e)
    \/ CallSend(e) \/ Unmount(e) \/ Quit(e)

NativeSpec == NativeInit /\ [][NativeNext]_nativeVars

\* Tasks, timers and the relay go on, and the relay sees in the end that a
\* connection is closed; users do what they like.
NativeFairness ==
  \A e \in Users :
    /\ WF_nativeVars(Carry(e)) /\ WF_nativeVars(CarryFails(e)) /\ WF_nativeVars(Notices(e))
    /\ WF_nativeVars(CallRecv(e))
    /\ WF_nativeVars(Handshake(e)) /\ WF_nativeVars(Answers(e))
    /\ WF_nativeVars(ProgramReads(e)) /\ WF_nativeVars(ProgramPings(e))

-----------------------------------------------------------------------------
NativeTypeOK ==
  /\ kind \in [Users -> {"desktop", "program"}]
  /\ place \in [Users -> {"dialing", "await", "open", "gone"}]
  /\ looping \in [Users -> BOOLEAN]
  /\ \A e \in Users : calls[e] \in Seq({"send", "recv"})
  /\ typed \in [Users -> 0..MaxSends] /\ finished \in [Users -> 0..MaxSends]
  /\ stream \in [Users -> {"none", "waiting", "paired", "over"}]
  /\ out \in [Users -> 0..OutboundBuffer] /\ under \in [Users -> 0..Window]

Listens(e) == Holds(e, "recv") /\ under[e] = 0 /\ out[Other(e)] = 0
Full(e) == Holds(e, "send") /\ out[e] = OutboundBuffer /\ under[Other(e)] = Window
Deaf(e) == Desktop(e) /\ ~looping[e] /\ ~InCall(e, "recv")

\* Between two desktops with a session nothing moves any more: both hold their
\* mutex in recv, or both in send with all buffers full, or one of them has left
\* the screen while the other holds it in recv or in send.
Embraced(e) ==
  /\ Desktop(Other(e)) /\ Open(Other(e))
  /\ \/ Listens(e) /\ (Listens(Other(e)) \/ (~looping[Other(e)] /\ ~InCall(Other(e), "send")))
     \/ Full(e) /\ (Full(Other(e)) \/ Deaf(Other(e)))

\* The peer has gone and recv holds the mutex: no frame is left that the relay
\* could fail to forward, so the call does not end, and no send can make one.
Stranded(e) ==
  /\ place[Other(e)] = "gone" /\ ~Ended(e)
  /\ Holds(e, "recv") /\ under[e] = 0 /\ out[e] = 0

Deadlocked(e) == Embraced(e) \/ Stranded(e)

\* Every send returns, also when the receive loop holds the mutex, except in one
\* of the four deadlocks of two desktops or when the peer has gone while recv
\* waits for it (native/src/lib.rs 171-180, relay.go 128-141).
SendsFinish ==
  \A e \in Users : \A n \in 1..MaxSends :
    typed[e] >= n ~> (finished[e] >= n \/ place[e] = "gone" \/ Deadlocked(e))
=============================================================================
