------------------------------ MODULE MediaPath ------------------------------
(***************************************************************************)
(* The buffers frames go through (core/nexdesk-core/src/protocol): the      *)
(* bounded queue before the network (backpressure.rs), reassembly from      *)
(* chunks (reassembly.rs) and the jitter buffer (jitter.rs).                *)
(*                                                                         *)
(* The library has no caller for them yet; they are joined as their         *)
(* comments describe: what pop() returns is sent in chunks over a network   *)
(* that loses, repeats and reorders them, and what accept() returns is      *)
(* pushed with its frame_id as sequence number.  A chunk's data is its      *)
(* number in the frame; time is the age of a buffered frame.                *)
(*                                                                         *)
(* A definition whose comment says "Mistake" is the definition after it     *)
(* with a plausible error; no action of the specification uses it.          *)
(***************************************************************************)
EXTENDS Integers, Sequences, FiniteSets

CONSTANTS
  MaxFrames,          \* bound: frames captured
  ChunksOf,           \* total_chunks of each frame
  QueueCapacity, MaxFramesBuffered, MaxWait,
  MaxCopies           \* bound: how often one chunk arrives

Frames == 0..(MaxFrames - 1)

ASSUME MediaType ==
  /\ MaxFrames \in Nat /\ QueueCapacity \in Nat \ {0}
  /\ MaxFramesBuffered \in Nat \ {0} /\ MaxWait \in Nat /\ MaxCopies \in Nat
  /\ ChunksOf \in [Frames -> Nat \ {0}]

VARIABLES
  captured,        \* frames produced so far, numbered from 0
  queue, dropped,  \* FrameQueue
  copies,          \* how often each chunk of a frame that was sent may still arrive
  partial, order,  \* FrameReassembler
  nextSeq,         \* JitterBuffer: what is played next,
  buffered,        \*   and for each frame held its age and its chunks
  played           \* what pop_ready has returned (history)

senderVars == <<captured, queue, dropped>>
reassemblerVars == <<partial, order>>
jitterVars == <<nextSeq, buffered, played>>
mediaVars == <<senderVars, copies, reassemblerVars, jitterVars>>

\* f is given the value v in a map.
Put(map, f, v) == [g \in DOMAIN map \cup {f} |-> IF g = f THEN v ELSE map[g]]
Drop(map, f) == [g \in DOMAIN map \ {f} |-> map[g]]

MediaInit ==
  /\ captured = 0 /\ queue = <<>> /\ dropped = 0
  /\ copies = [f \in Frames |-> [i \in 0..(ChunksOf[f] - 1) |-> 0]]
  /\ partial = [f \in {} |-> {}] /\ order = <<>>
  /\ nextSeq = 0 /\ buffered = [f \in {} |-> {}] /\ played = <<>>

\* FrameQueue::push: the oldest frame makes room.
Capture ==
  /\ captured < MaxFrames
  /\ captured' = captured + 1
  /\ IF Len(queue) >= QueueCapacity
     THEN queue' = Append(Tail(queue), captured) /\ dropped' = dropped + 1
     ELSE queue' = Append(queue, captured) /\ UNCHANGED dropped
  /\ UNCHANGED <<copies, reassemblerVars, jitterVars>>

\* FrameQueue::pop; the chunks of the frame are on their way.
Send ==
  /\ queue # <<>>
  /\ queue' = Tail(queue)
  /\ copies' = [copies EXCEPT ![Head(queue)] = [i \in DOMAIN @ |-> MaxCopies]]
  /\ UNCHANGED <<captured, dropped, reassemblerVars, jitterVars>>

-----------------------------------------------------------------------------
\* JitterBuffer::push; a frame that is held already is replaced and its wait
\* starts again.
Push(f, parts) ==
  /\ buffered' = IF f < nextSeq THEN buffered ELSE Put(buffered, f, [age |-> 0, parts |-> parts])
  /\ UNCHANGED <<nextSeq, played>>

\* Every chunk of f has arrived.
Complete(f, chunks) == Cardinality(chunks) = ChunksOf[f]

\* Mistake: a frame that is complete stays in the queue.
Lingers(f, line) == line

\* A frame that is complete leaves the queue, wherever it stands.  (retain()
\* looks at every place; the frame has one, see BuffersKeepTheNewest.)
Forget(f, line) ==
  IF \E n \in 1..Len(line) : line[n] = f
  THEN LET n == CHOOSE n \in 1..Len(line) : line[n] = f
       IN SubSeq(line, 1, n - 1) \o SubSeq(line, n + 1, Len(line))
  ELSE line

\* The frames held when a chunk of f comes in: the oldest one has made room.
MakeRoom(f) ==
  IF f \in DOMAIN partial THEN [held |-> partial, line |-> order]
  ELSE IF Cardinality(DOMAIN partial) >= MaxFramesBuffered
       THEN [held |-> Put(Drop(partial, Head(order)), f, {}), line |-> Append(Tail(order), f)]
       ELSE [held |-> Put(partial, f, {}), line |-> Append(order, f)]

\* FrameReassembler::accept.  Chunks with an index outside their frame are
\* refused before anything is touched, and none of them is sent.
Accept(f, i) ==
  LET room == MakeRoom(f)
      chunks == room.held[f] \cup {i}
  IN IF Complete(f, chunks)
     THEN /\ partial' = Drop(room.held, f)
          /\ order' = Forget(f, room.line)
          /\ Push(f, chunks)
     ELSE /\ partial' = Put(room.held, f, chunks)
          /\ order' = room.line
          /\ UNCHANGED jitterVars

\* A chunk arrives; the network may deliver it again.
Arrive(f, i) ==
  /\ copies[f][i] > 0
  /\ copies' = [copies EXCEPT ![f][i] = @ - 1]
  /\ Accept(f, i)
  /\ UNCHANGED senderVars

\* Mistake: the gap is skipped one frame at a time.
StepOver(f) == nextSeq + 1

\* What is next after f has been played: everything before f is given up.
After(f) == f + 1

\* Mistake: only the frame that is next is ever played.
OnlyNext(f) == f = nextSeq

\* f is the frame pop_ready would return: the next one, or the earliest once it
\* has waited long enough.
Ready(f) ==
  \/ f = nextSeq
  \/ /\ \A g \in DOMAIN buffered : f <= g
     /\ buffered[f].age >= MaxWait

\* JitterBuffer::pop_ready.
PopReady ==
  \E f \in DOMAIN buffered :
    /\ Ready(f)
    /\ played' = Append(played, [seq |-> f, parts |-> buffered[f].parts])
    /\ nextSeq' = After(f)
    /\ buffered' = Drop(buffered, f)
    /\ UNCHANGED <<senderVars, copies, reassemblerVars>>

\* Time passes; ages beyond MaxWait are alike.
Elapse ==
  /\ \E f \in DOMAIN buffered : buffered[f].age < MaxWait
  /\ buffered' = [f \in DOMAIN buffered |->
                    [buffered[f] EXCEPT !.age = IF @ < MaxWait THEN @ + 1 ELSE @]]
  /\ UNCHANGED <<senderVars, copies, reassemblerVars, nextSeq, played>>

MediaNext ==
  \/ Capture \/ Send \/ PopReady \/ Elapse
  \/ \E f \in Frames : \E i \in DOMAIN copies[f] : Arrive(f, i)

MediaSpec == MediaInit /\ [][MediaNext]_mediaVars

\* The player polls and time passes; nothing is assumed of sender and network.
MediaFairness == WF_mediaVars(PopReady) /\ WF_mediaVars(Elapse)

-----------------------------------------------------------------------------
MediaTypeOK ==
  /\ captured \in 0..MaxFrames
  /\ queue \in Seq(Frames)
  /\ dropped \in 0..MaxFrames
  /\ DOMAIN partial \subseteq Frames
  /\ nextSeq \in 0..MaxFrames
  /\ DOMAIN buffered \subseteq Frames

\* Both buffers are bounded and lose the oldest only: the frames not yet sent are
\* the newest ones in order, and the reassembler's map and its queue name the
\* same frames, none of them twice, although a frame leaves them from the middle
\* (protocol/backpressure.rs 26-34, protocol/reassembly.rs 51-79).
BuffersKeepTheNewest ==
  /\ Len(queue) <= QueueCapacity
  /\ \A n \in 1..Len(queue) : queue[n] = captured - Len(queue) + n - 1
  /\ DOMAIN partial = {order[n] : n \in 1..Len(order)}
  /\ \A m, n \in 1..Len(order) : m # n => order[m] # order[n]
  /\ Len(order) <= MaxFramesBuffered

\* The media path implements Playout: whatever the network does to the chunks,
\* and although a late copy starts a finished frame again
\* (protocol/reassembly.rs 51-65), frames are played whole, once, in order.
Play == INSTANCE Playout
ImplementsPlayout == Play!Spec

\* A frame the jitter buffer holds is played after a while: a missing frame
\* blocks nobody for ever, as long as no frame is repeated for ever
\* (protocol/jitter.rs 3 and 33).
EveryFrameIsPlayed ==
  \A f \in Frames : f \in DOMAIN buffered ~> f \notin DOMAIN buffered /\ f < nextSeq
=============================================================================
