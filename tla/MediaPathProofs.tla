--------------------------- MODULE MediaPathProofs ---------------------------
(***************************************************************************)
(* Proofs about MediaPath, for every number of frames and chunks, every      *)
(* size of the buffers and any behaviour of the network.                    *)
(***************************************************************************)
EXTENDS MediaPath, FiniteSetTheorems, FunctionTheorems, SequenceTheorems, TLAPS

Captured == 0..(captured - 1)
Chunks(f) == 0..(ChunksOf[f] - 1)

\* Only frames that were captured are queued or sent.
SenderInv ==
  /\ captured \in 0..MaxFrames
  /\ queue \in Seq(Captured)
  /\ DOMAIN copies = Frames
  /\ \A f \in Frames : DOMAIN copies[f] = Chunks(f)
  /\ \A f \in Frames : \A i \in Chunks(f) : copies[f][i] > 0 => f \in Captured

\* The reassembler holds chunks of frames that were captured.
ReassemblerInv ==
  /\ DOMAIN partial \subseteq Captured
  /\ \A f \in DOMAIN partial : partial[f] \subseteq Chunks(f)

\* What the jitter buffer holds is whole and was captured, and nothing in it is
\* older than what is played next; what was played last is.
JitterInv ==
  /\ nextSeq \in Nat
  /\ DOMAIN buffered \subseteq Captured
  /\ \A f \in DOMAIN buffered : f >= nextSeq /\ buffered[f] \in [age : Nat, parts : {Chunks(f)}]
  /\ played \in Seq([seq : Nat, parts : SUBSET Nat])
  /\ played # <<>> => played[Len(played)].seq < nextSeq

IInv == SenderInv /\ ReassemblerInv /\ JitterInv

-----------------------------------------------------------------------------

\* A map after one of its keys has been dropped.
LEMMA DropKeepsTheOthers ==
  ASSUME NEW map, NEW f
  PROVE  /\ DOMAIN Drop(map, f) = DOMAIN map \ {f}
         /\ \A g \in DOMAIN map \ {f} : Drop(map, f)[g] = map[g]
BY DEF Drop

\* A frame is complete only if each of its chunks is there: counting is enough,
\* because no chunk from outside the frame is ever held.
LEMMA CompleteIsWhole ==
  ASSUME NEW f \in Frames, NEW chunks, chunks \subseteq Chunks(f), Complete(f, chunks)
  PROVE  chunks = Chunks(f)
<1>1. ChunksOf[f] \in Nat \ {0}
  BY MediaType
<1>2. IsFiniteSet(Chunks(f)) /\ Cardinality(Chunks(f)) = ChunksOf[f]
  <2>1. 0 \in Int /\ ChunksOf[f] - 1 \in Int /\ ~(0 > ChunksOf[f] - 1)
    BY <1>1
  <2>2. /\ IsFiniteSet(0..(ChunksOf[f] - 1))
        /\ Cardinality(0..(ChunksOf[f] - 1)) = ChunksOf[f] - 1 - 0 + 1
    BY <2>1, FS_Interval
  <2> QED BY <1>1, <2>2 DEF Chunks
<1>3. chunks \in SUBSET Chunks(f)
  OBVIOUS
<1>4. Cardinality(chunks) = Cardinality(Chunks(f))
  BY <1>2 DEF Complete
<1> QED BY <1>2, <1>3, <1>4, FS_Subset

\* Frames that were captured are frames, and stay captured.
LEMMA CapturedAreFrames ==
  ASSUME SenderInv
  PROVE  Captured \subseteq Frames
BY MediaType DEF SenderInv, Captured, Frames

-----------------------------------------------------------------------------

LEMMA CaptureKeepsIInv ==
  ASSUME IInv, Capture
  PROVE  IInv'
<1>1. /\ captured \in 0..MaxFrames /\ captured' = captured + 1 /\ captured' \in 0..MaxFrames
  BY MediaType DEF IInv, SenderInv, Capture
<1>2. Captured \subseteq Captured' /\ captured \in Captured'
  BY <1>1 DEF Captured
<1>3. queue' \in Seq(Captured')
  <2>1. queue \in Seq(Captured') /\ QueueCapacity \in Nat \ {0}
    BY <1>2, MediaType, SeqMonotonic DEF IInv, SenderInv
  <2>2. CASE Len(queue) >= QueueCapacity
    <3>1. queue # <<>>
      BY <2>1, <2>2, EmptySeq
    <3>2. Tail(queue) \in Seq(Captured')
      BY <2>1, <3>1, HeadTailProperties
    <3> QED BY <2>2, <3>2, <1>2, AppendProperties DEF Capture
  <2>3. CASE ~(Len(queue) >= QueueCapacity)
    BY <2>3, <2>1, <1>2, AppendProperties DEF Capture
  <2> QED BY <2>2, <2>3
<1>4. SenderInv'
  BY <1>1, <1>2, <1>3 DEF IInv, SenderInv, Capture, Chunks, Captured
<1>5. ReassemblerInv'
  BY <1>2 DEF IInv, ReassemblerInv, Capture, reassemblerVars, Chunks
<1>6. JitterInv'
  BY <1>2 DEF IInv, JitterInv, Capture, jitterVars, Chunks
<1> QED BY <1>4, <1>5, <1>6 DEF IInv

LEMMA SendKeepsIInv ==
  ASSUME IInv, Send
  PROVE  IInv'
<1>1. Captured' = Captured
  BY DEF Send, Captured
<1>2. Tail(queue) \in Seq(Captured) /\ Head(queue) \in Captured
  BY HeadTailProperties DEF IInv, SenderInv, Send
<1>3. SenderInv'
  BY <1>1, <1>2, CapturedAreFrames DEF IInv, SenderInv, Send, Chunks, Captured
<1>4. ReassemblerInv'
  BY <1>1 DEF IInv, ReassemblerInv, Send, reassemblerVars, Chunks
<1>5. JitterInv'
  BY <1>1 DEF IInv, JitterInv, Send, jitterVars, Chunks
<1> QED BY <1>3, <1>4, <1>5 DEF IInv

LEMMA PopReadyKeepsIInv ==
  ASSUME IInv, PopReady
  PROVE  IInv'
<1> PICK f \in DOMAIN buffered :
      /\ Ready(f)
      /\ played' = Append(played, [seq |-> f, parts |-> buffered[f].parts])
      /\ nextSeq' = After(f)
      /\ buffered' = Drop(buffered, f)
      /\ UNCHANGED <<senderVars, copies, reassemblerVars>>
  BY DEF PopReady
<1>1. Captured' = Captured
  BY DEF Captured, senderVars
<1>2. SenderInv' /\ ReassemblerInv'
  BY <1>1 DEF IInv, SenderInv, ReassemblerInv, senderVars, reassemblerVars, Chunks
<1>3. f \in Captured /\ f \in Nat /\ buffered[f].parts = Chunks(f) /\ Captured \subseteq Nat
  BY DEF IInv, JitterInv, SenderInv, Captured
<1>4. DOMAIN buffered' = DOMAIN buffered \ {f}
      /\ \A g \in DOMAIN buffered \ {f} : buffered'[g] = buffered[g]
  BY DropKeepsTheOthers
<1>5. \A g \in DOMAIN buffered \ {f} : g >= f + 1
  <2> TAKE g \in DOMAIN buffered \ {f}
  <2>1. g \in Nat /\ g >= nextSeq /\ g # f /\ nextSeq \in Nat
    BY <1>3 DEF IInv, JitterInv
  <2> QED BY <2>1, <1>3 DEF Ready
<1>6. [seq |-> f, parts |-> buffered[f].parts] \in [seq : Nat, parts : SUBSET Nat]
  BY <1>3 DEF Chunks
<1>7. /\ played' \in Seq([seq : Nat, parts : SUBSET Nat])
      /\ played'[Len(played')].seq = f
  <2>1. played \in Seq([seq : Nat, parts : SUBSET Nat])
    BY DEF IInv, JitterInv
  <2> QED BY <2>1, <1>6, AppendProperties, LenProperties
<1>8. JitterInv'
  BY <1>1, <1>3, <1>4, <1>5, <1>7 DEF IInv, JitterInv, After, Chunks
<1> QED BY <1>2, <1>8 DEF IInv

LEMMA ElapseKeepsIInv ==
  ASSUME IInv, Elapse
  PROVE  IInv'
<1>1. Captured' = Captured
  BY DEF Elapse, Captured, senderVars
<1>2. SenderInv' /\ ReassemblerInv'
  BY <1>1 DEF IInv, SenderInv, ReassemblerInv, Elapse, senderVars, reassemblerVars, Chunks
<1>3. /\ DOMAIN buffered' = DOMAIN buffered
      /\ \A f \in DOMAIN buffered :
           buffered'[f] = [buffered[f] EXCEPT !.age = IF @ < MaxWait THEN @ + 1 ELSE @]
  BY DEF Elapse
<1>4. \A f \in DOMAIN buffered : buffered'[f] \in [age : Nat, parts : {Chunks(f)}]
  BY <1>3 DEF IInv, JitterInv
<1>5. JitterInv'
  BY <1>1, <1>3, <1>4 DEF IInv, JitterInv, Elapse, Chunks
<1> QED BY <1>2, <1>5 DEF IInv

\* Whether or not a frame is evicted, f gets its place and every frame held is
\* one that was captured, with chunks of its own.
LEMMA RoomIsMade ==
  ASSUME ReassemblerInv, NEW f \in Captured
  PROVE  /\ f \in DOMAIN MakeRoom(f).held
         /\ DOMAIN MakeRoom(f).held \subseteq Captured
         /\ \A g \in DOMAIN MakeRoom(f).held : MakeRoom(f).held[g] \subseteq Chunks(g)
<1>1. CASE f \in DOMAIN partial
  BY <1>1 DEF MakeRoom, ReassemblerInv
<1>2. CASE f \notin DOMAIN partial /\ Cardinality(DOMAIN partial) >= MaxFramesBuffered
  <2>1. MakeRoom(f).held = Put(Drop(partial, Head(order)), f, {})
    BY <1>2 DEF MakeRoom
  <2>2. /\ DOMAIN MakeRoom(f).held = (DOMAIN partial \ {Head(order)}) \cup {f}
        /\ MakeRoom(f).held[f] = {}
        /\ \A g \in DOMAIN partial \ {Head(order), f} : MakeRoom(f).held[g] = partial[g]
    BY <2>1 DEF Put, Drop
  <2> QED BY <2>2 DEF ReassemblerInv
<1>3. CASE f \notin DOMAIN partial /\ ~(Cardinality(DOMAIN partial) >= MaxFramesBuffered)
  <2>1. MakeRoom(f).held = Put(partial, f, {})
    BY <1>3 DEF MakeRoom
  <2>2. /\ DOMAIN MakeRoom(f).held = DOMAIN partial \cup {f}
        /\ MakeRoom(f).held[f] = {}
        /\ \A g \in DOMAIN partial \ {f} : MakeRoom(f).held[g] = partial[g]
    BY <2>1 DEF Put
  <2> QED BY <2>2 DEF ReassemblerInv
<1> QED BY <1>1, <1>2, <1>3

\* Pushing a whole frame keeps the jitter buffer's part.
LEMMA PushKeepsJitterInv ==
  ASSUME SenderInv, JitterInv, NEW f \in Captured, Push(f, Chunks(f)), captured' = captured
  PROVE  JitterInv'
<1>1. Captured' = Captured /\ f \in Nat
  BY DEF Captured, SenderInv
<1>2. CASE f < nextSeq
  BY <1>1, <1>2 DEF JitterInv, Push, Chunks
<1>3. CASE ~(f < nextSeq)
  <2>1. buffered' = Put(buffered, f, [age |-> 0, parts |-> Chunks(f)])
    BY <1>3 DEF Push
  <2>2. /\ DOMAIN buffered' = DOMAIN buffered \cup {f}
        /\ buffered'[f] = [age |-> 0, parts |-> Chunks(f)]
        /\ \A g \in DOMAIN buffered : g # f => buffered'[g] = buffered[g]
    BY <2>1 DEF Put
  <2>3. f >= nextSeq
    BY <1>1, <1>3 DEF JitterInv
  <2>4. \A g \in DOMAIN buffered' :
          g >= nextSeq /\ buffered'[g] \in [age : Nat, parts : {Chunks(g)}]
    BY <2>2, <2>3 DEF JitterInv
  <2> QED BY <1>1, <2>2, <2>4 DEF JitterInv, Push, Chunks
<1> QED BY <1>2, <1>3

LEMMA ArriveKeepsIInv ==
  ASSUME IInv, NEW f \in Frames, NEW i \in DOMAIN copies[f], Arrive(f, i)
  PROVE  IInv'
<1> DEFINE room == MakeRoom(f)
           chunks == room.held[f] \cup {i}
<1>1. /\ f \in Captured /\ i \in Chunks(f)
      /\ captured' = captured /\ Captured' = Captured
  BY DEF IInv, SenderInv, Arrive, senderVars, Captured
<1>2. SenderInv'
  <2>1. copies' = [copies EXCEPT ![f] = [copies[f] EXCEPT ![i] = @ - 1]]
    BY DEF Arrive
  <2>2. DOMAIN copies' = Frames /\ \A g \in Frames : DOMAIN copies'[g] = Chunks(g)
    BY <2>1 DEF IInv, SenderInv
  <2>3. \A g \in Frames : g # f => copies'[g] = copies[g]
    BY <2>1 DEF IInv, SenderInv
  <2> QED BY <1>1, <2>2, <2>3 DEF IInv, SenderInv, Arrive, senderVars, Chunks
<1>3. /\ f \in DOMAIN room.held /\ DOMAIN room.held \subseteq Captured
      /\ \A g \in DOMAIN room.held : room.held[g] \subseteq Chunks(g)
  BY <1>1, RoomIsMade DEF IInv
<1>4. chunks \subseteq Chunks(f)
  BY <1>1, <1>3
<1>5. CASE Complete(f, chunks)
  <2>1. partial' = Drop(room.held, f) /\ Push(f, chunks)
    BY <1>5 DEF Arrive, Accept
  <2>2. chunks = Chunks(f)
    BY <1>4, <1>5, CompleteIsWhole
  <2>3. ReassemblerInv'
    <3>1. /\ DOMAIN partial' = DOMAIN room.held \ {f}
          /\ \A g \in DOMAIN partial' : partial'[g] = room.held[g]
      BY <2>1 DEF Drop
    <3> HIDE DEF room
    <3> QED BY <1>1, <1>3, <3>1 DEF ReassemblerInv, Chunks
  <2>4. JitterInv'
    BY <1>1, <2>1, <2>2, PushKeepsJitterInv DEF IInv
  <2> QED BY <1>2, <2>3, <2>4 DEF IInv
<1>6. CASE ~Complete(f, chunks)
  <2>1. partial' = Put(room.held, f, chunks) /\ UNCHANGED jitterVars
    BY <1>6 DEF Arrive, Accept
  <2>2. ReassemblerInv'
    <3>1. /\ DOMAIN partial' = DOMAIN room.held \cup {f}
          /\ partial'[f] = chunks
          /\ \A g \in DOMAIN partial' \ {f} : partial'[g] = room.held[g]
      BY <2>1 DEF Put
    <3> HIDE DEF room, chunks
    <3> QED BY <1>1, <1>3, <1>4, <3>1 DEF ReassemblerInv, Chunks
  <2>3. JitterInv'
    BY <1>1, <2>1 DEF IInv, JitterInv, jitterVars, Chunks
  <2> QED BY <1>2, <2>2, <2>3 DEF IInv
<1> QED BY <1>5, <1>6

\* Every step keeps the invariant.
LEMMA StepKeepsIInv ==
  ASSUME IInv, [MediaNext]_mediaVars
  PROVE  IInv'
<1>1. CASE UNCHANGED mediaVars
  BY <1>1 DEF mediaVars, senderVars, reassemblerVars, jitterVars, IInv, SenderInv,
              ReassemblerInv, JitterInv, Captured, Chunks
<1> QED BY <1>1, CaptureKeepsIInv, SendKeepsIInv, PopReadyKeepsIInv, ElapseKeepsIInv,
           ArriveKeepsIInv DEF MediaNext

\* Before anything has been captured the invariant holds.
LEMMA InitIsIInv ==
  ASSUME MediaInit
  PROVE  IInv
<1>1. DOMAIN partial = {} /\ DOMAIN buffered = {}
  BY DEF MediaInit
<1>2. SenderInv
  <2>1. captured \in 0..MaxFrames /\ queue \in Seq(Captured)
    BY MediaType DEF MediaInit
  <2>2. /\ DOMAIN copies = Frames
        /\ \A f \in Frames : DOMAIN copies[f] = Chunks(f)
        /\ \A f \in Frames : \A i \in Chunks(f) : copies[f][i] = 0
    BY DEF MediaInit, Chunks
  <2> QED BY <2>1, <2>2 DEF SenderInv
<1>3. ReassemblerInv /\ JitterInv
  BY <1>1 DEF MediaInit, ReassemblerInv, JitterInv
<1> QED BY <1>2, <1>3 DEF IInv

\* Wherever a frame is on its way, it was captured, and what the jitter buffer
\* holds is whole (protocol/reassembly.rs 43-88, protocol/jitter.rs 33-62).
THEOREM MediaInductive == MediaSpec => []IInv
BY InitIsIInv, StepKeepsIInv, PTL DEF MediaSpec

-----------------------------------------------------------------------------

\* A step of the media path is a step of Playout or none.
LEMMA StepImplementsPlayout ==
  ASSUME IInv, [MediaNext]_mediaVars
  PROVE  [Play!Capture \/ Play!Play]_<<captured, played>>
<1>1. CASE UNCHANGED mediaVars
  BY <1>1 DEF mediaVars, senderVars, jitterVars
<1>2. CASE Capture
  BY <1>2 DEF Capture, jitterVars, Play!Capture
<1>3. CASE Send \/ Elapse
  BY <1>3 DEF Send, Elapse, senderVars, jitterVars
<1>4. ASSUME NEW f \in Frames, NEW i \in DOMAIN copies[f], Arrive(f, i)
      PROVE  UNCHANGED <<captured, played>>
  BY <1>4 DEF Arrive, Accept, Push, senderVars, jitterVars
<1>5. CASE PopReady
  <2> PICK f \in DOMAIN buffered :
        /\ Ready(f)
        /\ played' = Append(played, [seq |-> f, parts |-> buffered[f].parts])
        /\ UNCHANGED senderVars
    BY <1>5 DEF PopReady
  <2>1. f \in 0..(captured - 1) /\ f >= nextSeq /\ buffered[f].parts = Chunks(f)
    BY DEF IInv, JitterInv, Captured
  <2>2. played' = Append(played, Play!Frame(f))
    BY <2>1 DEF Play!Frame, Chunks
  <2>3. played = <<>> \/ f > played[Len(played)].seq
    <3>1. CASE played # <<>>
      <4>1. /\ Len(played) \in 1..Len(played)
            /\ played[Len(played)] \in [seq : Nat, parts : SUBSET Nat]
        <5>1. played \in Seq([seq : Nat, parts : SUBSET Nat])
          BY DEF IInv, JitterInv
        <5>2. Len(played) \in Nat /\ Len(played) # 0
          BY <3>1, <5>1, EmptySeq, LenProperties
        <5>3. Len(played) \in 1..Len(played)
          BY <5>2
        <5> QED BY <5>1, <5>3, ElementOfSeq
      <4> QED BY <2>1, <3>1, <4>1 DEF IInv, JitterInv
    <3> QED BY <3>1
  <2>4. captured' = captured
    BY DEF senderVars
  <2> QED BY <2>1, <2>2, <2>3, <2>4 DEF Play!Play
<1> QED BY <1>1, <1>2, <1>3, <1>4, <1>5 DEF MediaNext

\* The media path implements Playout: frames are played whole, each at most
\* once and in order, whatever the network does to their chunks
\* (protocol/reassembly.rs 51-65, protocol/jitter.rs 33-62).
THEOREM MediaImplementsPlayout == MediaSpec => ImplementsPlayout
<1>1. MediaInit => Play!Init
  BY DEF MediaInit, Play!Init
<1> QED
  BY <1>1, MediaInductive, StepImplementsPlayout, PTL
  DEF MediaSpec, ImplementsPlayout, Play!Spec

-----------------------------------------------------------------------------
\* The frames named in a queue, and none of them is named twice.
Named(line) == {line[n] : n \in 1..Len(line)}
Distinct(line) == \A m, n \in 1..Len(line) : m # n => line[m] # line[n]

\* The frames not yet sent are the newest ones, and those that were dropped are
\* not among them.
QueueInv ==
  /\ Len(queue) <= QueueCapacity
  /\ \A n \in 1..Len(queue) : queue[n] = captured - Len(queue) + n - 1
  /\ dropped \in Nat /\ dropped + Len(queue) <= captured

\* The reassembler's queue names the frames of its map, each once.
Matches(line, held) ==
  /\ line \in Seq(Captured) /\ Distinct(line) /\ Len(line) <= MaxFramesBuffered
  /\ held = Named(line)

BuffersInv == QueueInv /\ Matches(order, DOMAIN partial) /\ nextSeq <= captured

\* A queue that names nothing twice is as long as the set of what it names.
LEMMA NamedCount ==
  ASSUME NEW S, NEW line \in Seq(S), Distinct(line)
  PROVE  IsFiniteSet(Named(line)) /\ Cardinality(Named(line)) = Len(line)
<1>1. Len(line) \in Nat
  BY LenProperties
<1>2. IsFiniteSet(1..Len(line)) /\ Cardinality(1..Len(line)) = Len(line)
  BY <1>1, FS_Interval
<1>3. line \in Bijection(1..Len(line), Named(line))
  <2>1. line \in [1..Len(line) -> Named(line)]
    <3>1. DOMAIN line = 1..Len(line) /\ line = [n \in 1..Len(line) |-> line[n]]
      BY LenProperties
    <3> QED BY <3>1 DEF Named
  <2>2. \A a, b \in 1..Len(line) : line[a] = line[b] => a = b
    BY DEF Distinct
  <2>3. \A t \in Named(line) : \E s \in 1..Len(line) : line[s] = t
    BY DEF Named
  <2> QED BY <2>1, <2>2, <2>3, Fun_IsBij
<1>4. ExistsBijection(1..Len(line), Named(line))
  BY <1>3 DEF ExistsBijection
<1> QED BY <1>2, <1>4, FS_Bijection

\* What joins the end of a queue.
LEMMA AppendNames ==
  ASSUME NEW S, NEW line \in Seq(S), Distinct(line), NEW f \in S, f \notin Named(line)
  PROVE  /\ Append(line, f) \in Seq(S) /\ Len(Append(line, f)) = Len(line) + 1
         /\ Named(Append(line, f)) = Named(line) \cup {f} /\ Distinct(Append(line, f))
<1> DEFINE longer == Append(line, f)
<1>1. /\ longer \in Seq(S) /\ Len(longer) = Len(line) + 1 /\ Len(line) \in Nat
      /\ \A n \in 1..Len(line) : longer[n] = line[n]
      /\ longer[Len(line) + 1] = f
  BY AppendProperties, LenProperties
<1> HIDE DEF longer
<1>2. Named(longer) = Named(line) \cup {f}
  BY <1>1 DEF Named
<1>3. Distinct(longer)
  BY <1>1 DEF Named, Distinct
<1> QED BY <1>1, <1>2, <1>3 DEF longer

\* What leaves the head of a queue.
LEMMA TailNames ==
  ASSUME NEW S, NEW line \in Seq(S), Distinct(line), line # <<>>
  PROVE  /\ Tail(line) \in Seq(S) /\ Len(Tail(line)) = Len(line) - 1
         /\ Named(Tail(line)) = Named(line) \ {Head(line)} /\ Distinct(Tail(line))
<1> DEFINE rest == Tail(line)
<1>1. /\ rest \in Seq(S) /\ Len(rest) = Len(line) - 1 /\ Len(line) \in Nat /\ Len(line) > 0
      /\ \A n \in 1..Len(rest) : rest[n] = line[n + 1]
      /\ Head(line) = line[1]
  BY HeadTailProperties, LenProperties, EmptySeq
<1> HIDE DEF rest
<1>2. ASSUME NEW n \in 1..Len(line), n # 1 PROVE n - 1 \in 1..Len(rest) /\ rest[n - 1] = line[n]
  BY <1>1, <1>2
<1>3. Named(rest) = Named(line) \ {Head(line)}
  <2>1. ASSUME NEW n \in 1..Len(rest) PROVE rest[n] \in Named(line) /\ rest[n] # Head(line)
    <3>1. n + 1 \in 1..Len(line) /\ 1 \in 1..Len(line) /\ n + 1 # 1 /\ rest[n] = line[n + 1]
      BY <1>1
    <3> QED BY <1>1, <3>1 DEF Named, Distinct
  <2>2. ASSUME NEW n \in 1..Len(line), line[n] # Head(line) PROVE line[n] \in Named(rest)
    <3>1. n # 1
      BY <1>1, <2>2
    <3>2. n - 1 \in 1..Len(rest) /\ rest[n - 1] = line[n]
      BY <1>2, <3>1
    <3> QED BY <3>2 DEF Named
  <2> QED BY <2>1, <2>2 DEF Named
<1>4. Distinct(rest)
  BY <1>1 DEF Distinct
<1> QED BY <1>1, <1>3, <1>4 DEF rest

\* What leaves a queue from anywhere.
LEMMA ForgetNames ==
  ASSUME NEW S, NEW line \in Seq(S), Distinct(line), NEW f
  PROVE  /\ Forget(f, line) \in Seq(S) /\ Len(Forget(f, line)) <= Len(line)
         /\ Named(Forget(f, line)) = Named(line) \ {f} /\ Distinct(Forget(f, line))
<1>0. Len(line) \in Nat /\ \A n \in 1..Len(line) : line[n] \in S
  BY LenProperties, ElementOfSeq
<1>1. CASE ~\E n \in 1..Len(line) : line[n] = f
  BY <1>0, <1>1 DEF Forget, Named
<1>2. CASE \E n \in 1..Len(line) : line[n] = f
  <2> DEFINE p == CHOOSE n \in 1..Len(line) : line[n] = f
             before == SubSeq(line, 1, p - 1)
             after == SubSeq(line, p + 1, Len(line))
             left == before \o after
  <2>1. Forget(f, line) = left
    BY <1>2 DEF Forget
  <2>2. p \in 1..Len(line) /\ line[p] = f
    BY <1>2
  <2> HIDE DEF p
  <2>3. /\ before \in Seq(S) /\ Len(before) = p - 1
        /\ \A n \in 1..(p - 1) : before[n] = line[n]
    <3>1. 1 \in Int /\ p - 1 \in Int /\ \A n \in 1..(p - 1) : line[n] \in S
      BY <1>0, <2>2
    <3>2. /\ before \in Seq(S) /\ Len(before) = IF 1 <= p - 1 THEN p - 1 - 1 + 1 ELSE 0
          /\ \A n \in 1..(p - 1 - 1 + 1) : before[n] = line[1 + n - 1]
      BY <3>1, SubSeqProperties
    <3> HIDE DEF before
    <3> QED BY <1>0, <2>2, <3>2
  <2>4. /\ after \in Seq(S) /\ Len(after) = Len(line) - p
        /\ \A n \in 1..(Len(line) - p) : after[n] = line[p + n]
    <3>1. p + 1 \in Int /\ Len(line) \in Int /\ \A n \in (p + 1)..Len(line) : line[n] \in S
      BY <1>0, <2>2
    <3>2. /\ after \in Seq(S)
          /\ Len(after) = IF p + 1 <= Len(line) THEN Len(line) - (p + 1) + 1 ELSE 0
          /\ \A n \in 1..(Len(line) - (p + 1) + 1) : after[n] = line[p + 1 + n - 1]
      BY <3>1, SubSeqProperties
    <3> HIDE DEF after
    <3> QED BY <1>0, <2>2, <3>2
  <2> HIDE DEF before, after
  <2>5. /\ left \in Seq(S) /\ Len(left) = Len(line) - 1
        /\ \A n \in 1..Len(left) : left[n] = IF n < p THEN line[n] ELSE line[n + 1]
    <3>1. /\ left \in Seq(S) /\ Len(left) = Len(before) + Len(after)
          /\ \A n \in 1..(Len(before) + Len(after)) :
               left[n] = IF n <= Len(before) THEN before[n] ELSE after[n - Len(before)]
      BY <2>3, <2>4, ConcatProperties
    <3> HIDE DEF left
    <3>2. p \in Nat /\ Len(left) = Len(line) - 1
      BY <1>0, <2>2, <2>3, <2>4, <3>1
    <3>3. ASSUME NEW n \in 1..Len(left)
          PROVE  left[n] = IF n < p THEN line[n] ELSE line[n + 1]
      <4>1. left[n] = IF n <= p - 1 THEN before[n] ELSE after[n - (p - 1)]
        BY <2>3, <3>1
      <4>2. CASE n < p
        <5>1. n <= p - 1 /\ n \in 1..(p - 1)
          BY <3>2, <4>2
        <5> QED BY <2>3, <4>1, <4>2, <5>1
      <4>3. CASE ~(n < p)
        <5>1. /\ ~(n <= p - 1) /\ n - (p - 1) \in 1..(Len(line) - p)
              /\ p + (n - (p - 1)) = n + 1
          BY <1>0, <3>2, <4>3
        <5>2. after[n - (p - 1)] = line[n + 1]
          BY <2>4, <5>1
        <5> QED BY <4>1, <4>3, <5>1, <5>2
      <4> QED BY <4>2, <4>3
    <3> QED BY <3>1, <3>2, <3>3
  <2> HIDE DEF left
  <2>6. Named(left) = Named(line) \ {f}
    <3>1. ASSUME NEW n \in 1..Len(left) PROVE left[n] \in Named(line) /\ left[n] # f
      BY <1>0, <2>2, <2>5 DEF Named, Distinct
    <3>2. ASSUME NEW n \in 1..Len(line), line[n] # f PROVE line[n] \in Named(left)
      <4>1. CASE n < p
        <5>1. n \in 1..Len(left) /\ left[n] = line[n]
          BY <1>0, <2>2, <2>5, <4>1
        <5> QED BY <5>1 DEF Named
      <4>2. CASE ~(n < p)
        <5>1. n - 1 \in 1..Len(left) /\ ~(n - 1 < p) /\ n - 1 + 1 = n
          BY <1>0, <2>2, <2>5, <3>2, <4>2
        <5>2. left[n - 1] = line[n]
          BY <2>5, <5>1
        <5> QED BY <5>1, <5>2 DEF Named
      <4> QED BY <4>1, <4>2
    <3> QED BY <3>1, <3>2 DEF Named
  <2>7. Distinct(left)
    BY <1>0, <2>2, <2>5 DEF Distinct
  <2> QED BY <1>0, <2>1, <2>5, <2>6, <2>7
<1> QED BY <1>1, <1>2

-----------------------------------------------------------------------------

\* A full queue drops its head and takes the new frame at its end.
LEMMA CaptureKeepsBuffersInv ==
  ASSUME IInv, BuffersInv, Capture
  PROVE  BuffersInv'
<1>1. /\ captured \in Nat /\ captured' = captured + 1 /\ QueueCapacity \in Nat \ {0}
      /\ queue \in Seq(Captured) /\ Len(queue) \in Nat
  BY MediaType, LenProperties DEF IInv, SenderInv, Capture
<1>2. QueueInv
  BY DEF BuffersInv
<1>3. captured \in Captured' /\ Captured \subseteq Captured'
  BY <1>1 DEF Captured
<1>4. queue \in Seq(Captured')
  BY <1>1, <1>3, SeqMonotonic
<1>5. QueueInv'
  <2>1. CASE Len(queue) >= QueueCapacity
    <3> DEFINE rest == Tail(queue)
               longer == Append(rest, captured)
    <3>1. queue # <<>>
      BY <1>1, <2>1, EmptySeq
    <3>2. /\ rest \in Seq(Captured') /\ Len(rest) = Len(queue) - 1
          /\ \A n \in 1..Len(rest) : rest[n] = queue[n + 1]
      BY <1>4, <3>1, HeadTailProperties
    <3> HIDE DEF rest
    <3>3. /\ longer \in Seq(Captured') /\ Len(longer) = Len(rest) + 1
          /\ \A n \in 1..Len(rest) : longer[n] = rest[n]
          /\ longer[Len(rest) + 1] = captured
      BY <1>3, <3>2, AppendProperties
    <3>4. queue' = longer /\ dropped' = dropped + 1
      BY <2>1 DEF Capture, rest
    <3> HIDE DEF longer
    <3>5. Len(longer) = Len(queue)
      BY <1>1, <3>2, <3>3
    <3>6. ASSUME NEW n \in 1..Len(longer) PROVE longer[n] = captured + 1 - Len(longer) + n - 1
      <4>1. CASE n = Len(longer)
        BY <1>1, <3>2, <3>3, <3>5, <4>1
      <4>2. CASE n # Len(longer)
        <5>1. n \in 1..Len(rest) /\ n + 1 \in 1..Len(queue)
          BY <1>1, <3>2, <3>5, <4>2
        <5>2. longer[n] = queue[n + 1] /\ queue[n + 1] = captured - Len(queue) + (n + 1) - 1
          BY <1>2, <3>2, <3>3, <5>1 DEF QueueInv
        <5> QED BY <1>1, <3>5, <5>1, <5>2
      <4> QED BY <4>1, <4>2
    <3> QED BY <1>1, <1>2, <3>4, <3>5, <3>6 DEF QueueInv
  <2>2. CASE ~(Len(queue) >= QueueCapacity)
    <3> DEFINE longer == Append(queue, captured)
    <3>1. /\ longer \in Seq(Captured') /\ Len(longer) = Len(queue) + 1
          /\ \A n \in 1..Len(queue) : longer[n] = queue[n]
          /\ longer[Len(queue) + 1] = captured
      BY <1>3, <1>4, AppendProperties
    <3>2. queue' = longer /\ dropped' = dropped
      BY <2>2 DEF Capture
    <3> HIDE DEF longer
    <3>3. ASSUME NEW n \in 1..Len(longer) PROVE longer[n] = captured + 1 - Len(longer) + n - 1
      BY <1>1, <1>2, <3>1 DEF QueueInv
    <3> QED BY <1>1, <1>2, <2>2, <3>1, <3>2, <3>3 DEF QueueInv
  <2> QED BY <2>1, <2>2
<1>6. Matches(order, DOMAIN partial)'
  <2>1. order' = order /\ partial' = partial
    BY DEF Capture, reassemblerVars
  <2>2. order \in Seq(Captured')
    BY <1>3, SeqMonotonic DEF BuffersInv, Matches
  <2> QED BY <2>1, <2>2 DEF BuffersInv, Matches
<1>7. nextSeq' <= captured'
  BY <1>1 DEF IInv, JitterInv, BuffersInv, Capture, jitterVars
<1> QED BY <1>5, <1>6, <1>7 DEF BuffersInv

\* pop takes the head, the oldest.
LEMMA SendKeepsBuffersInv ==
  ASSUME IInv, BuffersInv, Send
  PROVE  BuffersInv'
<1> DEFINE rest == Tail(queue)
<1>1. /\ captured' = captured /\ dropped' = dropped /\ queue' = rest /\ Captured' = Captured
      /\ UNCHANGED <<reassemblerVars, nextSeq>>
  BY DEF Send, jitterVars, Captured
<1>2. /\ captured \in Nat /\ QueueCapacity \in Nat /\ Len(queue) \in Nat
      /\ Len(rest) = Len(queue) - 1 /\ Len(rest) \in Nat
      /\ \A n \in 1..Len(rest) : rest[n] = queue[n + 1]
  BY MediaType, HeadTailProperties, LenProperties DEF IInv, SenderInv, Send
<1> HIDE DEF rest
<1>3. ASSUME NEW n \in 1..Len(rest) PROVE rest[n] = captured - Len(rest) + n - 1
  <2>1. n + 1 \in 1..Len(queue)
    BY <1>2
  <2>2. rest[n] = captured - Len(queue) + (n + 1) - 1
    BY <1>2, <2>1 DEF BuffersInv, QueueInv
  <2> QED BY <1>2, <2>2
<1>4. QueueInv'
  BY <1>1, <1>2, <1>3 DEF BuffersInv, QueueInv
<1>5. Matches(order, DOMAIN partial)' /\ nextSeq' <= captured'
  BY <1>1 DEF BuffersInv, Matches, reassemblerVars
<1> QED BY <1>4, <1>5 DEF BuffersInv

\* Whether or not a frame is evicted, the queue goes on naming the frames held,
\* f among them.
LEMMA RoomMatches ==
  ASSUME Matches(order, DOMAIN partial), NEW f \in Captured
  PROVE  Matches(MakeRoom(f).line, DOMAIN MakeRoom(f).held)
<1>0. /\ order \in Seq(Captured) /\ Distinct(order) /\ Len(order) <= MaxFramesBuffered
      /\ DOMAIN partial = Named(order) /\ Len(order) \in Nat /\ MaxFramesBuffered \in Nat \ {0}
  BY LenProperties, MediaType DEF Matches
<1>1. CASE f \in DOMAIN partial
  BY <1>1 DEF MakeRoom
<1>2. Cardinality(DOMAIN partial) = Len(order)
  BY <1>0, NamedCount
<1>3. CASE f \notin DOMAIN partial /\ Len(order) >= MaxFramesBuffered
  <2>1. /\ MakeRoom(f).line = Append(Tail(order), f)
        /\ DOMAIN MakeRoom(f).held = (DOMAIN partial \ {Head(order)}) \cup {f}
    BY <1>2, <1>3 DEF MakeRoom, Put, Drop
  <2>2. order # <<>>
    BY <1>0, <1>3, EmptySeq
  <2> DEFINE rest == Tail(order)
             longer == Append(rest, f)
  <2>3. /\ rest \in Seq(Captured) /\ Len(rest) = Len(order) - 1
        /\ Named(rest) = Named(order) \ {Head(order)} /\ Distinct(rest)
    BY <1>0, <2>2, TailNames
  <2> HIDE DEF rest
  <2>4. f \notin Named(rest)
    BY <1>0, <1>3, <2>3
  <2>5. /\ longer \in Seq(Captured) /\ Len(longer) = Len(rest) + 1
        /\ Named(longer) = Named(rest) \cup {f} /\ Distinct(longer)
    BY <2>3, <2>4, AppendNames
  <2>6. MakeRoom(f).line = longer
    BY <2>1 DEF rest
  <2> HIDE DEF longer
  <2>7. Len(longer) <= MaxFramesBuffered
    BY <1>0, <2>3, <2>5
  <2> QED BY <1>0, <2>1, <2>3, <2>5, <2>6, <2>7 DEF Matches
<1>4. CASE f \notin DOMAIN partial /\ ~(Len(order) >= MaxFramesBuffered)
  <2>1. /\ MakeRoom(f).line = Append(order, f)
        /\ DOMAIN MakeRoom(f).held = DOMAIN partial \cup {f}
    BY <1>2, <1>4 DEF MakeRoom, Put
  <2>2. /\ Append(order, f) \in Seq(Captured) /\ Len(Append(order, f)) = Len(order) + 1
        /\ Named(Append(order, f)) = Named(order) \cup {f} /\ Distinct(Append(order, f))
    BY <1>0, <1>4, AppendNames
  <2>3. Len(Append(order, f)) <= MaxFramesBuffered
    BY <1>0, <1>4, <2>2
  <2> QED BY <1>0, <2>1, <2>2, <2>3 DEF Matches
<1> QED BY <1>1, <1>3, <1>4

\* A chunk makes room, and stays with its frame or completes it.
LEMMA ArriveKeepsBuffersInv ==
  ASSUME IInv, BuffersInv, NEW f \in Frames, NEW i \in DOMAIN copies[f], Arrive(f, i)
  PROVE  BuffersInv'
<1> DEFINE room == MakeRoom(f)
           chunks == room.held[f] \cup {i}
<1>1. /\ f \in Captured /\ UNCHANGED senderVars /\ Captured' = Captured
  BY DEF IInv, SenderInv, Arrive, senderVars, Captured
<1>2. QueueInv' /\ nextSeq' = nextSeq
  BY <1>1 DEF BuffersInv, QueueInv, senderVars, Arrive, Accept, Push, jitterVars
<1>3. /\ Matches(room.line, DOMAIN room.held) /\ f \in DOMAIN room.held
  BY <1>1, RoomMatches, RoomIsMade DEF IInv, BuffersInv
<1>4. \/ partial' = Drop(room.held, f) /\ order' = Forget(f, room.line)
      \/ partial' = Put(room.held, f, chunks) /\ order' = room.line
  BY DEF Arrive, Accept
<1> HIDE DEF room, chunks
<1>5. CASE partial' = Drop(room.held, f) /\ order' = Forget(f, room.line)
  <2>1. DOMAIN partial' = DOMAIN room.held \ {f}
    BY <1>5 DEF Drop
  <2>2. /\ order' \in Seq(Captured) /\ Len(order') <= Len(room.line)
        /\ Named(order') = Named(room.line) \ {f} /\ Distinct(order')
    BY <1>3, <1>5, ForgetNames DEF Matches
  <2>3. Len(order') <= MaxFramesBuffered
    BY <1>3, <2>2, LenProperties, MediaType DEF Matches
  <2> QED BY <1>1, <1>2, <1>3, <2>1, <2>2, <2>3 DEF BuffersInv, Matches, senderVars, Named, Distinct
<1>6. CASE partial' = Put(room.held, f, chunks) /\ order' = room.line
  <2>1. DOMAIN partial' = DOMAIN room.held
    BY <1>3, <1>6 DEF Put
  <2> QED BY <1>1, <1>2, <1>3, <1>6, <2>1 DEF BuffersInv, Matches, senderVars, Named, Distinct
<1> QED BY <1>4, <1>5, <1>6

\* Every step keeps the two buffers as they should be.
LEMMA StepKeepsBuffersInv ==
  ASSUME IInv, BuffersInv, [MediaNext]_mediaVars
  PROVE  BuffersInv'
<1> USE DEF BuffersInv, QueueInv, Matches, Captured, Named, Distinct
<1>1. CASE UNCHANGED mediaVars
  BY <1>1 DEF mediaVars, senderVars, reassemblerVars, jitterVars
<1>2. CASE PopReady
  <2>1. UNCHANGED <<senderVars, reassemblerVars>> /\ nextSeq' <= captured'
    <3>1. PICK f \in DOMAIN buffered :
            nextSeq' = After(f) /\ UNCHANGED <<senderVars, reassemblerVars>>
      BY <1>2 DEF PopReady
    <3>2. f \in 0..(captured - 1) /\ captured \in Nat
      BY DEF IInv, SenderInv, JitterInv
    <3> QED BY <3>1, <3>2 DEF After, senderVars
  <2> QED BY <2>1 DEF senderVars, reassemblerVars
<1>3. CASE Elapse
  BY <1>3 DEF Elapse, senderVars, reassemblerVars
<1> QED BY <1>1, <1>2, <1>3, CaptureKeepsBuffersInv, SendKeepsBuffersInv,
           ArriveKeepsBuffersInv DEF MediaNext

\* The buffers are empty at first.
LEMMA InitIsBuffersInv ==
  ASSUME MediaInit
  PROVE  BuffersInv
BY MediaType DEF MediaInit, BuffersInv, QueueInv, Matches, Named, Distinct

\* Both invariants together give the types.
LEMMA MediaIsTyped ==
  ASSUME IInv, BuffersInv
  PROVE  MediaTypeOK
<1>1. Captured \subseteq Frames /\ MaxFrames \in Nat
  BY CapturedAreFrames, MediaType DEF IInv
<1>2. queue \in Seq(Frames) /\ Len(queue) \in Nat
  BY <1>1, SeqMonotonic, LenProperties DEF IInv, SenderInv
<1> QED BY <1>1, <1>2 DEF IInv, SenderInv, ReassemblerInv, JitterInv, BuffersInv, QueueInv, MediaTypeOK

\* Whatever the network does, the queue before it holds the newest frames in
\* order, and the reassembler never holds a frame its queue does not name, or
\* more frames than it may (protocol/backpressure.rs 26-34,
\* protocol/reassembly.rs 51-79).
THEOREM BuffersAreNewest == MediaSpec => []BuffersKeepTheNewest
<1>1. BuffersInv => BuffersKeepTheNewest
  BY DEF BuffersInv, QueueInv, Matches, Named, Distinct, BuffersKeepTheNewest
<1>2. IInv /\ BuffersInv /\ [MediaNext]_mediaVars => BuffersInv'
  BY StepKeepsBuffersInv
<1>3. MediaInit => BuffersInv
  BY InitIsBuffersInv
<1> QED BY <1>1, <1>2, <1>3, MediaInductive, PTL DEF MediaSpec
=============================================================================
