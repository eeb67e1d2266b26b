----------------------------- MODULE DesktopProofs -----------------------------
(***************************************************************************)
(* Proofs about the parts of the desktop application that share no state:   *)
(* Codec, NativeSession, InputEvents and AccountBootstrap, for every size    *)
(* of the buffers, every width of a byte and any number of overlapping calls.*)
(***************************************************************************)
EXTENDS Codec, NativeSession, InputEvents, AccountBootstrap, SequenceTheorems, TLAPS

-----------------------------------------------------------------------------
(* Codec *)

\* The calls that are made while a Rust value holds the handle.
Owning == {"send", "receive", "format", "malloc", "copy", "panic"}

\* What is allocated when the next library call is made.
Held ==
  CASE step = "idle" -> IF owned THEN Parts(codec) ELSE {}
    [] step \in {"open", "context"} -> {}
    [] step \in {"open2", "packet", "frame", "check"} -> {"handle"}
    [] step = "struct" -> Parts(codec) \ {"struct", "picture"}
    [] step = "picture" -> {"handle", "struct"}
    [] step = "send" -> Parts(codec) \cup {"payload"}
    [] step = "format" -> Parts(codec) \cup {"image"}
    [] step = "malloc" -> IF codec = "encoder" THEN Parts(codec) ELSE Parts(codec) \cup {"image"}
    [] step = "copy" -> Parts(codec) \cup {"buffer"}
    [] OTHER -> Parts(codec)

\* What may have been allocated or not, until both are looked at.
Unsure ==
  CASE step = "frame" -> {"packet"}
    [] step = "check" -> {"packet", "frame"}
    [] OTHER -> {}

\* Which calls belong to which codec, and which are made with a handle.
CodecControl ==
  /\ codec \in {"encoder", "decoder"} /\ owned \in BOOLEAN
  /\ step \in {"idle", "open", "context", "open2", "packet", "frame", "check", "struct",
               "picture", "send", "receive", "format", "malloc", "copy", "panic"}
  /\ step # "idle" => (owned <=> step \in Owning)
  /\ step \in {"open", "picture"} => codec = "encoder"
  /\ step \in {"context", "open2", "packet", "frame", "check", "send", "receive", "format"} =>
       codec = "decoder"

\* The heap on which the things in ts are allocated, each once.
HeapOf(ts) == [t \in Things |-> IF t \in ts THEN 1 ELSE 0]

CodecInv ==
  /\ CodecControl
  /\ \E some \in SUBSET Unsure : heap = HeapOf(Held \cup some)

\* A packet and a frame with what is in them.
WithContents(ts) ==
  ts \cup {t \in {"payload", "image"} : (IF t = "payload" THEN "packet" ELSE "frame") \in ts}

\* What is allocated, freed and emptied, one after the other.
LEMMA HeapChanges ==
  ASSUME NEW before, heap = HeapOf(before), NEW ts
  PROVE  /\ ts \cap before = {} => Allocated(ts) = HeapOf(before \cup ts)
         /\ ts \subseteq before => Freed(ts) = HeapOf(before \ WithContents(ts))
<1>1. ASSUME ts \cap before = {} PROVE Allocated(ts) = HeapOf(before \cup ts)
  BY <1>1 DEF Allocated, HeapOf
<1>2. ASSUME ts \subseteq before PROVE Freed(ts) = HeapOf(before \ WithContents(ts))
  <2>1. \A t \in Things :
          t \in ts \cup Inside(ts) <=> t \in before /\ t \in WithContents(ts)
    BY <1>2 DEF Inside, WithContents, HeapOf, Things
  <2> QED BY <2>1 DEF Freed, HeapOf
<1> QED BY <1>1, <1>2

\* Emptying a packet or a frame, and filling a frame again.
LEMMA HeapEmpties ==
  ASSUME NEW before, heap = HeapOf(before), NEW t \in Things
  PROVE  /\ Unref(t) = HeapOf(before \ {t})
         /\ \A u \in Things :
              u \notin before \ {t} =>
                [Unref(t) EXCEPT ![u] = @ + 1] = HeapOf((before \ {t}) \cup {u})
<1>1. Unref(t) = HeapOf(before \ {t})
  BY DEF Unref, HeapOf
<1>2. ASSUME NEW u \in Things, u \notin before \ {t}
      PROVE  [HeapOf(before \ {t}) EXCEPT ![u] = @ + 1] = HeapOf((before \ {t}) \cup {u})
  <2> DEFINE left == HeapOf(before \ {t})
  <2>1. left \in [Things -> Int] /\ left[u] = 0
    BY <1>2 DEF HeapOf
  <2>2. \A v \in Things : left[v] = IF v \in before \ {t} THEN 1 ELSE 0
    BY DEF HeapOf
  <2> HIDE DEF left
  <2>3. [left EXCEPT ![u] = @ + 1] = [v \in Things |-> IF v = u THEN 1 ELSE left[v]]
    <3>1. [left EXCEPT ![u] = 1] = [v \in Things |-> IF v = u THEN 1 ELSE left[v]]
      BY <2>1
    <3>2. left[u] + 1 = 1
      BY <2>1
    <3> QED BY <3>1, <3>2
  <2>4. [v \in Things |-> IF v = u THEN 1 ELSE left[v]] = HeapOf((before \ {t}) \cup {u})
    BY <2>2 DEF HeapOf
  <2> QED BY <2>3, <2>4 DEF left
<1> QED BY <1>1, <1>2

\* What a call may do to the heap, when nothing is unsure before or after it.
HeapStep ==
  \/ heap' = heap /\ Held' = Held
  \/ \E ts : ts \cap Held = {} /\ heap' = Allocated(ts) /\ Held' = Held \cup ts
  \/ \E ts : ts \subseteq Held /\ heap' = Freed(ts) /\ Held' = Held \ WithContents(ts)
  \/ \E t \in Things : heap' = Unref(t) /\ Held' = Held \ {t}
  \/ \E t, u \in Things :
       /\ u \notin Held \ {t} /\ Held' = (Held \ {t}) \cup {u}
       /\ heap' = [Unref(t) EXCEPT ![u] = @ + 1]

\* A call that allocates what is not there, or frees what is, leaves on the heap
\* what the next call is to find.
LEMMA HeapFollows ==
  ASSUME CodecInv, CodecControl', Unsure = {}, HeapStep
  PROVE  CodecInv'
<1>1. heap = HeapOf(Held)
  BY DEF CodecInv
<1>2. heap' = HeapOf(Held')
  <2>1. CASE heap' = heap /\ Held' = Held
    BY <1>1, <2>1
  <2>2. CASE \E ts : ts \cap Held = {} /\ heap' = Allocated(ts) /\ Held' = Held \cup ts
    <3>1. PICK ts : ts \cap Held = {} /\ heap' = Allocated(ts) /\ Held' = Held \cup ts
      BY <2>2
    <3>2. Allocated(ts) = HeapOf(Held \cup ts)
      BY <1>1, <3>1, HeapChanges
    <3> QED BY <3>1, <3>2
  <2>3. CASE \E ts : ts \subseteq Held /\ heap' = Freed(ts) /\ Held' = Held \ WithContents(ts)
    BY <1>1, <2>3, HeapChanges
  <2>4. CASE \E t \in Things : heap' = Unref(t) /\ Held' = Held \ {t}
    BY <1>1, <2>4, HeapEmpties
  <2>5. CASE \E t, u \in Things :
               /\ u \notin Held \ {t} /\ Held' = (Held \ {t}) \cup {u}
               /\ heap' = [Unref(t) EXCEPT ![u] = @ + 1]
    <3>1. PICK t \in Things, u \in Things :
            /\ u \notin Held \ {t} /\ Held' = (Held \ {t}) \cup {u}
            /\ heap' = [Unref(t) EXCEPT ![u] = @ + 1]
      BY <2>5
    <3>2. [Unref(t) EXCEPT ![u] = @ + 1] = HeapOf((Held \ {t}) \cup {u})
      <4>1. \A v \in Things :
              v \notin Held \ {t} =>
                [Unref(t) EXCEPT ![v] = @ + 1] = HeapOf((Held \ {t}) \cup {v})
        BY <1>1, <3>1, HeapEmpties, Zenon
      <4> QED BY <3>1, <4>1
    <3> QED BY <3>1, <3>2
  <2> QED BY <2>1, <2>2, <2>3, <2>4, <2>5 DEF HeapStep
<1>3. heap' = HeapOf(Held)'
  BY <1>2 DEF HeapOf
<1>4. HeapOf(Held \cup {})' = HeapOf(Held)'
  BY DEF HeapOf
<1> QED BY <1>3, <1>4 DEF CodecInv

\* The packet and the frame: each may be there or not, and what is there is freed
\* if one of them is missing.
LEMMA PairKeepsCodecInv ==
  ASSUME CodecInv, AllocPacket \/ AllocFrame \/ CheckBoth
  PROVE  CodecInv'
<1>1. CodecControl /\ ~owned /\ codec = "decoder" /\ Held = {"handle"}
  BY DEF CodecInv, CodecControl, AllocPacket, AllocFrame, CheckBoth, Owning, Held
<1>2. PICK some \in SUBSET Unsure : heap = HeapOf({"handle"} \cup some)
  BY <1>1 DEF CodecInv
<1>3. CASE AllocPacket
  <2>1. some = {} /\ step' = "frame" /\ UNCHANGED <<codec, owned>>
    BY <1>2, <1>3 DEF AllocPacket, Proceed, Unsure
  <2>2. CodecControl' /\ Held' = {"handle"} /\ Unsure' = {"packet"}
    BY <1>1, <2>1 DEF CodecControl, Owning, Held, Unsure
  <2>3. heap' = HeapOf({"handle"} \cup {}) \/ heap' = HeapOf({"handle"} \cup {"packet"})
    BY <1>2, <1>3, <2>1, HeapChanges DEF AllocPacket
  <2>4. heap' = HeapOf({"handle"} \cup {})' \/ heap' = HeapOf({"handle"} \cup {"packet"})'
    BY <2>3 DEF HeapOf
  <2> QED BY <2>2, <2>4 DEF CodecInv, HeapOf
<1>4. CASE AllocFrame
  <2>1. some \subseteq {"packet"} /\ step' = "check" /\ UNCHANGED <<codec, owned>>
    BY <1>2, <1>4 DEF AllocFrame, Proceed, Unsure
  <2>2. CodecControl' /\ Held' = {"handle"} /\ Unsure' = {"packet", "frame"}
    BY <1>1, <2>1 DEF CodecControl, Owning, Held, Unsure
  <2>3. heap' = HeapOf({"handle"} \cup some) \/ heap' = HeapOf(({"handle"} \cup some) \cup {"frame"})
    BY <1>2, <1>4, <2>1, HeapChanges DEF AllocFrame
  <2>4. PICK more \in SUBSET {"packet", "frame"} : heap' = HeapOf({"handle"} \cup more)
    <3>1. ({"handle"} \cup some) \cup {"frame"} = {"handle"} \cup (some \cup {"frame"})
      OBVIOUS
    <3> QED BY <2>1, <2>3, <3>1
  <2> QED BY <2>2, <2>4 DEF CodecInv, HeapOf
<1>5. CASE CheckBoth
  <2>1. some \subseteq {"packet", "frame"} /\ step = "check"
    BY <1>2, <1>5 DEF CheckBoth, Unsure
  <2>2. Made = {"handle"} \cup some
    <3>1. \A t \in {"handle", "packet", "frame"} : heap[t] > 0 <=> t \in {"handle"} \cup some
      BY <1>2 DEF HeapOf, Things
    <3> QED BY <2>1, <3>1 DEF Made
  <2>3. CASE {"packet", "frame"} \subseteq Made
    <3>1. step' = "struct" /\ UNCHANGED <<codec, owned, heap>>
      BY <1>5, <2>3 DEF CheckBoth, Proceed
    <3>2. CodecControl' /\ Held' = {"handle", "packet", "frame"} /\ Unsure' = {}
      BY <1>1, <3>1 DEF CodecControl, Owning, Held, Unsure, Parts
    <3>3. {"handle"} \cup some = {"handle", "packet", "frame"} \cup {}
      BY <2>1, <2>2, <2>3
    <3> QED BY <1>2, <3>1, <3>2, <3>3 DEF CodecInv, HeapOf
  <2>4. CASE ~({"packet", "frame"} \subseteq Made)
    <3>1. step' = "idle" /\ UNCHANGED <<codec, owned>> /\ heap' = Freed(Made)
      BY <1>5, <2>4 DEF CheckBoth, Proceed
    <3>2. CodecControl' /\ Held' = {} /\ Unsure' = {}
      BY <1>1, <3>1 DEF CodecControl, Owning, Held, Unsure
    <3>3. heap' = HeapOf({} \cup {})
      <4>1. heap' = HeapOf(({"handle"} \cup some) \ WithContents({"handle"} \cup some))
        BY <1>2, <2>2, <3>1, HeapChanges
      <4>2. ({"handle"} \cup some) \ WithContents({"handle"} \cup some) = {} \cup {}
        BY DEF WithContents
      <4> QED BY <4>1, <4>2
    <3> QED BY <3>2, <3>3 DEF CodecInv, HeapOf
  <2> QED BY <2>3, <2>4
<1> QED BY <1>3, <1>4, <1>5

\* The other calls that create a handle, whichever fails, and destroying it.
LEMMA HandleKeepsCodecInv ==
  ASSUME CodecInv,
         \/ Create \/ OpenEncoder \/ AllocContext \/ OpenDecoder \/ AllocStruct \/ AllocPicture
         \/ Panic \/ DropHandle
  PROVE  CodecInv'
<1>0. CodecControl /\ Unsure = {}
  BY DEF CodecInv, Unsure, Create, OpenEncoder, AllocContext, OpenDecoder, AllocStruct,
         AllocPicture, Panic, DropHandle
<1> SUFFICES CodecControl' /\ HeapStep
  BY <1>0, HeapFollows
<1> USE DEF CodecControl, HeapStep, Owning, Held, Parts, Proceed, WithContents
<1>1. CASE Create
  BY <1>0, <1>1 DEF Create
<1>2. CASE OpenEncoder
  BY <1>0, <1>2 DEF OpenEncoder
<1>3. CASE AllocContext
  BY <1>0, <1>3 DEF AllocContext
<1>4. CASE OpenDecoder
  BY <1>0, <1>4 DEF OpenDecoder
<1>5. CASE AllocStruct
  <2>1. CASE Proceed("idle") /\ heap' = Freed(Made)
    <3>1. Made = Held
      BY <1>0, <1>5 DEF AllocStruct, CodecInv, Made, HeapOf, Things
    <3>2. CodecControl' /\ Held' = {}
      BY <1>0, <1>5, <2>1 DEF AllocStruct
    <3>3. Held \ WithContents(Held) = {}
      OBVIOUS
    <3> QED BY <2>1, <3>1, <3>2, <3>3
  <2>2. CASE heap' = Allocated({"struct"}) /\ codec = "encoder" /\ Proceed("picture")
    BY <1>0, <1>5, <2>2 DEF AllocStruct
  <2>3. CASE /\ heap' = Allocated({"struct"}) /\ codec # "encoder"
             /\ step' = "idle" /\ owned' = TRUE /\ UNCHANGED codec
    BY <1>0, <1>5, <2>3 DEF AllocStruct
  <2> QED BY <1>5, <2>1, <2>2, <2>3 DEF AllocStruct
<1>6. CASE AllocPicture
  <2>1. CASE Proceed("idle") /\ heap' = Freed({"handle", "struct"})
    BY <1>0, <1>6, <2>1 DEF AllocPicture
  <2>2. CASE /\ heap' = Allocated({"picture"})
             /\ step' = "idle" /\ owned' = TRUE /\ UNCHANGED codec
    BY <1>0, <1>6, <2>2 DEF AllocPicture
  <2> QED BY <1>6, <2>1, <2>2 DEF AllocPicture
<1>7. CASE Panic \/ DropHandle
  <2>1. Held = Parts(codec) /\ heap' = Freed(Parts(codec))
    BY <1>0, <1>7 DEF Panic, DropHandle, Destroy
  <2>2. CodecControl' /\ Held' = {}
    BY <1>0, <1>7 DEF Panic, DropHandle, Destroy
  <2> QED BY <2>1, <2>2
<1> QED BY <1>1, <1>2, <1>3, <1>4, <1>5, <1>6, <1>7

\* Encoding and decoding, whichever call fails.
LEMMA UseKeepsCodecInv ==
  ASSUME CodecInv,
         \/ Encode \/ Decode \/ SendPacket \/ ReceiveFrame \/ CheckFormat \/ FillBuffer
         \/ TakeBuffer
  PROVE  CodecInv'
<1>0. CodecControl /\ Unsure = {}
  BY DEF CodecInv, Unsure, Encode, Decode, SendPacket, ReceiveFrame, CheckFormat, FillBuffer,
         TakeBuffer
<1> SUFFICES CodecControl' /\ HeapStep
  BY <1>0, HeapFollows
<1>1. "image" \in Things /\ "payload" \in Things /\ "buffer" \in Things
  BY DEF Things
<1> USE DEF CodecControl, Owning, Held, Parts, Proceed
<1>2. CASE Encode
  BY <1>0, <1>2 DEF Encode, HeapStep
<1>3. CASE Decode
  BY <1>0, <1>3 DEF Decode, HeapStep
<1>4. CASE SendPacket
  <2>1. CodecControl' /\ Held' = Held \ {"payload"} /\ heap' = Unref("payload")
    BY <1>0, <1>4 DEF SendPacket
  <2> QED BY <1>1, <2>1 DEF HeapStep
<1>5. CASE ReceiveFrame
  <2>1. CASE step' \in {"panic", "idle"} /\ heap' = Unref("image")
    <3>1. CodecControl' /\ Held' = Held \ {"image"}
      BY <1>0, <1>5, <2>1 DEF ReceiveFrame
    <3> QED BY <1>1, <2>1, <3>1 DEF HeapStep
  <2>2. CASE step' = "format" /\ heap' = [Unref("image") EXCEPT !["image"] = @ + 1]
    <3>1. /\ CodecControl' /\ "image" \notin Held \ {"image"}
          /\ Held' = (Held \ {"image"}) \cup {"image"}
      BY <1>0, <1>5, <2>2 DEF ReceiveFrame
    <3> QED BY <1>1, <2>2, <3>1 DEF HeapStep
  <2> QED BY <1>5, <2>1, <2>2 DEF ReceiveFrame
<1>6. CASE CheckFormat
  <2>1. CASE Proceed("panic") /\ heap' = Unref("image")
    <3>1. CodecControl' /\ Held' = Held \ {"image"}
      BY <1>0, <1>6, <2>1 DEF CheckFormat
    <3> QED BY <1>1, <2>1, <3>1 DEF HeapStep
  <2>2. CASE Proceed("malloc") /\ UNCHANGED heap
    BY <1>0, <1>6, <2>2 DEF CheckFormat, HeapStep
  <2> QED BY <1>6, <2>1, <2>2 DEF CheckFormat
<1>7. CASE FillBuffer
  <2>1. CASE codec = "encoder"
    BY <1>0, <1>7, <2>1 DEF FillBuffer, HeapStep
  <2>2. CASE codec # "encoder" /\ Proceed("panic") /\ heap' = Unref("image")
    <3>1. CodecControl' /\ Held' = Held \ {"image"}
      BY <1>0, <1>7, <2>2 DEF FillBuffer
    <3> QED BY <1>1, <2>2, <3>1 DEF HeapStep
  <2>3. CASE /\ codec # "encoder" /\ Proceed("copy")
             /\ heap' = [Unref("image") EXCEPT !["buffer"] = @ + 1]
    <3>1. /\ CodecControl' /\ "buffer" \notin Held \ {"image"}
          /\ Held' = (Held \ {"image"}) \cup {"buffer"}
      BY <1>0, <1>7, <2>3 DEF FillBuffer
    <3> QED BY <1>1, <2>3, <3>1 DEF HeapStep
  <2> QED BY <1>7, <2>1, <2>2, <2>3 DEF FillBuffer
<1>8. CASE TakeBuffer
  <2>1. CodecControl' /\ {"buffer"} \subseteq Held /\ heap' = Freed({"buffer"})
    BY <1>0, <1>8 DEF TakeBuffer
  <2>2. Held' = Held \ WithContents({"buffer"})
    BY <1>0, <1>8 DEF TakeBuffer, WithContents
  <2> QED BY <2>1, <2>2 DEF HeapStep
<1> QED BY <1>2, <1>3, <1>4, <1>5, <1>6, <1>7, <1>8

\* Every step keeps the invariant.
LEMMA StepKeepsCodecInv ==
  ASSUME CodecInv, [CodecNext]_codecVars
  PROVE  CodecInv'
<1>1. CASE UNCHANGED codecVars
  BY <1>1 DEF codecVars, CodecInv, CodecControl, Held, Unsure, HeapOf
<1> QED BY <1>1, PairKeepsCodecInv, HandleKeepsCodecInv, UseKeepsCodecInv DEF CodecNext

\* At first there is no handle.
LEMMA InitIsCodecInv ==
  ASSUME CodecInit
  PROVE  CodecInv
<1>1. CodecControl /\ Held \cup {} = {} /\ Unsure = {}
  BY DEF CodecInit, CodecControl, Held, Unsure
<1>2. heap = HeapOf({})
  BY DEF CodecInit, HeapOf
<1> QED BY <1>1, <1>2 DEF CodecInv

\* The table implies the types.
LEMMA CodecIsTyped ==
  ASSUME CodecInv
  PROVE  CodecTypeOK
BY DEF CodecInv, CodecControl, CodecTypeOK, HeapOf

\* At each library call exactly the objects are allocated that the code before it
\* means to have, each once, and of packet and frame those that av_packet_alloc
\* and av_frame_alloc have returned (codec/src/encoder.cpp 41-112, decoder.cpp
\* 25-117): none is lost, none is freed that is not there.
THEOREM CodecInductive == CodecSpec => []CodecInv
BY InitIsCodecInv, StepKeepsCodecInv, PTL DEF CodecSpec

\* Between two calls nothing is left but the handle, whichever library call has
\* failed, avcodec_open2 and one of av_packet_alloc and av_frame_alloc included
\* (codec/src/encoder.cpp 41-59 and 96-112, decoder.cpp 25-49 and 69-117).
THEOREM HandlesAreClean == CodecSpec => []NothingLeaks
<1>1. CodecInv => NothingLeaks
  BY DEF CodecInv, Held, Unsure, HeapOf, NothingLeaks
<1> QED BY <1>1, CodecInductive, PTL

-----------------------------------------------------------------------------
(* NativeSession *)

CallNames == {"send", "recv"}
HasRecv(s) == \E n \in 1..Len(s) : s[n] = "recv"
OneRecv(s) == \A m, n \in 1..Len(s) : s[m] = "recv" /\ s[n] = "recv" => m = n

\* The sends among the calls s, one of which may be a recv.
Sends(s) == Len(s) - IF HasRecv(s) THEN 1 ELSE 0

\* The calls of one user: only a desktop with a session makes any, at most one of
\* them receives, and every send that was called has returned or is among them.
CallsInv(e) ==
  /\ ~Open(e) \/ ~Desktop(e) => calls[e] = <<>> /\ ~looping[e]
  /\ place[e] \in {"dialing", "gone"} => out[e] = 0
  /\ OneRecv(calls[e])
  /\ finished[e] <= typed[e]
  /\ place[e] # "gone" => typed[e] = finished[e] + Sends(calls[e])

NativeTypes ==
  /\ kind \in [Users -> {"desktop", "program"}]
  /\ place \in [Users -> {"dialing", "await", "open", "gone"}]
  /\ looping \in [Users -> BOOLEAN]
  /\ calls \in [Users -> Seq(CallNames)]
  /\ typed \in [Users -> 0..MaxSends] /\ finished \in [Users -> Nat]
  /\ stream \in [Users -> {"none", "waiting", "paired", "over"}]
  /\ out \in [Users -> 0..OutboundBuffer] /\ under \in [Users -> 0..Window]

NativeInv == NativeTypes /\ \A e \in Users : CallsInv(e)

\* A call at the relay ends only after one of the two has gone.
StreamsInv == (\E e \in Users : stream[e] = "over") => \E e \in Users : place[e] = "gone"

\* A call joins the end of the queue for the mutex.
LEMMA CallJoins ==
  ASSUME NEW s \in Seq(CallNames), OneRecv(s), NEW c \in CallNames, c = "recv" => ~HasRecv(s)
  PROVE  /\ Append(s, c) \in Seq(CallNames) /\ OneRecv(Append(s, c))
         /\ Sends(Append(s, c)) = Sends(s) + IF c = "send" THEN 1 ELSE 0
         /\ HasRecv(Append(s, c)) <=> HasRecv(s) \/ c = "recv"
         /\ s # <<>> => Append(s, c) # <<>> /\ Head(Append(s, c)) = Head(s)
<1>1. /\ Append(s, c) \in Seq(CallNames) /\ Append(s, c) # <<>>
      /\ Len(Append(s, c)) = Len(s) + 1 /\ Len(s) \in Nat
      /\ \A i \in 1..Len(s) : Append(s, c)[i] = s[i]
      /\ Append(s, c)[Len(s) + 1] = c
  BY AppendProperties, LenProperties
<1>2. HasRecv(Append(s, c)) <=> HasRecv(s) \/ c = "recv"
  BY <1>1 DEF HasRecv
<1>3. OneRecv(Append(s, c))
  BY <1>1 DEF OneRecv, HasRecv
<1>4. Sends(Append(s, c)) = Sends(s) + IF c = "send" THEN 1 ELSE 0
  <2>1. CASE c = "send"
    BY <1>1, <1>2, <2>1 DEF Sends
  <2>2. CASE c = "recv"
    BY <1>1, <1>2, <2>2 DEF Sends
  <2> QED BY <2>1, <2>2 DEF CallNames
<1>5. s # <<>> => Head(Append(s, c)) = Head(s)
  BY HeadTailAppend
<1> QED BY <1>1, <1>2, <1>3, <1>4, <1>5

\* The call that holds the mutex leaves the queue.
LEMMA CallReturns ==
  ASSUME NEW s \in Seq(CallNames), OneRecv(s), s # <<>>
  PROVE  /\ Tail(s) \in Seq(CallNames) /\ OneRecv(Tail(s)) /\ Head(s) \in CallNames
         /\ Sends(Tail(s)) = Sends(s) - IF Head(s) = "send" THEN 1 ELSE 0
         /\ Sends(Tail(s)) \in Nat
<1>1. /\ Tail(s) \in Seq(CallNames) /\ Len(s) \in Nat \ {0} /\ Len(Tail(s)) = Len(s) - 1
      /\ \A i \in 1..Len(Tail(s)) : Tail(s)[i] = s[i + 1]
      /\ Head(s) = s[1] /\ Head(s) \in CallNames
  BY HeadTailProperties, EmptySeq
<1>2. HasRecv(s) <=> Head(s) = "recv" \/ HasRecv(Tail(s))
  <2>1. ASSUME NEW n \in 1..Len(s), s[n] = "recv", n # 1 PROVE HasRecv(Tail(s))
    <3>1. n - 1 \in 1..Len(Tail(s)) /\ Tail(s)[n - 1] = s[n]
      BY <1>1, <2>1
    <3> QED BY <2>1, <3>1 DEF HasRecv
  <2>2. HasRecv(Tail(s)) => HasRecv(s)
    BY <1>1 DEF HasRecv
  <2>3. 1 \in 1..Len(s)
    BY <1>1
  <2> QED BY <1>1, <2>1, <2>2, <2>3 DEF HasRecv
<1>3. Head(s) = "recv" => ~HasRecv(Tail(s))
  BY <1>1 DEF HasRecv, OneRecv
<1>4. OneRecv(Tail(s))
  BY <1>1 DEF OneRecv
<1>5. Sends(Tail(s)) = Sends(s) - IF Head(s) = "send" THEN 1 ELSE 0
  <2>1. CASE Head(s) = "send"
    BY <1>1, <1>2, <2>1 DEF Sends
  <2>2. CASE Head(s) = "recv"
    BY <1>1, <1>2, <1>3, <2>2 DEF Sends
  <2> QED BY <1>1, <2>1, <2>2 DEF CallNames
<1>6. Sends(Tail(s)) \in Nat
  <2>1. HasRecv(Tail(s)) => Len(Tail(s)) >= 1
    BY <1>1 DEF HasRecv
  <2> QED BY <1>1, <2>1 DEF Sends
<1> QED BY <1>1, <1>4, <1>5, <1>6

\* A queue without calls.
LEMMA NoCalls ==
  <<>> \in Seq(CallNames) /\ OneRecv(<<>>) /\ ~HasRecv(<<>>) /\ Sends(<<>>) = 0 /\ Len(<<>>) = 0
<1>1. <<>> \in Seq(CallNames) /\ Len(<<>>) = 0
  BY EmptySeq
<1> QED BY <1>1 DEF OneRecv, HasRecv, Sends

\* A user nothing happens to.
LEMMA OthersCallsStay ==
  ASSUME NEW d \in Users, CallsInv(d),
         kind' = kind, place'[d] = place[d], looping'[d] = looping[d], calls'[d] = calls[d],
         typed'[d] = typed[d], finished'[d] = finished[d],
         place[d] \in {"dialing", "gone"} => out'[d] = out[d]
  PROVE  CallsInv(d)'
BY DEF CallsInv, Open, Desktop, OneRecv, Sends, HasRecv

\* What one user does leaves the other one's calls alone.
LEMMA OnlyOneUserMoves ==
  ASSUME NativeInv, NEW e \in Users, NativeTypes', CallsInv(e)', kind' = kind,
         \A d \in Users : d # e =>
           /\ place'[d] = place[d] /\ looping'[d] = looping[d] /\ calls'[d] = calls[d]
           /\ typed'[d] = typed[d] /\ finished'[d] = finished[d] /\ out'[d] = out[d]
  PROVE  NativeInv'
BY OthersCallsStay DEF NativeInv

\* The handshake.
LEMMA HandshakeKeepsNativeInv ==
  ASSUME NativeInv, NEW e \in Users, SayHello(e) \/ HearHello(e) \/ HelloFails(e)
  PROVE  NativeInv'
<1>0. NativeTypes /\ CallsInv(e)
  BY DEF NativeInv
<1>1. CASE SayHello(e)
  <2>1. NativeTypes'
    <3>1. Pairing(e) \in [Users -> {"none", "waiting", "paired", "over"}]
      BY <1>0 DEF NativeTypes, Pairing
    <3>2. out' \in [Users -> 0..OutboundBuffer]
      <4>1. /\ out \in [Users -> 0..OutboundBuffer] /\ OutboundBuffer \in Nat \ {0}
            /\ out[e] = 0
        BY <1>0, <1>1, NativeType DEF NativeTypes, SayHello, CallsInv
      <4> QED BY <1>1, <4>1 DEF SayHello
    <3> QED BY <1>0, <1>1, <3>1, <3>2 DEF NativeTypes, SayHello
  <2>2. CallsInv(e)'
    BY <1>0, <1>1 DEF NativeTypes, SayHello, CallsInv, Open, Desktop, OneRecv, Sends, HasRecv
  <2>3. \A d \in Users : d # e => place'[d] = place[d] /\ out'[d] = out[d]
    BY <1>0, <1>1 DEF NativeTypes, SayHello
  <2> QED BY <1>1, <2>1, <2>2, <2>3, OnlyOneUserMoves DEF SayHello
<1>2. CASE HearHello(e)
  <2>1. NativeTypes'
    BY <1>0, <1>2, NativeType DEF NativeTypes, HearHello, Desktop
  <2>2. CallsInv(e)'
    BY <1>0, <1>2 DEF NativeTypes, HearHello, CallsInv, Open, Desktop, OneRecv, Sends, HasRecv
  <2>3. \A d \in Users : d # e => place'[d] = place[d] /\ looping'[d] = looping[d]
    BY <1>0, <1>2 DEF NativeTypes, HearHello
  <2> QED BY <1>2, <2>1, <2>2, <2>3, OnlyOneUserMoves DEF HearHello
<1>3. CASE HelloFails(e)
  <2>1. NativeTypes'
    BY <1>0, <1>3, NativeType DEF NativeTypes, HelloFails
  <2>2. CallsInv(e)'
    BY <1>0, <1>3 DEF NativeTypes, HelloFails, CallsInv, Open, Desktop, OneRecv, Sends, HasRecv
  <2>3. \A d \in Users : d # e => place'[d] = place[d] /\ out'[d] = out[d]
    BY <1>0, <1>3 DEF NativeTypes, HelloFails
  <2> QED BY <1>3, <2>1, <2>2, <2>3, OnlyOneUserMoves DEF HelloFails
<1> QED BY <1>1, <1>2, <1>3

\* The calls of the user interface and the end of the process.
LEMMA UserKeepsNativeInv ==
  ASSUME NativeInv, NEW e \in Users,
         CallRecv(e) \/ CallSend(e) \/ Unmount(e) \/ Quit(e)
  PROVE  NativeInv'
<1>0. NativeTypes /\ CallsInv(e)
  BY DEF NativeInv
<1>1. ASSUME NEW c \in CallNames, Call(e, c), Open(e), looping[e], c = "recv" => ~InCall(e, "recv"),
             UNCHANGED <<kind, place, looping, finished, stream, wireVars>>,
             typed' = [typed EXCEPT ![e] = @ + IF c = "send" THEN 1 ELSE 0],
             c = "send" => typed[e] < MaxSends
      PROVE  NativeInv'
  <2>1. /\ calls[e] \in Seq(CallNames) /\ OneRecv(calls[e])
        /\ c = "recv" => ~HasRecv(calls[e])
        /\ calls' = [calls EXCEPT ![e] = Append(calls[e], c)]
    BY <1>0, <1>1 DEF NativeTypes, CallsInv, HasRecv, InCall, Call
  <2>2. /\ Append(calls[e], c) \in Seq(CallNames) /\ OneRecv(Append(calls[e], c))
        /\ Sends(Append(calls[e], c)) = Sends(calls[e]) + IF c = "send" THEN 1 ELSE 0
    BY <2>1, CallJoins
  <2>3. calls'[e] = Append(calls[e], c) /\ \A d \in Users : d # e => calls'[d] = calls[d]
    BY <1>0, <2>1 DEF NativeTypes
  <2>4. /\ typed'[e] = typed[e] + IF c = "send" THEN 1 ELSE 0
        /\ \A d \in Users : d # e => typed'[d] = typed[d]
        /\ typed[e] \in 0..MaxSends /\ finished[e] \in Nat
    BY <1>0, <1>1 DEF NativeTypes
  <2>5. NativeTypes'
    BY <1>0, <1>1, <2>1, <2>2, NativeType DEF NativeTypes, wireVars
  <2>6. Sends(calls[e]) \in Int
    BY <2>1, LenProperties DEF Sends
  <2>7. CallsInv(e)'
    <3>1. OneRecv(calls[e])' /\ Sends(calls[e])' = Sends(calls'[e])
      BY <2>2, <2>3 DEF OneRecv, Sends, HasRecv
    <3>2. Open(e) /\ Desktop(e) /\ place'[e] = "open" /\ Open(e)' /\ Desktop(e)'
      BY <1>0, <1>1 DEF CallsInv, Open, Desktop
    <3> HIDE DEF Sends
    <3> QED BY <1>0, <1>1, <2>2, <2>3, <2>4, <2>6, <3>1, <3>2 DEF CallsInv, Open
  <2> QED BY <1>1, <2>3, <2>4, <2>5, <2>7, OnlyOneUserMoves DEF wireVars
<1>2. CASE CallRecv(e)
  <2>1. typed' = [typed EXCEPT ![e] = @ + 0]
    BY <1>0, <1>2 DEF CallRecv, NativeTypes
  <2> QED BY <1>1, <1>2, <2>1 DEF CallRecv, CallNames
<1>3. CASE CallSend(e)
  BY <1>1, <1>3 DEF CallSend, CallNames
<1>4. CASE Unmount(e)
  <2>1. NativeTypes'
    BY <1>0, <1>4 DEF NativeTypes, Unmount, wireVars
  <2>2. CallsInv(e)'
    BY <1>0, <1>4 DEF NativeTypes, Unmount, CallsInv, Open, Desktop, OneRecv, Sends, HasRecv
  <2>3. \A d \in Users : d # e => looping'[d] = looping[d]
    BY <1>0, <1>4 DEF NativeTypes, Unmount
  <2> QED BY <1>4, <2>1, <2>2, <2>3, OnlyOneUserMoves DEF Unmount, wireVars
<1>5. CASE Quit(e)
  <2>1. NativeTypes'
    BY <1>0, <1>5, NoCalls, NativeType DEF NativeTypes, Quit
  <2>2. place'[e] = "gone" /\ calls'[e] = <<>> /\ ~looping'[e]
    BY <1>0, <1>5 DEF NativeTypes, Quit
  <2>3. CallsInv(e)'
    <3>1. out'[e] = 0
      BY <1>0, <1>5 DEF Quit, NativeTypes
    <3> QED BY <1>0, <1>5, <2>2, <3>1, NoCalls DEF Quit, CallsInv
  <2>4. \A d \in Users : d # e =>
          place'[d] = place[d] /\ looping'[d] = looping[d] /\ calls'[d] = calls[d] /\ out'[d] = out[d]
    BY <1>0, <1>5 DEF NativeTypes, Quit
  <2> QED BY <1>5, <2>1, <2>3, <2>4, OnlyOneUserMoves DEF Quit
<1> QED BY <1>2, <1>3, <1>4, <1>5

\* Calls that return.
LEMMA AnswerKeepsNativeInv ==
  ASSUME NativeInv, NEW e \in Users, FinishRecv(e) \/ FinishSend(e)
  PROVE  NativeInv'
<1>0. NativeTypes /\ CallsInv(e)
  BY DEF NativeInv
<1>1. /\ calls[e] \in Seq(CallNames) /\ OneRecv(calls[e]) /\ calls[e] # <<>>
      /\ calls' = [calls EXCEPT ![e] = Tail(calls[e])]
      /\ Open(e) /\ UNCHANGED <<kind, place, typed>>
  BY <1>0 DEF FinishRecv, FinishSend, Holds, Return, CallsInv, NativeTypes
<1>2. /\ Tail(calls[e]) \in Seq(CallNames) /\ OneRecv(Tail(calls[e]))
      /\ Sends(Tail(calls[e])) = Sends(calls[e]) - IF Head(calls[e]) = "send" THEN 1 ELSE 0
      /\ Sends(Tail(calls[e])) \in Nat
  BY <1>1, CallReturns
<1>3. calls'[e] = Tail(calls[e]) /\ \A d \in Users : d # e => calls'[d] = calls[d]
  BY <1>0, <1>1 DEF NativeTypes
<1>4. Sends(calls[e]) \in Int /\ typed[e] \in 0..MaxSends /\ finished[e] \in Nat
  BY <1>0, <1>1, LenProperties DEF Sends, NativeTypes
<1>5. /\ OneRecv(calls[e])' /\ Sends(calls[e])' = Sends(Tail(calls[e]))
      /\ place[e] = "open" /\ Desktop(e) /\ Open(e)' /\ Desktop(e)'
      /\ typed[e] = finished[e] + Sends(calls[e])
  <2>1. OneRecv(calls[e])' /\ Sends(calls[e])' = Sends(Tail(calls[e]))
    BY <1>2, <1>3 DEF OneRecv, Sends, HasRecv
  <2>2. place[e] = "open" /\ Desktop(e) /\ Open(e)' /\ Desktop(e)'
    BY <1>0, <1>1 DEF CallsInv, Open, Desktop
  <2> QED BY <1>0, <2>1, <2>2 DEF CallsInv
<1>6. CASE FinishRecv(e)
  <2>1. NativeTypes'
    <3>1. looping' \in [Users -> BOOLEAN]
      BY <1>0, <1>6 DEF NativeTypes, FinishRecv
    <3>2. under' \in [Users -> 0..Window]
      <4>1. under \in [Users -> 0..Window] /\ Window \in Nat
        BY <1>0, NativeType DEF NativeTypes
      <4> QED BY <1>6, <4>1 DEF FinishRecv
    <3>3. calls' \in [Users -> Seq(CallNames)]
      BY <1>0, <1>1, <1>2 DEF NativeTypes
    <3> QED BY <1>0, <1>6, <3>1, <3>2, <3>3 DEF NativeTypes, FinishRecv
  <2>2. Sends(Tail(calls[e])) = Sends(calls[e])
    BY <1>2, <1>4, <1>6 DEF FinishRecv, Holds
  <2>3. finished' = finished /\ place' = place /\ typed' = typed
    BY <1>6 DEF FinishRecv
  <2>4. CallsInv(e)'
    BY <1>0, <1>4, <1>5, <2>2, <2>3 DEF CallsInv
  <2>5. \A d \in Users : d # e => looping'[d] = looping[d]
    BY <1>0, <1>6 DEF NativeTypes, FinishRecv
  <2> QED BY <1>3, <1>6, <2>1, <2>4, <2>5, OnlyOneUserMoves DEF FinishRecv
<1>7. CASE FinishSend(e)
  <2>1. NativeTypes'
    <3>1. out' \in [Users -> 0..OutboundBuffer]
      <4>1. out \in [Users -> 0..OutboundBuffer] /\ OutboundBuffer \in Nat
        BY <1>0, NativeType DEF NativeTypes
      <4> QED BY <1>7, <4>1 DEF FinishSend
    <3>2. calls' \in [Users -> Seq(CallNames)]
      BY <1>0, <1>1, <1>2 DEF NativeTypes
    <3>3. finished' \in [Users -> Nat]
      BY <1>0, <1>7 DEF NativeTypes, FinishSend
    <3> QED BY <1>0, <1>7, <3>1, <3>2, <3>3 DEF NativeTypes, FinishSend
  <2>2. Sends(Tail(calls[e])) = Sends(calls[e]) - 1
    BY <1>2, <1>4, <1>7 DEF FinishSend, Holds
  <2>3. /\ finished'[e] = finished[e] + 1 /\ place' = place /\ typed' = typed
        /\ \A d \in Users : d # e => finished'[d] = finished[d]
    BY <1>0, <1>7 DEF FinishSend, NativeTypes
  <2>4. CallsInv(e)'
    BY <1>2, <1>4, <1>5, <2>2, <2>3 DEF CallsInv
  <2>5. \A d \in Users : d # e => out'[d] = out[d]
    BY <1>0, <1>7 DEF NativeTypes, FinishSend
  <2> QED BY <1>3, <1>7, <2>1, <2>3, <2>4, <2>5, OnlyOneUserMoves DEF FinishSend
<1> QED BY <1>6, <1>7

\* What programs and the relay do.
LEMMA WireKeepsNativeInv ==
  ASSUME NativeInv, NEW e \in Users, Relays(e) \/ ProgramReads(e) \/ ProgramPings(e)
  PROVE  NativeInv'
<1>0. NativeTypes /\ CallsInv(e)
  BY DEF NativeInv
<1>1. CASE Carry(e)
  <2>1. NativeTypes'
    <3>1. /\ out \in [Users -> 0..OutboundBuffer] /\ OutboundBuffer \in Nat
          /\ under \in [Users -> 0..Window] /\ Window \in Nat
      BY <1>0, NativeType DEF NativeTypes
    <3>2. out' \in [Users -> 0..OutboundBuffer]
      BY <1>1, <3>1 DEF Carry
    <3>3. under' \in [Users -> 0..Window]
      <4>1. Other(e) \in Users /\ under[Other(e)] < Window
        BY <1>1 DEF Carry, Other, Users
      <4>2. under[Other(e)] + 1 \in 0..Window
        BY <3>1, <4>1
      <4> QED BY <1>1, <3>1, <4>2 DEF Carry
    <3> QED BY <1>0, <1>1, <3>2, <3>3 DEF NativeTypes, Carry
  <2>2. CallsInv(e)'
    BY <1>0, <1>1 DEF NativeTypes, Carry, CallsInv, Open, Desktop, OneRecv, Sends, HasRecv
  <2>3. \A d \in Users : d # e => out'[d] = out[d]
    BY <1>0, <1>1 DEF NativeTypes, Carry
  <2> QED BY <1>1, <2>1, <2>2, <2>3, OnlyOneUserMoves DEF Carry
<1>2. CASE ProgramReads(e)
  <2>1. NativeTypes'
    BY <1>0, <1>2, NativeType DEF NativeTypes, ProgramReads
  <2>2. CallsInv(e)'
    BY <1>0, <1>2, OthersCallsStay DEF ProgramReads
  <2> QED BY <1>2, <2>1, <2>2, OnlyOneUserMoves DEF ProgramReads
<1>3. CASE ProgramPings(e)
  <2>1. NativeTypes'
    BY <1>0, <1>3, NativeType DEF NativeTypes, ProgramPings, HeartbeatDue
  <2>2. CallsInv(e)'
    BY <1>0, <1>3, OthersCallsStay DEF ProgramPings, Open
  <2>3. \A d \in Users : d # e => out'[d] = out[d]
    BY <1>0, <1>3 DEF NativeTypes, ProgramPings
  <2> QED BY <1>3, <2>1, <2>2, <2>3, OnlyOneUserMoves DEF ProgramPings
<1>4. CASE CarryFails(e)
  <2>1. NativeTypes'
    <3>1. out \in [Users -> 0..OutboundBuffer] /\ OutboundBuffer \in Nat
      BY <1>0, NativeType DEF NativeTypes
    <3>2. out' \in [Users -> 0..OutboundBuffer]
      BY <1>4, <3>1 DEF CarryFails
    <3> QED BY <1>0, <1>4, <3>2 DEF NativeTypes, CarryFails
  <2>2. CallsInv(e)'
    BY <1>0, <1>4 DEF NativeTypes, CarryFails, CallsInv, Open, Desktop, OneRecv, Sends, HasRecv
  <2>3. \A d \in Users : d # e => out'[d] = out[d]
    BY <1>0, <1>4 DEF NativeTypes, CarryFails
  <2> QED BY <1>4, <2>1, <2>2, <2>3, OnlyOneUserMoves DEF CarryFails
<1>5. CASE Notices(e)
  <2>1. NativeTypes'
    BY <1>0, <1>5 DEF NativeTypes, Notices, wireVars
  <2>2. CallsInv(e)'
    BY <1>0, <1>5, OthersCallsStay DEF Notices, wireVars
  <2> QED BY <1>5, <2>1, <2>2, OnlyOneUserMoves DEF Notices, wireVars
<1> QED BY <1>1, <1>2, <1>3, <1>4, <1>5 DEF Relays

\* Every step keeps the invariant.
LEMMA StepKeepsNativeInv ==
  ASSUME NativeInv, [NativeNext]_nativeVars
  PROVE  NativeInv'
<1>1. CASE UNCHANGED nativeVars
  <2>1. NativeTypes'
    BY <1>1 DEF NativeInv, NativeTypes, nativeVars
  <2> QED BY <1>1, <2>1, OthersCallsStay DEF NativeInv, nativeVars
<1> QED BY <1>1, HandshakeKeepsNativeInv, UserKeepsNativeInv, AnswerKeepsNativeInv,
           WireKeepsNativeInv
        DEF NativeNext, Handshake, Answers, Program

\* Both ends are still dialing.
LEMMA InitIsNativeInv ==
  ASSUME NativeInit
  PROVE  NativeInv
<1>1. NativeTypes
  BY NativeType, NoCalls DEF NativeInit, NativeTypes
<1> QED BY <1>1, NoCalls DEF NativeInit, NativeInv, CallsInv, Open, Desktop

\* What has returned was called, so the counters keep their limits.
LEMMA NativeIsTyped ==
  ASSUME NativeInv
  PROVE  NativeTypeOK
<1>1. \A e \in Users : finished[e] \in 0..MaxSends
  BY NativeType DEF NativeInv, NativeTypes, CallsInv
<1>2. finished \in [Users -> 0..MaxSends]
  BY <1>1 DEF NativeInv, NativeTypes
<1>3. \A e \in Users : calls[e] \in Seq({"send", "recv"})
  BY DEF NativeInv, NativeTypes, CallNames
<1> QED BY <1>2, <1>3 DEF NativeInv, NativeTypes, NativeTypeOK

\* Every send that was called has returned or waits for the mutex, for as long
\* as the application runs, and no channel holds more than it has room for
\* (native/src/lib.rs 171-180, rendezvous/relay.rs 94).
THEOREM NativeInductive == NativeSpec => []NativeInv
BY InitIsNativeInv, StepKeepsNativeInv, PTL DEF NativeSpec

\* The relay ends a call because a client has gone, or because what another one
\* sends cannot reach a client that has.
LEMMA StepKeepsStreamsInv ==
  ASSUME NativeInv, StreamsInv, [NativeNext]_nativeVars
  PROVE  StreamsInv'
<1>0. NativeTypes
  BY DEF NativeInv
<1>1. CASE UNCHANGED nativeVars
  BY <1>1 DEF nativeVars, StreamsInv
<1>2. ASSUME NEW e \in Users, SayHello(e) PROVE StreamsInv'
  <2>1. \A d \in Users : Pairing(e)[d] = "over" => stream[d] = "over"
    BY <1>0 DEF NativeTypes, Pairing
  <2>2. \A d \in Users : place[d] = "gone" => place'[d] = "gone"
    BY <1>0, <1>2 DEF NativeTypes, SayHello
  <2> QED BY <1>2, <2>1, <2>2 DEF SayHello, StreamsInv
<1>3. ASSUME NEW e \in Users, Notices(e) PROVE StreamsInv'
  BY <1>3 DEF Notices, StreamsInv
<1>4. ASSUME NEW e \in Users, CarryFails(e) PROVE StreamsInv'
  <2>1. Other(e) \in Users
    BY DEF Other, Users
  <2> QED BY <1>4, <2>1 DEF CarryFails, Ended, StreamsInv
<1>5. ASSUME stream' = stream, \A d \in Users : place[d] = "gone" => place'[d] = "gone"
      PROVE  StreamsInv'
  BY <1>5 DEF StreamsInv
<1>6. ASSUME NEW e \in Users, HearHello(e) \/ HelloFails(e) \/ Quit(e) PROVE StreamsInv'
  BY <1>0, <1>5, <1>6 DEF NativeTypes, HearHello, HelloFails, Quit
<1>7. ASSUME NEW e \in Users,
             \/ Carry(e) \/ CallRecv(e) \/ Answers(e) \/ Program(e) \/ CallSend(e) \/ Unmount(e)
      PROVE  StreamsInv'
  BY <1>5, <1>7 DEF Carry, CallRecv, Answers, FinishRecv, FinishSend, Program, ProgramReads,
                    ProgramPings, CallSend, Unmount
<1> QED BY <1>1, <1>2, <1>3, <1>4, <1>6, <1>7 DEF NativeNext, Handshake, Relays

\* While both applications run neither call at the relay ends: the one who stays
\* is not told of anything but through its own frames (relay.go 128-141).
THEOREM StreamsOutliveBoth == NativeSpec => []StreamsInv
<1>1. NativeInit => StreamsInv
  BY DEF NativeInit, StreamsInv
<1> QED BY <1>1, NativeInductive, StepKeepsStreamsInv, PTL DEF NativeSpec

-----------------------------------------------------------------------------
\* Some application ends.
SomebodyGoes == \E d \in Users : place[d] # "gone" /\ place'[d] = "gone"

\* Once two desktops are in one of the four deadlocks, or one whose peer has gone
\* in the fifth, they stay in it until an application ends (native/src/lib.rs
\* 171-180, relay.go 128-141).
DeadlockLasts == [][\A e \in Users : Deadlocked(e) => Deadlocked(e)' \/ SomebodyGoes]_nativeVars

\* The steps that are left to desktops in a deadlock; none of them quits.
DesktopStep ==
  \E u \in Users :
    \/ Carry(u) \/ Notices(u) \/ CallRecv(u) \/ CallSend(u)
    \/ FinishRecv(u) \/ FinishSend(u) \/ Unmount(u)

\* The call that holds the mutex keeps it until it returns.
LEMMA HolderStays ==
  ASSUME NativeInv, DesktopStep, NEW e \in Users, ~FinishRecv(e), ~FinishSend(e),
         NEW c \in CallNames, Holds(e, c)
  PROVE  Holds(e, c)'
<1>1. NativeTypes /\ calls[e] \in Seq(CallNames) /\ OneRecv(calls[e])
  BY DEF NativeInv, NativeTypes, CallsInv
<1>2. ASSUME calls'[e] = calls[e] PROVE Holds(e, c)'
  BY <1>2 DEF Holds
<1>3. ASSUME NEW b \in CallNames, Call(e, b) PROVE Holds(e, c)'
  <2>1. calls'[e] = Append(calls[e], b)
    BY <1>1, <1>3 DEF Call, NativeTypes
  <2>2. Append(calls[e], b) # <<>> /\ Head(Append(calls[e], b)) = Head(calls[e])
    BY <1>1, AppendProperties, HeadTailAppend DEF Holds
  <2> QED BY <2>1, <2>2 DEF Holds
<1>4. PICK u \in Users :
        \/ Carry(u) \/ Notices(u) \/ CallRecv(u) \/ CallSend(u)
        \/ FinishRecv(u) \/ FinishSend(u) \/ Unmount(u)
  BY DEF DesktopStep
<1>5. CASE u # e \/ Carry(u) \/ Notices(u) \/ Unmount(u)
  <2>1. calls'[e] = calls[e]
    BY <1>1, <1>4, <1>5
       DEF NativeTypes, Carry, Notices, CallRecv, CallSend, FinishRecv, FinishSend, Unmount, Call,
           Return
  <2> QED BY <1>2, <2>1
<1>6. CASE u = e /\ (CallRecv(u) \/ CallSend(u))
  BY <1>3, <1>6 DEF CallRecv, CallSend, CallNames
<1> QED BY <1>4, <1>5, <1>6

\* A desktop whose receive loop is over only has calls that return.
LEMMA NoNewCalls ==
  ASSUME NativeInv, DesktopStep, NEW e \in Users, ~looping[e], NEW c \in CallNames, ~InCall(e, c)
  PROVE  ~looping'[e] /\ ~InCall(e, c)'
<1>1. NativeTypes /\ calls[e] \in Seq(CallNames)
  BY DEF NativeInv, NativeTypes
<1>2. PICK u \in Users :
        \/ Carry(u) \/ Notices(u) \/ CallRecv(u) \/ CallSend(u)
        \/ FinishRecv(u) \/ FinishSend(u) \/ Unmount(u)
  BY DEF DesktopStep
<1>3. ~looping'[e]
  BY <1>1, <1>2 DEF NativeTypes, Carry, Notices, CallRecv, CallSend, FinishRecv, FinishSend, Unmount
<1>4. calls'[e] = calls[e] \/ (calls[e] # <<>> /\ calls'[e] = Tail(calls[e]))
  BY <1>1, <1>2
     DEF NativeTypes, Carry, Notices, CallRecv, CallSend, FinishRecv, FinishSend, Unmount,
         Call, Return, Holds
<1>5. CASE calls'[e] = calls[e]
  BY <1>3, <1>5 DEF InCall
<1>6. CASE calls[e] # <<>> /\ calls'[e] = Tail(calls[e])
  <2>1. /\ Len(calls[e]) \in Nat /\ Len(Tail(calls[e])) = Len(calls[e]) - 1
        /\ \A i \in 1..Len(Tail(calls[e])) : Tail(calls[e])[i] = calls[e][i + 1]
    BY <1>1, <1>6, HeadTailProperties, LenProperties
  <2>2. \A i \in 1..Len(Tail(calls[e])) : Tail(calls[e])[i] # c
    BY <2>1 DEF InCall
  <2> QED BY <1>3, <1>6, <2>2 DEF InCall
<1> QED BY <1>4, <1>5, <1>6

\* Nothing reaches one who waits in recv while the other one sends nothing.
LEMMA ListenerStays ==
  ASSUME NativeInv, DesktopStep, NEW e \in Users, Listens(e), ~Ended(e),
         Open(e), ~Holds(Other(e), "send")
  PROVE  Listens(e)'
<1>1. NativeTypes /\ Other(e) \in Users /\ Other(Other(e)) = e /\ Other(e) # e
  BY DEF NativeInv, Other, Users
<1>2. ~FinishRecv(e) /\ ~FinishSend(e)
  BY <1>1 DEF NativeTypes, Listens, FinishRecv, FinishSend, Answered, Holds
<1>3. ~FinishSend(Other(e)) /\ ~Carry(Other(e))
  BY <1>1 DEF NativeTypes, Listens, FinishSend, Carry
<1>4. Holds(e, "recv")'
  BY <1>2, HolderStays DEF Listens, CallNames
<1>5. PICK u \in Users :
        \/ Carry(u) \/ Notices(u) \/ CallRecv(u) \/ CallSend(u)
        \/ FinishRecv(u) \/ FinishSend(u) \/ Unmount(u)
  BY DEF DesktopStep
<1>6. u = e \/ u = Other(e)
  BY DEF Other, Users
<1>7. under'[e] = under[e]
  BY <1>1, <1>2, <1>3, <1>5, <1>6
     DEF NativeTypes, Carry, Notices, CallRecv, CallSend, FinishRecv, FinishSend, Unmount, wireVars
<1>8. out'[Other(e)] = out[Other(e)]
  BY <1>1, <1>2, <1>3, <1>5, <1>6
     DEF NativeTypes, Carry, Notices, CallRecv, CallSend, FinishRecv, FinishSend, Unmount, wireVars
<1> QED BY <1>4, <1>7, <1>8 DEF Listens

\* There is no room for one who waits in send while the other one does not read.
LEMMA SenderStays ==
  ASSUME NativeInv, DesktopStep, NEW e \in Users, Full(e), ~Ended(e),
         Open(e), ~Holds(Other(e), "recv")
  PROVE  Full(e)'
<1>1. NativeTypes /\ Other(e) \in Users /\ Other(Other(e)) = e /\ Other(e) # e
  BY DEF NativeInv, Other, Users
<1>2. ~FinishRecv(e) /\ ~FinishSend(e) /\ ~Carry(e)
  BY <1>1, NativeType DEF NativeTypes, Full, FinishRecv, FinishSend, Carry, Holds
<1>3. ~FinishRecv(Other(e))
  BY DEF FinishRecv
<1>4. Holds(e, "send")'
  BY <1>2, HolderStays DEF Full, CallNames
<1>5. PICK u \in Users :
        \/ Carry(u) \/ Notices(u) \/ CallRecv(u) \/ CallSend(u)
        \/ FinishRecv(u) \/ FinishSend(u) \/ Unmount(u)
  BY DEF DesktopStep
<1>6. u = e \/ u = Other(e)
  BY DEF Other, Users
<1>7. under'[Other(e)] = under[Other(e)]
  BY <1>1, <1>2, <1>3, <1>5, <1>6
     DEF NativeTypes, Carry, Notices, CallRecv, CallSend, FinishRecv, FinishSend, Unmount, wireVars
<1>8. out'[e] = out[e]
  BY <1>1, <1>2, <1>3, <1>5, <1>6
     DEF NativeTypes, Carry, Notices, CallRecv, CallSend, FinishRecv, FinishSend, Unmount, wireVars
<1> QED BY <1>4, <1>7, <1>8 DEF Full

\* One step of two desktops in a deadlock.
LEMMA EmbraceStep ==
  ASSUME NativeInv, StreamsInv, NativeNext, ~SomebodyGoes, NEW e \in Users, Embraced(e)
  PROVE  Embraced(e)'
<1>1. NativeTypes /\ Other(e) \in Users /\ Other(Other(e)) = e /\ CallsInv(e)
  BY DEF NativeInv, Other, Users
<1>2. Holds(e, "recv") \/ Holds(e, "send")
  BY DEF Embraced, Listens, Full
<1>3. /\ Open(e) /\ Desktop(e) /\ Open(Other(e)) /\ Desktop(Other(e))
      /\ \A d \in Users : place[d] = "open" /\ kind[d] = "desktop"
  BY <1>1, <1>2 DEF Embraced, CallsInv, Holds, Open, Desktop, Other, Users
<1>4. \A d \in Users : ~Ended(d) /\ ~Ended(Other(d))
  <2>1. \A d \in Users : ~Ended(d) /\ Other(d) \in Users
    BY <1>3 DEF StreamsInv, Ended, Other, Users
  <2> QED BY <2>1
<1>5. DesktopStep
  <2>1. ASSUME NEW u \in Users, Quit(u) PROVE FALSE
    BY <1>1, <2>1 DEF Quit, NativeTypes, SomebodyGoes
  <2>2. ASSUME NEW u \in Users, CarryFails(u) PROVE FALSE
    BY <1>4, <2>2 DEF CarryFails
  <2> QED
    BY <1>3, <2>1, <2>2
    DEF NativeNext, DesktopStep, SayHello, Handshake, HearHello, HelloFails, Answers, Program,
        Relays, ProgramReads, ProgramPings, Desktop
<1>6. place' = place /\ kind' = kind
  BY <1>5 DEF DesktopStep, Carry, Notices, CallRecv, CallSend, FinishRecv, FinishSend, Unmount
<1>7. Open(Other(e))' /\ Desktop(Other(e))'
  BY <1>3, <1>6 DEF Open, Desktop
<1>8. \A d \in Users : ~(Holds(d, "recv") /\ Holds(d, "send"))
  BY DEF Holds
<1>9. \A d \in Users : \A c \in CallNames : Holds(d, c) => InCall(d, c)
  <2> SUFFICES ASSUME NEW d \in Users, NEW c \in CallNames, Holds(d, c) PROVE InCall(d, c)
    OBVIOUS
  <2>1. calls[d] \in Seq(CallNames)
    BY <1>1 DEF NativeTypes
  <2>2. 1 \in 1..Len(calls[d]) /\ calls[d][1] = c
    BY <2>1, EmptySeq DEF Holds
  <2> QED BY <2>2 DEF InCall
<1>10. CASE Listens(e) /\ Listens(Other(e))
  <2>1. Listens(e)' /\ Listens(Other(e))'
    BY <1>1, <1>3, <1>4, <1>5, <1>8, <1>10, ListenerStays DEF Listens
  <2> QED BY <1>7, <2>1 DEF Embraced
<1>11. CASE Listens(e) /\ ~looping[Other(e)] /\ ~InCall(Other(e), "send")
  <2>1. ~Holds(Other(e), "send")
    BY <1>1, <1>9, <1>11 DEF CallNames
  <2>2. Listens(e)'
    BY <1>3, <1>4, <1>5, <1>11, <2>1, ListenerStays
  <2>3. ~looping'[Other(e)] /\ ~InCall(Other(e), "send")'
    BY <1>1, <1>5, <1>11, NoNewCalls DEF CallNames
  <2> QED BY <1>7, <2>2, <2>3 DEF Embraced
<1>12. CASE Full(e) /\ Full(Other(e))
  <2>1. Full(e)' /\ Full(Other(e))'
    BY <1>1, <1>3, <1>4, <1>5, <1>8, <1>12, SenderStays DEF Full
  <2> QED BY <1>7, <2>1 DEF Embraced
<1>13. CASE Full(e) /\ Deaf(Other(e))
  <2>1. ~Holds(Other(e), "recv")
    BY <1>1, <1>9, <1>13 DEF CallNames, Deaf
  <2>2. Full(e)'
    BY <1>3, <1>4, <1>5, <1>13, <2>1, SenderStays
  <2>3. ~looping'[Other(e)] /\ ~InCall(Other(e), "recv")'
    BY <1>1, <1>5, <1>13, NoNewCalls DEF CallNames, Deaf
  <2> QED BY <1>7, <2>2, <2>3 DEF Embraced, Deaf
<1> QED BY <1>10, <1>11, <1>12, <1>13 DEF Embraced

\* One step of a desktop in recv whose peer has gone.
LEMMA StrandedStep ==
  ASSUME NativeInv, NativeNext, ~SomebodyGoes, NEW e \in Users, Stranded(e)
  PROVE  Stranded(e)'
<1>1. /\ NativeTypes /\ Other(e) \in Users /\ Other(Other(e)) = e /\ Other(e) # e
      /\ CallsInv(e) /\ CallsInv(Other(e))
  BY DEF NativeInv, Other, Users
<1>2. /\ Open(e) /\ Desktop(e) /\ place[e] = "open" /\ kind[e] = "desktop"
      /\ place[Other(e)] = "gone" /\ out[Other(e)] = 0 /\ out[e] = 0 /\ under[e] = 0
      /\ ~Ended(e)
  BY <1>1 DEF Stranded, CallsInv, Holds, Open, Desktop
<1>3. PICK u \in Users :
        \/ SayHello(u) \/ Handshake(u) \/ Relays(u) \/ CallRecv(u) \/ Answers(u) \/ Program(u)
        \/ CallSend(u) \/ Unmount(u) \/ Quit(u)
  BY DEF NativeNext
<1>4. u = e \/ u = Other(e)
  BY DEF Other, Users
<1>5. ~Quit(u)
  BY <1>1 DEF Quit, NativeTypes, SomebodyGoes
<1>6. CASE u = Other(e)
  <2>1. Notices(u)
    BY <1>2, <1>3, <1>5, <1>6
    DEF SayHello, Handshake, HearHello, HelloFails, Relays, Carry, CarryFails, CallRecv, Answers,
        FinishRecv, FinishSend, Program, ProgramReads, ProgramPings, CallSend, Unmount, Open
  <2>2. stream'[e] = stream[e]
    BY <1>1, <1>6, <2>1 DEF Notices, NativeTypes
  <2> QED BY <1>2, <2>1, <2>2 DEF Notices, Stranded, Holds, Ended, wireVars
<1>7. CASE u = e
  <2>1. ~FinishRecv(e) /\ ~FinishSend(e)
    BY <1>2 DEF Stranded, FinishRecv, FinishSend, Answered, Holds
  <2>2. CallRecv(e) \/ CallSend(e) \/ Unmount(e)
    <3>1. ~SayHello(e) /\ ~Handshake(e)
      BY <1>2 DEF SayHello, Handshake, HearHello, HelloFails
    <3>2. ~Relays(e) /\ ~Answers(e) /\ ~Program(e)
      BY <1>2, <2>1
      DEF Relays, Carry, CarryFails, Notices, Answers, Program, ProgramReads, ProgramPings
    <3> QED BY <1>3, <1>5, <1>7, <3>1, <3>2
  <2>3. Holds(e, "recv")'
    BY <2>1, <2>2, HolderStays DEF DesktopStep, Stranded, CallNames
  <2> QED BY <1>2, <2>2, <2>3 DEF CallRecv, CallSend, Unmount, Stranded, Ended, wireVars
<1> QED BY <1>4, <1>6, <1>7

\* What SendsFinish leaves out is final: no step of the users, the addon or the
\* relay leads out of a deadlock until an application ends.
THEOREM DeadlocksAreFinal == NativeSpec => DeadlockLasts
<1>1. NativeInv /\ StreamsInv /\ [NativeNext]_nativeVars =>
        [\A e \in Users : Deadlocked(e) => Deadlocked(e)' \/ SomebodyGoes]_nativeVars
  <2> SUFFICES ASSUME NativeInv, StreamsInv, NativeNext, ~SomebodyGoes,
                      NEW e \in Users, Deadlocked(e)
               PROVE  Deadlocked(e)'
    OBVIOUS
  <2> QED BY EmbraceStep, StrandedStep DEF Deadlocked
<1> QED BY <1>1, NativeInductive, StreamsOutliveBoth, PTL DEF NativeSpec, DeadlockLasts

-----------------------------------------------------------------------------
(* InputEvents *)

\* A number is its upper part and its last byte.
LEMMA LastByte ==
  ASSUME NEW u \in Nat
  PROVE  /\ Upper(u) \in Nat /\ Lower(u) \in Bytes
         /\ u = Upper(u) * ByteBase + Lower(u)
<1> DEFINE high == u \div ByteBase
           low == u % ByteBase
<1>1. ByteBase \in Nat /\ ByteBase > 1
  BY InputType
<1>2. high \in Nat /\ low \in 0..(ByteBase - 1)
  BY <1>1, SMT
<1>3. high = u \div ByteBase /\ low = u % ByteBase
  OBVIOUS
<1> HIDE DEF high, low
<1>4. u = ByteBase * high + low
  BY <1>1, <1>2, <1>3, SMT
<1>5. u = high * ByteBase + low
  BY <1>1, <1>2, <1>4
<1>6. Upper(u) = high /\ Lower(u) = low
  BY <1>3 DEF Upper, Lower
<1> QED BY <1>2, <1>5, <1>6 DEF Bytes

\* What is below a multiple of the base is below it with its upper part.
LEMMA UpperIsSmaller ==
  ASSUME NEW u \in Nat, NEW m \in Nat, u < m * ByteBase
  PROVE  Upper(u) < m
<1>1. /\ ByteBase \in Nat /\ ByteBase > 0 /\ Upper(u) \in Nat /\ Lower(u) \in Nat
      /\ u = Upper(u) * ByteBase + Lower(u)
  BY LastByte, InputType DEF Bytes
<1>2. ByteBase * Upper(u) <= u
  BY <1>1
<1>3. ByteBase * Upper(u) < ByteBase * m
  BY <1>1, <1>2
<1> QED BY <1>1, <1>3

\* from_be_bytes after to_be_bytes, wherever the four bytes are.
LEMMA FourBytes ==
  ASSUME NEW u \in 0..(U32 - 1)
  PROVE  /\ ToBeBytes(u) \in Seq(Bytes) /\ Len(ToBeBytes(u)) = 4
         /\ \A b, n : (\A i \in 1..4 : b[n + i - 1] = ToBeBytes(u)[i]) /\ n \in Nat
              => FromBeBytes(b, n) = u
<1>1. ByteBase \in Nat /\ ByteBase > 5
  BY InputType
<1>2. u \in Nat /\ u < U32 /\ U32 \in Nat
  BY <1>1 DEF U32
<1>3. Upper(u) \in Nat /\ Upper(Upper(u)) \in Nat /\ Upper(Upper(Upper(u))) \in Nat
  BY <1>2, LastByte
<1>4. Upper(Upper(Upper(u))) \in Bytes
  <2>1. ByteBase * ByteBase \in Nat /\ ByteBase * ByteBase * ByteBase \in Nat
    BY <1>1
  <2>2. Upper(u) < ByteBase * ByteBase * ByteBase
    BY <1>2, <2>1, UpperIsSmaller DEF U32
  <2>3. Upper(Upper(u)) < ByteBase * ByteBase
    BY <1>3, <2>1, <2>2, UpperIsSmaller
  <2>4. Upper(Upper(Upper(u))) < ByteBase
    BY <1>1, <1>3, <2>3, UpperIsSmaller
  <2> QED BY <1>1, <1>3, <2>4 DEF Bytes
<1>5. /\ Lower(u) \in Bytes /\ Lower(Upper(u)) \in Bytes
      /\ Lower(Upper(Upper(u))) \in Bytes
  BY <1>2, <1>3, LastByte
<1>6. ToBeBytes(u) \in Seq(Bytes) /\ Len(ToBeBytes(u)) = 4
  BY <1>4, <1>5 DEF ToBeBytes
<1>7. ASSUME NEW b, NEW n \in Nat, \A i \in 1..4 : b[n + i - 1] = ToBeBytes(u)[i]
      PROVE  FromBeBytes(b, n) = u
  <2>1. /\ b[n] = Upper(Upper(Upper(u))) /\ b[n + 1] = Lower(Upper(Upper(u)))
        /\ b[n + 2] = Lower(Upper(u)) /\ b[n + 3] = Lower(u)
    <3>1. /\ n + 1 - 1 = n /\ n + 2 - 1 = n + 1 /\ n + 3 - 1 = n + 2 /\ n + 4 - 1 = n + 3
          /\ 1 \in 1..4 /\ 2 \in 1..4 /\ 3 \in 1..4 /\ 4 \in 1..4
      OBVIOUS
    <3> QED BY <1>7, <3>1 DEF ToBeBytes
  <2>2. Upper(Upper(Upper(u))) * ByteBase + Lower(Upper(Upper(u))) = Upper(Upper(u))
    BY <1>3, LastByte
  <2>3. Upper(Upper(u)) * ByteBase + Lower(Upper(u)) = Upper(u)
    BY <1>3, LastByte
  <2>4. Upper(u) * ByteBase + Lower(u) = u
    BY <1>2, LastByte
  <2> QED BY <2>1, <2>2, <2>3, <2>4 DEF FromBeBytes
<1> QED BY <1>6, <1>7

\* `as u32` after `as i32`, and the other way round.
LEMMA Signs ==
  ASSUME NEW i \in Ints
  PROVE  Unsigned(i) \in 0..(U32 - 1) /\ Signed(Unsigned(i)) = i
<1>1. PICK u \in Sample : i = Signed(u)
  BY DEF Ints
<1>2. u \in 0..(U32 - 1) /\ U32 \in Nat
  BY InputType DEF U32
<1>3. Unsigned(i) = u
  BY <1>1, <1>2 DEF Signed, Unsigned
<1> QED BY <1>1, <1>2, <1>3

KeyKinds == {"keyDown", "keyUp"}
MoveKinds == {"mouseMove", "scroll"}

\* b begins like enc, as far as both go.
Agree(b, enc) == \A i \in 1..Len(enc) : i <= Len(b) => b[i] = enc[i]

\* The first byte of each kind of event.
LEMMA Tags ==
  /\ Tag("keyDown") = 0 /\ Tag("keyUp") = 1 /\ Tag("mouseMove") = 2
  /\ Tag("mouseButton") = 3 /\ Tag("scroll") = 4
BY DEF Tag

\* One part of the bytes after another.
LEMMA Joined ==
  ASSUME NEW s \in Seq(Bytes), NEW t \in Seq(Bytes)
  PROVE  /\ s \o t \in Seq(Bytes) /\ Len(s \o t) = Len(s) + Len(t)
         /\ \A i \in 1..Len(s) : (s \o t)[i] = s[i]
         /\ \A i \in 1..Len(t) : (s \o t)[Len(s) + i] = t[i]
<1>1. Len(s) \in Nat /\ Len(t) \in Nat
  BY LenProperties
<1>2. \A i \in 1..Len(s) : (s \o t)[i] = s[i]
  BY <1>1, ConcatProperties
<1>3. ASSUME NEW i \in 1..Len(t) PROVE (s \o t)[Len(s) + i] = t[i]
  <2>1. Len(s) + i \in 1..(Len(s) + Len(t)) /\ ~(Len(s) + i <= Len(s)) /\ Len(s) + i - Len(s) = i
    BY <1>1
  <2> QED BY <2>1, ConcatProperties
<1> QED BY <1>2, <1>3, ConcatProperties

\* What follows a tag is one further on.
LEMMA AfterTag ==
  ASSUME NEW tag \in Seq(Bytes), NEW t \in Seq(Bytes), Len(tag) = 1
  PROVE  /\ tag \o t \in Seq(Bytes) /\ Len(tag \o t) = 1 + Len(t)
         /\ (tag \o t)[1] = tag[1]
         /\ \A i \in 1..Len(t) : (tag \o t)[1 + i] = t[i]
<1> DEFINE s == tag \o t
<1>1. /\ s \in Seq(Bytes) /\ Len(s) = Len(tag) + Len(t)
      /\ \A i \in 1..Len(tag) : s[i] = tag[i]
      /\ \A i \in 1..Len(t) : s[Len(tag) + i] = t[i]
  BY Joined
<1>2. 1 \in 1..1
  OBVIOUS
<1> HIDE DEF s
<1>3. /\ s \in Seq(Bytes) /\ Len(s) = 1 + Len(t) /\ s[1] = tag[1]
      /\ \A i \in 1..Len(t) : s[1 + i] = t[i]
  BY <1>1, <1>2
<1> QED BY <1>3 DEF s

\* The three shapes of events.
LEMMA EventShapes ==
  ASSUME NEW e \in Events
  PROVE  \/ e.kind \in KeyKinds /\ e.code \in Sample /\ e = [kind |-> e.kind, code |-> e.code]
         \/ /\ e.kind \in MoveKinds /\ e.x \in Ints /\ e.y \in Ints
            /\ e = [kind |-> e.kind, x |-> e.x, y |-> e.y]
         \/ /\ e.kind = "mouseButton" /\ e.button \in Bytes /\ e.down \in BOOLEAN
            /\ e = [kind |-> "mouseButton", button |-> e.button, down |-> e.down]
BY DEF Events, KeyKinds, MoveKinds

\* The bytes of an event.
LEMMA KeyBytes ==
  ASSUME NEW e \in Events, e.kind \in KeyKinds, e.code \in Sample
  PROVE  /\ EncodeEvent(e) \in Seq(Bytes) /\ Len(EncodeEvent(e)) = 5
         /\ EncodeEvent(e)[1] = Tag(e.kind)
         /\ \A i \in 1..4 : EncodeEvent(e)[1 + i] = ToBeBytes(e.code)[i]
<1> DEFINE tag == <<Tag(e.kind)>>
           code == ToBeBytes(e.code)
           enc == tag \o code
<1>1. EncodeEvent(e) = enc
  BY DEF EncodeEvent, KeyKinds
<1>2. tag \in Seq(Bytes) /\ Len(tag) = 1 /\ tag[1] = Tag(e.kind)
  BY InputType, Tags DEF KeyKinds, Bytes
<1>3. code \in Seq(Bytes) /\ Len(code) = 4
  BY InputType, FourBytes
<1> HIDE DEF tag, code
<1>4. /\ enc \in Seq(Bytes) /\ Len(enc) = 1 + Len(code) /\ enc[1] = tag[1]
      /\ \A i \in 1..Len(code) : enc[1 + i] = code[i]
  BY <1>2, <1>3, AfterTag
<1> HIDE DEF enc
<1>5. /\ enc \in Seq(Bytes) /\ Len(enc) = 5 /\ enc[1] = Tag(e.kind)
      /\ \A i \in 1..4 : enc[1 + i] = code[i]
  BY <1>2, <1>3, <1>4
<1> QED BY <1>1, <1>5 DEF code

\* The bytes of an event with two coordinates.
LEMMA MoveBytes ==
  ASSUME NEW e \in Events, e.kind \in MoveKinds, e.x \in Ints, e.y \in Ints
  PROVE  /\ EncodeEvent(e) \in Seq(Bytes) /\ Len(EncodeEvent(e)) = 9
         /\ EncodeEvent(e)[1] = Tag(e.kind)
         /\ \A i \in 1..4 : EncodeEvent(e)[1 + i] = ToBeBytes(Unsigned(e.x))[i]
         /\ \A i \in 1..4 : EncodeEvent(e)[5 + i] = ToBeBytes(Unsigned(e.y))[i]
<1> DEFINE tag == <<Tag(e.kind)>>
           x == ToBeBytes(Unsigned(e.x))
           y == ToBeBytes(Unsigned(e.y))
           rest == x \o y
           enc == tag \o rest
<1>1. EncodeEvent(e) = enc
  BY DEF EncodeEvent, MoveKinds
<1>2. tag \in Seq(Bytes) /\ Len(tag) = 1 /\ tag[1] = Tag(e.kind)
  BY InputType, Tags DEF MoveKinds, Bytes
<1>3. x \in Seq(Bytes) /\ Len(x) = 4 /\ y \in Seq(Bytes) /\ Len(y) = 4
  BY Signs, FourBytes
<1> HIDE DEF tag, x, y
<1>4. /\ rest \in Seq(Bytes) /\ Len(rest) = Len(x) + Len(y)
      /\ \A i \in 1..Len(x) : rest[i] = x[i]
      /\ \A i \in 1..Len(y) : rest[Len(x) + i] = y[i]
  BY <1>3, Joined
<1> HIDE DEF rest
<1>5. /\ enc \in Seq(Bytes) /\ Len(enc) = 1 + Len(rest) /\ enc[1] = tag[1]
      /\ \A i \in 1..Len(rest) : enc[1 + i] = rest[i]
  BY <1>2, <1>4, AfterTag
<1> HIDE DEF enc
<1>6. /\ enc \in Seq(Bytes) /\ Len(enc) = 9 /\ enc[1] = Tag(e.kind)
      /\ \A i \in 1..8 : enc[1 + i] = rest[i]
  BY <1>2, <1>3, <1>4, <1>5
<1>7. ASSUME NEW i \in 1..4 PROVE enc[1 + i] = x[i] /\ enc[5 + i] = y[i]
  <2>1. i \in 1..8 /\ 4 + i \in 1..8 /\ 1 + (4 + i) = 5 + i
    OBVIOUS
  <2>2. enc[1 + i] = rest[i] /\ enc[1 + (4 + i)] = rest[4 + i]
    BY <1>6, <2>1
  <2>3. rest[i] = x[i] /\ rest[4 + i] = y[i]
    BY <1>3, <1>4
  <2> QED BY <2>1, <2>2, <2>3
<1> QED BY <1>1, <1>6, <1>7 DEF x, y

\* The bytes of a mouse button.
LEMMA ButtonBytes ==
  ASSUME NEW e \in Events, e.kind = "mouseButton", e.button \in Bytes
  PROVE  /\ EncodeEvent(e) \in Seq(Bytes) /\ Len(EncodeEvent(e)) = 3
         /\ EncodeEvent(e)[1] = 3 /\ EncodeEvent(e)[2] = e.button
         /\ EncodeEvent(e)[3] = IF e.down THEN 1 ELSE 0
<1> DEFINE rest == <<e.button, IF e.down THEN 1 ELSE 0>>
<1>1. EncodeEvent(e) = <<3>> \o rest
  BY DEF EncodeEvent, Tag
<1>2. <<3>> \in Seq(Bytes) /\ Len(<<3>>) = 1 /\ rest \in Seq(Bytes) /\ Len(rest) = 2
  BY InputType DEF Bytes
<1>3. /\ EncodeEvent(e) \in Seq(Bytes) /\ Len(EncodeEvent(e)) = 3
      /\ \A i \in 1..3 : EncodeEvent(e)[i] = IF i <= 1 THEN <<3>>[i] ELSE rest[i - 1]
  BY <1>1, <1>2, ConcatProperties
<1> QED BY <1>3

\* What arrives whole, whatever follows it, is decoded to what was captured.
LEMMA DecodeWhole ==
  ASSUME NEW e \in Events, NEW b \in Seq(Bytes), Len(b) >= Len(EncodeEvent(e)),
         Agree(b, EncodeEvent(e))
  PROVE  DecodeEvent(b) = e
<1>1. CASE e.kind \in KeyKinds /\ e.code \in Sample /\ e = [kind |-> e.kind, code |-> e.code]
  <2>1. \A i \in 1..5 : b[i] = EncodeEvent(e)[i]
    BY <1>1, KeyBytes DEF Agree
  <2>2. Has(b, 1) /\ Has(b, 5) /\ b[1] = Tag(e.kind)
    BY <1>1, <2>1, KeyBytes DEF Has
  <2>3. ASSUME NEW i \in 1..4 PROVE b[2 + i - 1] = ToBeBytes(e.code)[i]
    <3>1. 2 + i - 1 = 1 + i /\ 1 + i \in 1..5
      OBVIOUS
    <3> QED BY <1>1, <2>1, <3>1, KeyBytes
  <2>4. FromBeBytes(b, 2) = e.code
    BY <1>1, <2>3, InputType, FourBytes
  <2>5. CASE e.kind = "keyDown"
    BY <1>1, <2>2, <2>4, <2>5, Tags DEF DecodeEvent
  <2>6. CASE e.kind = "keyUp"
    BY <1>1, <2>2, <2>4, <2>6, Tags DEF DecodeEvent
  <2> QED BY <1>1, <2>5, <2>6 DEF KeyKinds
<1>2. CASE /\ e.kind \in MoveKinds /\ e.x \in Ints /\ e.y \in Ints
           /\ e = [kind |-> e.kind, x |-> e.x, y |-> e.y]
  <2>1. \A i \in 1..9 : b[i] = EncodeEvent(e)[i]
    BY <1>2, MoveBytes DEF Agree
  <2>2. Has(b, 1) /\ Has(b, 9) /\ b[1] = Tag(e.kind)
    BY <1>2, <2>1, MoveBytes DEF Has
  <2>3. ASSUME NEW i \in 1..4
        PROVE  /\ b[2 + i - 1] = ToBeBytes(Unsigned(e.x))[i]
               /\ b[6 + i - 1] = ToBeBytes(Unsigned(e.y))[i]
    <3>1. /\ 2 + i - 1 = 1 + i /\ 1 + i \in 1..9
          /\ 6 + i - 1 = 5 + i /\ 5 + i \in 1..9
      OBVIOUS
    <3> QED BY <1>2, <2>1, <3>1, MoveBytes
  <2>4. FromBeBytes(b, 2) = Unsigned(e.x)
    <3> DEFINE u == Unsigned(e.x)
    <3>1. u \in 0..(U32 - 1) /\ \A i \in 1..4 : b[2 + i - 1] = ToBeBytes(u)[i]
      BY <1>2, <2>3, Signs
    <3> HIDE DEF u
    <3>2. FromBeBytes(b, 2) = u
      BY <3>1, FourBytes
    <3> QED BY <3>2 DEF u
  <2>5. FromBeBytes(b, 6) = Unsigned(e.y)
    <3> DEFINE u == Unsigned(e.y)
    <3>1. u \in 0..(U32 - 1) /\ \A i \in 1..4 : b[6 + i - 1] = ToBeBytes(u)[i]
      BY <1>2, <2>3, Signs
    <3> HIDE DEF u
    <3>2. FromBeBytes(b, 6) = u
      BY <3>1, FourBytes
    <3> QED BY <3>2 DEF u
  <2>6. Signed(FromBeBytes(b, 2)) = e.x /\ Signed(FromBeBytes(b, 6)) = e.y
    BY <1>2, <2>4, <2>5, Signs
  <2>7. CASE e.kind = "mouseMove"
    BY <1>2, <2>2, <2>6, <2>7, Tags DEF DecodeEvent
  <2>8. CASE e.kind = "scroll"
    BY <1>2, <2>2, <2>6, <2>8, Tags DEF DecodeEvent
  <2> QED BY <1>2, <2>7, <2>8 DEF MoveKinds
<1>3. CASE /\ e.kind = "mouseButton" /\ e.button \in Bytes /\ e.down \in BOOLEAN
           /\ e = [kind |-> "mouseButton", button |-> e.button, down |-> e.down]
  <2>1. Has(b, 1) /\ Has(b, 3) /\ b[1] = 3 /\ b[2] = e.button
        /\ b[3] = IF e.down THEN 1 ELSE 0
    BY <1>3, ButtonBytes DEF Has, Agree
  <2>2. (b[3] # 0) = e.down
    BY <1>3, <2>1
  <2> QED BY <1>3, <2>1, <2>2 DEF DecodeEvent
<1> QED BY <1>1, <1>2, <1>3, EventShapes

\* What is cut short is an error.
LEMMA DecodeShort ==
  ASSUME NEW e \in Events, NEW b \in Seq(Bytes), Len(b) < Len(EncodeEvent(e)),
         Agree(b, EncodeEvent(e))
  PROVE  DecodeEvent(b) = Failed
<1>0. Len(b) \in Nat
  BY LenProperties
<1>1. CASE e.kind \in KeyKinds /\ e.code \in Sample
  <2>1. ~Has(b, 5) /\ ~Has(b, 9) /\ (Has(b, 1) => b[1] = Tag(e.kind))
    BY <1>0, <1>1, KeyBytes DEF Has, Agree
  <2> QED BY <1>1, <2>1, Tags DEF DecodeEvent, KeyKinds
<1>2. CASE e.kind \in MoveKinds /\ e.x \in Ints /\ e.y \in Ints
  <2>1. ~Has(b, 9) /\ (Has(b, 1) => b[1] = Tag(e.kind))
    BY <1>0, <1>2, MoveBytes DEF Has, Agree
  <2> QED BY <1>2, <2>1, Tags DEF DecodeEvent, MoveKinds
<1>3. CASE e.kind = "mouseButton" /\ e.button \in Bytes
  <2>1. ~Has(b, 3) /\ (Has(b, 1) => b[1] = 3)
    BY <1>0, <1>3, ButtonBytes DEF Has, Agree
  <2> QED BY <2>1 DEF DecodeEvent
<1> QED BY <1>1, <1>2, <1>3, EventShapes

-----------------------------------------------------------------------------
InputInv ==
  /\ InputTypeOK
  /\ phase = "sent" => bytes = EncodeEvent(event)
  /\ DecodeInvertsEncode

\* Whatever the event, what is sent are bytes.
LEMMA EncodedIsBytes ==
  ASSUME NEW e \in Events
  PROVE  EncodeEvent(e) \in Seq(Bytes)
BY EventShapes, KeyBytes, MoveBytes, ButtonBytes

\* Nothing has been sent yet.
LEMMA InitIsInputInv ==
  ASSUME InputInit
  PROVE  InputInv
BY DEF InputInit, InputInv, InputTypeOK, DecodeInvertsEncode

\* Every step keeps the invariant.
LEMMA StepKeepsInputInv ==
  ASSUME InputInv, [InputNext]_inputVars
  PROVE  InputInv'
<1>1. CASE UNCHANGED inputVars
  BY <1>1 DEF inputVars, InputInv, InputTypeOK, DecodeInvertsEncode
<1>2. CASE SendEvent
  BY <1>2, EncodedIsBytes DEF SendEvent, InputInv, InputTypeOK, DecodeInvertsEncode
<1>3. CASE ReceiveEvent
  <2> DEFINE enc == EncodeEvent(event)
  <2>1. /\ event \in Events /\ event' = event /\ bytes = enc /\ enc \in Seq(Bytes)
        /\ phase' = "done" /\ decoded' = DecodeEvent(bytes')
    BY <1>3, EncodedIsBytes DEF ReceiveEvent, InputInv, InputTypeOK
  <2>2. Len(enc) \in Nat
    BY <2>1, LenProperties
  <2> HIDE DEF enc
  <2>3. bytes' \in Seq(Bytes) /\ Agree(bytes', enc)
    <3>1. ASSUME NEW n \in 0..Len(enc), bytes' = SubSeq(enc, 1, n)
          PROVE  bytes' \in Seq(Bytes) /\ Agree(bytes', enc)
      <4>1. \A i \in 1..n : enc[i] \in Bytes
        BY <2>1, <2>2, ElementOfSeq
      <4>2. /\ bytes' \in Seq(Bytes) /\ Len(bytes') = n
            /\ \A i \in 1..n : bytes'[i] = enc[i]
        BY <2>2, <3>1, <4>1, SubSeqProperties
      <4> QED BY <4>2 DEF Agree
    <3>2. ASSUME NEW b \in Bytes, bytes' = Append(enc, b)
          PROVE  bytes' \in Seq(Bytes) /\ Agree(bytes', enc)
      BY <2>1, <3>2, AppendProperties DEF Agree
    <3> QED BY <1>3, <2>1, <3>1, <3>2 DEF ReceiveEvent
  <2>4. decoded' = IF Len(bytes') >= Len(enc) THEN event ELSE Failed
    <3>1. Len(bytes') \in Nat
      BY <2>3, LenProperties
    <3> QED BY <2>1, <2>2, <2>3, <3>1, DecodeWhole, DecodeShort DEF enc
  <2>5. DecodeInvertsEncode'
    BY <2>1, <2>4 DEF DecodeInvertsEncode, enc
  <2>6. InputTypeOK'
    <3>1. event.kind \in {"keyDown", "keyUp", "mouseMove", "mouseButton", "scroll"}
      BY <2>1, EventShapes DEF KeyKinds, MoveKinds
    <3> QED BY <2>1, <2>3, <2>4, <3>1 DEF InputTypeOK
  <2> QED BY <2>1, <2>5, <2>6 DEF InputInv
<1> QED BY <1>1, <1>2, <1>3 DEF InputNext

\* Bytes of any width and numbers of four bytes: an event that arrives whole is
\* decoded to itself, one that is cut short is an error (input/mod.rs 19-94).
THEOREM EventsSurvive == InputSpec => []DecodeInvertsEncode
<1>1. InputInv => DecodeInvertsEncode
  BY DEF InputInv
<1> QED BY <1>1, InitIsInputInv, StepKeepsInputInv, PTL DEF InputSpec

-----------------------------------------------------------------------------
(* AccountBootstrap *)

\* Whatever is used, sent or registered is what the file holds; and a call that
\* is about to register an account that exists knows, so to speak, that it was
\* disturbed on its way.
AccountInv ==
  /\ AccountTypeOK
  /\ stored \in Credentials \/ (accounts = {} /\ late = {} /\ \A c \in Bootstraps : waitsFor[c] = "none")
  /\ \A c \in Bootstraps : waitsFor[c] # "none" => using[c] = stored
  /\ late \subseteq {stored}
  /\ AccountIsKept
  /\ \A c \in Bootstraps :
       waitsFor[c] = "register" /\ using[c] \in accounts => disturbed

-----------------------------------------------------------------------------

\* Every action of a call keeps the invariant.
LEMMA CallKeepsAccountInv ==
  ASSUME AccountInv, NEW c \in Bootstraps,
         \/ Bootstrap(c) \/ LoggedIn(c) \/ NotLoggedIn(c)
         \/ Registered(c) \/ Conflicts(c) \/ Unreached(c)
  PROVE  AccountInv'
<1> USE BootstrapType
    DEF AccountInv, AccountTypeOK, AccountIsKept, Credentials, NoFile, TornFile, Awaits, Returned
<1>1. ASSUME Bootstrap(c) PROVE AccountInv'
  BY <1>1 DEF Bootstrap, StoredNow
<1>2. ASSUME LoggedIn(c) PROVE AccountInv'
  BY <1>2 DEF LoggedIn
<1>3. ASSUME NotLoggedIn(c) PROVE AccountInv'
  BY <1>3 DEF NotLoggedIn
<1>4. ASSUME Registered(c) PROVE AccountInv'
  BY <1>4 DEF Registered, Register
<1>5. ASSUME Conflicts(c) PROVE AccountInv'
  BY <1>5 DEF Conflicts
<1>6. ASSUME Unreached(c) PROVE AccountInv'
  BY <1>6 DEF Unreached, Sent
<1> QED BY <1>1, <1>2, <1>3, <1>4, <1>5, <1>6

\* Every step keeps the invariant.
LEMMA StepKeepsAccountInv ==
  ASSUME AccountInv, [AccountNext]_accountVars
  PROVE  AccountInv'
<1> USE BootstrapType
    DEF AccountInv, AccountTypeOK, AccountIsKept, Credentials, NoFile, TornFile
<1>1. CASE UNCHANGED accountVars
  BY <1>1 DEF accountVars
<1>2. CASE KilledWhileWriting
  BY <1>2 DEF KilledWhileWriting
<1>3. CASE KillApp
  <2>1. Sent(Bootstraps) \subseteq {stored}
    BY DEF Sent
  <2>2. stored \notin Credentials => Sent(Bootstraps) = {}
    BY DEF Sent
  <2>3. late' \subseteq {stored} /\ (stored \notin Credentials => late' = {})
    BY <1>3, <2>1, <2>2 DEF KillApp
  <2> QED BY <1>3, <2>3 DEF KillApp
<1>4. CASE RegisteredLate
  <2>1. PICK creds \in late \ accounts :
          Register(creds, Bootstraps) /\ late' = late \ {creds}
    BY <1>4 DEF RegisteredLate
  <2>2. creds = stored /\ stored \in Credentials
    BY <2>1
  <2>3. UNCHANGED <<made, stored, cached, waitsFor, using, conflict>>
    BY <1>4 DEF RegisteredLate
  <2> QED BY <2>1, <2>2, <2>3 DEF Register
<1> HIDE DEF AccountInv
<1>5. ASSUME NEW c \in Bootstraps,
             \/ Bootstrap(c) \/ LoggedIn(c) \/ NotLoggedIn(c)
             \/ Registered(c) \/ Conflicts(c) \/ Unreached(c)
      PROVE  AccountInv'
  BY <1>5, CallKeepsAccountInv
<1> QED BY <1>1, <1>2, <1>3, <1>4, <1>5 DEF AccountNext

\* Nothing is stored, sent or registered at first.
LEMMA InitIsAccountInv ==
  ASSUME AccountInit
  PROVE  AccountInv
<1>1. AccountTypeOK
  <2>1. made \in 0..MaxMade
    BY BootstrapType DEF AccountInit
  <2>2. cached \in BOOLEAN /\ disturbed \in BOOLEAN /\ conflict \in BOOLEAN
    BY Zenon DEF AccountInit
  <2>3. /\ stored \in Credentials \cup {NoFile, TornFile}
        /\ accounts \subseteq Credentials /\ late \subseteq Credentials
    BY DEF AccountInit
  <2>4. /\ waitsFor \in [Bootstraps -> {"none", "login", "register"}]
        /\ using \in [Bootstraps -> Credentials \cup {NoFile}]
    BY DEF AccountInit
  <2> QED BY <2>1, <2>2, <2>3, <2>4 DEF AccountTypeOK
<1>2. \A c \in Bootstraps : waitsFor[c] = "none"
  BY DEF AccountInit
<1>3. accounts = {} /\ late = {} /\ conflict = FALSE
  BY DEF AccountInit
<1> QED BY <1>1, <1>2, <1>3 DEF AccountInv, AccountIsKept

\* The invariant holds in every state (desktop/main/accountIdentity.ts 37-84).
THEOREM AccountInductive == AccountSpec => []AccountInv
BY InitIsAccountInv, StepKeepsAccountInv, PTL DEF AccountSpec

\* The install's one account is the one whose credentials are stored, and it is
\* found taken only after a disturbance (desktop/main/accountIdentity.ts 48-50
\* and 63-84).
THEOREM OneAccount == AccountSpec => []AccountIsKept
<1>1. AccountInv => AccountIsKept
  BY DEF AccountInv
<1> QED BY <1>1, AccountInductive, PTL
=============================================================================
