-------------------------------- MODULE Codec --------------------------------
(***************************************************************************)
(* The codec's handles (core/ffi/src/codec.rs over codec/src): what the    *)
(* C++ functions allocate and free, call by call of the libraries, each of   *)
(* which may fail.  One Encoder or Decoder at a time; its owner calls it     *)
(* as often as it likes and then drops it, or an assertion about the status  *)
(* fails and it is dropped while the panic unwinds.                         *)
(*                                                                         *)
(* A definition whose comment says "Mistake" is the definition after it     *)
(* with a plausible error; no action of the specification uses it.          *)
(***************************************************************************)
EXTENDS Integers

VARIABLES
  codec,   \* which codec is used: "encoder" or "decoder"
  step,    \* the library call that is next, or "idle"
  owned,   \* a Rust value holds the handle
  heap     \* how often each kind of object is allocated

codecVars == <<codec, step, owned, heap>>

Things == {"handle", "struct", "picture", "packet", "frame", "payload", "image", "buffer"}

\* What a handle consists of while no call is running.
Parts(c) == IF c = "encoder" THEN {"handle", "struct", "picture"}
            ELSE {"handle", "struct", "packet", "frame"}

CodecInit ==
  /\ codec \in {"encoder", "decoder"}
  /\ step = "idle" /\ owned = FALSE
  /\ heap = [t \in Things |-> 0]

Allocated(ts) == [t \in Things |-> IF t \in ts THEN heap[t] + 1 ELSE heap[t]]

\* A packet is freed with the payload it holds, a frame with its image.
Inside(ts) ==
  {t \in {"payload", "image"} :
     heap[t] > 0 /\ (IF t = "payload" THEN "packet" ELSE "frame") \in ts}

Freed(ts) == [t \in Things |-> IF t \in ts \cup Inside(ts) THEN heap[t] - 1 ELSE heap[t]]

\* av_packet_unref, av_frame_unref: the contents go if there are any.
Unref(t) == [heap EXCEPT ![t] = IF @ > 0 THEN @ - 1 ELSE 0]

Proceed(next) == step' = next /\ UNCHANGED <<codec, owned>>

\* nd_encoder_create, nd_decoder_create; bad parameters are refused at once.
Create ==
  /\ step = "idle" /\ ~owned
  /\ Proceed(IF codec = "encoder" THEN "open" ELSE "context")
  /\ UNCHANGED heap

\* x264_encoder_open.
OpenEncoder ==
  /\ step = "open"
  /\ \/ Proceed("idle") /\ UNCHANGED heap
     \/ Proceed("struct") /\ heap' = Allocated({"handle"})

\* avcodec_alloc_context3.
AllocContext ==
  /\ step = "context"
  /\ \/ Proceed("idle") /\ UNCHANGED heap
     \/ Proceed("open2") /\ heap' = Allocated({"handle"})

\* avcodec_open2; if it fails the context is freed.
OpenDecoder ==
  /\ step = "open2"
  /\ \/ Proceed("idle") /\ heap' = Freed({"handle"})
     \/ Proceed("packet") /\ UNCHANGED heap

\* av_packet_alloc and av_frame_alloc, both whatever the first one returns.
AllocPacket ==
  /\ step = "packet" /\ Proceed("frame")
  /\ UNCHANGED heap \/ heap' = Allocated({"packet"})

AllocFrame ==
  /\ step = "frame" /\ Proceed("check")
  /\ UNCHANGED heap \/ heap' = Allocated({"frame"})

\* Mistake: what was allocated after the handle is forgotten.
HandleOnly == {"handle"}

\* What is freed when a handle is given up halfway: freeing null does nothing.
Made == {t \in {"handle", "packet", "frame"} : heap[t] > 0}

\* Both are there, or what is there is freed.
CheckBoth ==
  /\ step = "check"
  /\ IF {"packet", "frame"} \subseteq Made THEN Proceed("struct") /\ UNCHANGED heap
     ELSE Proceed("idle") /\ heap' = Freed(Made)

\* new (std::nothrow).
AllocStruct ==
  /\ step = "struct"
  /\ \/ Proceed("idle") /\ heap' = Freed(Made)
     \/ /\ heap' = Allocated({"struct"})
        /\ IF codec = "encoder" THEN Proceed("picture")
           ELSE step' = "idle" /\ owned' = TRUE /\ UNCHANGED codec

\* x264_picture_alloc.
AllocPicture ==
  /\ step = "picture"
  /\ \/ Proceed("idle") /\ heap' = Freed({"handle", "struct"})
     \/ /\ heap' = Allocated({"picture"})
        /\ step' = "idle" /\ owned' = TRUE /\ UNCHANGED codec

\* Drop: nd_encoder_destroy, nd_decoder_destroy.
Destroy == heap' = Freed(Parts(codec)) /\ step' = "idle" /\ owned' = FALSE /\ UNCHANGED codec

DropHandle == step = "idle" /\ owned /\ Destroy

-----------------------------------------------------------------------------
\* encode(): x264_encoder_encode fails, keeps the frame, or has a frame ready;
\* decode(): av_new_packet fails or the packet is there.
Encode ==
  /\ step = "idle" /\ owned /\ codec = "encoder"
  /\ UNCHANGED heap
  /\ \/ Proceed("panic") \/ Proceed("idle") \/ Proceed("malloc")

Decode ==
  /\ step = "idle" /\ owned /\ codec = "decoder"
  /\ \/ Proceed("panic") /\ UNCHANGED heap
     \/ Proceed("send") /\ heap' = Allocated({"payload"})

\* avcodec_send_packet; the packet is emptied whatever it returns, and EAGAIN
\* goes on like success.
SendPacket ==
  /\ step = "send"
  /\ heap' = Unref("payload")
  /\ Proceed("panic") \/ Proceed("receive")

\* avcodec_receive_frame empties the frame: an error, nothing yet, or a picture.
ReceiveFrame ==
  /\ step = "receive"
  /\ \/ (Proceed("panic") \/ Proceed("idle")) /\ heap' = Unref("image")
     \/ Proceed("format") /\ heap' = [Unref("image") EXCEPT !["image"] = @ + 1]

\* A pixel format that is not I420 is refused.
CheckFormat ==
  /\ step = "format"
  /\ \/ Proceed("panic") /\ heap' = Unref("image")
     \/ Proceed("malloc") /\ UNCHANGED heap

\* malloc and the copy into the buffer; a decoder then empties the frame.
FillBuffer ==
  /\ step = "malloc"
  /\ IF codec = "encoder"
     THEN \/ Proceed("panic") /\ UNCHANGED heap
          \/ Proceed("copy") /\ heap' = Allocated({"buffer"})
     ELSE \/ Proceed("panic") /\ heap' = Unref("image")
          \/ Proceed("copy") /\ heap' = [Unref("image") EXCEPT !["buffer"] = @ + 1]

\* to_vec and nd_buffer_free.
TakeBuffer == step = "copy" /\ heap' = Freed({"buffer"}) /\ Proceed("idle")

\* assert_eq!(status, 0) fails; unwinding drops the Encoder or Decoder.
Panic == step = "panic" /\ Destroy

CodecNext ==
  \/ Create \/ OpenEncoder \/ AllocContext \/ OpenDecoder
  \/ AllocPacket \/ AllocFrame \/ CheckBoth \/ AllocStruct \/ AllocPicture
  \/ Encode \/ Decode \/ SendPacket \/ ReceiveFrame \/ CheckFormat \/ FillBuffer
  \/ TakeBuffer \/ Panic \/ DropHandle

CodecSpec == CodecInit /\ [][CodecNext]_codecVars

-----------------------------------------------------------------------------
CodecTypeOK ==
  /\ codec \in {"encoder", "decoder"}
  /\ step \in {"idle", "open", "context", "open2", "packet", "frame", "check", "struct",
               "picture", "send", "receive", "format", "malloc", "copy", "panic"}
  /\ owned \in BOOLEAN
  /\ heap \in [Things -> Int]

\* Between two calls exactly the parts of the handle are allocated, each once, or
\* nothing if there is none, whichever library call failed on the way, also when
\* the codec is not opened or only one of packet and frame is allocated
\* (codec/src/encoder.cpp 41-59 and 96-112, decoder.cpp 25-49 and 69-117):
\* nothing leaks, nothing is freed twice, and packet and frame are left empty.
NothingLeaks ==
  step = "idle" =>
    heap = [t \in Things |-> IF owned /\ t \in Parts(codec) THEN 1 ELSE 0]
=============================================================================
