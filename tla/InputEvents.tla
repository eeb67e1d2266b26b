----------------------------- MODULE InputEvents -----------------------------
(***************************************************************************)
(* The encoding of keyboard, mouse and scroll events                        *)
(* (core/nexdesk-core/src/input/mod.rs) and the addon's functions over it    *)
(* (desktop/native/src/lib.rs).  A u32 is four digits of a base that is 256  *)
(* in the code, an i32 is the same four digits in two's complement.         *)
(*                                                                         *)
(* One event is encoded, the network may cut the bytes short or append some, *)
(* and the result is decoded.                                               *)
(*                                                                         *)
(* A definition whose comment says "Mistake" is the definition after it     *)
(* with a plausible error; no action of the specification uses it.          *)
(***************************************************************************)
EXTENDS Integers, Sequences

CONSTANTS
  ByteBase,  \* 256 in the code; even
  Sample     \* bound: the values of integers that are tried, as u32

Bytes == 0..(ByteBase - 1)
U32 == ByteBase * ByteBase * ByteBase * ByteBase

ASSUME InputType == ByteBase \in Nat /\ ByteBase > 5 /\ Sample \subseteq 0..(U32 - 1)

VARIABLES
  event,    \* what was captured
  bytes,    \* what travels
  phase,    \* "captured", "sent" or "done"
  decoded   \* what decode() returned

inputVars == <<event, bytes, phase, decoded>>

\* `as i32` and `as u32`.
Signed(u) == IF u < U32 \div 2 THEN u ELSE u - U32
Unsigned(i) == IF i < 0 THEN i + U32 ELSE i

Ints == {Signed(u) : u \in Sample}

Events ==
  [kind : {"keyDown", "keyUp"}, code : Sample]
    \cup [kind : {"mouseMove", "scroll"}, x : Ints, y : Ints]
    \cup [kind : {"mouseButton"}, button : Bytes, down : BOOLEAN]

Failed == [kind |-> "error"]

\* `n >> 8`, and the byte that falls out.
Upper(n) == n \div ByteBase
Lower(n) == n % ByteBase

\* Mistake: least significant byte first.
LittleEndian(u) == <<Lower(u), Lower(Upper(u)), Lower(Upper(Upper(u))), Upper(Upper(Upper(u)))>>

ToBeBytes(u) == <<Upper(Upper(Upper(u))), Lower(Upper(Upper(u))), Lower(Upper(u)), Lower(u)>>

FromBeBytes(b, n) ==
  ((b[n] * ByteBase + b[n + 1]) * ByteBase + b[n + 2]) * ByteBase + b[n + 3]

Tag(kind) ==
  CASE kind = "keyDown" -> 0 [] kind = "keyUp" -> 1 [] kind = "mouseMove" -> 2
    [] kind = "mouseButton" -> 3 [] kind = "scroll" -> 4

\* InputEvent::encode; a scroll's dx and dy are its x and y.
EncodeEvent(e) ==
  <<Tag(e.kind)>> \o
    CASE e.kind \in {"keyDown", "keyUp"} -> ToBeBytes(e.code)
      [] e.kind \in {"mouseMove", "scroll"} -> ToBeBytes(Unsigned(e.x)) \o ToBeBytes(Unsigned(e.y))
      [] e.kind = "mouseButton" -> <<e.button, IF e.down THEN 1 ELSE 0>>

\* Enough bytes are there; more do not matter.
Has(b, n) == Len(b) >= n

\* InputEvent::decode.
DecodeEvent(b) ==
  IF ~Has(b, 1) THEN Failed
  ELSE CASE b[1] \in {0, 1} /\ Has(b, 5) ->
              [kind |-> IF b[1] = 0 THEN "keyDown" ELSE "keyUp", code |-> FromBeBytes(b, 2)]
         [] b[1] \in {2, 4} /\ Has(b, 9) ->
              [kind |-> IF b[1] = 2 THEN "mouseMove" ELSE "scroll",
               x |-> Signed(FromBeBytes(b, 2)), y |-> Signed(FromBeBytes(b, 6))]
         [] b[1] = 3 /\ Has(b, 3) ->
              [kind |-> "mouseButton", button |-> b[2], down |-> b[3] # 0]
         [] OTHER -> Failed

InputInit ==
  /\ event \in Events
  /\ bytes = <<>> /\ phase = "captured" /\ decoded = Failed

SendEvent ==
  /\ phase = "captured" /\ phase' = "sent"
  /\ bytes' = EncodeEvent(event)
  /\ UNCHANGED <<event, decoded>>

\* The bytes arrive as they are, cut short, or followed by another byte.
ReceiveEvent ==
  /\ phase = "sent" /\ phase' = "done"
  /\ \/ \E n \in 0..Len(bytes) : bytes' = SubSeq(bytes, 1, n)
     \/ \E b \in Bytes : bytes' = Append(bytes, b)
  /\ decoded' = DecodeEvent(bytes')
  /\ UNCHANGED event

InputNext == SendEvent \/ ReceiveEvent

InputSpec == InputInit /\ [][InputNext]_inputVars

-----------------------------------------------------------------------------
InputTypeOK ==
  /\ event \in Events
  /\ bytes \in Seq(Bytes)
  /\ phase \in {"captured", "sent", "done"}
  /\ decoded = Failed \/ decoded.kind \in {"keyDown", "keyUp", "mouseMove", "mouseButton", "scroll"}

\* What arrives whole is decoded to what was captured, to the sign of every
\* number, and what does not is an error and no other event
\* (input/mod.rs 19-94).
DecodeInvertsEncode ==
  phase = "done" =>
    decoded = IF Len(bytes) >= Len(EncodeEvent(event)) THEN event ELSE Failed
=============================================================================
