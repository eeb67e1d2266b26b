-------------------------------- MODULE MCCore --------------------------------
(***************************************************************************)
(* The library's parts that share no state, each on its own in one run: the *)
(* initial state chooses a part and only that part steps, so that the state *)
(* spaces are added, not multiplied.                                        *)
(***************************************************************************)
EXTENDS ReplayGuard, MediaPath, HostIdentity, NativeSession, Codec, InputEvents,
        AccountBootstrap

VARIABLE part  \* the part that steps

partVars == <<part, guardVars, mediaVars, identityVars, nativeVars, codecVars, inputVars, accountVars>>

\* Frames 1 and 2 have two chunks, the others one.
MCChunksOf == [f \in Frames |-> IF f \in {1, 2} THEN 2 ELSE 1]

\* 0, 1, the largest i32, the smallest, and -1.
MCSample == {0, 1, U32 \div 2 - 1, U32 \div 2, U32 - 1}

PartNames == {"guard", "media", "identity", "native", "codec", "input", "account"}

Others(p) ==
  /\ p # "guard" => window = 1
  /\ p # "native" => kind["B"] = "desktop"
  /\ p # "codec" => codec = "encoder"
  /\ p # "input" => event = [kind |-> "keyDown", code |-> 0]

Init ==
  /\ part \in PartNames
  /\ GuardInit /\ MediaInit /\ IdentityInit /\ NativeInit /\ CodecInit /\ InputInit /\ AccountInit
  /\ Others(part)

GuardPart ==
  /\ part = "guard" /\ GuardNext
  /\ UNCHANGED <<part, mediaVars, identityVars, nativeVars, codecVars, inputVars, accountVars>>

MediaPart ==
  /\ part = "media" /\ MediaNext
  /\ UNCHANGED <<part, guardVars, identityVars, nativeVars, codecVars, inputVars, accountVars>>

IdentityPart ==
  /\ part = "identity" /\ IdentityNext
  /\ UNCHANGED <<part, guardVars, mediaVars, nativeVars, codecVars, inputVars, accountVars>>

NativePart ==
  /\ part = "native" /\ NativeNext
  /\ UNCHANGED <<part, guardVars, mediaVars, identityVars, codecVars, inputVars, accountVars>>

CodecPart ==
  /\ part = "codec" /\ CodecNext
  /\ UNCHANGED <<part, guardVars, mediaVars, identityVars, nativeVars, inputVars, accountVars>>

InputPart ==
  /\ part = "input" /\ InputNext
  /\ UNCHANGED <<part, guardVars, mediaVars, identityVars, nativeVars, codecVars, accountVars>>

AccountPart ==
  /\ part = "account" /\ AccountNext
  /\ UNCHANGED <<part, guardVars, mediaVars, identityVars, nativeVars, codecVars, inputVars>>

Next ==
  \/ GuardPart \/ MediaPart \/ IdentityPart \/ NativePart
  \/ CodecPart \/ InputPart \/ AccountPart

Spec == Init /\ [][Next]_partVars /\ MediaFairness /\ IdentityFairness /\ NativeFairness

\* Every part's variables keep their types, and its counters their limits.
TypeOK ==
  /\ GuardTypeOK /\ MediaTypeOK /\ IdentityTypeOK
  /\ NativeTypeOK /\ CodecTypeOK /\ InputTypeOK /\ AccountTypeOK
=============================================================================
