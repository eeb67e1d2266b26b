------------------------------ MODULE CoreProofs ------------------------------
(***************************************************************************)
(* Proofs about ReplayGuard, for every width of the nonces and every         *)
(* window, about HostIdentity, for every number of restarts, and about all   *)
(* of the library's parts side by side (MCCore).                            *)
(***************************************************************************)
EXTENDS MCCore, MediaPathProofs, DesktopProofs

-----------------------------------------------------------------------------
(* ReplayGuard *)

\* highest is the greatest nonce accepted, and what the guard remembers is
\* what it has accepted inside the window: forgetting loses nothing above the
\* floor, because the floor never falls.
GuardInv ==
  /\ GuardTypeOK
  /\ highest = NoNonce => seen = {} /\ accepted = {}
  /\ highest # NoNonce =>
       /\ highest \in accepted
       /\ \A m \in accepted : m <= highest
       /\ seen = {m \in accepted : m >= Floor(highest)}

-----------------------------------------------------------------------------

\* The floor is inside the window: n is at or above it exactly if the top is
\* less than a window ahead of n.
LEMMA FloorIsTheWindow ==
  ASSUME NEW top \in Nonces, NEW n \in Nonces, window \in Nonces \ {0}
  PROVE  /\ n >= Floor(top) <=> top < n + window
         /\ top >= Floor(top)
BY MaxNonceType DEF Nonces, Floor, SaturatingSub

\* The floor rises with the top.
LEMMA FloorRises ==
  ASSUME NEW low \in Nonces, NEW top \in Nonces, low <= top, window \in Nonces \ {0},
         NEW n \in Nonces, n >= Floor(top)
  PROVE  n >= Floor(low)
BY MaxNonceType DEF Nonces, Floor, SaturatingSub

\* check_and_record keeps the invariant.
LEMMA StepKeepsGuardInv ==
  ASSUME GuardInv, [GuardNext]_guardVars
  PROVE  GuardInv'
<1>1. CASE UNCHANGED guardVars
  BY <1>1 DEF guardVars, GuardInv, GuardTypeOK, Floor, SaturatingSub
<1>2. ASSUME NEW n \in Nonces, CheckAndRecord(n), ~Accepts(n) PROVE GuardInv'
  BY <1>2 DEF CheckAndRecord, GuardInv, GuardTypeOK, Floor, SaturatingSub
<1>3. ASSUME NEW n \in Nonces, CheckAndRecord(n), Accepts(n) PROVE GuardInv'
  <2>1. /\ window' = window /\ window \in Nonces \ {0}
        /\ accepted' = accepted \cup {n}
        /\ highest' = IF n > highest THEN n ELSE highest
        /\ seen' = {n} \cup (IF n > highest THEN Keep(n) ELSE seen)
    BY <1>3 DEF CheckAndRecord, GuardInv, GuardTypeOK
  <2>2. GuardTypeOK'
    BY <2>1 DEF GuardInv, GuardTypeOK, Keep
  <2>3. highest' \in Nonces /\ highest' # NoNonce
    BY <2>1, MaxNonceType DEF GuardInv, GuardTypeOK, Nonces, NoNonce
  <2>4. highest' \in accepted' /\ \A m \in accepted' : m <= highest'
    BY <2>1, MaxNonceType DEF GuardInv, GuardTypeOK, Nonces, NoNonce
  <2>5. seen' = {m \in accepted' : m >= Floor(highest')}
    <3>1. CASE highest = NoNonce
      <4>1. accepted' = {n} /\ highest' = n /\ seen' = {n}
        BY <2>1, <3>1, MaxNonceType DEF GuardInv, Keep, Nonces, NoNonce
      <4> QED BY <4>1, <2>1, FloorIsTheWindow
    <3>2. CASE highest # NoNonce /\ n > highest
      <4>1. highest' = n /\ seen' = {n} \cup {m \in seen : m >= Floor(n)}
        BY <2>1, <3>2 DEF Keep
      <4>2. highest \in Nonces /\ highest <= n /\ accepted \subseteq Nonces
        BY <3>2 DEF GuardInv, GuardTypeOK, Nonces, NoNonce
      <4>3. seen = {m \in accepted : m >= Floor(highest)}
        BY <3>2 DEF GuardInv
      <4>4. n >= Floor(n)
        BY <2>1, FloorIsTheWindow
      <4>5. \A m \in accepted : m >= Floor(n) => m >= Floor(highest)
        BY <4>2, <2>1, FloorRises
      <4> QED BY <4>1, <4>3, <4>4, <4>5, <2>1
    <3>3. CASE highest # NoNonce /\ ~(n > highest)
      <4>1. highest' = highest /\ seen' = {n} \cup seen
        BY <2>1, <3>3
      <4>2. n >= Floor(highest)
        BY <1>3, <3>3 DEF Accepts
      <4>3. seen = {m \in accepted : m >= Floor(highest)}
        BY <3>3 DEF GuardInv
      <4> QED BY <4>1, <4>2, <4>3, <2>1
    <3> QED BY <3>1, <3>2, <3>3
  <2>6. Floor(highest)' = Floor(highest')
    BY <2>1 DEF Floor, SaturatingSub
  <2> QED BY <2>2, <2>3, <2>4, <2>5, <2>6 DEF GuardInv, NoNonce
<1> QED BY <1>1, <1>2, <1>3 DEF GuardNext

\* A guard that has seen nothing.
LEMMA InitIsGuardInv ==
  ASSUME GuardInit
  PROVE  GuardInv
BY DEF GuardInit, GuardInv, GuardTypeOK, NoNonce

\* The remembered nonces are exactly the accepted ones inside the window
\* (crypto/replay.rs 39-43).
THEOREM GuardInductive == GuardSpec => []GuardInv
BY InitIsGuardInv, StepKeepsGuardInv, PTL DEF GuardSpec

\* Forgetting what is below the floor changes no decision.
LEMMA GuardInvDecides ==
  ASSUME GuardInv
  PROVE  GuardDecidesRight
<1> SUFFICES ASSUME NEW n \in Nonces PROVE Accepts(n) <=> Fresh(n)
  BY DEF GuardDecidesRight
<1>1. window \in Nonces \ {0} /\ accepted \subseteq Nonces
  BY DEF GuardInv, GuardTypeOK
<1>2. CASE highest = NoNonce
  BY <1>2 DEF GuardInv, Accepts, Fresh
<1>3. CASE highest # NoNonce /\ n > highest
  <2>1. highest \in Nonces /\ \A m \in accepted : m <= highest
    BY <1>3 DEF GuardInv, GuardTypeOK, Nonces, NoNonce
  <2> QED BY <1>1, <1>3, <2>1, MaxNonceType DEF Accepts, Fresh, Nonces
<1>4. CASE highest # NoNonce /\ ~(n > highest)
  <2>1. /\ highest \in Nonces /\ highest \in accepted
        /\ \A m \in accepted : m <= highest
        /\ seen = {m \in accepted : m >= Floor(highest)}
    BY <1>4 DEF GuardInv, GuardTypeOK, Nonces, NoNonce
  <2>2. n >= Floor(highest) <=> highest < n + window
    BY <1>1, <2>1, FloorIsTheWindow
  <2>3. (\A m \in accepted : m < n + window) <=> highest < n + window
    BY <1>1, <2>1, MaxNonceType DEF Nonces
  <2>4. Accepts(n) <=> n >= Floor(highest) /\ n \notin seen
    BY <1>4 DEF Accepts
  <2> QED BY <2>1, <2>2, <2>3, <2>4 DEF Fresh
<1> QED BY <1>2, <1>3, <1>4

\* The sliding window decides like a guard that remembers every nonce
\* (crypto/replay.rs 32-59).
THEOREM GuardIsRight == GuardSpec => []GuardDecidesRight
BY GuardInductive, GuardInvDecides, PTL

-----------------------------------------------------------------------------
(* HostIdentity *)

\* The key is written after the certificate, and only while there is no key; so
\* a key file that exists stands beside the certificate it was generated with,
\* and neither changes any more.  A certificate the client has been given is
\* that one.
IdentityInv ==
  /\ IdentityTypeOK
  /\ keyFile # Absent => certFile \in Generations /\ keyFile \in {Empty, certFile}
  /\ pin # Absent => pin \in Generations /\ certFile = pin /\ keyFile = pin
  /\ pc \in {"create_cert", "write_cert", "create_key", "write_key"} => Usable(identity)
  /\ pc \in {"create_cert", "write_cert", "create_key"} => keyFile = Absent
  /\ pc \in {"create_key", "write_key"} => certFile = identity.cert
  /\ pc = "write_key" => keyFile = Empty
  /\ pc \in {"config", "listening"} => identity = [cert |-> certFile, key |-> keyFile] /\ Saved
  /\ pc = "listening" => Usable(identity)
  /\ pc = "panicked" => TornKey

\* Every step of the host, and every kill between two of them, keeps it.
LEMMA StepKeepsIdentityInv ==
  ASSUME IdentityInv, [IdentityNext]_identityVars
  PROVE  IdentityInv'
<1> USE MaxGeneratedType
    DEF IdentityInv, IdentityTypeOK, Usable, Saved, TornKey, Contents, Generations, Absent, Empty
<1>1. CASE UNCHANGED identityVars
  BY <1>1 DEF identityVars
<1>2. CASE StartHost
  <2>1. CASE Saved
    BY <1>2, <2>1 DEF StartHost, Startable
  <2>2. CASE ~Saved
    <3>1. /\ generated' = generated + 1 /\ generated' \in 1..MaxGenerated
          /\ identity' = [cert |-> generated', key |-> generated'] /\ pc' = "create_cert"
          /\ UNCHANGED <<certFile, keyFile, pin>>
      BY <1>2, <2>2 DEF StartHost
    <3>2. keyFile = Absent /\ pin = Absent
      BY <2>2
    <3> QED BY <3>1, <3>2
  <2> QED BY <2>1, <2>2
<1>3. CASE CreateCert
  BY <1>3 DEF CreateCert
<1>4. CASE WriteCert
  BY <1>4 DEF WriteCert
<1>5. CASE CreateKey
  BY <1>5 DEF CreateKey
<1>6. CASE WriteKey
  BY <1>6 DEF WriteKey
<1>7. CASE Configure
  BY <1>7 DEF Configure
<1>8. CASE Kill
  BY <1>8 DEF Kill, None
<1>9. CASE CopyCert
  BY <1>9 DEF CopyCert
<1> QED BY <1>1, <1>2, <1>3, <1>4, <1>5, <1>6, <1>7, <1>8, <1>9 DEF IdentityNext, HostStarts

\* Before the first start.
LEMMA InitIsIdentityInv ==
  ASSUME IdentityInit
  PROVE  IdentityInv
BY MaxGeneratedType
   DEF IdentityInit, IdentityInv, IdentityTypeOK, Contents, Generations, Absent, Empty, None

\* A host that listens serves the certificate the client was given, however
\* often it was killed and wherever; one that cannot start has a torn key
\* (bin/host.rs 76-92).  This is the part of ComesBackAsItself that needs no
\* fairness.
ServesWhatWasPinned ==
  /\ pc = "listening" /\ pin # Absent => Verifies(identity.cert)
  /\ pc = "panicked" => TornKey

\* The host's identity is stable across crashes (bin/host.rs 76-92).
THEOREM IdentityIsStable == IdentitySpec => []ServesWhatWasPinned
<1>1. IdentityInv => ServesWhatWasPinned
  BY DEF IdentityInv, ServesWhatWasPinned, Verifies, Absent
<1> QED BY <1>1, InitIsIdentityInv, StepKeepsIdentityInv, PTL DEF IdentitySpec

-----------------------------------------------------------------------------
(* The parts side by side *)

\* Every part's invariant.
CoreInv ==
  /\ GuardInv /\ IInv /\ BuffersInv /\ IdentityInv
  /\ NativeInv /\ CodecInv /\ InputInv /\ AccountInv

\* Each part starts in its own initial states.
LEMMA InitIsCoreInv ==
  ASSUME Init
  PROVE  CoreInv
BY InitIsGuardInv, InitIsIInv, InitIsBuffersInv, InitIsIdentityInv, InitIsNativeInv,
   InitIsCodecInv, InitIsInputInv, InitIsAccountInv DEF Init, CoreInv

\* A step of one part is a step of none of the others.
LEMMA PartsStepAlone ==
  ASSUME [Next]_partVars
  PROVE  /\ [GuardNext]_guardVars /\ [MediaNext]_mediaVars /\ [IdentityNext]_identityVars
         /\ [NativeNext]_nativeVars /\ [CodecNext]_codecVars /\ [InputNext]_inputVars
         /\ [AccountNext]_accountVars
<1>1. CASE UNCHANGED partVars
  BY <1>1 DEF partVars
<1>2. CASE GuardPart
  BY <1>2 DEF GuardPart
<1>3. CASE MediaPart
  BY <1>3 DEF MediaPart
<1>4. CASE IdentityPart
  BY <1>4 DEF IdentityPart
<1>5. CASE NativePart
  BY <1>5 DEF NativePart
<1>6. CASE CodecPart
  BY <1>6 DEF CodecPart
<1>7. CASE InputPart
  BY <1>7 DEF InputPart
<1>8. CASE AccountPart
  BY <1>8 DEF AccountPart
<1> QED BY <1>1, <1>2, <1>3, <1>4, <1>5, <1>6, <1>7, <1>8 DEF Next

\* Whichever part steps, every invariant is kept.
LEMMA StepKeepsCoreInv ==
  ASSUME CoreInv, [Next]_partVars
  PROVE  CoreInv'
<1>1. GuardInv' /\ IdentityInv'
  BY PartsStepAlone, StepKeepsGuardInv, StepKeepsIdentityInv DEF CoreInv
<1>2. IInv' /\ BuffersInv'
  BY PartsStepAlone, StepKeepsIInv, StepKeepsBuffersInv DEF CoreInv
<1>3. NativeInv' /\ CodecInv' /\ InputInv' /\ AccountInv'
  BY PartsStepAlone, StepKeepsNativeInv, StepKeepsCodecInv, StepKeepsInputInv,
     StepKeepsAccountInv DEF CoreInv
<1> QED BY <1>1, <1>2, <1>3 DEF CoreInv

\* Every variable of every part keeps its type, and every counter stays inside
\* its limit.
THEOREM CoreIsTyped == Spec => []TypeOK
<1>1. CoreInv => TypeOK
  BY MediaIsTyped, NativeIsTyped, CodecIsTyped
     DEF CoreInv, GuardInv, IdentityInv, InputInv, AccountInv, TypeOK
<1> QED BY <1>1, InitIsCoreInv, StepKeepsCoreInv, PTL DEF Spec
=============================================================================
