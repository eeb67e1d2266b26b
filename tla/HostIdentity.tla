----------------------------- MODULE HostIdentity -----------------------------
(***************************************************************************)
(* The certificate a host listens with and the one a client trusts          *)
(* (core/nexdesk-core/src/bin/host.rs, crypto/tls.rs): the host saves what   *)
(* it generates in two files, each truncated and then written, and may be    *)
(* killed anywhere; the client compares with the copy it was given.          *)
(*                                                                         *)
(* Certificates and keys are the number of the generation they come from.   *)
(* A disk or a port that fails ends the host like a crash.                  *)
(*                                                                         *)
(* A definition whose comment says "Mistake" is the definition after it     *)
(* with a plausible error; no action of the specification uses it.          *)
(***************************************************************************)
EXTENDS Integers

CONSTANT MaxGenerated  \* bound: certificates generated

ASSUME MaxGeneratedType == MaxGenerated \in Nat \ {0}

VARIABLES
  pc,         \* where main() of the host is; "killed" also before the first start
  generated,  \* certificates generated so far
  certFile, keyFile,
  identity,   \* the DevCertificate in memory
  pin         \* the client's --cert

identityVars == <<pc, generated, certFile, keyFile, identity, pin>>

Generations == 1..MaxGenerated
Absent == -1
Empty == 0
Contents == Generations \cup {Absent, Empty}
None == [cert |-> Empty, key |-> Empty]

IdentityInit ==
  /\ pc = "killed" /\ generated = 0
  /\ certFile = Absent /\ keyFile = Absent
  /\ identity = None /\ pin = Absent

Startable == pc \in {"killed", "panicked"}

\* Mistake: what an earlier run saved is never used.
NeverSaved == FALSE

\* Both files can be read; what is in them is not looked at.
Saved == certFile # Absent /\ keyFile # Absent

\* main() up to the match: read both files, or generate.
StartHost ==
  /\ Startable
  /\ IF Saved
     THEN /\ identity' = [cert |-> certFile, key |-> keyFile]
          /\ pc' = "config"
          /\ UNCHANGED generated
     ELSE /\ generated < MaxGenerated
          /\ generated' = generated + 1
          /\ identity' = [cert |-> generated', key |-> generated']
          /\ pc' = "create_cert"
  /\ UNCHANGED <<certFile, keyFile, pin>>

\* fs::write opens the file, which empties it, and then writes.
CreateCert ==
  /\ pc = "create_cert" /\ pc' = "write_cert" /\ certFile' = Empty
  /\ UNCHANGED <<generated, keyFile, identity, pin>>

WriteCert ==
  /\ pc = "write_cert" /\ pc' = "create_key" /\ certFile' = identity.cert
  /\ UNCHANGED <<generated, keyFile, identity, pin>>

CreateKey ==
  /\ pc = "create_key" /\ pc' = "write_key" /\ keyFile' = Empty
  /\ UNCHANGED <<generated, certFile, identity, pin>>

WriteKey ==
  /\ pc = "write_key" /\ pc' = "config" /\ keyFile' = identity.key
  /\ UNCHANGED <<generated, certFile, identity, pin>>

\* rustls takes a certificate and its key, nothing else; expect() panics.
Usable(id) == id.cert \in Generations /\ id.key = id.cert

Configure ==
  /\ pc = "config"
  /\ pc' = IF Usable(identity) THEN "listening" ELSE "panicked"
  /\ UNCHANGED <<generated, certFile, keyFile, identity, pin>>

Kill ==
  /\ ~Startable
  /\ pc' = "killed" /\ identity' = None
  /\ UNCHANGED <<generated, certFile, keyFile, pin>>

\* The client is given the certificate of a host that listens, once.
CopyCert ==
  /\ pc = "listening" /\ pin = Absent
  /\ pin' = certFile
  /\ UNCHANGED <<pc, generated, certFile, keyFile, identity>>

\* PinnedCertVerifier: the certificates are the same bytes.
Verifies(served) == served = pin

HostStarts == CreateCert \/ WriteCert \/ CreateKey \/ WriteKey \/ Configure
IdentityNext == StartHost \/ HostStarts \/ Kill \/ CopyCert

IdentitySpec == IdentityInit /\ [][IdentityNext]_identityVars

\* A host that has been started goes on; nobody has to start it.
IdentityFairness == WF_identityVars(HostStarts)

-----------------------------------------------------------------------------
IdentityTypeOK ==
  /\ pc \in {"killed", "panicked", "listening", "create_cert", "write_cert",
             "create_key", "write_key", "config"}
  /\ generated \in 0..MaxGenerated
  /\ certFile \in Contents /\ keyFile \in Contents
  /\ identity \in [cert : Contents, key : Contents]
  /\ pin \in Contents

\* The key file was left empty: an earlier host was killed inside its fs::write
\* of the key (bin/host.rs 86), and ever since both files can be read.
TornKey == pc = "panicked" /\ certFile \in Generations /\ keyFile = Empty

\* A host that is started comes to listen, and the client that was given its
\* certificate before trusts it; otherwise it is killed or finds a torn key
\* (bin/host.rs 76-92: a stable identity).
ComesBackAsItself ==
  ~Startable ~> \/ pc = "listening" /\ (pin # Absent => Verifies(identity.cert))
                \/ pc = "killed"
                \/ TornKey
=============================================================================
