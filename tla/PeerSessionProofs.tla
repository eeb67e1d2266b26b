-------------------------- MODULE PeerSessionProofs --------------------------
(***************************************************************************)
(* Proofs about PeerSession, for any number of connections, any number of    *)
(* heartbeats and any backoff.                                              *)
(***************************************************************************)
EXTENDS PeerSession, WellFoundedInduction, TLAPS

\* The types the argument needs.
TypeInv ==
  /\ mode \in {"direct", "relay"}
  /\ DOMAIN main = Sides
  /\ attempt \in 0..MaxAttempts
  /\ at \in [Ends -> Places]
  /\ machine \in [Ends -> States]

\* The states a Session may be in while its task is somewhere.
Good(place, state) ==
  /\ place \in {"none", "backlog"} => state = "idle"
  /\ place \in {"dialing", "tls", "hello", "await"} => state = "handshaking"
  /\ place = "loop" => state = "established"
  /\ place = "over" => state \in {"handshaking", "closed"}

MachineInv ==
  \A e \in Ends :
    Current(e) /\ Running(Side(e)) => Good(at[e], machine[Owner(e)])

\* Of the client's connections only the current one is used.
ClientInv ==
  \A k \in Connections :
    /\ at[<<"client", k>>] # "backlog"
    /\ k # attempt => at[<<"client", k>>] \in {"none", "over"}
    /\ k > attempt => at[<<"client", k>>] = "none"

\* In direct mode the host knows a connection once the client has made it, and
\* the client is done with one connection before it dials the next.
DirectInv ==
  mode = "direct" =>
    /\ \A k \in Connections :
         /\ at[<<"host", k>>] # "dialing"
         /\ k > attempt \/ at[<<"client", k>>] = "dialing" => at[<<"host", k>>] = "none"
    /\ attempt = 0 => machine[<<"client", 1>>] = "idle"
    /\ main["client"] \in {"top", "sleep"} =>
         attempt = 0 \/ at[<<"client", attempt>>] = "over"

\* In relay mode there is one connection, and a program that has not been
\* started has touched nothing.
RelayInv ==
  /\ main["client"] = "sleep" => mode = "direct"
  /\ mode = "relay" =>
       /\ attempt \in {0, 1}
       /\ attempt = 0 => \A s \in Sides : main[s] = "top"
       /\ \A s \in Sides : main[s] = "top" =>
            \A k \in Connections : at[<<s, k>>] = "none" /\ machine[<<s, k>>] = "idle"
       /\ \A k \in Connections : k > 1 => at[<<"host", k>>] = "none"

IInv == TypeInv /\ MachineInv /\ ClientInv /\ DirectInv /\ RelayInv

-----------------------------------------------------------------------------

\* What the session machine does with the events it is given, refused ones
\* included.
LEMMA Transitions ==
  /\ Handle(Handle("idle", "Connect"), "HandshakeStart") = "handshaking"
  /\ Handle(Handle("closed", "Connect"), "HandshakeStart") = "handshaking"
  /\ Handle(Handle("handshaking", "Connect"), "HandshakeStart") = "handshaking"
  /\ Handle("handshaking", "HandshakeComplete") = "established"
  /\ Handle(Handle("established", "Disconnect"), "Closed") = "closed"
BY DEF Handle

\* Handling an event leads to a state.
LEMMA HandleType ==
  ASSUME NEW state \in States, NEW event
  PROVE  Handle(state, event) \in States
BY DEF Handle, States

\* Ends and their owners.
LEMMA OwnersAreEnds ==
  ASSUME NEW e \in Ends
  PROVE  /\ Owner(e) \in Ends /\ Side(Owner(e)) = Side(e) /\ Peer(e) \in Ends
         /\ Side(e) \in Sides /\ e[2] \in Connections /\ e = <<Side(e), e[2]>>
BY BoundsType DEF Ends, Sides, Connections, Owner, Side, Peer

\* A task takes a step: its end goes to another place and its machine along
\* with it.  A task that can take one works on the current connection.
LEMMA TaskStep ==
  ASSUME IInv, NEW e \in Ends, at[e] \notin {"none", "over"},
         UNCHANGED <<mode, main, attempt>>,
         NEW place \in Places \ {"none", "backlog", "dialing"}, NEW state \in States,
         at' = [at EXCEPT ![e] = place],
         machine' = [machine EXCEPT ![Owner(e)] = state],
         Running(Side(e)) /\ Current(e) => Good(place, state)
  PROVE  IInv'
<1>1. TypeInv'
  BY OwnersAreEnds DEF IInv, TypeInv
<1>2. MachineInv'
  <2> SUFFICES ASSUME NEW d \in Ends, Current(d), Running(Side(d))
               PROVE  Good(at'[d], machine'[Owner(d)])
    BY DEF MachineInv, Current, Running, Side
  <2>1. CASE d = e
    BY <2>1, OwnersAreEnds DEF IInv, TypeInv
  <2>2. CASE d # e
    <3>1. Owner(d) # Owner(e)
      <4>1. Current(e)
        BY OwnersAreEnds DEF IInv, ClientInv, Current, Side, Sides
      <4> QED BY <4>1, <2>2, OwnersAreEnds DEF Current, Owner, Side, Sides
    <3> QED BY <3>1, <2>2, OwnersAreEnds DEF IInv, TypeInv, MachineInv
  <2> QED BY <2>1, <2>2
<1>3. ClientInv'
  BY OwnersAreEnds DEF IInv, TypeInv, ClientInv, Ends, Sides
<1>4. DirectInv'
  <2> SUFFICES ASSUME mode = "direct"
               PROVE  /\ \A k \in Connections :
                           /\ at'[<<"host", k>>] # "dialing"
                           /\ k > attempt \/ at'[<<"client", k>>] = "dialing"
                                => at'[<<"host", k>>] = "none"
                      /\ attempt = 0 => machine'[<<"client", 1>>] = "idle"
                      /\ main["client"] \in {"top", "sleep"} =>
                           attempt = 0 \/ at'[<<"client", attempt>>] = "over"
    BY DEF DirectInv
  <2>1. ASSUME NEW k \in Connections
        PROVE  /\ at'[<<"host", k>>] # "dialing"
               /\ k > attempt \/ at'[<<"client", k>>] = "dialing"
                    => at'[<<"host", k>>] = "none"
    <3>1. <<"host", k>> \in Ends /\ <<"client", k>> \in Ends
      BY DEF Ends, Sides
    <3> QED BY <3>1 DEF IInv, TypeInv, DirectInv
  <2>2. attempt = 0 => machine'[<<"client", 1>>] = "idle"
    <3>1. ASSUME attempt = 0 PROVE Side(e) = "host"
      BY <3>1, OwnersAreEnds, BoundsType DEF IInv, ClientInv, Connections, Sides
    <3>2. ASSUME attempt = 0 PROVE machine'[<<"client", 1>>] = machine[<<"client", 1>>]
      BY <3>1, <3>2, OwnersAreEnds DEF Owner, Side, IInv, TypeInv
    <3> QED BY <3>2 DEF IInv, DirectInv
  <2>3. attempt # 0 => <<"client", attempt>> \in Ends
    BY DEF IInv, TypeInv, Ends, Sides, Connections
  <2>4. at[<<"client", attempt>>] = "over" /\ attempt # 0 => at'[<<"client", attempt>>] = "over"
    BY <2>3 DEF IInv, TypeInv
  <2> QED BY <2>1, <2>2, <2>4 DEF IInv, DirectInv
<1>5. RelayInv'
  <2>1. ASSUME NEW s \in Sides, NEW k \in Connections,
               \A j \in Connections : at[<<s, j>>] = "none" /\ machine[<<s, j>>] = "idle"
        PROVE  at'[<<s, k>>] = "none" /\ machine'[<<s, k>>] = "idle"
    <3>1. Side(e) # s
      BY <2>1, OwnersAreEnds
    <3>2. <<s, k>> \in Ends /\ <<s, k>> # e /\ <<s, k>> # Owner(e)
      BY <3>1, OwnersAreEnds DEF Ends, Side
    <3> QED BY <2>1, <3>2 DEF IInv, TypeInv
  <2> QED BY <2>1 DEF IInv, RelayInv
<1> QED BY <1>1, <1>2, <1>3, <1>4, <1>5 DEF IInv

\* A program ends: its tasks are over, and nobody asks for its machines any more.
LEMMA EndKeepsIInv ==
  ASSUME IInv, NEW s \in Sides, NEW how \in {"gone", "crashed"}, Running(s), End(s, how),
         UNCHANGED <<mode, attempt, machine>>
  PROVE  IInv'
<1>1. /\ main' = [main EXCEPT ![s] = how] /\ main'[s] = how
      /\ \A r \in Sides : r # s => main'[r] = main[r]
      /\ DOMAIN main' = Sides
  BY DEF End, IInv, TypeInv
<1>2. /\ \A e \in Ends : at'[e] = IF Side(e) = s /\ at[e] # "none" THEN "over" ELSE at[e]
      /\ at' \in [Ends -> Places]
  BY DEF End, CloseAll, IInv, TypeInv, Places
<1>3. TypeInv'
  BY <1>1, <1>2 DEF IInv, TypeInv
<1>4. MachineInv'
  <2> SUFFICES ASSUME NEW e \in Ends, Current(e), Running(Side(e))'
               PROVE  Good(at'[e], machine[Owner(e)])
    BY DEF MachineInv, Current, Side, Owner
  <2>1. Side(e) # s
    BY <1>1 DEF Running, Side
  <2>2. Running(Side(e)) /\ at'[e] = at[e]
    BY <1>1, <1>2, <2>1, OwnersAreEnds DEF Running, Side
  <2> QED BY <2>2 DEF IInv, MachineInv
<1>5. ClientInv'
  <2> SUFFICES ASSUME NEW k \in Connections
               PROVE  /\ at'[<<"client", k>>] # "backlog"
                      /\ k # attempt => at'[<<"client", k>>] \in {"none", "over"}
                      /\ k > attempt => at'[<<"client", k>>] = "none"
    BY DEF ClientInv
  <2>1. <<"client", k>> \in Ends
    BY DEF Ends, Sides
  <2> QED BY <1>2, <2>1 DEF IInv, ClientInv
<1>6. DirectInv'
  <2> SUFFICES ASSUME mode = "direct"
               PROVE  /\ \A k \in Connections :
                           /\ at'[<<"host", k>>] # "dialing"
                           /\ k > attempt \/ at'[<<"client", k>>] = "dialing"
                                => at'[<<"host", k>>] = "none"
                      /\ attempt = 0 => machine[<<"client", 1>>] = "idle"
                      /\ main'["client"] \in {"top", "sleep"} =>
                           attempt = 0 \/ at'[<<"client", attempt>>] = "over"
    BY DEF DirectInv
  <2>1. ASSUME NEW k \in Connections
        PROVE  /\ at'[<<"host", k>>] # "dialing"
               /\ k > attempt \/ at'[<<"client", k>>] = "dialing" => at'[<<"host", k>>] = "none"
    <3>1. <<"host", k>> \in Ends /\ <<"client", k>> \in Ends
      BY DEF Ends, Sides
    <3> QED BY <1>2, <3>1 DEF IInv, DirectInv
  <2>2. attempt # 0 => <<"client", attempt>> \in Ends
    BY DEF IInv, TypeInv, Ends, Sides, Connections
  <2>3. at[<<"client", attempt>>] = "over" /\ attempt # 0 => at'[<<"client", attempt>>] = "over"
    BY <1>2, <2>2
  <2>4. main'["client"] \in {"top", "sleep"} => main["client"] \in {"top", "sleep"}
    BY <1>1 DEF Sides
  <2> QED BY <2>1, <2>3, <2>4 DEF IInv, DirectInv
<1>7. RelayInv'
  <2>1. ASSUME NEW r \in Sides, main'[r] \in {"top", "sleep"}
        PROVE  r # s /\ main[r] = main'[r]
    BY <1>1, <2>1
  <2>2. main'["client"] = "sleep" => mode = "direct"
    BY <2>1 DEF IInv, RelayInv, Sides
  <2>3. mode = "relay" => attempt \in {0, 1} /\ attempt # 0
    BY DEF IInv, RelayInv, Running
  <2>4. ASSUME mode = "relay", NEW r \in Sides, main'[r] = "top", NEW k \in Connections
        PROVE  at'[<<r, k>>] = "none" /\ machine[<<r, k>>] = "idle"
    <3>1. <<r, k>> \in Ends /\ Side(<<r, k>>) # s
      BY <2>1, <2>4 DEF Ends, Side
    <3> QED BY <1>2, <2>1, <2>4, <3>1 DEF IInv, RelayInv
  <2>5. ASSUME mode = "relay", NEW k \in Connections, k > 1
        PROVE  at'[<<"host", k>>] = "none"
    <3>1. <<"host", k>> \in Ends
      BY DEF Ends, Sides
    <3> QED BY <1>2, <2>5, <3>1 DEF IInv, RelayInv
  <2> QED BY <2>2, <2>3, <2>4, <2>5 DEF RelayInv
<1> QED BY <1>3, <1>4, <1>5, <1>6, <1>7 DEF IInv

\* Closing an end takes its task to "over".
LEMMA CloseGoesOver ==
  ASSUME TypeInv, NEW e \in Ends, Close(e)
  PROVE  at' = [at EXCEPT ![e] = "over"]
BY DEF Close, CloseAll, TypeInv

\* Leaving the loop says Disconnect and Closed to a session that is established.
LEMMA LeaveKeepsIInv ==
  ASSUME IInv, NEW e \in Ends, at[e] = "loop", Leave(e), UNCHANGED programVars
  PROVE  IInv'
<1>1. at' = [at EXCEPT ![e] = "over"]
  BY CloseGoesOver DEF Leave, IInv
<1> DEFINE state == Handle(Handle(machine[Owner(e)], "Disconnect"), "Closed")
<1>2. machine' = [machine EXCEPT ![Owner(e)] = state]
  BY DEF Leave, NotifyBoth
<1>3. state \in States
  BY OwnersAreEnds, HandleType DEF IInv, TypeInv
<1>4. Running(Side(e)) /\ Current(e) => Good("over", state)
  BY Transitions DEF IInv, MachineInv, Good
<1> HIDE DEF state
<1>5. "over" \in Places \ {"none", "backlog", "dialing"}
  BY DEF Places
<1> QED BY <1>1, <1>2, <1>3, <1>4, <1>5, TaskStep DEF programVars

\* A task goes on and its machine is told nothing.
LEMMA QuietStepKeepsIInv ==
  ASSUME IInv, NEW e \in Ends, at[e] \in {"dialing", "tls", "hello", "await"},
         NEW place \in {"tls", "hello", "await", "over"},
         at' = [at EXCEPT ![e] = place],
         UNCHANGED <<mode, main, attempt, machine>>
  PROVE  IInv'
<1>1. machine' = [machine EXCEPT ![Owner(e)] = machine[Owner(e)]] /\ machine[Owner(e)] \in States
  BY OwnersAreEnds DEF IInv, TypeInv
<1>2. Running(Side(e)) /\ Current(e) => Good(place, machine[Owner(e)])
  BY DEF IInv, MachineInv, Good
<1>3. place \in Places \ {"none", "backlog", "dialing"}
  BY DEF Places
<1> QED BY <1>1, <1>2, <1>3, TaskStep

\* The hello arrives, or another message does.
LEMMA ReceiveKeepsIInv ==
  ASSUME IInv, NEW e \in Ends, Receive(e)
  PROVE  IInv'
<1>1. /\ at[e] \in {"await", "loop"} /\ at' = [at EXCEPT ![e] = "loop"]
      /\ UNCHANGED <<mode, main, attempt>>
  BY DEF Receive, Go, programVars
<1>2. "loop" \in Places \ {"none", "backlog", "dialing"}
  BY DEF Places
<1>3. CASE at[e] = "await"
  <2> DEFINE next == Handle(machine[Owner(e)], "HandshakeComplete")
  <2>1. machine' = [machine EXCEPT ![Owner(e)] = next]
    BY <1>3 DEF Receive, Notify
  <2>2. next \in States
    BY OwnersAreEnds, HandleType DEF IInv, TypeInv
  <2>3. Running(Side(e)) /\ Current(e) => Good("loop", next)
    BY <1>3, Transitions DEF IInv, MachineInv, Good
  <2> HIDE DEF next
  <2> QED BY <1>1, <1>2, <1>3, <2>1, <2>2, <2>3, TaskStep
<1>4. CASE at[e] = "loop"
  <2>1. /\ machine' = [machine EXCEPT ![Owner(e)] = machine[Owner(e)]]
        /\ machine[Owner(e)] \in States
    BY <1>4, OwnersAreEnds DEF Receive, IInv, TypeInv
  <2>2. Running(Side(e)) /\ Current(e) => Good("loop", machine[Owner(e)])
    BY <1>4 DEF IInv, MachineInv
  <2> QED BY <1>1, <1>2, <1>4, <2>1, <2>2, TaskStep
<1> QED BY <1>1, <1>3, <1>4

\* The host accepts: its new Session starts.
LEMMA AcceptKeepsIInv ==
  ASSUME IInv, NEW e \in Ends, Accept(e)
  PROVE  IInv'
<1>1. /\ at[e] = "backlog" /\ at' = [at EXCEPT ![e] = "tls"]
      /\ UNCHANGED <<mode, main, attempt>>
  BY DEF Accept, Go, programVars
<1> DEFINE next == Handle(Handle(machine[Owner(e)], "Connect"), "HandshakeStart")
<1>2. machine' = [machine EXCEPT ![Owner(e)] = next]
  BY DEF Accept, NotifyBoth
<1>3. next \in States
  BY OwnersAreEnds, HandleType DEF IInv, TypeInv
<1>4. Running(Side(e)) /\ Current(e) => Good("tls", next)
  BY <1>1, Transitions DEF IInv, MachineInv, Good
<1>5. "tls" \in Places \ {"none", "backlog", "dialing"}
  BY DEF Places
<1> HIDE DEF next
<1> QED BY <1>1, <1>2, <1>3, <1>4, <1>5, TaskStep

\* A connection is made: the client goes on, and the host's kernel queues it for
\* a task that does not exist yet.
LEMMA ConnectedKeepsIInv ==
  ASSUME IInv, NEW e \in Ends, Connected(e)
  PROVE  IInv'
<1>1. /\ mode = "direct" /\ at[e] = "dialing"
      /\ at' = [at EXCEPT ![e] = "tls", ![Peer(e)] = "backlog"]
      /\ UNCHANGED <<mode, main, attempt, machine>>
  BY DEF Connected, programVars
<1>2. PICK k \in Connections : e = <<"client", k>> /\ Peer(e) = <<"host", k>>
  BY <1>1 DEF IInv, DirectInv, Ends, Sides, Peer
<1>3. /\ <<"host", k>> \in Ends /\ at[<<"host", k>>] = "none"
      /\ k = attempt
  BY <1>1, <1>2 DEF IInv, DirectInv, ClientInv, Ends, Sides
<1>4. /\ at'[e] = "tls" /\ at'[<<"host", k>>] = "backlog"
      /\ \A d \in Ends : d # e /\ d # <<"host", k>> => at'[d] = at[d]
      /\ at' \in [Ends -> Places]
  BY <1>1, <1>2, <1>3 DEF IInv, TypeInv, Places
<1>5. TypeInv'
  BY <1>1, <1>4 DEF IInv, TypeInv
<1>6. MachineInv'
  <2> SUFFICES ASSUME NEW d \in Ends, Current(d), Running(Side(d))
               PROVE  Good(at'[d], machine[Owner(d)])
    BY <1>1 DEF MachineInv, Current, Running, Side, Owner
  <2>1. Good(at[d], machine[Owner(d)])
    BY DEF IInv, MachineInv
  <2> QED BY <1>1, <1>3, <1>4, <2>1 DEF Good
<1>7. ClientInv'
  BY <1>1, <1>2, <1>3, <1>4 DEF IInv, ClientInv, Ends, Sides
<1>8. DirectInv'
  <2>1. ASSUME NEW j \in Connections
        PROVE  /\ at'[<<"host", j>>] # "dialing"
               /\ j > attempt \/ at'[<<"client", j>>] = "dialing" => at'[<<"host", j>>] = "none"
    <3>1. <<"host", j>> \in Ends /\ <<"client", j>> \in Ends
      BY DEF Ends, Sides
    <3>2. CASE j = k
      BY <1>2, <1>3, <1>4, <3>1, <3>2 DEF IInv, TypeInv
    <3>3. CASE j # k
      BY <1>1, <1>2, <1>4, <3>1, <3>3 DEF IInv, DirectInv
    <3> QED BY <3>2, <3>3
  <2>2. ~(main["client"] \in {"top", "sleep"})
    BY <1>1, <1>2, <1>3, BoundsType DEF IInv, DirectInv, Connections
  <2> QED BY <1>1, <2>1, <2>2 DEF IInv, DirectInv
<1>9. RelayInv'
  BY <1>1 DEF IInv, RelayInv
<1> QED BY <1>5, <1>6, <1>7, <1>8, <1>9 DEF IInv

\* The client dials its next connection with the Session of the last one.
LEMMA DialKeepsIInv ==
  ASSUME IInv, Dial
  PROVE  IInv'
<1> DEFINE k == attempt + 1
           e == <<"client", k>>
           next == Handle(Handle(machine[<<"client", 1>>], "Connect"), "HandshakeStart")
<1>1. /\ mode = "direct" /\ main["client"] = "top" /\ mode' = mode /\ attempt' = k
      /\ main' = [main EXCEPT !["client"] = "session"]
      /\ at' = [at EXCEPT ![e] = "dialing"]
      /\ k \in Connections /\ attempt \in Nat
  <2>1. attempt \in Nat /\ attempt < MaxAttempts /\ MaxAttempts \in Nat
    BY BoundsType DEF Dial, IInv, TypeInv
  <2> QED BY <2>1 DEF Dial, Go, Connections
<1>2. e \in Ends /\ <<"client", 1>> \in Ends /\ Owner(e) = <<"client", 1>>
  BY <1>1, BoundsType DEF Ends, Sides, Connections, Owner, Side
<1>3. machine' = [machine EXCEPT ![<<"client", 1>>] = next]
  BY <1>1, <1>2 DEF Dial, NotifyBoth
<1>4. machine[<<"client", 1>>] \in {"idle", "handshaking", "closed"}
  <2>1. CASE attempt = 0
    BY <1>1, <2>1 DEF IInv, DirectInv
  <2>2. CASE attempt # 0
    <3>1. /\ <<"client", attempt>> \in Ends /\ at[<<"client", attempt>>] = "over"
          /\ Owner(<<"client", attempt>>) = <<"client", 1>>
          /\ Side(<<"client", attempt>>) = "client" /\ Current(<<"client", attempt>>)
      BY <1>1, <2>2 DEF IInv, DirectInv, TypeInv, Ends, Sides, Connections, Owner, Side, Current
    <3>2. Running("client")
      BY <1>1 DEF Running
    <3> QED BY <3>1, <3>2 DEF IInv, MachineInv, Good
  <2> QED BY <2>1, <2>2
<1>5. next = "handshaking" /\ next \in States
  BY <1>4, Transitions DEF States
<1> HIDE DEF next
<1>6. /\ at'[e] = "dialing" /\ \A d \in Ends : d # e => at'[d] = at[d]
      /\ at' \in [Ends -> Places] /\ machine' \in [Ends -> States]
  BY <1>1, <1>2, <1>3, <1>5 DEF IInv, TypeInv, Places
<1>7. TypeInv'
  BY <1>1, <1>6 DEF IInv, TypeInv, Connections
<1>8. MachineInv'
  <2> SUFFICES ASSUME NEW d \in Ends, Current(d)', Running(Side(d))'
               PROVE  Good(at'[d], machine'[Owner(d)])
    BY DEF MachineInv, Side, Owner
  <2>1. CASE Side(d) = "client"
    <3>1. d = e
      BY <1>1, <2>1, OwnersAreEnds DEF Current, Side
    <3> QED BY <1>2, <1>3, <1>5, <1>6, <3>1 DEF Good, IInv, TypeInv
  <2>2. CASE Side(d) # "client"
    <3>1. Side(d) = "host" /\ Owner(d) = d /\ d # e /\ d # <<"client", 1>>
      BY <2>2, OwnersAreEnds DEF Sides, Owner, Side
    <3>2. Running("host") /\ Current(d)
      BY <1>1, <3>1 DEF Running, Current, IInv, TypeInv, Sides
    <3> QED BY <1>3, <1>6, <3>1, <3>2 DEF IInv, MachineInv, TypeInv
  <2> QED BY <2>1, <2>2
<1>9. ClientInv'
  <2> SUFFICES ASSUME NEW j \in Connections
               PROVE  /\ at'[<<"client", j>>] # "backlog"
                      /\ j # k => at'[<<"client", j>>] \in {"none", "over"}
                      /\ j > k => at'[<<"client", j>>] = "none"
    BY <1>1 DEF ClientInv
  <2>1. <<"client", j>> \in Ends
    BY DEF Ends, Sides
  <2>2. CASE j = k
    BY <1>1, <1>6, <2>2
  <2>3. CASE j # k
    <3>1. at'[<<"client", j>>] = at[<<"client", j>>]
      BY <1>6, <2>1, <2>3
    <3>2. j = attempt => at[<<"client", j>>] = "over"
      BY <1>1, BoundsType DEF IInv, DirectInv, Connections
    <3>3. j > k => j > attempt
      BY <1>1 DEF Connections
    <3> QED BY <3>1, <3>2, <3>3 DEF IInv, ClientInv
  <2> QED BY <2>2, <2>3
<1>10. DirectInv'
  <2>1. ASSUME NEW j \in Connections
        PROVE  /\ at'[<<"host", j>>] # "dialing"
               /\ j > k \/ at'[<<"client", j>>] = "dialing" => at'[<<"host", j>>] = "none"
    <3>1. <<"host", j>> \in Ends /\ <<"client", j>> \in Ends
      BY DEF Ends, Sides
    <3>2. at'[<<"host", j>>] = at[<<"host", j>>]
      BY <1>6, <3>1
    <3>3. j >= k => j > attempt
      BY <1>1 DEF Connections
    <3>4. j # k => at'[<<"client", j>>] = at[<<"client", j>>]
      BY <1>6, <3>1
    <3> QED BY <1>1, <3>2, <3>3, <3>4 DEF IInv, DirectInv, Connections
  <2>2. main'["client"] = "session" /\ attempt' # 0
    BY <1>1 DEF IInv, TypeInv, Sides
  <2> QED BY <1>1, <2>1, <2>2 DEF DirectInv
<1>11. RelayInv'
  BY <1>1 DEF RelayInv, IInv, TypeInv, Sides
<1> QED BY <1>7, <1>8, <1>9, <1>10, <1>11 DEF IInv

\* A program is started with --relay.
LEMMA DialRelayKeepsIInv ==
  ASSUME IInv, NEW s \in Sides, DialRelay(s)
  PROVE  IInv'
<1> DEFINE e == <<s, 1>>
           next == Handle(Handle(machine[e], "Connect"), "HandshakeStart")
<1>1. /\ mode = "relay" /\ main[s] = "top" /\ mode' = mode /\ attempt' = 1
      /\ main' = [main EXCEPT ![s] = "session"]
      /\ at' = [at EXCEPT ![e] = "dialing"]
  BY DEF DialRelay, Go
<1>2. /\ 1 \in Connections /\ e \in Ends /\ Owner(e) = e /\ Side(e) = s
  BY BoundsType DEF Ends, Sides, Connections, Owner, Side
<1>3. machine' = [machine EXCEPT ![e] = next]
  BY <1>2 DEF DialRelay, NotifyBoth
<1>4. \A k \in Connections : at[<<s, k>>] = "none" /\ machine[<<s, k>>] = "idle"
  BY <1>1 DEF IInv, RelayInv
<1>5. next = "handshaking" /\ next \in States
  BY <1>2, <1>4, Transitions DEF States
<1> HIDE DEF next
<1>6. /\ at'[e] = "dialing" /\ \A d \in Ends : d # e => at'[d] = at[d]
      /\ machine'[e] = "handshaking" /\ \A d \in Ends : d # e => machine'[d] = machine[d]
      /\ at' \in [Ends -> Places] /\ machine' \in [Ends -> States]
      /\ main'[s] = "session" /\ \A r \in Sides : r # s => main'[r] = main[r]
      /\ DOMAIN main' = Sides
  BY <1>1, <1>2, <1>3, <1>5 DEF IInv, TypeInv, Places
<1>7. TypeInv'
  BY <1>1, <1>6, BoundsType DEF IInv, TypeInv
<1>8. attempt \in {0, 1} /\ (attempt = 0 => \A r \in Sides : main[r] = "top")
  BY <1>1 DEF IInv, RelayInv
<1>9. MachineInv'
  <2> SUFFICES ASSUME NEW d \in Ends, Current(d)', Running(Side(d))'
               PROVE  Good(at'[d], machine'[Owner(d)])
    BY DEF MachineInv, Side, Owner
  <2>1. CASE d = e
    BY <1>2, <1>6, <2>1 DEF Good
  <2>2. CASE d # e /\ Side(d) = s
    <3>1. Owner(d) = d /\ at[d] = "none" /\ machine[d] = "idle"
      BY <1>1, <1>4, <2>2, OwnersAreEnds DEF Owner, Side, Current
    <3> QED BY <1>6, <2>2, <3>1 DEF Good
  <2>3. CASE Side(d) # s
    <3>1. Owner(d) # e /\ Owner(d) \in Ends
      BY <1>2, <2>3, OwnersAreEnds
    <3>2. Running(Side(d))
      BY <1>1, <1>6, <2>3, OwnersAreEnds DEF Running, Side
    <3>3. Current(d)
      BY <1>1, <1>8, <3>2, OwnersAreEnds DEF Current, Side, Running
    <3> QED BY <1>6, <2>3, <3>1, <3>2, <3>3, <1>2 DEF IInv, MachineInv
  <2> QED BY <2>1, <2>2, <2>3
<1>10. ClientInv'
  <2> SUFFICES ASSUME NEW j \in Connections
               PROVE  /\ at'[<<"client", j>>] # "backlog"
                      /\ j # 1 => at'[<<"client", j>>] \in {"none", "over"}
                      /\ j > 1 => at'[<<"client", j>>] = "none"
    BY <1>1 DEF ClientInv
  <2>1. <<"client", j>> \in Ends /\ j \in Nat \ {0}
    BY DEF Ends, Sides, Connections
  <2>2. CASE <<"client", j>> = e
    BY <1>6, <2>2
  <2>3. CASE <<"client", j>> # e
    BY <1>6, <1>8, <2>1, <2>3 DEF IInv, ClientInv
  <2> QED BY <2>2, <2>3
<1>11. DirectInv'
  BY <1>1 DEF DirectInv
<1>12. RelayInv'
  <2>1. ASSUME NEW r \in Sides, main'[r] = "top", NEW k \in Connections
        PROVE  at'[<<r, k>>] = "none" /\ machine'[<<r, k>>] = "idle"
    <3>1. r # s /\ main[r] = "top" /\ <<r, k>> \in Ends /\ <<r, k>> # e
      BY <1>6, <2>1 DEF Ends
    <3> QED BY <1>1, <1>6, <3>1 DEF IInv, RelayInv
  <2>2. main'["client"] # "sleep"
    BY <1>1, <1>6 DEF IInv, RelayInv, Sides
  <2>3. ASSUME NEW k \in Connections, k > 1
        PROVE  at'[<<"host", k>>] = "none"
    <3>1. <<"host", k>> \in Ends /\ <<"host", k>> # e
      BY <2>3 DEF Ends, Sides, Connections
    <3> QED BY <1>1, <1>6, <2>3, <3>1 DEF IInv, RelayInv
  <2> QED BY <1>1, <2>1, <2>2, <2>3 DEF RelayInv
<1> QED BY <1>7, <1>9, <1>10, <1>11, <1>12 DEF IInv

\* The client's main goes between its session, its sleep and the top of its loop.
LEMMA MainStepKeepsIInv ==
  ASSUME IInv, NEW place \in {"top", "sleep"}, mode = "direct",
         main' = [main EXCEPT !["client"] = place],
         attempt # 0 => at[<<"client", attempt>>] = "over",
         main["client"] \notin {"gone", "crashed"},
         UNCHANGED <<mode, attempt, at, machine>>
  PROVE  IInv'
<1>1. /\ main'["client"] = place /\ \A r \in Sides : r # "client" => main'[r] = main[r]
      /\ DOMAIN main' = Sides
  BY DEF IInv, TypeInv, Sides
<1>2. TypeInv' /\ ClientInv'
  BY <1>1 DEF IInv, TypeInv, ClientInv
<1>3. MachineInv'
  <2> SUFFICES ASSUME NEW d \in Ends, Current(d), Running(Side(d))'
               PROVE  Good(at[d], machine[Owner(d)])
    BY DEF MachineInv, Side, Owner, Current
  <2>1. Running(Side(d))
    BY <1>1, OwnersAreEnds DEF Running, Side
  <2> QED BY <2>1 DEF IInv, MachineInv
<1>4. DirectInv' /\ RelayInv'
  BY <1>1 DEF IInv, DirectInv, RelayInv
<1> QED BY <1>2, <1>3, <1>4 DEF IInv

\* A step that moves no task.
LEMMA NothingMoves ==
  ASSUME IInv, UNCHANGED <<mode, main, attempt, at, machine>>
  PROVE  IInv'
BY DEF IInv, TypeInv, MachineInv, ClientInv, DirectInv, RelayInv, Current, Running, Side, Owner, Good

\* main() of the client.
LEMMA ClientMainKeepsIInv ==
  ASSUME IInv, ClientMain
  PROVE  IInv'
<1> "client" \in Sides
  BY DEF Sides
<1>1. CASE Dial
  BY <1>1, DialKeepsIInv
<1>2. CASE StopAtTop
  BY <1>2, EndKeepsIInv DEF StopAtTop, Exit, Running
<1>3. CASE AfterSession
  <2>1. /\ mode = "direct" /\ main["client"] = "session" /\ at[<<"client", attempt>>] = "over"
        /\ UNCHANGED <<mode, attempt, machine>>
    BY <1>3 DEF AfterSession
  <2>2. CASE Exit("client")
    BY <2>1, <2>2, EndKeepsIInv DEF Exit, Running
  <2>3. CASE main' = [main EXCEPT !["client"] = "sleep"] /\ UNCHANGED at
    BY <2>1, <2>3, MainStepKeepsIInv
  <2> QED BY <1>3, <2>2, <2>3 DEF AfterSession
<1>4. CASE Wake
  BY <1>4, MainStepKeepsIInv DEF Wake, IInv, DirectInv, RelayInv
<1> QED BY <1>1, <1>2, <1>3, <1>4 DEF ClientMain

\* A connection that is being opened.
LEMMA OpensKeepsIInv ==
  ASSUME IInv, NEW e \in Ends, Opens(e)
  PROVE  IInv'
<1>1. CASE Connected(e)
  BY <1>1, ConnectedKeepsIInv
<1>2. CASE Accept(e)
  BY <1>2, AcceptKeepsIInv
<1>3. CASE Admitted(e)
  BY <1>3, QuietStepKeepsIInv DEF Admitted, Go, programVars
<1>4. CASE Secured(e)
  BY <1>4, QuietStepKeepsIInv DEF Secured, Go, programVars
<1>5. CASE SendHello(e)
  BY <1>5, QuietStepKeepsIInv DEF SendHello, Go, programVars
<1>6. CASE Fails(e)
  <2>1. at[e] \in {"dialing", "tls", "hello", "await"}
    BY <1>6 DEF Fails
  <2>2. at' = [at EXCEPT ![e] = "over"] /\ UNCHANGED <<mode, main, attempt, machine>>
    BY <1>6, CloseGoesOver DEF Fails, programVars, IInv
  <2> QED BY <2>1, <2>2, QuietStepKeepsIInv
<1> QED BY <1>1, <1>2, <1>3, <1>4, <1>5, <1>6 DEF Opens

\* A session that runs.
LEMMA LoopsKeepsIInv ==
  ASSUME IInv, NEW e \in Ends, Loops(e) \/ Tick(e)
  PROVE  IInv'
<1>1. CASE ReadLength(e)
  BY <1>1, NothingMoves DEF ReadLength, programVars
<1>2. CASE Receive(e)
  BY <1>2, ReceiveKeepsIInv
<1>3. CASE RecvFails(e) \/ StopInLoop(e)
  BY <1>3, LeaveKeepsIInv DEF RecvFails, StopInLoop
<1>4. CASE Tick(e)
  <2>1. CASE UNCHANGED <<at, machine>>
    BY <1>4, <2>1, NothingMoves DEF Tick, programVars
  <2>2. CASE Leave(e)
    BY <1>4, <2>2, LeaveKeepsIInv DEF Tick
  <2> QED BY <1>4, <2>1, <2>2 DEF Tick
<1> QED BY <1>1, <1>2, <1>3, <1>4 DEF Loops

\* Every step keeps the invariant.
LEMMA StepKeepsIInv ==
  ASSUME IInv, [Next]_vars
  PROVE  IInv'
<1>1. CASE UNCHANGED vars
  BY <1>1, NothingMoves DEF vars, programVars
<1>2. CASE StopListening
  <2>1. "host" \in Sides /\ Running("host")
    BY <1>2 DEF StopListening, Running, Sides
  <2> QED BY <1>2, <2>1, EndKeepsIInv DEF StopListening, Exit
<1>3. ASSUME NEW s \in Sides, Trigger(s)
      PROVE  IInv'
  BY <1>3, NothingMoves DEF Trigger
<1>4. ASSUME NEW s \in Sides, Crash(s)
      PROVE  IInv'
  BY <1>4, EndKeepsIInv DEF Crash
<1>5. ASSUME NEW s \in Sides, AfterRelay(s)
      PROVE  IInv'
  BY <1>5, EndKeepsIInv DEF AfterRelay, Exit, Running
<1>6. ASSUME NEW k \in Connections, Reset(k)
      PROVE  IInv'
  BY <1>6, NothingMoves DEF Reset, programVars
<1> QED BY <1>1, <1>2, <1>3, <1>4, <1>5, <1>6, ClientMainKeepsIInv, DialRelayKeepsIInv,
           OpensKeepsIInv, LoopsKeepsIInv DEF Next

\* Before a program has been started nothing has happened.
LEMMA InitIsIInv ==
  ASSUME Init
  PROVE  IInv
<1>1. \A e \in Ends : at[e] = "none" /\ machine[e] = "idle"
  BY DEF Init
<1>2. \A s \in Sides : main[s] \in {"top", "listening"} /\ (mode = "relay" => main[s] = "top")
  BY DEF Init
<1>3. TypeInv
  BY BoundsType DEF Init, TypeInv, Places, States
<1>4. \A s \in Sides : \A k \in Connections : <<s, k>> \in Ends
  BY DEF Ends
<1>5. attempt = 0 /\ 1 \in Connections /\ "client" \in Sides /\ "host" \in Sides
  BY BoundsType DEF Init, Connections, Sides
<1>6. MachineInv
  BY <1>1, OwnersAreEnds DEF MachineInv, Good
<1>7. ClientInv /\ DirectInv /\ RelayInv
  BY <1>1, <1>2, <1>4, <1>5 DEF ClientInv, DirectInv, RelayInv
<1> QED BY <1>3, <1>6, <1>7 DEF IInv

-----------------------------------------------------------------------------

\* Where a task is and what its Session says agree in every state
\* (bin/client.rs 67-110, bin/common/mod.rs 66-110, session/mod.rs).
THEOREM SessionInductive == Spec => []IInv
BY InitIsIInv, StepKeepsIInv, PTL DEF Spec

\* A Session is established exactly while its task is in the heartbeat loop,
\* however many attempts of the client have failed before, and although those
\* attempts leave it in "handshaking" (bin/client.rs 73 and 107).
THEOREM EstablishedMeansTheLoop == Spec => []EstablishedIsTheLoop
<1>1. IInv => EstablishedIsTheLoop
  <2> SUFFICES ASSUME IInv, NEW e \in Ends, Current(e), Running(Side(e))
               PROVE  machine[Owner(e)] = "established" <=> at[e] = "loop"
    BY DEF EstablishedIsTheLoop
  <2>1. at[e] \in Places /\ Good(at[e], machine[Owner(e)])
    BY DEF IInv, TypeInv, MachineInv
  <2> QED BY <2>1 DEF Good, Places
<1> QED BY <1>1, SessionInductive, PTL


\* How tasks in the loop come to their end, whoever ends them.
LEMMA LoopsEndForAReason ==
  ASSUME IInv, [Next]_vars, NEW e \in Ends, at[e] = "loop", at'[e] = "over"
  PROVE  shutdown[Side(e)] \/ main'[Side(e)] = "crashed" \/ Lost(e) \/ Torn(e)
<1>1. ASSUME NEW d \in Ends, at' = [at EXCEPT ![d] = "over"]
      PROVE  d = e
  BY <1>1 DEF IInv, TypeInv
<1>2. ASSUME NEW d \in Ends, NEW place, place # "over", at' = [at EXCEPT ![d] = place]
      PROVE  FALSE
  BY <1>2 DEF IInv, TypeInv
<1>3. ASSUME NEW s \in Sides, NEW how, End(s, how)
      PROVE  s = Side(e)
  BY <1>3 DEF End, CloseAll, Ends
<1>4. ~UNCHANGED at
  OBVIOUS
<1>5. CASE ClientMain
  <2>1. CASE StopAtTop
    BY <2>1, <1>3 DEF StopAtTop, Exit, Sides
  <2>2. CASE AfterSession
    BY <2>2, <1>3, <1>4 DEF AfterSession, Exit, Sides
  <2>3. CASE Dial
    <3>1. <<"client", attempt + 1>> \in Ends
      BY <2>3, BoundsType DEF Dial, IInv, TypeInv, Ends, Sides, Connections
    <3> QED BY <2>3, <3>1, <1>2 DEF Dial, Go
  <2>4. CASE Wake
    BY <2>4, <1>4 DEF Wake
  <2> QED BY <1>5, <2>1, <2>2, <2>3, <2>4 DEF ClientMain
<1>6. CASE StopListening
  BY <1>6, <1>3 DEF StopListening, Exit, Sides
<1>7. ASSUME NEW s \in Sides, Crash(s)
      PROVE  main'[Side(e)] = "crashed"
  BY <1>7, <1>3 DEF Crash, End, IInv, TypeInv
<1>8. ASSUME NEW s \in Sides, AfterRelay(s)
      PROVE  FALSE
  <2>1. s = Side(e) /\ at[<<s, 1>>] = "over" /\ mode = "relay" /\ main[s] = "session"
    BY <1>8, <1>3 DEF AfterRelay, Exit
  <2>2. attempt = 1 /\ e = <<s, e[2]>> /\ e[2] \in Connections /\ e[2] # 1
    BY <2>1, OwnersAreEnds DEF IInv, RelayInv
  <2>3. e[2] > 1
    BY <2>2 DEF Connections
  <2> QED BY <2>1, <2>2, <2>3 DEF IInv, RelayInv, ClientInv, Sides
<1>9. ASSUME NEW s \in Sides, Trigger(s) \/ DialRelay(s)
      PROVE  FALSE
  <2>1. <<s, 1>> \in Ends
    BY BoundsType DEF Ends, Connections
  <2> QED BY <1>9, <2>1, <1>2, <1>4 DEF Trigger, DialRelay, Go
<1>10. ASSUME NEW k \in Connections, Reset(k)
       PROVE  FALSE
  BY <1>10, <1>4 DEF Reset
<1>11. ASSUME NEW d \in Ends, Opens(d)
       PROVE  FALSE
  <2>1. CASE Fails(d)
    <3>1. at' = [at EXCEPT ![d] = "over"] /\ at[d] # "loop"
      BY <2>1, CloseGoesOver DEF Fails, IInv
    <3> QED BY <3>1, <1>1
  <2>2. CASE Connected(d)
    BY <2>2, OwnersAreEnds DEF Connected, IInv, TypeInv
  <2>3. CASE Admitted(d) \/ Accept(d) \/ Secured(d) \/ SendHello(d)
    BY <2>3, <1>2 DEF Admitted, Accept, Secured, SendHello, Go
  <2> QED BY <1>11, <2>1, <2>2, <2>3 DEF Opens
<1>12. ASSUME NEW d \in Ends, Loops(d) \/ Tick(d)
       PROVE  shutdown[Side(e)] \/ Lost(e) \/ Torn(e)
  <2>1. ~ReadLength(d) /\ ~Receive(d)
    BY <1>2, <1>4 DEF ReadLength, Receive, Go
  <2>2. ASSUME Leave(d) PROVE d = e
    BY <2>2, <1>1, CloseGoesOver DEF Leave, IInv
  <2>3. CASE Tick(d)
    BY <2>3, <2>2, <1>4 DEF Tick, ConnectionFails
  <2>4. CASE RecvFails(d)
    BY <2>4, <2>2 DEF RecvFails, ConnectionFails
  <2>5. CASE StopInLoop(d)
    BY <2>5, <2>2 DEF StopInLoop
  <2> QED BY <1>12, <2>1, <2>3, <2>4, <2>5 DEF Loops
<1>13. CASE UNCHANGED vars
  BY <1>13, <1>4 DEF vars
<1> QED BY <1>5, <1>6, <1>7, <1>8, <1>9, <1>10, <1>11, <1>12, <1>13 DEF Next

\* A live session ends with a shutdown, its process, the peer, the connection or
\* a torn read, and with nothing else (bin/common/mod.rs 82-101).
THEOREM LiveSessionsEndForAReason == Spec => OnlyATornReadEndsALiveSession
<1>1. IInv /\ [Next]_vars =>
        [\A e \in Ends :
           at[e] = "loop" /\ at'[e] = "over" =>
             \/ shutdown[Side(e)] \/ main'[Side(e)] = "crashed"
             \/ Lost(e) \/ Torn(e)]_vars
  BY LoopsEndForAReason
<1> QED BY <1>1, SessionInductive, PTL DEF Spec, OnlyATornReadEndsALiveSession

-----------------------------------------------------------------------------
\* The order of the naturals, as a relation.
LEMMA LessIsWellFounded == IsWellFoundedOn({ss \in Nat \X Nat : ss[1] < ss[2]}, Nat)
BY NatLessThanWellFounded DEF OpToRel

\* A set of naturals that is not empty has a least member.
LEMMA LeastMember ==
  ASSUME NEW T, T \subseteq Nat, T # {}
  PROVE  \E x \in T : \A y \in T : x <= y
<1> DEFINE R == {ss \in Nat \X Nat : ss[1] < ss[2]}
<1>1. IsWellFoundedOn(R, Nat)
  BY LessIsWellFounded
<1> HIDE DEF R
<1>2. PICK x \in T : \A y \in T : <<y, x>> \notin R
  BY <1>1, WFMin
<1>4. ASSUME NEW y \in T PROVE x <= y
  <2>1. x \in Nat /\ y \in Nat
    OBVIOUS
  <2>2. y < x => <<y, x>> \in R
    BY <2>1 DEF R
  <2> QED BY <1>2, <2>1, <2>2
<1> QED BY <1>4

\* There is a function that doubles at each step up to the largest shift, so the
\* recursive definition of Multiplier has a value.
LEMMA DoublingIsDefined ==
  \E f : f = [n \in 0..20 |-> IF n = 0 THEN 1 ELSE 2 * f[n - 1]]
<1> DEFINE Doubles(f, m) == f \in [0..m -> Nat] /\ \A n \in 0..m : f[n] = IF n = 0 THEN 1 ELSE 2 * f[n - 1]
           T == {m \in Nat : ~\E f : Doubles(f, m)}
<1>1. T = {}
  <2> SUFFICES ASSUME T # {} PROVE FALSE
    OBVIOUS
  <2>1. PICK m \in T : \A y \in T : m <= y
    BY LeastMember
  <2>2. m # 0
    <3> DEFINE one == [n \in 0..0 |-> 1]
    <3>1. one \in [0..0 -> Nat] /\ \A n \in 0..0 : n = 0 /\ one[n] = 1
      OBVIOUS
    <3> HIDE DEF one
    <3>2. Doubles(one, 0)
      BY <3>1
    <3> QED BY <3>2
  <2>3. m \in Nat /\ m - 1 \in Nat
    BY <2>2
  <2> HIDE DEF Doubles
  <2>4. PICK f : Doubles(f, m - 1)
    <3>1. m - 1 \notin T
      <4> HIDE DEF T
      <4>1. m - 1 \in T => m <= m - 1
        BY <2>1
      <4> QED BY <2>3, <4>1
    <3> QED BY <2>3, <3>1
  <2> USE DEF Doubles
  <2>5. Doubles([n \in 0..m |-> IF n = m THEN 2 * f[m - 1] ELSE f[n]], m)
    BY <2>2, <2>3, <2>4
  <2> QED BY <2>5
<1>2. PICK f : Doubles(f, 20)
  BY <1>1
<1>3. f = [n \in 0..20 |-> IF n = 0 THEN 1 ELSE 2 * f[n - 1]]
  BY <1>2
<1> QED BY <1>3

\* The multiplier of the backoff: one, and twice the one before.
LEMMA MultiplierDoubles ==
  /\ \A n \in 0..20 : Multiplier[n] \in Nat
  /\ \A n \in 0..19 : Multiplier[n + 1] = 2 * Multiplier[n]
<1>1. Multiplier = [n \in 0..20 |-> IF n = 0 THEN 1 ELSE 2 * Multiplier[n - 1]]
  BY DoublingIsDefined DEF Multiplier
<1> DEFINE T == {n \in 0..20 : Multiplier[n] \notin Nat}
<1>2. T = {}
  <2> SUFFICES ASSUME T # {} PROVE FALSE
    OBVIOUS
  <2>1. PICK m \in T : \A y \in T : m <= y
    BY LeastMember
  <2>2. m = 0 => Multiplier[m] = 1
    BY <1>1, <2>1
  <2>3. m # 0 => Multiplier[m] = 2 * Multiplier[m - 1] /\ m - 1 \in 0..20 /\ m - 1 \notin T
    BY <1>1, <2>1
  <2> QED BY <2>1, <2>2, <2>3
<1>3. \A n \in 0..20 : Multiplier[n] \in Nat
  BY <1>2
<1>4. ASSUME NEW n \in 0..19 PROVE Multiplier[n + 1] = 2 * Multiplier[n]
  <2>1. n + 1 \in 0..20 /\ n + 1 # 0 /\ n + 1 - 1 = n
    OBVIOUS
  <2> QED BY <1>1, <2>1
<1> QED BY <1>3, <1>4

\* The delays are naturals up to the cap, and a longer series of failures never
\* has a shorter one.
LEMMA DelaysGrow ==
  ASSUME NEW k \in Nat
  PROVE  NextDelay(k) \in 0..MaxDelay /\ NextDelay(k) <= NextDelay(k + 1)
<1> DEFINE m == Minimum(k, 20)
           n == Minimum(k + 1, 20)
<1>1. m \in 0..20 /\ n \in 0..20 /\ (n = m \/ (m \in 0..19 /\ n = m + 1))
  BY DEF Minimum
<1> HIDE DEF m, n
<1>2. Multiplier[m] \in Nat /\ Multiplier[n] \in Nat /\ Multiplier[m] <= Multiplier[n]
  BY <1>1, MultiplierDoubles
<1> DEFINE a == Multiplier[m]
           b == Multiplier[n]
<1>3. a \in Nat /\ b \in Nat /\ a <= b
  BY <1>2
<1>4. NextDelay(k) = Minimum(Base * a, MaxDelay) /\ NextDelay(k + 1) = Minimum(Base * b, MaxDelay)
  BY DEF NextDelay, m, n
<1> HIDE DEF a, b
<1>5. Base * a \in Nat /\ Base * b \in Nat /\ Base * a <= Base * b
  <2>1. PICK d \in Nat : b = a + d
    <3>1. b - a \in Nat /\ b = a + (b - a)
      BY <1>3
    <3> QED BY <3>1
  <2>2. Base \in Nat /\ Base * a \in Nat /\ Base * d \in Nat
    BY <1>3, BoundsType
  <2>3. Base * b = Base * a + Base * d
    BY <1>3, <2>1, <2>2
  <2> QED BY <2>2, <2>3
<1> QED BY <1>4, <1>5, BoundsType DEF Minimum

-----------------------------------------------------------------------------
\* The types of what main() keeps; the client's delay is one its failures so far
\* can have led to.
MainInv ==
  /\ main \in [Sides -> {"top", "session", "sleep", "listening", "gone", "crashed"}]
  /\ shutdown \in [Sides -> BOOLEAN]
  /\ delay \in 0..MaxDelay
  /\ IF attempt = 0 THEN delay = 0 /\ main["client"] # "session" ELSE delay <= NextDelay(attempt - 1)

\* The types of the streams.  Over the relay a message is read as a whole.
Whole(pieces) == \E frames \in Nat : pieces = 2 * frames

StreamInv ==
  /\ sent \in [Ends -> 0..(MaxPings + 1)]
  /\ taken \in [Ends -> 0..(2 * (MaxPings + 1))]
  /\ got \in [Ends -> BOOLEAN]
  /\ broken \subseteq Connections
  /\ mode = "relay" => \A e \in Ends : Whole(taken[e])

\* Sockets are closed.
LEMMA CloseAllKeepsStreamInv ==
  ASSUME StreamInv, NEW ends, CloseAll(ends), mode' = mode
  PROVE  StreamInv'
<1>1. /\ sent' = sent /\ broken' = broken
      /\ taken' = [e \in Ends |-> IF e \in ends THEN 0 ELSE taken[e]]
      /\ got' = [e \in Ends |-> got[e] /\ e \notin ends]
  BY DEF CloseAll
<1>2. taken' \in [Ends -> 0..(2 * (MaxPings + 1))]
  BY <1>1, BoundsType DEF StreamInv
<1>3. got' \in [Ends -> BOOLEAN]
  <2>1. \A e \in Ends : (got[e] /\ e \notin ends) \in BOOLEAN
    BY Zenon
  <2> QED BY <1>1, <2>1, Zenon
<1>4. Whole(0)
  <2>1. 0 \in Nat /\ 0 = 2 * 0
    OBVIOUS
  <2> QED BY <2>1 DEF Whole
<1>5. mode = "relay" => \A e \in Ends : Whole(taken'[e])
  BY <1>1, <1>4 DEF StreamInv
<1> QED BY <1>1, <1>2, <1>3, <1>5 DEF StreamInv

\* The tasks' steps leave main() alone.
LEMMA TasksKeepMainInv ==
  ASSUME MainInv, UNCHANGED <<main, shutdown, attempt, delay>>
  PROVE  MainInv'
BY DEF MainInv, NextDelay, Minimum, Multiplier

\* A task reads, writes or closes.
LEMMA TaskKeepsStreamInv ==
  ASSUME IInv, StreamInv, NEW e \in Ends, Opens(e) \/ Loops(e) \/ Tick(e)
  PROVE  StreamInv'
<1>0. /\ Peer(e) \in Ends /\ MaxPings \in Nat /\ mode \in {"direct", "relay"}
      /\ sent[Peer(e)] \in 0..(MaxPings + 1) /\ sent[e] \in 0..(MaxPings + 1)
      /\ taken[e] \in 0..(2 * (MaxPings + 1))
  BY OwnersAreEnds, BoundsType DEF StreamInv, IInv, TypeInv
<1>1. CASE UNCHANGED <<mode, sent, taken, got, broken>>
  BY <1>1 DEF StreamInv
<1>2. CASE Close(e) /\ mode' = mode
  BY <1>2, CloseAllKeepsStreamInv DEF Close
<1>3. CASE SendHello(e)
  BY <1>0, <1>3 DEF SendHello, StreamInv, programVars
<1>4. CASE ReadLength(e)
  <2>1. taken[e] + 1 \in 0..(2 * (MaxPings + 1))
    BY <1>0, <1>4 DEF ReadLength, Unread
  <2> QED BY <1>4, <2>1 DEF ReadLength, StreamInv, programVars
<1>5. CASE Receive(e)
  <2>1. /\ mode' = mode /\ sent' = sent /\ broken' = broken
        /\ got' = [got EXCEPT ![e] = FALSE]
        /\ 2 * sent[Peer(e)] - taken[e] > 0
    BY <1>5 DEF Receive, programVars, Unread
  <2>2. CASE mode = "direct"
    <3>1. taken' = [taken EXCEPT ![e] = @ + 1]
      BY <1>5, <2>2 DEF Receive
    <3>2. taken[e] + 1 \in 0..(2 * (MaxPings + 1))
      BY <1>0, <2>1
    <3> QED BY <2>1, <2>2, <3>1, <3>2 DEF StreamInv
  <2>3. CASE mode = "relay"
    <3>1. taken' = [taken EXCEPT ![e] = @ + 2]
      BY <1>5, <2>3 DEF Receive
    <3>2. PICK frames \in Nat : taken[e] = 2 * frames
      BY <2>3 DEF StreamInv, Whole
    <3>3. /\ frames + 1 \in Nat /\ taken[e] + 2 = 2 * (frames + 1)
          /\ taken[e] + 2 \in 0..(2 * (MaxPings + 1))
      BY <1>0, <2>1, <3>2
    <3>4. Whole(taken[e] + 2)
      BY <3>3 DEF Whole
    <3> QED BY <2>1, <2>3, <3>1, <3>3, <3>4 DEF StreamInv
  <2> QED BY <1>0, <2>2, <2>3
<1>6. CASE Tick(e)
  <2>1. CASE /\ sent[e] <= MaxPings /\ sent' = [sent EXCEPT ![e] = @ + 1]
             /\ got' = [got EXCEPT ![e] = FALSE] /\ UNCHANGED <<mode, taken, broken>>
    BY <1>0, <2>1 DEF StreamInv
  <2>2. CASE Close(e)
    BY <1>2, <1>6, <2>2 DEF Tick, programVars
  <2> QED BY <1>6, <2>1, <2>2 DEF Tick, Leave, programVars
<1>7. CASE RecvFails(e) \/ StopInLoop(e)
  BY <1>2, <1>7 DEF RecvFails, StopInLoop, Leave, programVars
<1>8. CASE Fails(e)
  BY <1>2, <1>8 DEF Fails, programVars
<1>9. CASE Connected(e) \/ Admitted(e) \/ Accept(e) \/ Secured(e)
  BY <1>1, <1>9 DEF Connected, Admitted, Accept, Secured, streamVars, programVars
<1> QED BY <1>3, <1>4, <1>5, <1>6, <1>7, <1>8, <1>9 DEF Opens, Loops

\* A program ends.
LEMMA EndKeepsTypes ==
  ASSUME MainInv, StreamInv, NEW s \in Sides, NEW how \in {"gone", "crashed"}, End(s, how),
         UNCHANGED <<mode, shutdown, attempt, delay>>
  PROVE  MainInv' /\ StreamInv'
<1>1. StreamInv'
  BY CloseAllKeepsStreamInv DEF End
<1>2. MainInv'
  BY DEF End, MainInv, NextDelay, Minimum, Multiplier
<1> QED BY <1>1, <1>2

\* main() of the client: the next delay is never shorter than the last.
LEMMA ClientMainKeepsTypes ==
  ASSUME IInv, MainInv, StreamInv, ClientMain
  PROVE  MainInv' /\ StreamInv' /\ delay' >= delay
<1>0. "client" \in Sides /\ MaxAttempts \in Nat /\ MaxDelay \in Nat /\ attempt \in 0..MaxAttempts
  BY BoundsType DEF Sides, IInv, TypeInv
<1>1. CASE StopAtTop
  BY <1>0, <1>1, EndKeepsTypes DEF StopAtTop, Exit, MainInv
<1>2. CASE Dial
  <2>1. StreamInv' /\ delay' = delay /\ attempt' = attempt + 1
    BY <1>2 DEF Dial, streamVars, StreamInv
  <2>2. delay <= NextDelay(attempt)
    <3>1. CASE attempt = 0
      BY <1>0, <3>1, DelaysGrow DEF MainInv
    <3>2. CASE attempt # 0
      <4>1. attempt - 1 \in Nat /\ attempt - 1 + 1 = attempt /\ attempt \in Nat
        BY <1>0, <3>2
      <4>2. /\ delay <= NextDelay(attempt - 1) /\ NextDelay(attempt - 1) <= NextDelay(attempt)
            /\ delay \in Nat /\ NextDelay(attempt - 1) \in Nat /\ NextDelay(attempt) \in Nat
        BY <1>0, <3>2, <4>1, DelaysGrow DEF MainInv
      <4> QED BY <4>2
    <3> QED BY <3>1, <3>2
  <2>3. MainInv'
    <3>1. attempt' # 0 /\ attempt' - 1 = attempt
      BY <1>0, <2>1
    <3>2. delay' <= NextDelay(attempt' - 1)
      BY <2>1, <2>2, <3>1
    <3> QED BY <1>2, <3>1, <3>2 DEF Dial, MainInv, NextDelay, Minimum, Multiplier
  <2> QED BY <1>0, <2>1, <2>3 DEF MainInv
<1>3. CASE AfterSession
  <2>1. CASE Exit("client") /\ delay' = delay
    BY <1>0, <1>3, <2>1, EndKeepsTypes DEF AfterSession, Exit, MainInv
  <2>2. CASE /\ delay' = NextDelay(attempt - 1)
             /\ main' = [main EXCEPT !["client"] = "sleep"] /\ UNCHANGED streamVars
    <3>1. attempt # 0 /\ attempt - 1 \in Nat /\ UNCHANGED <<mode, shutdown, attempt>>
      BY <1>0, <1>3 DEF AfterSession, MainInv
    <3>2. delay' \in 0..MaxDelay /\ delay' = NextDelay(attempt - 1)
      BY <2>2, <3>1, DelaysGrow
    <3>3. MainInv'
      <4>1. delay' <= NextDelay(attempt' - 1)
        BY <3>1, <3>2
      <4> QED BY <2>2, <3>1, <3>2, <4>1 DEF MainInv, NextDelay, Minimum, Multiplier
    <3>4. StreamInv'
      BY <2>2, <3>1 DEF StreamInv, streamVars
    <3>5. delay' >= delay
      BY <1>0, <3>1, <3>2 DEF MainInv
    <3> QED BY <3>3, <3>4, <3>5
  <2> QED BY <1>3, <2>1, <2>2 DEF AfterSession
<1>4. CASE Wake
  BY <1>0, <1>4 DEF Wake, streamVars, MainInv, StreamInv, NextDelay, Minimum, Multiplier
<1> QED BY <1>1, <1>2, <1>3, <1>4 DEF ClientMain

\* Every step keeps the types, and no step shortens the delay.
LEMMA StepKeepsTypes ==
  ASSUME IInv, MainInv, StreamInv, [Next]_vars
  PROVE  MainInv' /\ StreamInv' /\ delay' >= delay
<1>0. delay \in Nat /\ delay >= delay /\ "host" \in Sides
  BY BoundsType DEF MainInv, Sides
<1>1. CASE UNCHANGED vars
  BY <1>0, <1>1, TasksKeepMainInv DEF vars, programVars, streamVars, StreamInv
<1>2. CASE StopListening
  BY <1>0, <1>2, EndKeepsTypes DEF StopListening, Exit
<1>3. ASSUME NEW s \in Sides, Trigger(s)
      PROVE  MainInv' /\ StreamInv' /\ delay' >= delay
  BY <1>0, <1>3 DEF Trigger, MainInv, StreamInv, streamVars, NextDelay, Minimum, Multiplier
<1>4. ASSUME NEW s \in Sides, Crash(s) \/ AfterRelay(s)
      PROVE  MainInv' /\ StreamInv' /\ delay' >= delay
  BY <1>0, <1>4, EndKeepsTypes DEF Crash, AfterRelay, Exit
<1>5. ASSUME NEW s \in Sides, DialRelay(s)
      PROVE  MainInv' /\ StreamInv' /\ delay' >= delay
  <2>1. /\ attempt' = 1 /\ delay' = delay /\ shutdown' = shutdown
        /\ main' = [main EXCEPT ![s] = "session"] /\ UNCHANGED <<mode, streamVars>>
    BY <1>5 DEF DialRelay
  <2>2. delay <= NextDelay(0)
    <3>1. attempt \in {0, 1}
      BY <1>5 DEF DialRelay, IInv, RelayInv
    <3> QED BY <1>0, <3>1, DelaysGrow DEF MainInv
  <2>3. MainInv'
    <3>1. delay' <= NextDelay(attempt' - 1)
      BY <2>1, <2>2
    <3> QED BY <2>1, <3>1 DEF MainInv, NextDelay, Minimum, Multiplier
  <2> QED BY <1>0, <2>1, <2>3 DEF StreamInv, streamVars
<1>6. ASSUME NEW k \in Connections, Reset(k)
      PROVE  MainInv' /\ StreamInv' /\ delay' >= delay
  BY <1>0, <1>6, TasksKeepMainInv DEF Reset, programVars, StreamInv
<1>7. ASSUME NEW e \in Ends, Opens(e) \/ Loops(e) \/ Tick(e)
      PROVE  MainInv' /\ StreamInv' /\ delay' >= delay
  <2>1. UNCHANGED programVars
    BY <1>7 DEF Opens, Loops, Tick, Connected, Admitted, Accept, Secured, SendHello, Fails,
                ReadLength, Receive, RecvFails, StopInLoop
  <2> QED BY <1>0, <1>7, <2>1, TaskKeepsStreamInv, TasksKeepMainInv DEF programVars
<1> QED BY <1>1, <1>2, <1>3, <1>4, <1>5, <1>6, <1>7, ClientMainKeepsTypes DEF Next

\* Nothing has been sent, read or waited for.
LEMMA InitIsTyped ==
  ASSUME Init
  PROVE  MainInv /\ StreamInv
<1>1. Whole(0)
  <2>1. 0 \in Nat /\ 0 = 2 * 0
    OBVIOUS
  <2> QED BY <2>1 DEF Whole
<1>2. shutdown \in [Sides -> BOOLEAN] /\ got \in [Ends -> BOOLEAN]
  BY Zenon DEF Init
<1>3. MainInv
  BY <1>2, BoundsType DEF Init, MainInv, Sides
<1>4. StreamInv
  BY <1>1, <1>2, BoundsType DEF Init, StreamInv
<1> QED BY <1>3, <1>4

\* Every variable keeps its type: no end writes more than its hello and its
\* heartbeats or reads more than was written, and no delay is above the cap
\* (bin/common/mod.rs 66-110, transport/backoff.rs 24-33).
THEOREM SessionIsTyped == Spec => []TypeOK
<1>1. IInv /\ MainInv /\ StreamInv => TypeOK
  BY DEF IInv, TypeInv, MainInv, StreamInv, TypeOK
<1>2. IInv /\ MainInv /\ StreamInv /\ [Next]_vars => MainInv' /\ StreamInv'
  BY StepKeepsTypes
<1>3. Init => MainInv /\ StreamInv
  BY InitIsTyped
<1> QED BY <1>1, <1>2, <1>3, SessionInductive, PTL DEF Spec

\* From one failure to the next the client waits longer or as long, never less
\* (transport/backoff.rs 24-33).
WaitsNeverShrink == [][delay' >= delay]_vars

\* The backoff escalates: the client never calls reset (bin/client.rs 62-87).
THEOREM BackoffEscalates == Spec => WaitsNeverShrink
<1>1. IInv /\ MainInv /\ StreamInv /\ [Next]_vars => MainInv' /\ StreamInv' /\ [delay' >= delay]_vars
  BY StepKeepsTypes
<1>2. Init => MainInv /\ StreamInv
  BY InitIsTyped
<1> QED BY <1>1, <1>2, SessionInductive, PTL DEF Spec, WaitsNeverShrink
=============================================================================
