--------------------------- MODULE NetworkProofs ---------------------------
(***************************************************************************)
(* What holds of the connections for any number of servers and Interface   *)
(* objects and any number of failures: the types, and that every open      *)
(* connection is the one that Network.interfaces has for its server.       *)
(***************************************************************************)
EXTENDS Network, SequenceTheorems, TLAPS

\* The entries of interfaces, _connecting and the objects belong together: an
\* entry is an object of that server which has become ready and is not down;
\* an open one is the entry of its server; of the objects that connect there is
\* one per server, which _connecting has and interfaces has not.
Registry(n, st) ==
  /\ \A s \in Server : n.interfaces[s] # None =>
       server[n.interfaces[s]] = s /\ st[n.interfaces[s]] \notin {"connecting", "down"}
  /\ \A i \in Id : st[i] = "up" => n.interfaces[server[i]] = i
  /\ \A i \in Id : st[i] = "connecting" => server[i] \in n.connecting
  /\ \A i, j \in Id : st[i] = "connecting" /\ st[j] = "connecting" /\ i # j => server[i] # server[j]
  /\ \A s \in n.connecting : n.interfaces[s] = None

NInv == TypeOK /\ Registry(net, state)
-----------------------------------------------------------------------------
(* The operators *)

\* None is no object, and objects are numbers.
LEMMA Ids == None \notin Id /\ Id \subseteq Nat
<1> QED BY NetworkAssumption DEF Id

\* Taking one call out of the queue leaves a queue of calls.
LEMMA Removing ==
  ASSUME NEW T, NEW q \in Seq(T), NEW k \in DOMAIN q
  PROVE  RemoveAt(q, k) \in Seq(T)
<1>1. k \in 1 .. Len(q)
  OBVIOUS
<1>2. SubSeq(q, 1, k - 1) \in Seq(T) /\ SubSeq(q, k + 1, Len(q)) \in Seq(T)
  BY <1>1, SubSeqProperties
<1> QED BY <1>2, ConcatProperties DEF RemoveAt

\* What a closed session leaves behind keeps the types and touches neither
\* interfaces nor _connecting.
LEMMA SwitchedNet ==
  ASSUME TypeOK, NEW n \in Net, NEW st, NEW to \in Server, NEW old \in Id \cup {None}
  PROVE  /\ Switched(n, st, to, old) \in Net
         /\ Switched(n, st, to, old).interfaces = n.interfaces
         /\ Switched(n, st, to, old).connecting = n.connecting
<1>1. old # None => server[old] \in Server
  BY DEF TypeOK
<1>2. PICK again \in BOOLEAN :
        again = (/\ old # None /\ server[old] # to
                 /\ Cardinality(Registered(n)) <= NumServer)
  OBVIOUS
<1>3. again => server[old] \in Server
  BY <1>1, <1>2
<1>4. PICK m : m = [n EXCEPT !.spawned = IF again THEN @ \cup {server[old]} ELSE @]
  OBVIOUS
<1>5. m \in Net /\ m.interfaces = n.interfaces /\ m.connecting = n.connecting
  BY <1>3, <1>4 DEF Net
<1>6. n.interfaces[to] \in Id \cup {None}
  BY DEF Net
<1>7. CASE n.interfaces[to] = None
  <2>1. Switched(n, st, to, old) = [m EXCEPT !.main = None, !.spawned = @ \cup {to}]
    BY <1>2, <1>4, <1>7 DEF Switched
  <2>2. m.spawned \cup {to} \in SUBSET Server
    BY <1>5 DEF Net
  <2>3. [m EXCEPT !.main = None, !.spawned = m.spawned \cup {to}] \in Net
    BY <1>5, <2>2 DEF Net
  <2> QED BY <1>5, <2>1, <2>3 DEF Net
<1>8. CASE n.interfaces[to] # None /\ n.interfaces[to] = old
  <2>1. Switched(n, st, to, old) = m
    BY <1>2, <1>4, <1>8 DEF Switched
  <2> QED BY <1>5, <2>1
<1>9. CASE n.interfaces[to] # None /\ n.interfaces[to] # old
  <2> DEFINE i == n.interfaces[to]
  <2>1. Switched(n, st, to, old) =
          [m EXCEPT !.main = i, !.status = IF st[i] = "dying" THEN @ ELSE "connected"]
    BY <1>2, <1>4, <1>9 DEF Switched
  <2> QED BY <1>5, <1>6, <1>9, <2>1 DEF Net
<1> QED BY <1>7, <1>8, <1>9

\* _close_interface takes out one object and no other.
LEMMA UnregisteredNet ==
  ASSUME NEW n \in Net, NEW i \in Id
  PROVE  /\ Unregistered(n, i) \in Net
         /\ \A s \in Server : Unregistered(n, i).interfaces[s] =
                                IF n.interfaces[s] = i THEN None ELSE n.interfaces[s]
         /\ Unregistered(n, i).connecting = n.connecting
         /\ Unregistered(n, i).default = n.default
<1> QED BY DEF Unregistered, Net

\* connection_down keeps the types and takes out one object.
LEMMA DownNet ==
  ASSUME TypeOK, NEW n \in Net, NEW i \in Id
  PROVE  /\ Down(n, i) \in Net
         /\ Down(n, i).interfaces = Unregistered(n, i).interfaces
         /\ Down(n, i).connecting = n.connecting
<1>1. PICK m : m = Unregistered(n, i)
  OBVIOUS
<1>2. m \in Net /\ m.connecting = n.connecting
  BY <1>1, UnregisteredNet
<1>3. Down(n, i) = IF server[i] = n.default
                   THEN [m EXCEPT !.main = None, !.status = "disconnected"] ELSE m
  BY <1>1 DEF Down
<1> QED BY <1>1, <1>2, <1>3 DEF Net

\* switch_to_interface, up to its await or to its end, keeps the types, and every
\* open connection in interfaces: it takes out only the one it closes.
LEMMA SwitchKeeps ==
  ASSUME TypeOK, NEW n \in Net, NEW st \in [Id -> State], Registry(n, st),
         NEW to \in Server, NEW owner \in Id \cup {None, User}, SwitchTo(n, st, to, owner)
  PROVE  /\ net' \in Net /\ state' \in [Id -> State] /\ waiting' \in Seq(Switch)
         /\ Registry(net', state')
<1>1. PICK old \in Id \cup {None} : old = n.main
  BY DEF Net
<1>2. PICK leaves \in BOOLEAN : leaves = (old # None /\ server[old] # to)
  OBVIOUS
<1>3. PICK waits \in BOOLEAN : waits = (leaves /\ st[old] \in {"up", "closing"})
  BY <1>2
<1>4. PICK d : d = [n EXCEPT !.default = to]
  OBVIOUS
<1>5. d \in Net /\ d.interfaces = n.interfaces /\ d.connecting = n.connecting
  BY <1>4 DEF Net
<1>6. PICK m : m = IF leaves THEN Unregistered(d, old) ELSE d
  OBVIOUS
<1>7. /\ state' = IF waits THEN [st EXCEPT ![old] = "closing"] ELSE st
      /\ net' = IF waits THEN m ELSE Switched(m, st, to, old)
      /\ waiting' = IF waits THEN Append(waiting, [to |-> to, old |-> old, owner |-> owner])
                    ELSE waiting
  BY <1>1, <1>2, <1>3, <1>4, <1>6 DEF SwitchTo
<1>8. leaves => old \in Id
  BY <1>1, <1>2
<1>9. m \in Net /\ m.connecting = n.connecting
  BY <1>5, <1>6, <1>8, UnregisteredNet
<1>10. \A s \in Server : m.interfaces[s] =
         IF leaves /\ n.interfaces[s] = old THEN None ELSE n.interfaces[s]
  BY <1>5, <1>6, <1>8, UnregisteredNet
<1>11. /\ Switched(m, st, to, old) \in Net
       /\ Switched(m, st, to, old).interfaces = m.interfaces
       /\ Switched(m, st, to, old).connecting = m.connecting
  BY <1>9, SwitchedNet
<1>12. net' \in Net /\ net'.interfaces = m.interfaces /\ net'.connecting = n.connecting
  BY <1>7, <1>9, <1>11
<1>13. waiting' \in Seq(Switch)
  <2>1. waits => [to |-> to, old |-> old, owner |-> owner] \in Switch
    BY <1>3, <1>8 DEF Switch
  <2>2. waiting \in Seq(Switch)
    BY DEF TypeOK
  <2>3. waits => Append(waiting, [to |-> to, old |-> old, owner |-> owner]) \in Seq(Switch)
    BY <2>1, <2>2
  <2> QED BY <1>7, <2>2, <2>3
<1>14. state' \in [Id -> State]
  BY <1>7 DEF State
<1>15. /\ \A i \in Id : state'[i] = "up" => st[i] = "up" /\ (leaves => i # old)
       /\ \A i \in Id : state'[i] # st[i] => st[i] \in {"up", "closing"} /\ state'[i] = "closing"
  BY <1>3, <1>7, <1>8
<1>16. \A i \in Id : server[i] \in Server
  BY DEF TypeOK
<1>17. \A s \in Server : n.interfaces[s] \in Id \cup {None} /\ net'.interfaces[s] \in Id \cup {None}
  BY <1>12 DEF Net
<1>18. n.connecting \subseteq Server
  BY DEF Net
<1>19. Registry(net', state')
  <2>1. \A s \in Server : net'.interfaces[s] # None =>
          server[net'.interfaces[s]] = s /\ state'[net'.interfaces[s]] \notin {"connecting", "down"}
    BY <1>10, <1>12, <1>15, <1>17 DEF Registry
  <2>2. \A i \in Id : state'[i] = "up" => net'.interfaces[server[i]] = i
    BY <1>10, <1>12, <1>15, <1>16 DEF Registry
  <2>3. \A i \in Id : state'[i] = "connecting" => server[i] \in net'.connecting
    BY <1>12, <1>15 DEF Registry
  <2>4. \A i, j \in Id : state'[i] = "connecting" /\ state'[j] = "connecting" /\ i # j =>
          server[i] # server[j]
    BY <1>15 DEF Registry
  <2>5. \A s \in net'.connecting : net'.interfaces[s] = None
    BY <1>10, <1>12, <1>18 DEF Registry
  <2> QED BY <2>1, <2>2, <2>3, <2>4, <2>5 DEF Registry
<1> QED BY <1>12, <1>13, <1>14, <1>19
-----------------------------------------------------------------------------
(* The steps *)

LEMMA NetInitially == Init => NInv
<1> SUFFICES ASSUME Init PROVE NInv
  OBVIOUS
<1>1. PICK s \in Server :
        /\ net = [main |-> None, default |-> s, status |-> "disconnected",
                  interfaces |-> [x \in Server |-> None], connecting |-> {}, spawned |-> {s}]
        /\ server = [i \in Id |-> s]
  BY DEF Init
<1>2. TypeOK
  BY <1>1, NetworkAssumption DEF Init, TypeOK, Net, State
<1>3. Registry(net, state)
  BY <1>1 DEF Init, Registry
<1> QED BY <1>2, <1>3 DEF NInv

\* A step that leaves the entries alone and opens, connects and ends nothing.
LEMMA Quiet ==
  ASSUME NInv, net' \in Net, net'.interfaces = net.interfaces, net'.connecting = net.connecting,
         state' \in [Id -> State], server' = server,
         \A i \in Id : state'[i] # state[i] =>
           state[i] \in {"up", "closing", "lost"} /\ state'[i] \in {"closing", "lost", "dying"}
  PROVE  Registry(net, state)'
<1>1. net \in Net
  BY DEF NInv, TypeOK
<1>2. \A s \in Server : net.interfaces[s] \in Id \cup {None}
  BY <1>1 DEF Net
<1> QED BY <1>2 DEF NInv, Registry

\* An interface gets its server, or the server turns out to be taken care of.
LEMMA StartStep == ASSUME NInv, NEW s \in Server, StartInterface(s) PROVE NInv'
<1>1. TypeOK /\ Registry(net, state) /\ net \in Net
  BY DEF NInv, TypeOK
<1>2. \A x \in Server : net.interfaces[x] \in Id \cup {None}
  BY <1>1 DEF Net
<1>3. CASE net.interfaces[s] # None \/ s \in net.connecting
  <2>1. net' = [net EXCEPT !.spawned = @ \ {s}] /\ UNCHANGED <<server, state>>
    BY <1>3 DEF StartInterface
  <2>2. net' \in Net /\ net'.interfaces = net.interfaces /\ net'.connecting = net.connecting
    BY <1>1, <2>1 DEF Net
  <2>3. TypeOK'
    BY <1>1, <2>1, <2>2 DEF TypeOK, StartInterface
  <2> QED BY <1>1, <2>1, <2>2, <2>3, Quiet DEF NInv, TypeOK
<1>4. CASE net.interfaces[s] = None /\ s \notin net.connecting
  <2>1. PICK i \in Id :
          /\ Unused(i)
          /\ server' = [server EXCEPT ![i] = s]
          /\ state' = [state EXCEPT ![i] = "connecting"]
    BY <1>4 DEF StartInterface
  <2>2. net' = [net EXCEPT !.spawned = @ \ {s}, !.connecting = @ \cup {s},
                           !.status = IF s = net.default THEN "connecting" ELSE @]
    BY <1>4 DEF StartInterface
  <2>3. net' \in Net /\ net'.interfaces = net.interfaces /\ net'.connecting = net.connecting \cup {s}
    <3>1. PICK status \in {"disconnected", "connecting", "connected"} :
            status = IF s = net.default THEN "connecting" ELSE net.status
      BY <1>1 DEF Net
    <3>2. net' = [net EXCEPT !.spawned = @ \ {s}, !.connecting = @ \cup {s}, !.status = status]
      BY <2>2, <3>1
    <3>3. net.spawned \ {s} \in SUBSET Server /\ net.connecting \cup {s} \in SUBSET Server
      BY <1>1 DEF Net
    <3> QED BY <1>1, <3>2, <3>3 DEF Net
  <2>4. TypeOK'
    BY <1>1, <2>1, <2>3 DEF TypeOK, StartInterface, State
  <2>5. state[i] = "down"
    BY <2>1 DEF Unused
  <2>6. \A k \in Id : IF k = i THEN server'[k] = s /\ state'[k] = "connecting"
                      ELSE server'[k] = server[k] /\ state'[k] = state[k]
    BY <1>1, <2>1 DEF TypeOK
  <2>7. \A x \in Server : net.interfaces[x] # i
    BY <1>1, <2>5, Ids DEF Registry
  <2>8. Registry(net, state)'
    <3>1. \A x \in Server : net'.interfaces[x] # None =>
            server'[net'.interfaces[x]] = x /\ state'[net'.interfaces[x]] \notin {"connecting", "down"}
      BY <1>1, <1>2, <2>3, <2>6, <2>7 DEF Registry
    <3>2. \A k \in Id : state'[k] = "up" => net'.interfaces[server'[k]] = k
      BY <1>1, <2>3, <2>6 DEF Registry
    <3>3. \A k \in Id : state'[k] = "connecting" => server'[k] \in net'.connecting
      BY <1>1, <2>3, <2>6 DEF Registry
    <3>4. \A k, j \in Id : state'[k] = "connecting" /\ state'[j] = "connecting" /\ k # j =>
            server'[k] # server'[j]
      BY <1>1, <1>4, <2>6 DEF Registry
    <3>5. \A x \in net'.connecting : net'.interfaces[x] = None
      BY <1>1, <1>4, <2>3 DEF Registry
    <3> QED BY <3>1, <3>2, <3>3, <3>4, <3>5 DEF Registry
  <2> QED BY <2>4, <2>8 DEF NInv
<1> QED BY <1>3, <1>4

\* The server answers: interfaces has no entry for it, as _run_new_interface
\* asserts, and nobody else connects to it.
LEMMA ReadyStep == ASSUME NInv, NEW i \in Id, BecomesReady(i) PROVE NInv'
<1>1. TypeOK /\ Registry(net, state) /\ net \in Net
  BY DEF NInv, TypeOK
<1>2. PICK s \in Server : s = server[i]
  BY <1>1 DEF TypeOK
<1>3. PICK n : n = [net EXCEPT !.connecting = @ \ {s}, !.interfaces[s] = i]
  OBVIOUS
<1>4. PICK st : st = [state EXCEPT ![i] = "up"]
  OBVIOUS
<1>5. /\ state[i] = "connecting"
      /\ IF s = net.default THEN SwitchTo(n, st, s, None)
         ELSE net' = n /\ state' = st /\ UNCHANGED waiting
      /\ UNCHANGED <<auto, server, events>>
  BY <1>2, <1>3, <1>4 DEF BecomesReady
<1>6. /\ n \in Net /\ n.connecting = net.connecting \ {s}
      /\ \A x \in Server : n.interfaces[x] = IF x = s THEN i ELSE net.interfaces[x]
  <2>1. net.connecting \ {s} \in SUBSET Server
    BY <1>1 DEF Net
  <2>2. [net.interfaces EXCEPT ![s] = i] \in [Server -> Id \cup {None}]
    BY <1>1 DEF Net
  <2>3. n = [net EXCEPT !.connecting = net.connecting \ {s},
                        !.interfaces = [net.interfaces EXCEPT ![s] = i]]
    BY <1>1, <1>3 DEF Net
  <2> QED BY <1>1, <2>1, <2>2, <2>3 DEF Net
<1>7. st \in [Id -> State] /\ \A k \in Id : st[k] = IF k = i THEN "up" ELSE state[k]
  BY <1>1, <1>4 DEF TypeOK, State
<1>8. \A k \in Id : server[k] \in Server
  BY <1>1 DEF TypeOK
<1>9. net.interfaces[s] = None
  BY <1>1, <1>2, <1>5 DEF Registry
<1>10. \A x \in Server : net.interfaces[x] \in Id \cup {None} /\ net.interfaces[x] # i
  <2>1. \A x \in Server : net.interfaces[x] \in Id \cup {None}
    BY <1>1 DEF Net
  <2> QED BY <1>1, <1>5, <2>1, Ids DEF Registry
<1>11. Registry(n, st)
  <2>1. \A x \in Server : n.interfaces[x] # None =>
          server[n.interfaces[x]] = x /\ st[n.interfaces[x]] \notin {"connecting", "down"}
    BY <1>1, <1>2, <1>6, <1>7, <1>10 DEF Registry
  <2>2. \A k \in Id : st[k] = "up" => n.interfaces[server[k]] = k
    BY <1>1, <1>2, <1>6, <1>7, <1>8, <1>9, Ids DEF Registry
  <2>3. \A k \in Id : st[k] = "connecting" => server[k] \in n.connecting
    BY <1>1, <1>2, <1>5, <1>6, <1>7 DEF Registry
  <2>4. \A k, j \in Id : st[k] = "connecting" /\ st[j] = "connecting" /\ k # j =>
          server[k] # server[j]
    BY <1>1, <1>7 DEF Registry
  <2>5. \A x \in n.connecting : n.interfaces[x] = None
    <3>1. net.connecting \subseteq Server
      BY <1>1 DEF Net
    <3> QED BY <1>1, <1>6, <3>1 DEF Registry
  <2> QED BY <2>1, <2>2, <2>3, <2>4, <2>5 DEF Registry
<1>12. /\ net' \in Net /\ state' \in [Id -> State] /\ waiting' \in Seq(Switch)
       /\ Registry(net', state')
  <2>1. CASE s = net.default
    BY <1>1, <1>5, <1>6, <1>7, <1>11, <2>1, SwitchKeeps
  <2>2. CASE s # net.default
    BY <1>1, <1>5, <1>6, <1>7, <1>11, <2>2 DEF TypeOK
  <2> QED BY <2>1, <2>2
<1>13. TypeOK'
  BY <1>1, <1>5, <1>12 DEF TypeOK
<1> QED BY <1>5, <1>12, <1>13 DEF NInv, Registry

\* An object that connected in vain, or whose run ends, leaves nothing behind.
LEMMA Ended ==
  ASSUME NInv, NEW i \in Id, NEW end \in {"dying", "down"}, state' = [state EXCEPT ![i] = end],
         server' = server,
         \/ state[i] = "connecting" /\ net'.connecting = net.connecting \ {server[i]}
         \/ state[i] = "dying" /\ net'.connecting = net.connecting,
         \A s \in Server : net'.interfaces[s] =
                             IF net.interfaces[s] = i THEN None ELSE net.interfaces[s]
  PROVE  Registry(net, state)'
<1>1. TypeOK /\ Registry(net, state) /\ net \in Net
  BY DEF NInv, TypeOK
<1>2. \A k \in Id : server[k] \in Server /\ state'[k] = IF k = i THEN end ELSE state[k]
  BY <1>1 DEF TypeOK
<1>3. \A s \in Server : net.interfaces[s] \in Id \cup {None}
  BY <1>1 DEF Net
<1>4. net.connecting \subseteq Server
  BY <1>1 DEF Net
<1>5. \A s \in Server : net'.interfaces[s] # None =>
        server[net'.interfaces[s]] = s /\ state'[net'.interfaces[s]] \notin {"connecting", "down"}
  BY <1>1, <1>2, <1>3 DEF Registry
<1>6. \A k \in Id : state'[k] = "up" => net'.interfaces[server[k]] = k
  BY <1>1, <1>2 DEF Registry
<1>7. \A k \in Id : state'[k] = "connecting" => server[k] \in net'.connecting
  BY <1>1, <1>2 DEF Registry
<1>8. \A k, j \in Id : state'[k] = "connecting" /\ state'[j] = "connecting" /\ k # j =>
        server[k] # server[j]
  BY <1>1, <1>2 DEF Registry
<1>9. \A s \in net'.connecting : net'.interfaces[s] = None
  BY <1>1, <1>4 DEF Registry
<1> QED BY <1>5, <1>6, <1>7, <1>8, <1>9 DEF Registry

LEMMA TimesOutStep == ASSUME NInv, NEW i \in Id, TimesOut(i) PROVE NInv'
<1>1. TypeOK /\ Registry(net, state) /\ net \in Net
  BY DEF NInv, TypeOK
<1>2. /\ state[i] = "connecting" /\ state' = [state EXCEPT ![i] = "dying"]
      /\ net' = [net EXCEPT !.connecting = @ \ {server[i]}]
      /\ UNCHANGED <<auto, server, waiting>> /\ events < MaxEvents /\ events' = events + 1
  BY DEF TimesOut, Happens
<1>3. net.connecting \ {server[i]} \in SUBSET Server
  BY <1>1 DEF Net
<1>4. /\ net' \in Net /\ net'.interfaces = net.interfaces
      /\ net'.connecting = net.connecting \ {server[i]}
  BY <1>1, <1>2, <1>3 DEF Net
<1>5. TypeOK'
  BY <1>1, <1>2, <1>4, NetworkAssumption DEF TypeOK, State
<1>6. \A s \in Server : net'.interfaces[s] =
                          IF net.interfaces[s] = i THEN None ELSE net.interfaces[s]
  <2>1. \A s \in Server : net.interfaces[s] # i
    BY <1>1, <1>2, Ids DEF Registry
  <2> QED BY <1>4, <2>1
<1> QED BY <1>2, <1>4, <1>5, <1>6, Ended DEF NInv

LEMMA FailsStep == ASSUME NInv, NEW i \in Id, Fails(i) PROVE NInv'
<1>1. TypeOK /\ net \in Net
  BY DEF NInv, TypeOK
<1>2. PICK d : d = Down(net, i)
  OBVIOUS
<1>3. /\ state[i] = "connecting" /\ state' = [state EXCEPT ![i] = "down"]
      /\ net' = [d EXCEPT !.connecting = @ \ {server[i]}]
      /\ UNCHANGED <<auto, server, waiting>> /\ events < MaxEvents /\ events' = events + 1
  BY <1>2 DEF Fails, Happens
<1>4. d \in Net /\ d.interfaces = Unregistered(net, i).interfaces /\ d.connecting = net.connecting
  BY <1>1, <1>2, DownNet
<1>5. d.connecting \ {server[i]} \in SUBSET Server
  BY <1>4 DEF Net
<1>6. /\ net' \in Net /\ net'.interfaces = d.interfaces
      /\ net'.connecting = net.connecting \ {server[i]}
  BY <1>3, <1>4, <1>5 DEF Net
<1>7. TypeOK'
  BY <1>1, <1>3, <1>6, NetworkAssumption DEF TypeOK, State
<1>8. \A s \in Server : net'.interfaces[s] =
                          IF net.interfaces[s] = i THEN None ELSE net.interfaces[s]
  BY <1>1, <1>4, <1>6, UnregisteredNet
<1> QED BY <1>3, <1>6, <1>7, <1>8, Ended DEF NInv

LEMMA ConnectionDownStep == ASSUME NInv, NEW i \in Id, ConnectionDown(i) PROVE NInv'
<1>1. TypeOK /\ net \in Net
  BY DEF NInv, TypeOK
<1>2. /\ state[i] = "dying" /\ state' = [state EXCEPT ![i] = "down"] /\ net' = Down(net, i)
      /\ UNCHANGED <<auto, server, waiting, events>>
  BY DEF ConnectionDown
<1>3. /\ net' \in Net /\ net'.interfaces = Unregistered(net, i).interfaces
      /\ net'.connecting = net.connecting
  BY <1>1, <1>2, DownNet
<1>4. TypeOK'
  BY <1>1, <1>2, <1>3 DEF TypeOK, State
<1>5. \A s \in Server : net'.interfaces[s] =
                          IF net.interfaces[s] = i THEN None ELSE net.interfaces[s]
  BY <1>1, <1>3, UnregisteredNet
<1> QED BY <1>2, <1>3, <1>4, <1>5, Ended DEF NInv

\* A connection breaks, is closed, or its tasks are cancelled.
LEMMA BreakSteps ==
  ASSUME NInv, NEW i \in Id, Lost(i) \/ SessionClosed(i) \/ TasksCancelled(i) PROVE NInv'
<1>1. TypeOK /\ net \in Net
  BY DEF NInv, TypeOK
<1>2. PICK end \in {"lost", "dying"} :
        state[i] \in {"up", "closing", "lost"} /\ state' = [state EXCEPT ![i] = end]
  BY DEF Lost, SessionClosed, TasksCancelled
<1>3. UNCHANGED <<auto, net, server>> /\ events' \in 0 .. MaxEvents
  BY <1>1, NetworkAssumption DEF Lost, SessionClosed, TasksCancelled, Happens, TypeOK
<1>4. state' \in [Id -> State] /\ \A k \in Id : state'[k] # state[k] => k = i /\ state'[k] = end
  BY <1>1, <1>2 DEF TypeOK, State
<1>5. waiting' \in Seq(Switch)
  <2>1. waiting \in Seq(Switch)
    BY <1>1 DEF TypeOK
  <2>2. CASE TasksCancelled(i)
    BY <2>1, <2>2, Removing DEF TasksCancelled
  <2>3. CASE Lost(i) \/ SessionClosed(i)
    BY <2>1, <2>3 DEF Lost, SessionClosed
  <2> QED BY <2>2, <2>3
<1>6. TypeOK'
  BY <1>1, <1>3, <1>4, <1>5 DEF TypeOK
<1> QED BY <1>1, <1>2, <1>3, <1>4, <1>6, Quiet DEF NInv

\* A switch goes on after its await: it chooses among the entries that are there.
LEMMA ResumesStep == ASSUME NInv, NEW i \in Id, Resumes(i) PROVE NInv'
<1>1. TypeOK /\ net \in Net /\ waiting \in Seq(Switch)
  BY DEF NInv, TypeOK
<1>2. PICK k \in DOMAIN waiting :
        net' = Switched(net, state, waiting[k].to, i) /\ waiting' = RemoveAt(waiting, k)
  BY DEF Resumes
<1>3. waiting[k].to \in Server
  <2>1. waiting[k] \in Switch
    BY <1>1
  <2> QED BY <2>1 DEF Switch
<1>4. net' \in Net /\ net'.interfaces = net.interfaces /\ net'.connecting = net.connecting
  BY <1>1, <1>2, <1>3, SwitchedNet
<1>5. waiting' \in Seq(Switch)
  BY <1>1, <1>2, Removing
<1>6. UNCHANGED <<auto, server, state, events>>
  BY DEF Resumes
<1>7. TypeOK'
  BY <1>1, <1>4, <1>5, <1>6 DEF TypeOK
<1> QED BY <1>1, <1>4, <1>6, <1>7, Quiet DEF NInv, TypeOK

\* The spread closes a connection: it is in interfaces no more and open no more.
LEMMA CloseSpreadStep == ASSUME NInv, NEW i \in Id, CloseSpread(i) PROVE NInv'
<1>1. TypeOK /\ Registry(net, state) /\ net \in Net
  BY DEF NInv, TypeOK
<1>2. /\ net' = Unregistered(net, i)
      /\ state' = [state EXCEPT ![i] = IF @ = "up" THEN "closing" ELSE @]
      /\ UNCHANGED <<auto, server, waiting>> /\ events < MaxEvents /\ events' = events + 1
  BY DEF CloseSpread, Happens
<1>3. /\ net' \in Net /\ net'.connecting = net.connecting
      /\ \A s \in Server : net'.interfaces[s] =
                             IF net.interfaces[s] = i THEN None ELSE net.interfaces[s]
  BY <1>1, <1>2, UnregisteredNet
<1>4. /\ state' \in [Id -> State]
      /\ \A k \in Id : state'[k] = IF k = i /\ state[k] = "up" THEN "closing" ELSE state[k]
  BY <1>1, <1>2 DEF TypeOK, State
<1>5. TypeOK'
  BY <1>1, <1>2, <1>3, <1>4, NetworkAssumption DEF TypeOK
<1>6. /\ \A k \in Id : server[k] \in Server
      /\ \A s \in Server : net.interfaces[s] \in Id \cup {None}
      /\ net.connecting \subseteq Server
  BY <1>1 DEF TypeOK, Net
<1>7. \A s \in Server : net'.interfaces[s] # None =>
        server[net'.interfaces[s]] = s /\ state'[net'.interfaces[s]] \notin {"connecting", "down"}
  BY <1>1, <1>3, <1>4, <1>6 DEF Registry
<1>8. \A k \in Id : state'[k] = "up" => net'.interfaces[server[k]] = k
  BY <1>1, <1>3, <1>4, <1>6 DEF Registry
<1>9. \A k \in Id : state'[k] = "connecting" => server[k] \in net'.connecting /\ state[k] = "connecting"
  BY <1>1, <1>3, <1>4 DEF Registry
<1>10. \A s \in net'.connecting : net'.interfaces[s] = None
  BY <1>1, <1>3, <1>6 DEF Registry
<1> QED BY <1>1, <1>2, <1>5, <1>7, <1>8, <1>9, <1>10 DEF NInv, Registry

\* A call of switch_to_interface, by the maintenance, the user or an interface.
LEMMA SwitchSteps ==
  ASSUME NInv,
         \/ EnsureMain
         \/ \E s \in Server : SetServer(s)
         \/ \E i \in Id, s \in Server : SwitchAway(i, s)
  PROVE  NInv'
<1>1. TypeOK /\ Registry(net, state) /\ net \in Net /\ state \in [Id -> State]
  BY DEF NInv, TypeOK
<1>2. /\ \E s \in Server, owner \in Id \cup {None, User} : SwitchTo(net, state, s, owner)
      /\ UNCHANGED <<auto, server>>
  <2>1. CASE EnsureMain
    <3>1. net.default \in Server
      BY <1>1 DEF Net
    <3> QED BY <2>1, <3>1 DEF EnsureMain
  <2>2. CASE \E s \in Server : SetServer(s)
    BY <2>2 DEF SetServer
  <2>3. CASE \E i \in Id, s \in Server : SwitchAway(i, s)
    BY <2>3 DEF SwitchAway
  <2> QED BY <2>1, <2>2, <2>3
<1>3. events' \in 0 .. MaxEvents
  BY <1>1, NetworkAssumption DEF EnsureMain, SetServer, SwitchAway, Happens, TypeOK
<1>4. /\ net' \in Net /\ state' \in [Id -> State] /\ waiting' \in Seq(Switch)
      /\ Registry(net', state')
  BY <1>1, <1>2, SwitchKeeps
<1>5. TypeOK'
  BY <1>1, <1>2, <1>3, <1>4 DEF TypeOK
<1> QED BY <1>2, <1>4, <1>5 DEF NInv, Registry

LEMMA StartMoreStep == ASSUME NInv, NEW s \in Server, StartMore(s) PROVE NInv'
<1>1. TypeOK /\ net \in Net
  BY DEF NInv, TypeOK
<1>2. net' = [net EXCEPT !.spawned = @ \cup {s}] /\ UNCHANGED <<auto, server, state, waiting, events>>
  BY DEF StartMore
<1>3. net' \in Net /\ net'.interfaces = net.interfaces /\ net'.connecting = net.connecting
  BY <1>1, <1>2 DEF Net
<1>4. TypeOK'
  BY <1>1, <1>2, <1>3 DEF TypeOK
<1> QED BY <1>1, <1>2, <1>3, <1>4, Quiet DEF NInv, TypeOK

LEMMA NetInductive == NInv /\ [Next]_vars => NInv'
<1> SUFFICES ASSUME NInv, [Next]_vars PROVE NInv'
  OBVIOUS
<1>1. CASE \E i \in Id : Interface(i)
  BY <1>1, ReadyStep, TimesOutStep, FailsStep, BreakSteps, ResumesStep, ConnectionDownStep
     DEF Interface
<1>2. CASE Maintain
  BY <1>2, StartMoreStep, StartStep, CloseSpreadStep, SwitchSteps DEF Maintain
<1>3. CASE \/ \E s \in Server : SetServer(s)
           \/ \E i \in Id, s \in Server : SwitchAway(i, s)
  BY <1>3, SwitchSteps
<1>4. CASE UNCHANGED vars
  BY <1>4 DEF vars, NInv, TypeOK, Registry
<1> QED BY <1>1, <1>2, <1>3, <1>4 DEF Next

LEMMA NetInvariance == Spec => []NInv
<1> QED BY NetInitially, NetInductive, PTL DEF Spec

\* Every variable of the network keeps its type.
THEOREM NetworkTyped == Spec => []TypeOK
<1>1. NInv => TypeOK
  BY DEF NInv
<1> QED BY <1>1, NetInvariance, PTL

\* However connections fail, time out, end late and are switched away from, an
\* open one is the one that interfaces has for its server: a connection_down that
\* comes late takes out its own object only, and "assert server not in
\* self.interfaces" (network.py:764) holds.
THEOREM NoConnectionLeaks == Spec => []NoneLeaks
<1>1. NInv => NoneLeaks
  BY DEF NInv, Registry, NoneLeaks
<1> QED BY <1>1, NetInvariance, PTL
=============================================================================
