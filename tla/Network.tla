------------------------------ MODULE Network -------------------------------
(***************************************************************************)
(* The connections of electrum/network.py and the choice of the main one.  *)
(* Everything runs on one event loop and is interleaved only where a       *)
(* coroutine awaits: switch_to_interface awaits the end of the session it  *)
(* leaves, in a task of the network or of an interface, which dies with    *)
(* it.                                                                     *)
(***************************************************************************)
EXTENDS Integers, Sequences, FiniteSets, SequencesExt

CONSTANTS
  Server,     \* the servers known
  MaxId,      \* bound on interface objects in use at once
  NumServer,  \* num_server, the number of connections wanted
  None, User,
  MaxEvents   \* bound on failures and on choices of another server

ASSUME NetworkAssumption ==
  /\ IsFiniteSet(Server) /\ Server # {} /\ MaxId \in Nat \ {0}
  /\ NumServer \in Nat /\ MaxEvents \in Nat
  /\ None \notin Server /\ None \notin Nat /\ User \notin Nat \cup {None}

VARIABLES
  auto,     \* auto_connect
  net,      \* see Net
  server,   \* the server of each Interface object
  state,    \* and how far its run() is
  waiting,  \* calls of switch_to_interface that await the end of the old session
  events    \* history: failures and choices so far

vars == <<auto, net, server, state, waiting, events>>

Id == 1 .. MaxId
State == {"connecting", "up", "closing", "lost", "dying", "down"}

\* self.interface, default_server, connection_status, interfaces, _connecting
\* and the tasks _run_new_interface that have not started.
Net ==
  [main: Id \cup {None}, default: Server, status: {"disconnected", "connecting", "connected"},
   interfaces: [Server -> Id \cup {None}], connecting: SUBSET Server, spawned: SUBSET Server]

\* A call: where to, from which interface, in whose task
Switch == [to: Server, old: Id, owner: Id \cup {None, User}]

Registered(n) == {i \in Id : \E s \in Server : n.interfaces[s] = i}
Unused(i) == state[i] = "down" /\ net.main # i /\ \A k \in DOMAIN waiting : waiting[k].old # i
Happens == events < MaxEvents /\ events' = events + 1
-----------------------------------------------------------------------------
(* Switching the main interface *)

\* Mutant of Unregistered: whatever connection the server has is taken out.
UnregisteredServer(n, i) == [n EXCEPT !.interfaces[server[i]] = None]

Unregistered(n, i) ==
  [n EXCEPT !.interfaces = [s \in Server |-> IF @[s] = i THEN None ELSE @[s]]]

\* The part of switch_to_interface after the old session is closed. A task
\* cannot be added to an interface that is dying: the call ends there.
Switched(n, st, to, old) ==
  LET again == /\ old # None /\ server[old] # to
               /\ Cardinality(Registered(n)) <= NumServer
      m == [n EXCEPT !.spawned = IF again THEN @ \cup {server[old]} ELSE @]
      i == n.interfaces[to]
  IN CASE i = None -> [m EXCEPT !.main = None, !.spawned = @ \cup {to}]
       [] i # None /\ i = old -> m
       [] OTHER -> [m EXCEPT !.main = i, !.status = IF st[i] = "dying" THEN @ ELSE "connected"]

\* switch_to_interface: it waits if there is a session to close.
SwitchTo(n, st, to, owner) ==
  LET old == n.main
      leaves == old # None /\ server[old] # to
      waits == leaves /\ st[old] \in {"up", "closing"}
      m == IF leaves THEN Unregistered([n EXCEPT !.default = to], old) ELSE [n EXCEPT !.default = to]
  IN /\ state' = IF waits THEN [st EXCEPT ![old] = "closing"] ELSE st
     /\ net' = IF waits THEN m ELSE Switched(m, st, to, old)
     /\ waiting' = IF waits THEN Append(waiting, [to |-> to, old |-> old, owner |-> owner])
                   ELSE waiting

\* The transport is closed.
SessionClosed(i) ==
  /\ state[i] = "closing"
  /\ state' = [state EXCEPT ![i] = "lost"]
  /\ UNCHANGED <<auto, net, server, waiting, events>>

\* Those who awaited it go on, each in its turn, in the order they came.
Resumes(i) ==
  /\ state[i] \in {"lost", "dying"}
  /\ \E k \in DOMAIN waiting :
       /\ waiting[k].old = i /\ \A j \in 1 .. k - 1 : waiting[j].old # i
       /\ net' = Switched(net, state, waiting[k].to, i)
       /\ waiting' = RemoveAt(waiting, k)
  /\ UNCHANGED <<auto, server, state, events>>
-----------------------------------------------------------------------------
(* One interface *)

\* _run_new_interface
StartInterface(s) ==
  /\ s \in net.spawned
  /\ IF net.interfaces[s] # None \/ s \in net.connecting
     THEN net' = [net EXCEPT !.spawned = @ \ {s}] /\ UNCHANGED <<server, state>>
     ELSE /\ \E i \in Id :
               /\ Unused(i) /\ \A k \in Id : Unused(k) => i <= k
               /\ server' = [server EXCEPT ![i] = s]
               /\ state' = [state EXCEPT ![i] = "connecting"]
          /\ net' = [net EXCEPT !.spawned = @ \ {s}, !.connecting = @ \cup {s},
                                !.status = IF s = net.default THEN "connecting" ELSE @]
  /\ UNCHANGED <<auto, waiting, events>>

\* The server answers in time: _mark_ready, and the rest of _run_new_interface
BecomesReady(i) ==
  LET s == server[i]
      n == [net EXCEPT !.connecting = @ \ {s}, !.interfaces[s] = i]
      st == [state EXCEPT ![i] = "up"]
  IN /\ state[i] = "connecting"
     /\ IF s = net.default THEN SwitchTo(n, st, s, None)
        ELSE net' = n /\ state' = st /\ UNCHANGED waiting
     /\ UNCHANGED <<auto, server, events>>

\* Mutant of TimesOut: _connecting is not cleaned up.
TimesOutKept(i) ==
  /\ state[i] = "connecting" /\ Happens
  /\ state' = [state EXCEPT ![i] = "dying"]
  /\ UNCHANGED <<auto, net, server, waiting>>

\* It does not: _run_new_interface gives up, run() may go on for a while.
TimesOut(i) ==
  /\ state[i] = "connecting" /\ Happens
  /\ state' = [state EXCEPT ![i] = "dying"]
  /\ net' = [net EXCEPT !.connecting = @ \ {server[i]}]
  /\ UNCHANGED <<auto, server, waiting>>

\* Mutant of Down: a server that went down is the default one no more.
DownForgotten(n, i) ==
  [Unregistered(n, i) EXCEPT !.default = IF @ = server[i] THEN None ELSE @, !.main = None]

\* connection_down: the default server's takes self.interface with it.
Down(n, i) ==
  LET m == Unregistered(n, i)
  IN IF server[i] = n.default THEN [m EXCEPT !.main = None, !.status = "disconnected"] ELSE m

\* The connection is refused: run() ends, and with it _run_new_interface.
Fails(i) ==
  /\ state[i] = "connecting" /\ Happens
  /\ state' = [state EXCEPT ![i] = "down"]
  /\ net' = [Down(net, i) EXCEPT !.connecting = @ \ {server[i]}]
  /\ UNCHANGED <<auto, server, waiting>>

\* An established connection breaks.
Lost(i) ==
  /\ state[i] = "up" /\ Happens
  /\ state' = [state EXCEPT ![i] = "lost"]
  /\ UNCHANGED <<auto, net, server, waiting>>

\* monitor_connection sees it and the tasks of the interface are cancelled,
\* with them the switch that one of them awaits: run_fetch_blocks, the one
\* that switches, awaits one at a time.
TasksCancelled(i) ==
  /\ state[i] \in {"closing", "lost"}
  /\ state' = [state EXCEPT ![i] = "dying"]
  /\ IF \E k \in DOMAIN waiting : waiting[k].owner = i
     THEN \E k \in DOMAIN waiting : waiting[k].owner = i /\ waiting' = RemoveAt(waiting, k)
     ELSE UNCHANGED waiting
  /\ UNCHANGED <<auto, net, server, events>>

\* run() ends.
ConnectionDown(i) ==
  /\ state[i] = "dying" /\ \A k \in DOMAIN waiting : waiting[k].old # i
  /\ state' = [state EXCEPT ![i] = "down"]
  /\ net' = Down(net, i)
  /\ UNCHANGED <<auto, server, waiting, events>>
-----------------------------------------------------------------------------
(* The network *)

\* maybe_start_new_interfaces
StartMore(s) ==
  /\ Cardinality(Registered(net)) + Cardinality(net.connecting) < NumServer
  /\ net.interfaces[s] = None /\ s \notin net.connecting
  /\ net' = [net EXCEPT !.spawned = @ \cup {s}]
  /\ UNCHANGED <<auto, server, state, waiting, events>>

\* maintain_healthy_spread_of_connected_servers: the main server is exempt.
CloseSpread(i) ==
  /\ i \in Registered(net) /\ server[i] # net.default /\ Happens
  /\ net' = Unregistered(net, i)
  /\ state' = [state EXCEPT ![i] = IF @ = "up" THEN "closing" ELSE @]
  /\ UNCHANGED <<auto, server, waiting>>

\* _ensure_there_is_a_main_interface: another server that is connected when
\* auto_connect is set, the default one otherwise
EnsureMain ==
  LET others == {s \in Server \ {net.default} : net.interfaces[s] # None}
  IN /\ net.main = None /\ net.status # "connecting"
     /\ \E s \in IF auto /\ others # {} THEN others ELSE {net.default} :
          SwitchTo(net, state, s, None)
     /\ UNCHANGED <<auto, server, events>>

\* set_parameters, under restart_lock
SetServer(s) ==
  /\ s # net.default /\ \A k \in DOMAIN waiting : waiting[k].owner # User
  /\ Happens
  /\ SwitchTo(net, state, s, User)
  /\ UNCHANGED <<auto, server>>

\* switch_unwanted_fork_interface and switch_lagging_interface, called by
\* run_fetch_blocks of an interface after each header
SwitchAway(i, s) ==
  /\ auto /\ state[i] = "up" /\ i \in Registered(net)
  /\ net.interfaces[s] # None /\ net.interfaces[s] # net.main /\ Happens
  /\ \A k \in DOMAIN waiting : waiting[k].owner # i
  /\ SwitchTo(net, state, s, i)
  /\ UNCHANGED <<auto, server>>
-----------------------------------------------------------------------------
Init ==
  /\ auto \in BOOLEAN
  /\ \E s \in Server :
       /\ net = [main |-> None, default |-> s, status |-> "disconnected",
                 interfaces |-> [x \in Server |-> None], connecting |-> {}, spawned |-> {s}]
       /\ server = [i \in Id |-> s]
  /\ state = [i \in Id |-> "down"]
  /\ waiting = <<>> /\ events = 0

Interface(i) ==
  \/ BecomesReady(i) \/ TimesOut(i) \/ Fails(i)
  \/ Lost(i) \/ SessionClosed(i) \/ Resumes(i) \/ TasksCancelled(i) \/ ConnectionDown(i)

Maintain ==
  \/ \E s \in Server : StartMore(s) \/ StartInterface(s)
  \/ \E i \in Id : CloseSpread(i)
  \/ EnsureMain

Next ==
  \/ \E i \in Id : Interface(i)
  \/ Maintain
  \/ \E s \in Server : SetServer(s)
  \/ \E i \in Id, s \in Server : SwitchAway(i, s)

Fairness ==
  /\ \A s \in Server : WF_vars(StartInterface(s))
  /\ \A i \in Id : /\ WF_vars(BecomesReady(i)) /\ WF_vars(SessionClosed(i)) /\ WF_vars(Resumes(i))
                   /\ WF_vars(TasksCancelled(i)) /\ WF_vars(ConnectionDown(i))
  /\ WF_vars(EnsureMain)

Spec == Init /\ [][Next]_vars /\ Fairness
-----------------------------------------------------------------------------
\* The type of every variable
TypeOK ==
  /\ auto \in BOOLEAN /\ net \in Net /\ server \in [Id -> Server] /\ state \in [Id -> State]
  /\ waiting \in Seq(Switch) /\ events \in 0 .. MaxEvents

\* "set of servers we have an ongoing connection with": an open connection is
\* the one that interfaces has for its server. A late connection_down never
\* takes out its successor, and _run_new_interface never meets a server that
\* is in interfaces already (it asserts so), which would lose one of the two.
NoneLeaks == \A i \in Id : state[i] = "up" => net.interfaces[server[i]] = i

\* No switch is under way and every interface is open or gone.
Settled == waiting = <<>> /\ \A i \in Id : state[i] \in {"up", "down"}

\* self.interface is "the main server we are currently communicating with":
\* where all is settled it is not a connection that is gone.
MainIsAlive == Settled /\ net.main # None => state[net.main] = "up"

Connected == net.main # None /\ state[net.main] = "up" /\ server[net.main] = net.default

\* Without auto_connect, whatever breaks, times out or is chosen meanwhile, the
\* wallet is in the end connected to its default server.
EventuallyConnected == <>[](auto \/ Connected)
=============================================================================
