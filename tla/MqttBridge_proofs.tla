-------------------------- MODULE MqttBridge_proofs --------------------------
(***************************************************************************)
(* Theorems about MqttBridge, for any number of threads, configurations and *)
(* failures: no thread is left with a client that is gone, and a save is    *)
(* all that the bridge, its flag and its commands follow.                   *)
(***************************************************************************)
EXTENDS MqttBridge, FiniteSetTheorems, TLAPS

(* Types *)

Reloading == {"read", "take", "join", "disconnect", "create"}

Stopping == {"join", "disconnect"}

\* What a thread keeps is a client or a count.
Values == Nat \cup {None} \cup Counts

ThreadState ==
  [stage : Reloading \cup {"idle", "look", "send"}, config : Config,
   old : Values, boot : BOOLEAN]

Client ==
  [config : Configs, running : BOOLEAN, link : {"down", "open", "up"},
   job : {"none", "look", "send"}, value : Values]

Shapes ==
  /\ stored \in Configs /\ counts \in Counts
  /\ bridge \in [client : Nat \cup {None}, connected : BOOLEAN]
  /\ broker \in [up : BOOLEAN, session : Nat \cup {None}, retained : Values]
  /\ DOMAIN clients \subseteq Nat /\ IsFiniteSet(DOMAIN clients)
  /\ \A c \in DOMAIN clients : clients[c] \in Client
  /\ threads \in [Threads -> ThreadState]
  /\ \A t \in Threads : threads[t].stage \in Reloading \ {"read"} => threads[t].config \in Configs

\* A client that is being stopped exists, is not the bridge's, and is stopped by
\* one thread.
Names ==
  /\ bridge.client \in DOMAIN clients \cup {None}
  /\ broker.session \in DOMAIN clients \cup {None}
  /\ \A t \in Threads : threads[t].stage \in Stopping =>
       threads[t].old \in DOMAIN clients /\ threads[t].old # bridge.client
  /\ \A t, u \in Threads :
       threads[t].stage \in Stopping /\ threads[u].stage \in Stopping
         /\ threads[t].old = threads[u].old => t = u

TInv == Shapes /\ Names

-----------------------------------------------------------------------------
LEMMA NewClientIsNew ==
  ASSUME Shapes
  PROVE  NewClient \in Nat /\ NewClient \notin DOMAIN clients
<1> DEFINE D == DOMAIN clients
           n == Cardinality(D)
<1>1. n \in Nat /\ D \subseteq Nat /\ IsFiniteSet(D)
  BY FS_CardinalityType DEF Shapes
<1> HIDE DEF D
<1>2. Cardinality(1 .. n + 1) = n + 1
  BY <1>1, FS_Interval
<1>3. ~(1 .. n + 1 \subseteq D)
  BY <1>1, <1>2, FS_Subset
<1>4. \E k \in 1 .. n + 1 : k \notin D
  BY <1>3
<1>5. NewClient = CHOOSE k \in 1 .. n + 1 : k \notin D
  BY DEF NewClient, D
<1>6. NewClient \in 1 .. n + 1 /\ NewClient \notin D
  BY <1>4, <1>5
<1>7. QED BY <1>1, <1>6 DEF D

LEMMA IdleState ==
  /\ Idle \in ThreadState
  /\ Idle.stage = "idle"
  /\ \A stage \in {"read", "look"}, boot \in BOOLEAN :
       LET new == [Idle EXCEPT !.stage = stage]
       IN  new \in ThreadState /\ new.stage = stage
  /\ [Idle EXCEPT !.stage = "read", !.boot = TRUE] \in ThreadState
  /\ [Idle EXCEPT !.stage = "read", !.boot = TRUE].stage = "read"
BY DEF Idle, ThreadState, Reloading, Config, Values

LEMMA TypesOfInit ==
  ASSUME BridgeConstants, Init
  PROVE  TInv
<1>1. PICK t \in Threads :
        threads = [u \in Threads |-> IF u = t THEN [Idle EXCEPT !.stage = "read", !.boot = TRUE]
                                     ELSE Idle]
  BY DEF Init
<1>2. threads \in [Threads -> ThreadState] /\ \A u \in Threads : threads[u].stage \in {"idle", "read"}
  BY <1>1, IdleState
<1>3. DOMAIN clients = {}
  BY DEF Init
<1>4. IsFiniteSet(DOMAIN clients)
  BY <1>3, FS_EmptySet
<1>5. QED BY <1>2, <1>3, <1>4 DEF Init, TInv, Shapes, Names, Values, Reloading, Stopping

\* A thread whose new state stops no client.
LEMMA BecomeOK ==
  ASSUME TInv, NEW t \in Threads, NEW state \in ThreadState, Become(t, state),
         state.stage \notin Stopping,
         state.stage = "take" \/ state.stage = "create" => state.config \in Configs
  PROVE  /\ threads' \in [Threads -> ThreadState]
         /\ \A u \in Threads : threads'[u] = IF u = t THEN state ELSE threads[u]
         /\ \A u \in Threads :
              threads'[u].stage \in Reloading \ {"read"} => threads'[u].config \in Configs
         /\ \A u \in Threads : threads'[u].stage \in Stopping =>
              u # t /\ threads'[u] = threads[u]
BY DEF TInv, Shapes, Become, Reloading, Stopping

LEMMA AfterState ==
  ASSUME TInv, NEW t \in Threads, threads[t].stage \in Reloading \ {"read"}, After(t)
  PROVE  \E state \in ThreadState :
           /\ Become(t, state)
           /\ \/ state = Idle /\ ~Wanted(threads[t].config)
              \/ state.stage = "create" /\ Wanted(threads[t].config)
           /\ state.stage = "create" => state.config = threads[t].config /\ state.config \in Configs
<1> DEFINE new == [threads[t] EXCEPT !.stage = "create", !.old = None]
<1>1. threads[t] \in ThreadState /\ threads[t].config \in Configs
  BY DEF TInv, Shapes
<1>2. new \in ThreadState /\ new.stage = "create" /\ new.config = threads[t].config
  BY <1>1 DEF ThreadState, Reloading, Values
<1>3. CASE Wanted(threads[t].config)
  BY <1>1, <1>2, <1>3 DEF After
<1>4. CASE ~Wanted(threads[t].config)
  BY <1>4, IdleState DEF After, Done
<1>5. QED BY <1>3, <1>4

LEMMA TypesOfReload ==
  ASSUME BridgeConstants, TInv, NEW t \in Threads, Reload(t)
  PROVE  TInv'
<1>1. threads[t] \in ThreadState
  BY DEF TInv, Shapes
<1>2. CASE ReadConfig(t)
  <2> DEFINE new == [threads[t] EXCEPT !.stage = "take", !.config = stored]
  <2>1. new \in ThreadState /\ new.stage = "take" /\ new.config = stored /\ stored \in Configs
    BY <1>1 DEF TInv, Shapes, BridgeConstants, ThreadState, Reloading
  <2>2. Become(t, new)
    BY <1>2 DEF ReadConfig
  <2> HIDE DEF new
  <2>3. QED BY <1>2, <2>1, <2>2, BecomeOK DEF ReadConfig, TInv, Shapes, Names, Stopping
<1>3. CASE Take(t)
  <2>1. /\ bridge' = [client |-> None, connected |-> FALSE] /\ threads[t].stage = "take"
        /\ UNCHANGED <<stored, counts, clients, broker>>
    BY <1>3 DEF Take
  <2>2. CASE bridge.client = None
    <3>1. PICK state \in ThreadState :
            /\ Become(t, state) /\ (state = Idle \/ state.stage = "create")
            /\ state.stage = "create" => state.config \in Configs
      BY <1>3, <2>1, <2>2, AfterState DEF Take, Reloading
    <3>2. state.stage \in {"idle", "create"}
      BY <3>1, IdleState
    <3>3. QED BY <2>1, <3>1, <3>2, BecomeOK DEF TInv, Shapes, Names, Stopping
  <2>3. CASE bridge.client # None
    <3> DEFINE new == [threads[t] EXCEPT !.stage = "join", !.old = bridge.client]
    <3>1. /\ new \in ThreadState /\ new.stage = "join" /\ new.old = bridge.client
          /\ new.config = threads[t].config
      BY <1>1, <2>1 DEF TInv, Shapes, ThreadState, Reloading, Values
    <3>2. threads' = [threads EXCEPT ![t] = new]
      BY <1>3, <2>3 DEF Take, Become
    <3> HIDE DEF new
    <3>3. /\ threads' \in [Threads -> ThreadState]
          /\ \A u \in Threads : threads'[u] = IF u = t THEN new ELSE threads[u]
      BY <3>1, <3>2 DEF TInv, Shapes
    <3>4. Shapes'
      BY <2>1, <3>1, <3>3 DEF TInv, Shapes, Reloading
    <3>5. Names'
      BY <2>1, <2>3, <3>1, <3>3 DEF TInv, Shapes, Names, Stopping, BridgeConstants
    <3>6. QED BY <3>4, <3>5 DEF TInv
  <2>4. QED BY <2>2, <2>3
<1>4. CASE Join(t)
  <2> DEFINE c == threads[t].old
             new == [threads[t] EXCEPT !.stage = "disconnect"]
  <2>1. /\ new \in ThreadState /\ new.stage = "disconnect" /\ new.old = c
        /\ new.config = threads[t].config
    BY <1>1 DEF ThreadState, Reloading, Values
  <2>2. /\ threads' = [threads EXCEPT ![t] = new] /\ threads[t].stage = "join"
        /\ clients' = [clients EXCEPT ![c].running = FALSE]
        /\ UNCHANGED <<stored, counts, bridge, broker>>
    BY <1>4 DEF Join, Become
  <2> HIDE DEF new
  <2>3. /\ threads' \in [Threads -> ThreadState]
        /\ \A u \in Threads : threads'[u] = IF u = t THEN new ELSE threads[u]
    BY <2>1, <2>2 DEF TInv, Shapes
  <2>4. DOMAIN clients' = DOMAIN clients /\ \A d \in DOMAIN clients : clients'[d] \in Client
    BY <2>2 DEF TInv, Shapes, Client
  <2>5. Shapes'
    BY <2>1, <2>2, <2>3, <2>4 DEF TInv, Shapes, Reloading
  <2>6. Names'
    BY <2>1, <2>2, <2>3, <2>4 DEF TInv, Names, Stopping
  <2>7. QED BY <2>5, <2>6 DEF TInv
<1>5. CASE Disconnect(t)
  <2> DEFINE c == threads[t].old
  <2>1. /\ threads[t].stage = "disconnect"
        /\ bridge' \in {bridge, [bridge EXCEPT !.connected = FALSE]}
        /\ broker' = IF broker.session = c THEN [broker EXCEPT !.session = None] ELSE broker
        /\ clients' = [d \in DOMAIN clients \ {c} |-> clients[d]]
        /\ UNCHANGED <<stored, counts>>
    BY <1>5 DEF Disconnect
  <2>2. PICK state \in ThreadState :
          /\ Become(t, state) /\ (state = Idle \/ state.stage = "create")
          /\ state.stage = "create" => state.config \in Configs
    BY <1>5, <2>1, AfterState DEF Disconnect, Reloading
  <2>3. state.stage \in {"idle", "create"}
    BY <2>2, IdleState
  <2>4. /\ threads' \in [Threads -> ThreadState]
        /\ \A u \in Threads : threads'[u] = IF u = t THEN state ELSE threads[u]
        /\ \A u \in Threads :
             threads'[u].stage \in Reloading \ {"read"} => threads'[u].config \in Configs
        /\ \A u \in Threads : threads'[u].stage \in Stopping => u # t /\ threads'[u] = threads[u]
    BY <2>2, <2>3, BecomeOK DEF Stopping
  <2>5. /\ bridge' \in [client : Nat \cup {None}, connected : BOOLEAN]
        /\ bridge'.client = bridge.client
        /\ broker' \in [up : BOOLEAN, session : Nat \cup {None}, retained : Values]
        /\ broker'.session = IF broker.session = c THEN None ELSE broker.session
    BY <2>1 DEF TInv, Shapes
  <2>6. DOMAIN clients' = DOMAIN clients \ {c} /\ \A d \in DOMAIN clients' : clients'[d] \in Client
    BY <2>1 DEF TInv, Shapes
  <2>7. IsFiniteSet(DOMAIN clients')
    BY <2>6, FS_Subset DEF TInv, Shapes
  <2>8. Shapes'
    BY <2>1, <2>4, <2>5, <2>6, <2>7 DEF TInv, Shapes
  <2>9. Names'
    BY <2>1, <2>4, <2>5, <2>6 DEF TInv, Names, Stopping
  <2>10. QED BY <2>8, <2>9 DEF TInv
<1>6. CASE Create(t)
  <2>1. /\ threads[t].stage = "create" /\ Become(t, Idle)
        /\ UNCHANGED <<stored, counts, broker>>
    BY <1>6 DEF Create, Done
  <2>2. /\ threads' \in [Threads -> ThreadState]
        /\ \A u \in Threads :
             threads'[u].stage \in Reloading \ {"read"} => threads'[u].config \in Configs
        /\ \A u \in Threads : threads'[u].stage \in Stopping => u # t /\ threads'[u] = threads[u]
    BY <2>1, IdleState, BecomeOK DEF Stopping
  <2>3. CASE bridge' = [client |-> None, connected |-> FALSE] /\ UNCHANGED clients
    BY <2>1, <2>2, <2>3 DEF TInv, Shapes, Names
  <2>4. CASE /\ bridge' = [bridge EXCEPT !.client = NewClient]
             /\ clients' = [c \in DOMAIN clients \cup {NewClient} |->
                              IF c \in DOMAIN clients THEN clients[c]
                              ELSE [config |-> threads[t].config, running |-> TRUE,
                                    link |-> "down", job |-> "none", value |-> None]]
    <3> DEFINE n == NewClient
               made == [config |-> threads[t].config, running |-> TRUE,
                        link |-> "down", job |-> "none", value |-> None]
    <3>1. n \in Nat /\ n \notin DOMAIN clients
      BY NewClientIsNew DEF TInv
    <3>2. made \in Client
      BY <2>1 DEF TInv, Shapes, Client, Reloading, Values
    <3>3. DOMAIN clients' = DOMAIN clients \cup {n}
          /\ \A c \in DOMAIN clients' : clients'[c] \in Client
      BY <2>4, <3>2 DEF TInv, Shapes
    <3>4. IsFiniteSet(DOMAIN clients')
      BY <3>3, FS_AddElement DEF TInv, Shapes
    <3>5. bridge' \in [client : Nat \cup {None}, connected : BOOLEAN] /\ bridge'.client = n
      BY <2>4, <3>1 DEF TInv, Shapes
    <3> HIDE DEF n
    <3>6. QED BY <2>1, <2>2, <3>1, <3>3, <3>4, <3>5 DEF TInv, Shapes, Names
  <2>5. QED BY <1>6, <2>3, <2>4 DEF Create
<1>7. QED BY <1>2, <1>3, <1>4, <1>5, <1>6 DEF Reload

\* What happens to one client, or to the flag and the topics, while the clients
\* there are stay the same.
LEMMA SameClients ==
  ASSUME TInv, UNCHANGED <<stored, threads>>, counts' \in Counts,
         bridge' \in [client : Nat \cup {None}, connected : BOOLEAN], bridge'.client = bridge.client,
         broker' \in [up : BOOLEAN, session : Nat \cup {None}, retained : Values],
         broker'.session \in DOMAIN clients \cup {None},
         DOMAIN clients' = DOMAIN clients, \A c \in DOMAIN clients : clients'[c] \in Client
  PROVE  TInv'
BY DEF TInv, Shapes, Names

LEMMA PublishedOK ==
  ASSUME TInv, NEW value \in Values
  PROVE  /\ Published(value) \in [up : BOOLEAN, session : Nat \cup {None}, retained : Values]
         /\ Published(value).session = broker.session
BY DEF TInv, Shapes, Published

LEMMA TypesOfClient ==
  ASSUME BridgeConstants, TInv, NEW c \in DOMAIN clients, Loop(c) \/ Command(c)
  PROVE  TInv'
<1>1. clients[c] \in Client /\ c \in Nat
  BY DEF TInv, Shapes
<1>2. \A d \in DOMAIN clients : clients[d] \in Client
  BY DEF TInv, Shapes
<1>3. /\ bridge \in [client : Nat \cup {None}, connected : BOOLEAN]
      /\ broker \in [up : BOOLEAN, session : Nat \cup {None}, retained : Values]
      /\ broker.session \in DOMAIN clients \cup {None} /\ counts \in Counts
  BY DEF TInv, Shapes, Names
<1>4. CASE Connect(c)
  <2>1. DOMAIN clients' = DOMAIN clients /\ \A d \in DOMAIN clients : clients'[d] \in Client
    BY <1>2, <1>4 DEF Connect, Client
  <2>2. /\ broker' \in [up : BOOLEAN, session : Nat \cup {None}, retained : Values]
        /\ broker'.session = c
    BY <1>1, <1>3, <1>4 DEF Connect
  <2>3. QED BY <1>3, <1>4, <2>1, <2>2, SameClients DEF Connect
<1>5. CASE OnConnect(c)
  <2>1. DOMAIN clients' = DOMAIN clients /\ \A d \in DOMAIN clients : clients'[d] \in Client
    BY <1>2, <1>5 DEF OnConnect, Client
  <2>2. /\ bridge' \in [client : Nat \cup {None}, connected : BOOLEAN]
        /\ bridge'.client = bridge.client
    BY <1>3, <1>5 DEF OnConnect
  <2>3. QED BY <1>3, <1>5, <2>1, <2>2, SameClients DEF OnConnect
<1>6. CASE OnDisconnect(c)
  <2>1. DOMAIN clients' = DOMAIN clients /\ \A d \in DOMAIN clients : clients'[d] \in Client
    BY <1>2, <1>6 DEF OnDisconnect, Client
  <2>2. /\ bridge' \in [client : Nat \cup {None}, connected : BOOLEAN]
        /\ bridge'.client = bridge.client
    BY <1>3, <1>6 DEF OnDisconnect
  <2>3. QED BY <1>3, <1>6, <2>1, <2>2, SameClients DEF OnDisconnect
<1>7. CASE CommandLook(c)
  <2>1. DOMAIN clients' = DOMAIN clients /\ \A d \in DOMAIN clients : clients'[d] \in Client
    <3>1. CASE clients' = [clients EXCEPT ![c].job = "none"]
      BY <1>2, <3>1 DEF Client
    <3>2. CASE clients' = [clients EXCEPT ![c].job = "send", ![c].value = counts]
      BY <1>2, <1>3, <3>2 DEF Client, Values
    <3>3. QED BY <1>7, <3>1, <3>2 DEF CommandLook
  <2>2. QED BY <1>3, <1>7, <2>1, SameClients DEF CommandLook
<1>8. CASE CommandSend(c)
  <2>1. DOMAIN clients' = DOMAIN clients /\ \A d \in DOMAIN clients : clients'[d] \in Client
    BY <1>2, <1>8 DEF CommandSend, Client
  <2>2. clients[c].value \in Values
    BY <1>1 DEF Client
  <2>3. QED BY <1>3, <1>8, <2>1, <2>2, PublishedOK, SameClients DEF CommandSend
<1>9. CASE Command(c)
  <2>1. DOMAIN clients' = DOMAIN clients /\ \A d \in DOMAIN clients : clients'[d] \in Client
    BY <1>2, <1>9 DEF Command, Client
  <2>2. QED BY <1>3, <1>9, <2>1, SameClients DEF Command
<1>10. QED BY <1>4, <1>5, <1>6, <1>7, <1>8, <1>9 DEF Loop

LEMMA TypesOfOther ==
  ASSUME BridgeConstants, TInv,
         \/ SilentChange \/ Restart \/ BrokerFails \/ BrokerReturns
         \/ \E t \in Threads : Save(t) \/ Movement(t) \/ Scan(t) \/ Look(t) \/ Send(t)
  PROVE  TInv'
<1>1. /\ bridge \in [client : Nat \cup {None}, connected : BOOLEAN]
      /\ broker \in [up : BOOLEAN, session : Nat \cup {None}, retained : Values]
      /\ broker.session \in DOMAIN clients \cup {None} /\ counts \in Counts
      /\ \A d \in DOMAIN clients : clients[d] \in Client
  BY DEF TInv, Shapes, Names
<1>2. CASE SilentChange
  BY <1>1, <1>2, SameClients DEF SilentChange
<1>3. CASE Restart
  <2>1. PICK t \in Threads :
          threads' = [u \in Threads |-> IF u = t THEN [Idle EXCEPT !.stage = "read", !.boot = TRUE]
                                        ELSE Idle]
    BY <1>3 DEF Restart
  <2>2. threads' \in [Threads -> ThreadState] /\ \A u \in Threads : threads'[u].stage \in {"idle", "read"}
    BY <2>1, IdleState
  <2>3. DOMAIN clients' = {}
    BY <1>3 DEF Restart
  <2>4. /\ broker' \in [up : BOOLEAN, session : Nat \cup {None}, retained : Values]
        /\ broker'.session = None
    BY <1>1, <1>3 DEF Restart
  <2>5. bridge' = [client |-> None, connected |-> FALSE]
    BY <1>3 DEF Restart
  <2>6. IsFiniteSet(DOMAIN clients')
    BY <2>3, FS_EmptySet
  <2>7. QED BY <1>3, <2>2, <2>3, <2>4, <2>5, <2>6 DEF Restart, TInv, Shapes, Names, Reloading, Stopping
<1>4. CASE BrokerFails
  <2>1. /\ broker' \in [up : BOOLEAN, session : Nat \cup {None}, retained : Values]
        /\ broker'.session = None
    BY <1>1, <1>4 DEF BrokerFails
  <2>2. QED BY <1>1, <1>4, <2>1, SameClients DEF BrokerFails
<1>5. CASE BrokerReturns
  <2>1. /\ broker' \in [up : BOOLEAN, session : Nat \cup {None}, retained : Values]
        /\ broker'.session = broker.session
    BY <1>1, <1>5 DEF BrokerReturns
  <2>2. QED BY <1>1, <1>5, <2>1, SameClients DEF BrokerReturns
<1>6. ASSUME NEW t \in Threads, NEW state \in ThreadState, Become(t, state),
             state.stage \in {"idle", "read", "look", "send"},
             stored' \in Configs, counts' \in Counts, UNCHANGED <<bridge, clients>>,
             broker' \in [up : BOOLEAN, session : Nat \cup {None}, retained : Values],
             broker'.session = broker.session
      PROVE  TInv'
  <2>1. /\ threads' \in [Threads -> ThreadState]
        /\ \A u \in Threads :
             threads'[u].stage \in Reloading \ {"read"} => threads'[u].config \in Configs
        /\ \A u \in Threads : threads'[u].stage \in Stopping => u # t /\ threads'[u] = threads[u]
    BY <1>6, BecomeOK DEF Stopping
  <2>2. QED BY <1>6, <2>1 DEF TInv, Shapes, Names
<1>7. ASSUME NEW t \in Threads, Save(t) PROVE TInv'
  BY <1>1, <1>6, <1>7, IdleState DEF Save
<1>8. ASSUME NEW t \in Threads, Movement(t) PROVE TInv'
  BY <1>1, <1>6, <1>8, IdleState DEF Movement, TInv, Shapes
<1>9. ASSUME NEW t \in Threads, Scan(t) PROVE TInv'
  BY <1>1, <1>6, <1>9, IdleState DEF Scan, TInv, Shapes
<1>10. ASSUME NEW t \in Threads, Look(t) PROVE TInv'
  <2> DEFINE new == [Idle EXCEPT !.stage = "send", !.old = counts]
  <2>1. new \in ThreadState /\ new.stage = "send"
    BY <1>1 DEF Idle, ThreadState, Config, Values
  <2>2. Become(t, new) \/ Become(t, Idle)
    BY <1>10 DEF Look, Done
  <2> HIDE DEF new
  <2>3. QED BY <1>1, <1>6, <1>10, <2>1, <2>2, IdleState DEF Look, TInv, Shapes
<1>11. ASSUME NEW t \in Threads, Send(t) PROVE TInv'
  <2>1. broker' \in [up : BOOLEAN, session : Nat \cup {None}, retained : Values]
        /\ broker'.session = broker.session
    <3>1. broker' = Published(threads[t].old)
      BY <1>11 DEF Send
    <3>2. threads[t].old \in Values
      BY DEF TInv, Shapes, ThreadState
    <3>3. QED BY <3>1, <3>2, PublishedOK
  <2>2. QED BY <1>1, <1>6, <1>11, <2>1, IdleState DEF Send, Done, TInv, Shapes
<1>12. QED BY <1>2, <1>3, <1>4, <1>5, <1>7, <1>8, <1>9, <1>10, <1>11

LEMMA TypesOfNext ==
  ASSUME BridgeConstants, TInv, [Next]_vars
  PROVE  TInv'
<1>1. CASE UNCHANGED vars
  BY <1>1 DEF vars, TInv, Shapes, Names
<1>2. CASE Next
  BY <1>2, TypesOfReload, TypesOfClient, TypesOfOther DEF Next, Thread
<1>3. QED BY <1>1, <1>2

\* No thread, and neither the bridge nor the broker, is ever left with a client
\* that is gone, however saves, callbacks and restarts interleave.
THEOREM TypeCorrect ==
  ASSUME BridgeConstants
  PROVE  Spec => []TypeOK
<1>1. TInv => TypeOK
  BY DEF TInv, Shapes, Names, TypeOK, Client, Stopping
<1>2. QED BY <1>1, TypesOfInit, TypesOfNext, PTL DEF Spec

-----------------------------------------------------------------------------
(* Saves one by one *)

OneReload ==
  \A t, u \in Threads :
    threads[t].stage \in Reloading /\ threads[u].stage \in Reloading => t = u

\* There is one client at most: the bridge's, or the one that is being stopped.
OneClient ==
  /\ \A c, d \in DOMAIN clients : c = d
  /\ (\A t \in Threads : threads[t].stage \notin {"join", "disconnect", "create"}) =>
       DOMAIN clients \subseteq {bridge.client}
  /\ \A t \in Threads : threads[t].stage \in {"join", "disconnect", "create"} => bridge.client = None

\* What a reload has read is what is stored.
Current ==
  /\ \A t \in Threads : threads[t].stage \in Reloading \ {"read"} => threads[t].config = stored
  /\ \A t \in Threads : threads[t].stage = "create" => DOMAIN clients = {} /\ Wanted(stored)

FlagIsTrue == bridge.connected => \E c \in DOMAIN clients : clients[c].link = "up"

Follows ==
  Settled =>
    /\ bridge.client # None <=> Wanted(stored) /\ stored.host = "broker"
    /\ \A c \in DOMAIN clients : clients[c].config = stored

Orderly == OneReload /\ OneClient /\ Current /\ FlagIsTrue /\ Follows

SInv == ~overlap => Orderly

LEMMA SettledMeans == Settled <=> \A t \in Threads : threads[t].stage \notin Reloading
BY DEF Settled, Reloading

LEMMA SettledMeansThen == Settled' <=> \A t \in Threads : threads'[t].stage \notin Reloading
BY DEF Settled, Reloading

LEMMA SerialOfInit ==
  ASSUME Init
  PROVE  SInv
<1>1. PICK t \in Threads :
        threads = [u \in Threads |-> IF u = t THEN [Idle EXCEPT !.stage = "read", !.boot = TRUE]
                                     ELSE Idle]
  BY DEF Init
<1>2. threads[t].stage = "read" /\ \A u \in Threads \ {t} : threads[u].stage = "idle"
  BY <1>1, IdleState
<1>3. DOMAIN clients = {} /\ bridge.client = None /\ bridge.connected = FALSE
  BY DEF Init
<1>4. OneReload /\ OneClient /\ Current /\ ~Settled
  BY <1>2, <1>3, SettledMeans DEF OneReload, OneClient, Current, Reloading
<1>5. QED BY <1>3, <1>4 DEF SInv, Orderly, FlagIsTrue, Follows

\* The new state of one thread.
LEMMA BecomeMeans ==
  ASSUME TInv, NEW t \in Threads, NEW state, Become(t, state)
  PROVE  \A u \in Threads : threads'[u] = IF u = t THEN state ELSE threads[u]
BY DEF TInv, Shapes, Become

LEMMA SerialOfReload ==
  ASSUME BridgeConstants, TInv, Orderly, NEW t \in Threads, Reload(t)
  PROVE  Orderly'
<1>1. threads[t] \in ThreadState /\ \A u \in Threads \ {t} : threads[u].stage \notin Reloading
  <2>1. threads[t].stage \in Reloading
    BY DEF Reload, ReadConfig, Take, Join, Disconnect, Create, Reloading
  <2>2. QED BY <2>1 DEF TInv, Shapes, Orderly, OneReload
<1>2. ASSUME NEW state, Become(t, state)
      PROVE  threads'[t] = state /\ \A u \in Threads \ {t} : threads'[u].stage \notin Reloading
  BY <1>1, <1>2, BecomeMeans
<1>3. CASE ReadConfig(t)
  <2> DEFINE new == [threads[t] EXCEPT !.stage = "take", !.config = stored]
  <2>1. new.stage = "take" /\ new.config = stored
    BY <1>1 DEF ThreadState
  <2>2. /\ Become(t, new) /\ threads[t].stage = "read"
        /\ UNCHANGED <<stored, bridge, clients>>
    BY <1>3 DEF ReadConfig
  <2> HIDE DEF new
  <2>3. /\ threads'[t] = new /\ \A u \in Threads \ {t} : threads'[u].stage \notin Reloading
    BY <1>2, <2>2
  <2>4. ~Settled'
    BY <2>1, <2>3, SettledMeansThen DEF Reloading
  <2>5. DOMAIN clients \subseteq {bridge.client}
    BY <1>1, <2>2 DEF Orderly, OneClient, Reloading
  <2>6. QED
    BY <2>1, <2>2, <2>3, <2>4, <2>5 DEF Orderly, OneReload, OneClient, Current, FlagIsTrue, Follows,
                                       Reloading
<1>4. CASE Take(t)
  <2>1. /\ threads[t].stage = "take" /\ threads[t].config = stored
        /\ bridge' = [client |-> None, connected |-> FALSE]
        /\ UNCHANGED <<stored, clients>>
    BY <1>4 DEF Take, Orderly, Current, Reloading
  <2>2. DOMAIN clients \subseteq {bridge.client}
    BY <1>1, <2>1 DEF Orderly, OneClient, Reloading
  <2>3. CASE bridge.client = None
    <3>1. DOMAIN clients = {}
      BY <2>2, <2>3 DEF TInv, Shapes, BridgeConstants
    <3>2. PICK state : /\ Become(t, state)
                       /\ \/ state.stage = "idle" /\ ~Wanted(stored)
                          \/ state.stage = "create" /\ Wanted(stored)
                       /\ state.stage = "create" => state.config = stored
      BY <1>4, <2>1, <2>3, AfterState, IdleState DEF Take, Reloading
    <3>3. /\ threads'[t] = state /\ \A u \in Threads \ {t} : threads'[u].stage \notin Reloading
      BY <1>2, <3>2
    <3>4. OneReload' /\ OneClient' /\ FlagIsTrue' /\ Current'
      BY <2>1, <3>1, <3>2, <3>3 DEF OneReload, OneClient, Current, FlagIsTrue, Reloading
    <3>5. Follows'
      BY <2>1, <3>1, <3>2, <3>3, SettledMeansThen DEF Follows, Reloading, Wanted
    <3>6. QED BY <3>4, <3>5 DEF Orderly
  <2>4. CASE bridge.client # None
    <3> DEFINE new == [threads[t] EXCEPT !.stage = "join", !.old = bridge.client]
    <3>1. new.stage = "join" /\ new.config = threads[t].config
      BY <1>1 DEF ThreadState
    <3>2. Become(t, new)
      BY <1>4, <2>4 DEF Take
    <3> HIDE DEF new
    <3>3. /\ threads'[t] = new /\ \A u \in Threads \ {t} : threads'[u].stage \notin Reloading
      BY <1>2, <3>2
    <3>4. OneReload' /\ OneClient' /\ FlagIsTrue' /\ Current'
      BY <2>1, <2>2, <3>1, <3>3 DEF OneReload, OneClient, Current, FlagIsTrue, Reloading
    <3>5. Follows'
      BY <3>1, <3>3, SettledMeansThen DEF Follows, Reloading
    <3>6. QED BY <3>4, <3>5 DEF Orderly
  <2>5. QED BY <2>3, <2>4
<1>5. CASE Join(t)
  <2> DEFINE c == threads[t].old
             new == [threads[t] EXCEPT !.stage = "disconnect"]
  <2>1. new.stage = "disconnect" /\ new.config = threads[t].config
    BY <1>1 DEF ThreadState
  <2>2. /\ Become(t, new) /\ threads[t].stage = "join" /\ c \in DOMAIN clients
        /\ clients' = [clients EXCEPT ![c].running = FALSE]
        /\ UNCHANGED <<stored, bridge>>
    BY <1>5 DEF Join, TInv, Names, Stopping
  <2>3. DOMAIN clients' = DOMAIN clients
        /\ \A d \in DOMAIN clients : clients'[d].link = clients[d].link
    BY <2>2 DEF TInv, Shapes, Client
  <2> HIDE DEF new
  <2>4. /\ threads'[t] = new /\ \A u \in Threads \ {t} : threads'[u].stage \notin Reloading
    BY <1>2, <2>2
  <2>5. OneReload' /\ OneClient' /\ FlagIsTrue' /\ Current'
    BY <2>1, <2>2, <2>3, <2>4 DEF Orderly, OneReload, OneClient, Current, FlagIsTrue, Reloading
  <2>6. Follows'
    BY <2>1, <2>4, SettledMeansThen DEF Follows, Reloading
  <2>7. QED BY <2>5, <2>6 DEF Orderly
<1>6. CASE Disconnect(t)
  <2> DEFINE c == threads[t].old
  <2>1. /\ threads[t].stage = "disconnect" /\ threads[t].config = stored
        /\ bridge' = IF clients[c].link = "down" THEN bridge ELSE [bridge EXCEPT !.connected = FALSE]
        /\ clients' = [d \in DOMAIN clients \ {c} |-> clients[d]]
        /\ UNCHANGED stored
        /\ c \in DOMAIN clients /\ bridge.client = None
    BY <1>6 DEF Disconnect, Orderly, OneClient, Current, Reloading, TInv, Names, Stopping
  <2>2. DOMAIN clients' = {}
    BY <2>1 DEF Orderly, OneClient
  <2>3. bridge'.client = None /\ ~bridge'.connected
    <3>1. CASE clients[c].link = "down"
      BY <2>1, <3>1 DEF Orderly, OneClient, FlagIsTrue
    <3>2. CASE clients[c].link # "down"
      BY <2>1, <3>2 DEF TInv, Shapes
    <3>3. QED BY <3>1, <3>2
  <2>4. PICK state : /\ Become(t, state)
                     /\ \/ state.stage = "idle" /\ ~Wanted(stored)
                        \/ state.stage = "create" /\ Wanted(stored)
                     /\ state.stage = "create" => state.config = stored
    BY <1>6, <2>1, AfterState, IdleState DEF Disconnect, Reloading
  <2>5. /\ threads'[t] = state /\ \A u \in Threads \ {t} : threads'[u].stage \notin Reloading
    BY <1>2, <2>4
  <2>6. OneReload' /\ OneClient' /\ FlagIsTrue' /\ Current'
    BY <2>1, <2>2, <2>3, <2>4, <2>5 DEF OneReload, OneClient, Current, FlagIsTrue, Reloading
  <2>7. Follows'
    BY <2>1, <2>2, <2>3, <2>4, <2>5, SettledMeansThen DEF Follows, Reloading, Wanted
  <2>8. QED BY <2>6, <2>7 DEF Orderly
<1>7. CASE Create(t)
  <2>1. /\ threads[t].stage = "create" /\ threads[t].config = stored /\ Wanted(stored)
        /\ DOMAIN clients = {} /\ bridge.client = None
        /\ Become(t, Idle) /\ UNCHANGED stored
    BY <1>7 DEF Create, Done, Orderly, OneClient, Current, Reloading
  <2>2. ~bridge.connected
    BY <2>1 DEF Orderly, FlagIsTrue
  <2>3. threads'[t].stage = "idle" /\ \A u \in Threads \ {t} : threads'[u].stage \notin Reloading
    BY <1>2, <2>1, IdleState
  <2>4. CASE /\ threads[t].config.host = "blocked"
             /\ bridge' = [client |-> None, connected |-> FALSE]
             /\ UNCHANGED clients
    <3>1. OneReload' /\ OneClient' /\ FlagIsTrue' /\ Current'
      BY <2>1, <2>3, <2>4 DEF OneReload, OneClient, Current, FlagIsTrue, Reloading
    <3>2. Follows'
      BY <2>1, <2>4 DEF Follows
    <3>3. QED BY <3>1, <3>2 DEF Orderly
  <2>5. CASE /\ threads[t].config.host = "broker"
             /\ bridge' = [bridge EXCEPT !.client = NewClient]
             /\ clients' = [c \in DOMAIN clients \cup {NewClient} |->
                              IF c \in DOMAIN clients THEN clients[c]
                              ELSE [config |-> threads[t].config, running |-> TRUE,
                                    link |-> "down", job |-> "none", value |-> None]]
    <3> DEFINE n == NewClient
    <3>1. n \in Nat /\ n # None
      BY NewClientIsNew DEF TInv, BridgeConstants
    <3>2. DOMAIN clients' = {n} /\ clients'[n].config = stored
      BY <2>1, <2>5
    <3>3. bridge'.client = n /\ ~bridge'.connected
      BY <2>2, <2>5 DEF TInv, Shapes
    <3> HIDE DEF n
    <3>4. OneReload' /\ OneClient' /\ FlagIsTrue' /\ Current'
      BY <2>1, <2>3, <3>2, <3>3 DEF OneReload, OneClient, Current, FlagIsTrue, Reloading
    <3>5. Follows'
      BY <2>1, <2>5, <3>1, <3>2, <3>3 DEF Follows
    <3>6. QED BY <3>4, <3>5 DEF Orderly
  <2>6. QED BY <1>7, <2>4, <2>5 DEF Create
<1>8. QED BY <1>3, <1>4, <1>5, <1>6, <1>7 DEF Reload

\* What leaves the configurations, the bridge's client and the reloads alone.
LEMMA OrderlyKept ==
  ASSUME Orderly, FlagIsTrue', stored' = stored, bridge'.client = bridge.client,
         DOMAIN clients' = DOMAIN clients,
         \A c \in DOMAIN clients : clients'[c].config = clients[c].config,
         \A u \in Threads : \/ threads'[u] = threads[u]
                            \/ threads[u].stage \notin Reloading /\ threads'[u].stage \notin Reloading
  PROVE  Orderly'
<1>1. \A u \in Threads : threads'[u].stage \in Reloading \/ threads[u].stage \in Reloading =>
        threads'[u] = threads[u]
  OBVIOUS
<1>2. Settled' <=> Settled
  BY <1>1, SettledMeans, SettledMeansThen
<1>3. OneReload'
  BY <1>1 DEF Orderly, OneReload
<1>4. OneClient'
  BY <1>1 DEF Orderly, OneClient, Reloading
<1>5. Current'
  BY <1>1 DEF Orderly, Current, Reloading
<1>6. Follows'
  BY <1>2 DEF Orderly, Follows
<1>7. QED BY <1>3, <1>4, <1>5, <1>6 DEF Orderly

LEMMA SerialOfClient ==
  ASSUME TInv, Orderly, NEW c \in DOMAIN clients, Loop(c) \/ Command(c)
  PROVE  Orderly'
<1>1. /\ \A d \in DOMAIN clients : d = c
      /\ \A d \in DOMAIN clients : clients[d] \in Client
      /\ bridge \in [client : Nat \cup {None}, connected : BOOLEAN]
  BY DEF Orderly, OneClient, TInv, Shapes
<1>2. stored' = stored /\ threads' = threads
  BY DEF Loop, Connect, OnConnect, OnDisconnect, CommandLook, CommandSend, Command
<1>3. CASE Connect(c)
  <2>1. /\ DOMAIN clients' = DOMAIN clients
        /\ \A d \in DOMAIN clients : clients'[d].config = clients[d].config
    BY <1>1, <1>3 DEF Connect, Client
  <2>2. ~bridge.connected /\ bridge' = bridge
    BY <1>1, <1>3 DEF Connect, Orderly, FlagIsTrue
  <2>3. QED BY <1>2, <2>1, <2>2, OrderlyKept DEF FlagIsTrue
<1>4. CASE OnConnect(c)
  <2>1. /\ DOMAIN clients' = DOMAIN clients
        /\ \A d \in DOMAIN clients : clients'[d].config = clients[d].config
        /\ clients'[c].link = "up"
    BY <1>1, <1>4 DEF OnConnect, Client
  <2>2. bridge'.client = bridge.client
    BY <1>1, <1>4 DEF OnConnect
  <2>3. QED BY <1>2, <2>1, <2>2, OrderlyKept DEF FlagIsTrue
<1>5. CASE OnDisconnect(c)
  <2>1. /\ DOMAIN clients' = DOMAIN clients
        /\ \A d \in DOMAIN clients : clients'[d].config = clients[d].config
    BY <1>1, <1>5 DEF OnDisconnect, Client
  <2>2. bridge'.client = bridge.client /\ ~bridge'.connected
    BY <1>1, <1>5 DEF OnDisconnect
  <2>3. QED BY <1>2, <2>1, <2>2, OrderlyKept DEF FlagIsTrue
<1>6. CASE CommandLook(c) \/ CommandSend(c) \/ Command(c)
  <2>1. /\ \/ clients' = [clients EXCEPT ![c].job = "none"]
           \/ clients' = [clients EXCEPT ![c].job = "send", ![c].value = counts]
           \/ clients' = [clients EXCEPT ![c].job = "none", ![c].value = None]
           \/ clients' = [clients EXCEPT ![c].job = "look"]
        /\ bridge' = bridge
    BY <1>6 DEF CommandLook, CommandSend, Command
  <2>2. /\ DOMAIN clients' = DOMAIN clients
        /\ \A d \in DOMAIN clients : /\ clients'[d].config = clients[d].config
                                     /\ clients'[d].link = clients[d].link
    BY <1>1, <2>1 DEF Client
  <2>3. FlagIsTrue'
    BY <2>1, <2>2 DEF Orderly, FlagIsTrue
  <2>4. QED BY <1>2, <2>1, <2>2, <2>3, OrderlyKept
<1>7. QED BY <1>3, <1>4, <1>5, <1>6 DEF Loop

\* A thread outside a reload, and the network.
LEMMA SerialOfOther ==
  ASSUME TInv, Orderly,
         \/ SilentChange \/ BrokerFails \/ BrokerReturns
         \/ \E t \in Threads : Movement(t) \/ Scan(t) \/ Look(t) \/ Send(t)
  PROVE  Orderly'
<1>1. UNCHANGED <<stored, bridge, clients>>
  BY DEF SilentChange, BrokerFails, BrokerReturns, Movement, Scan, Look, Send
<1>2. FlagIsTrue'
  BY <1>1 DEF Orderly, FlagIsTrue
<1>3. CASE SilentChange \/ BrokerFails \/ BrokerReturns
  BY <1>1, <1>2, <1>3, OrderlyKept DEF SilentChange, BrokerFails, BrokerReturns
<1>4. ASSUME NEW t \in Threads, NEW state, Become(t, state),
             threads[t].stage \notin Reloading, state.stage \notin Reloading
      PROVE  Orderly'
  <2>1. \A u \in Threads : threads'[u] = IF u = t THEN state ELSE threads[u]
    BY <1>4, BecomeMeans
  <2>2. QED BY <1>1, <1>2, <1>4, <2>1, OrderlyKept
<1>5. ASSUME NEW t \in Threads, Movement(t) \/ Scan(t) PROVE Orderly'
  <2>1. threads[t].stage = "idle" /\ Become(t, [Idle EXCEPT !.stage = "look"])
    BY <1>5, IdleState DEF Movement, Scan, Begin
  <2>2. QED BY <1>4, <2>1, IdleState DEF Reloading
<1>6. ASSUME NEW t \in Threads, Look(t) PROVE Orderly'
  <2> DEFINE new == [Idle EXCEPT !.stage = "send", !.old = counts]
  <2>1. new.stage = "send"
    BY DEF Idle
  <2>2. threads[t].stage = "look" /\ (Become(t, new) \/ Become(t, Idle))
    BY <1>6 DEF Look, Done
  <2> HIDE DEF new
  <2>3. QED BY <1>4, <2>1, <2>2, IdleState DEF Reloading
<1>7. ASSUME NEW t \in Threads, Send(t) PROVE Orderly'
  BY <1>4, <1>7, IdleState DEF Send, Done, Reloading
<1>8. QED BY <1>3, <1>5, <1>6, <1>7

LEMMA SerialOfRestart ==
  ASSUME Restart
  PROVE  Orderly'
<1>1. PICK t \in Threads :
        threads' = [u \in Threads |-> IF u = t THEN [Idle EXCEPT !.stage = "read", !.boot = TRUE]
                                      ELSE Idle]
  BY DEF Restart
<1>2. threads'[t].stage = "read" /\ \A u \in Threads \ {t} : threads'[u].stage = "idle"
  BY <1>1, IdleState
<1>3. DOMAIN clients' = {} /\ bridge'.client = None /\ bridge'.connected = FALSE
  BY DEF Restart
<1>4. OneReload' /\ OneClient' /\ Current' /\ ~Settled'
  BY <1>2, <1>3, SettledMeansThen DEF OneReload, OneClient, Current, Reloading
<1>5. QED BY <1>3, <1>4 DEF Orderly, FlagIsTrue, Follows

LEMMA SerialOfSave ==
  ASSUME TInv, Orderly, ~overlap, NEW t \in Threads, Save(t)
  PROVE  Orderly'
<1> DEFINE new == [Idle EXCEPT !.stage = "read"]
<1>1. /\ \A u \in Threads : threads[u].stage \notin Reloading
      /\ Become(t, new) /\ UNCHANGED <<bridge, clients>>
  BY SettledMeans DEF Save, BeginSave
<1>2. new.stage = "read"
  BY IdleState
<1> HIDE DEF new
<1>3. \A u \in Threads : threads'[u] = IF u = t THEN new ELSE threads[u]
  BY <1>1, BecomeMeans
<1>4. OneReload'
  BY <1>1, <1>3 DEF OneReload
<1>5. OneClient'
  BY <1>1, <1>2, <1>3 DEF Orderly, OneClient, Reloading
<1>6. Current'
  BY <1>1, <1>2, <1>3 DEF Current, Reloading
<1>7. FlagIsTrue'
  BY <1>1 DEF Orderly, FlagIsTrue
<1>8. Follows'
  BY <1>2, <1>3, SettledMeansThen DEF Follows, Reloading
<1>9. QED BY <1>4, <1>5, <1>6, <1>7, <1>8 DEF Orderly

LEMMA SerialOfNext ==
  ASSUME BridgeConstants, TInv, SInv, [Next]_vars
  PROVE  SInv'
<1>1. CASE UNCHANGED vars
  BY <1>1 DEF vars, SInv, Orderly, OneReload, OneClient, Current, FlagIsTrue, Follows, Settled
<1>2. CASE Next
  <2>1. overlap' = overlap
    BY <1>2 DEF Next, Loop, Thread, Reload, Save, ReadConfig, Take, Join, Disconnect, Create, Restart,
       Connect, OnConnect, OnDisconnect, BrokerFails, BrokerReturns, SilentChange, Movement, Scan, Look,
       Send, Command, CommandLook, CommandSend
  <2>2. SUFFICES ASSUME ~overlap, Orderly PROVE Orderly'
    BY <2>1 DEF SInv
  <2>3. QED
    BY <1>2, <2>2, SerialOfReload, SerialOfClient, SerialOfOther, SerialOfRestart, SerialOfSave
       DEF Next, Thread
<1>3. QED BY <1>1, <1>2

LEMMA Serially ==
  ASSUME BridgeConstants
  PROVE  Spec => [](TInv /\ SInv)
<1>1. Init => TInv /\ SInv
  BY TypesOfInit, SerialOfInit
<1>2. TInv /\ SInv /\ [Next]_vars => TInv' /\ SInv'
  BY TypesOfNext, SerialOfNext
<1>3. QED BY <1>1, <1>2, PTL DEF Spec

\* When saves come one by one and none is under way, the bridge has the one client
\* that the stored settings want, whatever restarts and network failures came before.
THEOREM FollowsSettings ==
  ASSUME BridgeConstants
  PROVE  Spec => []BridgeFollowsSettings
<1>1. TInv /\ SInv => BridgeFollowsSettings
  <2> SUFFICES ASSUME TInv, Orderly, Settled
               PROVE  /\ NoClientLeaked
                      /\ bridge.client # None <=> Wanted(stored) /\ stored.host = "broker"
                      /\ bridge.client # None => clients[bridge.client].config = stored
    BY DEF SInv, BridgeFollowsSettings
  <2>1. NoClientLeaked
    BY SettledMeans DEF NoClientLeaked, Orderly, OneClient, Reloading
  <2>2. QED BY <2>1 DEF Orderly, Follows, TInv, Names
<1>2. QED BY <1>1, Serially, PTL

\* The flag of the bridge is never left standing by the callbacks of a client that
\* was replaced, for saves one by one.
THEOREM FlagIsCurrent ==
  ASSUME BridgeConstants
  PROVE  Spec => []ConnectedIsCurrent
<1>1. TInv /\ SInv => ConnectedIsCurrent
  <2> SUFFICES ASSUME TInv, Orderly, bridge.connected
               PROVE  IF bridge.client # None THEN clients[bridge.client].link = "up"
                      ELSE \E t \in Threads : /\ threads[t].stage \in {"join", "disconnect"}
                                              /\ clients[threads[t].old].link = "up"
    BY DEF SInv, ConnectedIsCurrent
  <2>1. PICK c \in DOMAIN clients : clients[c].link = "up"
    BY DEF Orderly, FlagIsTrue
  <2>2. \A d \in DOMAIN clients : d = c
    BY <2>1 DEF Orderly, OneClient
  <2>3. CASE bridge.client # None
    BY <2>1, <2>2, <2>3 DEF TInv, Names
  <2>4. CASE bridge.client = None
    <3>1. PICK t \in Threads : threads[t].stage \in {"join", "disconnect", "create"}
      BY <2>1, <2>4 DEF Orderly, OneClient, TInv, Shapes, BridgeConstants
    <3>2. threads[t].stage \in Stopping
      BY <2>1, <3>1 DEF Orderly, Current, Stopping
    <3>3. threads[t].old \in DOMAIN clients
      BY <3>2 DEF TInv, Names
    <3>4. QED BY <2>1, <2>2, <2>4, <3>2, <3>3 DEF Stopping
  <2>5. QED BY <2>3, <2>4
<1>2. QED BY <1>1, Serially, PTL

\* No command is executed that the stored settings forbid, once the save that
\* forbids it has been answered, for saves one by one.
THEOREM CommandsFollow ==
  ASSUME BridgeConstants
  PROVE  Spec => CommandsObeySettings
<1> DEFINE Obey == \A c \in DOMAIN clients :
                     Command(c) /\ ~overlap /\ Settled => stored.enabled /\ stored.commands
<1>1. TInv /\ SInv => Obey
  <2> SUFFICES ASSUME TInv, Orderly, Settled, NEW c \in DOMAIN clients, Command(c)
               PROVE  stored.enabled /\ stored.commands
    BY DEF SInv
  <2>1. clients[c].config = stored /\ clients[c].config.commands
    BY DEF Orderly, Follows, Command, Listens
  <2>2. bridge.client # None
    <3>1. DOMAIN clients \subseteq {bridge.client}
      BY SettledMeans DEF Orderly, OneClient, Reloading
    <3>2. c \in Nat /\ c = bridge.client
      BY <3>1 DEF TInv, Shapes
    <3>3. QED BY <3>2 DEF BridgeConstants
  <2>3. QED BY <2>1, <2>2 DEF Orderly, Follows, Wanted
<1>2. TInv /\ SInv => [Obey]_vars
  BY <1>1
<1>3. QED BY <1>2, Serially, PTL DEF CommandsObeySettings
=============================================================================
