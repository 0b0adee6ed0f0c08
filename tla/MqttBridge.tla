----------------------------- MODULE MqttBridge -----------------------------
(***************************************************************************)
(* The MQTT bridge: one process-wide object holding a client of the paho    *)
(* library, whose network loop runs in a thread of its own and calls back.  *)
(* Saving MQTT settings reloads the bridge; the start of the process loads  *)
(* it.  A reload is two phases under the bridge's lock with the shutdown of *)
(* the old client between them, outside the lock.                           *)
(*                                                                          *)
(* The clients all connect under the same client id, so the broker keeps    *)
(* one session: a new connection closes the connection of the other.        *)
(*                                                                          *)
(* Abstracted: of a configuration, whether the channel is enabled, whether  *)
(* its host is set and accepted by validate_broker_host, and whether it     *)
(* takes commands; its keys are read in one step.  The three retained state *)
(* topics are one value.  Notifications are in Delivery.  The library and   *)
(* the broker are modelled from how the bridge uses them.                   *)
(***************************************************************************)
EXTENDS Integers, FiniteSets

CONSTANTS
  Threads,     \* request and job threads that may be at work at once
  Configs,     \* the MQTT configurations that users save
  Counts,      \* what the state topics can say
  Schedules,   \* of overlap: FALSE for saves one by one, TRUE for any order
  MaxChanges,  \* bound on what users, the network and the operator do
  None         \* no client

Config == [enabled : BOOLEAN, host : {"unset", "blocked", "broker"}, commands : BOOLEAN]

ASSUME BridgeConstants ==
  /\ Configs \subseteq Config /\ Configs # {}
  /\ Counts # {} /\ Schedules \subseteq BOOLEAN
  /\ MaxChanges \in Nat /\ None \notin Nat

VARIABLES
  stored,    \* the committed settings channels.mqtt.*
  counts,    \* what IntegrationStateService.compute returns
  bridge,    \* MqttBridge: _client and _connected
  clients,   \* the paho clients that exist: id -> its configuration, loop and link
  broker,    \* whether it can be reached, its session, what it retains
  threads,   \* per thread, where it is
  changes,   \* how much of the bound is used
  overlap    \* whether saves overlap each other; chosen at the start

vars == <<stored, counts, bridge, clients, broker, threads, changes, overlap>>

-----------------------------------------------------------------------------
(* What a thread, or a client's own thread, is doing *)

Idle == [stage |-> "idle", config |-> [enabled |-> FALSE, host |-> "unset", commands |-> FALSE],
         old |-> None, boot |-> FALSE]

\* No reload is in progress.
Settled ==
  \A t \in Threads : threads[t].stage \notin {"read", "take", "join", "disconnect", "create"}

\* Requests are served after the start-up.
Begin(t) == threads[t] = Idle /\ \A u \in Threads : ~threads[u].boot

BeginSave(t) == Begin(t) /\ (~overlap => Settled)

Become(t, state) == threads' = [threads EXCEPT ![t] = state]

Change == changes < MaxChanges /\ changes' = changes + 1

\* reload_mqtt_bridge: start() rather than stop().
Wanted(config) == config.enabled /\ config.host # "unset"

NewClient == CHOOSE n \in 1 .. Cardinality(DOMAIN clients) + 1 : n \notin DOMAIN clients

-----------------------------------------------------------------------------
(* Saving settings, and starting the process *)

\* PATCH /settings with channels.mqtt: applied and committed ...
Save(t) ==
  /\ BeginSave(t) /\ Change
  /\ \E c \in Configs : stored' = c
  /\ Become(t, [Idle EXCEPT !.stage = "read"])
  /\ UNCHANGED <<counts, bridge, clients, broker, overlap>>

\* ... then read again by the reload, which may see a later commit.
ReadConfig(t) ==
  /\ threads[t].stage = "read"
  /\ Become(t, [threads[t] EXCEPT !.stage = "take", !.config = stored])
  /\ UNCHANGED <<stored, counts, bridge, clients, broker, changes, overlap>>

Done(t) == Become(t, Idle)

\* Where start() and stop() go on when the old client is out of the way.
After(t) ==
  IF Wanted(threads[t].config)
  THEN Become(t, [threads[t] EXCEPT !.stage = "create", !.old = None]) ELSE Done(t)

\* Mutant: the previous client is dropped without being stopped.
Take_Dropped(t) ==
  /\ threads[t].stage = "take"
  /\ bridge' = [client |-> None, connected |-> FALSE]
  /\ After(t)
  /\ UNCHANGED <<stored, counts, clients, broker, changes, overlap>>

\* Mutant: the bridge keeps its client while that is being stopped.
Take_Kept(t) ==
  /\ threads[t].stage = "take"
  /\ bridge' = [bridge EXCEPT !.connected = FALSE]
  /\ IF bridge.client = None THEN After(t)
     ELSE Become(t, [threads[t] EXCEPT !.stage = "join", !.old = bridge.client])
  /\ UNCHANGED <<stored, counts, clients, broker, changes, overlap>>

\* The first locked phase, of start() and of stop().
Take(t) ==
  /\ threads[t].stage = "take"
  /\ bridge' = [client |-> None, connected |-> FALSE]
  /\ IF bridge.client = None THEN After(t)
     ELSE Become(t, [threads[t] EXCEPT !.stage = "join", !.old = bridge.client])
  /\ UNCHANGED <<stored, counts, clients, broker, changes, overlap>>

\* loop_stop: ends the network loop, after the callback that it may be in.
Join(t) ==
  LET c == threads[t].old
  IN  /\ threads[t].stage = "join"
      /\ clients[c].job = "none"
      /\ clients' = [clients EXCEPT ![c].running = FALSE]
      /\ Become(t, [threads[t] EXCEPT !.stage = "disconnect"])
      /\ UNCHANGED <<stored, counts, bridge, broker, changes, overlap>>

\* disconnect: with a socket open, on_disconnect is called here, by this thread.
Disconnect(t) ==
  LET c == threads[t].old
  IN  /\ threads[t].stage = "disconnect"
      /\ bridge' = IF clients[c].link = "down" THEN bridge ELSE [bridge EXCEPT !.connected = FALSE]
      /\ broker' = IF broker.session = c THEN [broker EXCEPT !.session = None] ELSE broker
      /\ clients' = [d \in DOMAIN clients \ {c} |-> clients[d]]
      /\ After(t)
      /\ UNCHANGED <<stored, counts, changes, overlap>>

\* The second locked phase of start(): the broker's host is checked, then a
\* client is made and its loop started.
Create(t) ==
  /\ threads[t].stage = "create"
  /\ \/ /\ threads[t].config.host = "blocked"
        /\ bridge' = [client |-> None, connected |-> FALSE]
        /\ UNCHANGED clients
     \/ /\ threads[t].config.host = "broker"
        /\ bridge' = [bridge EXCEPT !.client = NewClient]
        /\ clients' = [c \in DOMAIN clients \cup {NewClient} |->
                         IF c \in DOMAIN clients THEN clients[c]
                         ELSE [config |-> threads[t].config, running |-> TRUE,
                               link |-> "down", job |-> "none", value |-> None]]
  /\ Done(t)
  /\ UNCHANGED <<stored, counts, broker, changes, overlap>>

\* The process ends, by a crash or after a stop(), and is started again: the
\* lifespan loads the bridge before requests are served.
Restart ==
  /\ Change
  /\ bridge' = [client |-> None, connected |-> FALSE]
  /\ clients' = <<>>
  /\ broker' = [broker EXCEPT !.session = None]
  /\ \E t \in Threads :
       threads' = [u \in Threads |-> IF u = t THEN [Idle EXCEPT !.stage = "read", !.boot = TRUE]
                                     ELSE Idle]
  /\ UNCHANGED <<stored, counts, overlap>>

-----------------------------------------------------------------------------
(* The network loop of a client *)

\* It connects, again and again: CONNECT is accepted, and the broker closes the
\* connection of the session before.
Connect(c) ==
  /\ clients[c].running /\ clients[c].job = "none"
  /\ clients[c].link = "down" /\ broker.up
  /\ clients' = [clients EXCEPT ![c].link = "open"]
  /\ broker' = [broker EXCEPT !.session = c]
  /\ UNCHANGED <<stored, counts, bridge, threads, changes, overlap>>

\* on_connect, with rc 0: connected, and subscribed if commands are enabled.
OnConnect(c) ==
  /\ clients[c].running
  /\ clients[c].link = "open"
  /\ clients' = [clients EXCEPT ![c].link = "up"]
  /\ bridge' = [bridge EXCEPT !.connected = TRUE]
  /\ UNCHANGED <<stored, counts, broker, threads, changes, overlap>>

\* Mutant: on_disconnect only logs.
OnDisconnect_Logs(c) ==
  /\ clients[c].running /\ clients[c].job = "none"
  /\ clients[c].link # "down" /\ broker.session # c
  /\ clients' = [clients EXCEPT ![c].link = "down"]
  /\ UNCHANGED <<stored, counts, bridge, broker, threads, changes, overlap>>

\* on_disconnect: the loop sees that the connection is gone.
OnDisconnect(c) ==
  /\ clients[c].running /\ clients[c].job = "none"
  /\ clients[c].link # "down" /\ broker.session # c
  /\ clients' = [clients EXCEPT ![c].link = "down"]
  /\ bridge' = [bridge EXCEPT !.connected = FALSE]
  /\ UNCHANGED <<stored, counts, broker, threads, changes, overlap>>

BrokerFails ==
  /\ Change
  /\ broker.up
  /\ broker' = [broker EXCEPT !.up = FALSE, !.session = None]
  /\ UNCHANGED <<stored, counts, bridge, clients, threads, overlap>>

BrokerReturns ==
  /\ ~broker.up
  /\ broker' = [broker EXCEPT !.up = TRUE]
  /\ UNCHANGED <<stored, counts, bridge, clients, threads, changes, overlap>>

-----------------------------------------------------------------------------
(* State topics *)

\* A lot edited, taken in or expired: nothing is published.
SilentChange ==
  /\ Change
  /\ \E n \in Counts \ {counts} : counts' = n
  /\ UNCHANGED <<stored, bridge, clients, broker, threads, overlap>>

\* A discard, adjust or consume is committed, and the counts are to be published.
Movement(t) ==
  /\ Begin(t) /\ Change
  /\ counts' \in Counts
  /\ Become(t, [Idle EXCEPT !.stage = "look"])
  /\ UNCHANGED <<stored, bridge, clients, broker, overlap>>

\* Mutant: the scan does not publish.
Scan_Silent(t) == Begin(t) /\ UNCHANGED vars

\* The daily scan and POST /reminders/run are committed.
Scan(t) ==
  /\ Begin(t)
  /\ Become(t, [Idle EXCEPT !.stage = "look"])
  /\ UNCHANGED <<stored, counts, bridge, clients, broker, changes, overlap>>

Publishable == bridge.connected /\ stored.enabled

\* publish_mqtt_state: the counts are computed ...
Look(t) ==
  /\ threads[t].stage = "look"
  /\ \/ ~Publishable /\ Done(t)
     \/ Publishable /\ Become(t, [Idle EXCEPT !.stage = "send", !.old = counts])
  /\ UNCHANGED <<stored, counts, bridge, clients, broker, changes, overlap>>

\* ... and published through the client of that moment.  What is sent on a
\* connection that the broker has closed is lost.
Published(value) ==
  IF bridge.connected /\ bridge.client # None /\ broker.session = bridge.client
  THEN [broker EXCEPT !.retained = value] ELSE broker

Send(t) ==
  /\ threads[t].stage = "send"
  /\ broker' = Published(threads[t].old)
  /\ Done(t)
  /\ UNCHANGED <<stored, counts, bridge, clients, changes, overlap>>

-----------------------------------------------------------------------------
(* Inbound commands *)

\* Mutant: every client subscribes.
Listens_Always(c) == clients[c].link = "up" /\ broker.session = c

\* on_message is set and the command topic subscribed for a configuration that
\* enables commands; the broker delivers to its session.
Listens(c) == clients[c].config.commands /\ clients[c].link = "up" /\ broker.session = c

\* A consume, intake or adjust by command, committed in a session of its own.
Command(c) ==
  /\ Change
  /\ clients[c].running /\ clients[c].job = "none" /\ Listens(c)
  /\ counts' \in Counts
  /\ clients' = [clients EXCEPT ![c].job = "look"]
  /\ UNCHANGED <<stored, bridge, broker, threads, overlap>>

\* It publishes as a request does, in the client's own thread.
CommandLook(c) ==
  /\ clients[c].job = "look"
  /\ \/ ~Publishable /\ clients' = [clients EXCEPT ![c].job = "none"]
     \/ Publishable /\ clients' = [clients EXCEPT ![c].job = "send", ![c].value = counts]
  /\ UNCHANGED <<stored, counts, bridge, broker, threads, changes, overlap>>

CommandSend(c) ==
  /\ clients[c].job = "send"
  /\ broker' = Published(clients[c].value)
  /\ clients' = [clients EXCEPT ![c].job = "none", ![c].value = None]
  /\ UNCHANGED <<stored, counts, bridge, threads, changes, overlap>>

-----------------------------------------------------------------------------
Init ==
  /\ stored \in Configs
  /\ counts \in Counts
  /\ bridge = [client |-> None, connected |-> FALSE]
  /\ clients = <<>>
  /\ broker = [up |-> TRUE, session |-> None, retained |-> None]
  /\ \E t \in Threads :
       threads = [u \in Threads |-> IF u = t THEN [Idle EXCEPT !.stage = "read", !.boot = TRUE]
                                    ELSE Idle]
  /\ changes = 0
  /\ overlap \in Schedules

Reload(t) == ReadConfig(t) \/ Take(t) \/ Join(t) \/ Disconnect(t) \/ Create(t)

Thread(t) == Reload(t) \/ Look(t) \/ Send(t)

Loop(c) ==
  \/ Connect(c) \/ OnConnect(c) \/ OnDisconnect(c) \/ CommandLook(c) \/ CommandSend(c)

Next ==
  \/ \E t \in Threads : Save(t) \/ Movement(t) \/ Scan(t) \/ Thread(t)
  \/ \E c \in DOMAIN clients : Loop(c) \/ Command(c)
  \/ SilentChange \/ Restart \/ BrokerFails \/ BrokerReturns

Spec == Init /\ [][Next]_vars

\* A thread that has begun goes on, so do the clients' loops, and the daily scan
\* comes again and again.  Users and the broker promise nothing.
FairSpec ==
  /\ Spec
  /\ \A t \in Threads : WF_vars(Thread(t))
  /\ WF_vars(\E c \in DOMAIN clients : Loop(c))
  /\ WF_vars(\E t \in Threads : Scan(t))

-----------------------------------------------------------------------------
(* Properties *)

\* The bridge, the broker and the threads name clients that exist.
TypeOK ==
  /\ stored \in Configs /\ counts \in Counts
  /\ bridge.client \in DOMAIN clients \cup {None} /\ bridge.connected \in BOOLEAN
  /\ broker.session \in DOMAIN clients \cup {None}
  /\ \A c \in DOMAIN clients :
       clients[c].config \in Configs /\ clients[c].link \in {"down", "open", "up"}
  /\ \A t \in Threads : threads[t].stage \in {"join", "disconnect"} =>
       threads[t].old \in DOMAIN clients

\* When no reload is in progress, the client of the bridge is the only one alive.
\* A client that start() lost sight of would go on for the life of the process,
\* fight the new one for the session and take commands.
NoClientLeaked == Settled => DOMAIN clients \subseteq {bridge.client}

\* When no reload is in progress, after a start of the process as well, there is a
\* client exactly if the stored settings want one, and it has those settings.
\* For saves that do not overlap.
BridgeFollowsSettings ==
  ~overlap /\ Settled =>
    /\ NoClientLeaked
    /\ bridge.client # None <=> Wanted(stored) /\ stored.host = "broker"
    /\ bridge.client # None => clients[bridge.client].config = stored

\* A bridge that says it is connected has a client, or is stopping one, whose
\* connection was accepted and which has not reported its loss, whatever
\* callbacks of the old and the new client come when.  For saves that do not overlap.
ConnectedIsCurrent ==
  ~overlap /\ bridge.connected =>
    IF bridge.client # None THEN clients[bridge.client].link = "up"
    ELSE \E t \in Threads : /\ threads[t].stage \in {"join", "disconnect"}
                            /\ clients[threads[t].old].link = "up"

\* Once a save that disables commands, or the channel, has been answered, no
\* command is executed.  For saves that do not overlap.
CommandsObeySettings ==
  [][\A c \in DOMAIN clients :
       Command(c) /\ ~overlap /\ Settled => stored.enabled /\ stored.commands]_vars

\* With the broker up and the channel on for good, the retained state becomes
\* what the inventory says, whatever was lost before: saves, restarts, broker
\* failures, changes that publish nothing, and two publications that overtake
\* each other.  For saves that do not overlap.
StateCatchesUp ==
  \A n \in Counts :
    <>[](~overlap /\ broker.up /\ Wanted(stored) /\ stored.host = "broker" /\ counts = n)
      => <>[](broker.retained = n)
=============================================================================
