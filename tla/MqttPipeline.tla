----------------------------- MODULE MqttPipeline -----------------------------
(***************************************************************************)
(* From the MQTT broker to the tables and the screen.  State messages      *)
(* (QoS 0, not retained) fan out to Node-RED, to the persister             *)
(* (gateway/mqtt_to_sqlite.py) and to the bridge (app/mqtt_bridge.py).     *)
(* Node-RED's state-change detector (gateway/nodered/flows.json) publishes *)
(* alarms (QoS 1, retained), which the other two receive in turn.          *)
(*                                                                         *)
(* Every client has a clean session: what the broker held for it is gone   *)
(* when its connection ends.  The two Python clients subscribe once, after *)
(* connect(); the client library reconnects by itself and then hears       *)
(* nothing.  Node-RED subscribes on every connection and sends again what  *)
(* the broker has not acknowledged.                                        *)
(*                                                                         *)
(* One asset: every part keys its state by asset_id.  The broker does not  *)
(* lose its retained message (mosquitto.conf, persistence true).  The      *)
(* variables sent, raised, accepted, faults and lost are history.          *)
(***************************************************************************)
EXTENDS Integers, Sequences, FiniteSets

CONSTANTS
    States,        \* the classes a state message can carry
    Sinks,         \* "persister", "bridge" or both
    Deployments,   \* sets of sinks: those that are installed and run
    MaxMessages,   \* bound on the state messages published
    MaxFaults      \* bound on connection losses, restarts and failed inserts

ASSUME PipelineAssumption ==
    /\ Sinks \subseteq {"persister", "bridge"}
    /\ Deployments \subseteq SUBSET Sinks
    /\ MaxMessages \in Nat
    /\ MaxFaults \in Nat

VARIABLES
    nodered,       \* "up" or "offline"
    last,          \* the detector's context.get('last_' + key)
    outbox,        \* alarms the broker has not acknowledged, oldest first
    inflight,      \* how many of them went out on the present connection
    queue,         \* what the broker has sent to each client and it has not handled
    client,        \* the state of each Python client
    retained,      \* the retained alarm, or NoAlarm
    events,        \* the state messages each sink has stored or emitted
    alarms,        \* the alarms each sink has stored or emitted
    sent,          \* state messages the broker got
    raised,        \* alarms the detector raised
    accepted,      \* the alarm the broker got last, or NoAlarm
    lost,          \* the last alarm the persister took failed to insert
    faults         \* faults so far

detector == <<nodered, last, outbox, inflight, raised>>
broker == <<queue, retained, accepted, sent>>
sinks == <<client, events, alarms, lost>>
vars == <<detector, broker, sinks, faults>>

None == "none"
Clients == {"nodered"} \cup Sinks
StateMessage == [kind : {"state"}, n : Nat, state : States, high : BOOLEAN]
Alarm == [kind : {"alarm"}, n : Nat, from : States \cup {None}, to : States]
NoAlarm == [kind |-> "alarm", n |-> 0, from |-> None, to |-> None]

-----------------------------------------------------------------------------
(* The broker.                                                             *)

\* A message goes to the queue of every client in cs.
Deliver(m, cs) ==
    queue' = [c \in Clients |-> IF c \in cs THEN Append(queue[c], m) ELSE queue[c]]

ListeningSinks == {c \in Sinks : client[c] = "subscribed"}

Fault == faults < MaxFaults /\ faults' = faults + 1

\* ble_central publishes a state message; high says that its confidence is at
\* least the floor.
Publish(s, high) ==
    /\ sent < MaxMessages
    /\ sent' = sent + 1
    /\ Deliver([kind |-> "state", n |-> sent + 1, state |-> s, high |-> high],
               ListeningSinks \cup (IF nodered = "up" THEN {"nodered"} ELSE {}))
    /\ UNCHANGED <<detector, sinks, retained, accepted, faults>>

-----------------------------------------------------------------------------
(* Node-RED: the state-change detector and its connection.                 *)

\* The detector drops what is below the floor and what repeats the last state.
IsTransition(m) == m.high /\ m.state # last

AlarmFor(m) ==
    [kind |-> "alarm", n |-> raised + 1, from |-> last, to |-> m.state]

Detect ==
    /\ queue["nodered"] # <<>>
    /\ queue' = [queue EXCEPT !["nodered"] = Tail(@)]
    /\ LET m == Head(queue["nodered"]) IN
        \/ /\ IsTransition(m)
           /\ last' = m.state
           /\ outbox' = Append(outbox, AlarmFor(m))
           /\ raised' = raised + 1
        \/ /\ ~IsTransition(m)
           /\ UNCHANGED <<last, outbox, raised>>
    /\ UNCHANGED <<nodered, inflight, retained, accepted, sent, sinks, faults>>

\* Definitions named Bug... are plausible mistakes in the definition that follows
\* them.  No action uses them: they are put in its place to see that the
\* properties notice.
BugRetainNothing(a) == NoAlarm

\* What the broker keeps of an alarm for those who subscribe later.
Retain(a) == a

\* The next alarm reaches the broker ...
Transmit ==
    /\ nodered = "up" /\ inflight < Len(outbox)
    /\ LET a == outbox[inflight + 1] IN
        /\ retained' = Retain(a)
        /\ accepted' = a
        /\ Deliver(a, ListeningSinks)
    /\ inflight' = inflight + 1
    /\ UNCHANGED <<nodered, last, outbox, raised, sent, sinks, faults>>

\* ... and is acknowledged.
Acknowledge ==
    /\ inflight > 0
    /\ outbox' = Tail(outbox)
    /\ inflight' = inflight - 1
    /\ UNCHANGED <<nodered, last, raised, broker, sinks, faults>>

NodeRedOffline ==
    /\ nodered = "up" /\ Fault
    /\ nodered' = "offline"
    /\ inflight' = 0
    /\ queue' = [queue EXCEPT !["nodered"] = <<>>]
    /\ UNCHANGED <<last, outbox, raised, retained, accepted, sent, sinks>>

NodeRedOnline ==
    /\ nodered = "offline"
    /\ nodered' = "up"
    /\ UNCHANGED <<last, outbox, inflight, raised, broker, sinks, faults>>

BugNodeRedRestartKeepsContext ==
    /\ Fault
    /\ nodered' = "offline"
    /\ outbox' = <<>> /\ inflight' = 0
    /\ queue' = [queue EXCEPT !["nodered"] = <<>>]
    /\ UNCHANGED <<last, raised, retained, accepted, sent, sinks>>

\* The process restarts: the context and the unacknowledged alarms are in memory.
NodeRedRestart ==
    /\ Fault
    /\ nodered' = "offline"
    /\ last' = None
    /\ outbox' = <<>> /\ inflight' = 0
    /\ queue' = [queue EXCEPT !["nodered"] = <<>>]
    /\ UNCHANGED <<raised, retained, accepted, sent, sinks>>

-----------------------------------------------------------------------------
(* The Python clients.                                                     *)

\* connect() and subscribe() succeed: systemd restarted the persister, or the
\* bridge came around its loop.  A subscriber gets the retained alarm.
Start(c) ==
    /\ client[c] = "down"
    /\ client' = [client EXCEPT ![c] = "subscribed"]
    /\ queue' = [queue EXCEPT ![c] = IF retained = NoAlarm THEN <<>> ELSE <<retained>>]
    /\ UNCHANGED <<detector, retained, accepted, sent, events, alarms, lost, faults>>

\* The connection ends inside loop_forever() ...
LoseConnection(c) ==
    /\ client[c] \in {"subscribed", "deaf"} /\ Fault
    /\ client' = [client EXCEPT ![c] = "offline"]
    /\ queue' = [queue EXCEPT ![c] = <<>>]
    /\ UNCHANGED <<detector, retained, accepted, sent, events, alarms, lost>>

\* ... which connects again and does not subscribe.
Reconnect(c) ==
    /\ client[c] = "offline"
    /\ client' = [client EXCEPT ![c] = "deaf"]
    /\ UNCHANGED <<detector, broker, events, alarms, lost, faults>>

\* The process dies, or an exception ends the bridge's loop_forever().
Die(c) ==
    /\ client[c] \notin {"down", "absent"} /\ Fault
    /\ client' = [client EXCEPT ![c] = "down"]
    /\ queue' = [queue EXCEPT ![c] = <<>>]
    /\ UNCHANGED <<detector, retained, accepted, sent, events, alarms, lost>>

\* on_message: the message goes where the client puts its kind.
Take(c) ==
    /\ queue[c] # <<>>
    /\ LET m == Head(queue[c]) IN
        \/ /\ m.kind = "state"
           /\ events' = [events EXCEPT ![c] = Append(@, m.n)]
           /\ UNCHANGED alarms
        \/ /\ m.kind = "alarm"
           /\ alarms' = [alarms EXCEPT ![c] = Append(@, m)]
           /\ UNCHANGED events
    /\ queue' = [queue EXCEPT ![c] = Tail(@)]
    /\ UNCHANGED <<detector, retained, accepted, sent, client, faults>>

\* The persister inserts a row ...
Insert ==
    /\ "persister" \in Sinks
    /\ Take("persister")
    /\ lost' = (lost /\ Head(queue["persister"]).kind = "state")

\* ... the bridge validates and emits an event ...
Emit ==
    /\ "bridge" \in Sinks
    /\ Take("bridge")
    /\ UNCHANGED lost

BugInsertFailsRequeues ==
    /\ "persister" \in Sinks /\ queue["persister"] # <<>> /\ Fault
    /\ queue' = [queue EXCEPT !["persister"] = Append(Tail(@), Head(@))]
    /\ UNCHANGED <<detector, retained, accepted, sent, client, events, alarms, lost>>

\* ... and if the persister's insert raises, the message is logged and dropped.
InsertFails ==
    /\ "persister" \in Sinks /\ queue["persister"] # <<>> /\ Fault
    /\ lost' = (lost \/ Head(queue["persister"]).kind = "alarm")
    /\ queue' = [queue EXCEPT !["persister"] = Tail(@)]
    /\ UNCHANGED <<detector, retained, accepted, sent, client, events, alarms>>

-----------------------------------------------------------------------------

Init ==
    /\ nodered = "offline" /\ last = None /\ outbox = <<>> /\ inflight = 0 /\ raised = 0
    /\ queue = [c \in Clients |-> <<>>] /\ retained = NoAlarm /\ accepted = NoAlarm /\ sent = 0
    /\ \E up \in Deployments : client = [c \in Sinks |-> IF c \in up THEN "down" ELSE "absent"]
    /\ events = [c \in Sinks |-> <<>>] /\ alarms = [c \in Sinks |-> <<>>]
    /\ lost = FALSE /\ faults = 0

Next ==
    \/ \E s \in States, high \in BOOLEAN : Publish(s, high)
    \/ Detect \/ Transmit \/ Acknowledge
    \/ NodeRedOffline \/ NodeRedOnline \/ NodeRedRestart
    \/ \E c \in Sinks : Start(c) \/ LoseConnection(c) \/ Reconnect(c) \/ Die(c)
    \/ Insert \/ InsertFails \/ Emit

Spec == Init /\ [][Next]_vars

\* systemd restarts what died, client libraries reconnect, and whoever has
\* something to handle or to send handles or sends it.
Fairness ==
    /\ WF_vars(Detect) /\ WF_vars(Transmit) /\ WF_vars(Acknowledge)
    /\ WF_vars(NodeRedOnline)
    /\ \A c \in Sinks : WF_vars(Start(c)) /\ WF_vars(Reconnect(c))
    /\ WF_vars(Insert) /\ WF_vars(Emit)

FairSpec == Spec /\ Fairness

-----------------------------------------------------------------------------
(* Properties.                                                             *)

\* Type invariant.
TypeOK ==
    /\ nodered \in {"up", "offline"} /\ last \in States \cup {None}
    /\ outbox \in Seq(Alarm) /\ inflight \in 0 .. Len(outbox)
    /\ raised \in Nat /\ sent \in 0 .. MaxMessages /\ faults \in 0 .. MaxFaults
    /\ queue \in [Clients -> Seq(StateMessage \cup Alarm)]
    /\ \A k \in 1 .. Len(queue["nodered"]) : queue["nodered"][k].kind = "state"
    /\ client \in [Sinks -> {"absent", "down", "subscribed", "offline", "deaf"}]
    /\ retained \in Alarm \cup {NoAlarm} /\ accepted \in Alarm \cup {NoAlarm}
    /\ events \in [Sinks -> Seq(Nat)] /\ alarms \in [Sinks -> Seq(Alarm)]
    /\ lost \in BOOLEAN

\* No state message is stored or emitted twice or out of order, whatever restarts,
\* reconnects or fails (mqtt_to_sqlite.py:74-85, mqtt_bridge.py:60-68).
EventsInOrder ==
    \A c \in Sinks : \A i, j \in 1 .. Len(events[c]) :
        i < j => events[c][i] < events[c][j]

\* The retained alarm says what the detector believes, once nothing waits for an
\* acknowledgment: losing the detector's memory together with its unsent alarms
\* does not leave the broker announcing an older state for good
\* (flows.json:37 and 53-63).
RetainedIsBelieved ==
    (last # None /\ outbox = <<>>) => retained.to = last

\* A subscribed client that has handled what it was sent knows the newest alarm,
\* although it may have been down when that was published: the retained message
\* makes up for the clean session (flows.json:59, mqtt_to_sqlite.py:92,
\* mqtt_bridge.py:75).
SubscriberCaughtUp ==
    \A c \in Sinks :
        (/\ client[c] = "subscribed" /\ accepted # NoAlarm
         /\ \A k \in 1 .. Len(queue[c]) : queue[c][k].kind = "state"
         /\ ~(c = "persister" /\ lost))
            => alarms[c] # <<>> /\ alarms[c][Len(alarms[c])] = accepted

\* An alarm that the broker got is stored and shown, unless a newer one takes its
\* place, its insert fails, or the client's connection has ended without the process
\* dying.
AlarmReachesSinks ==
    \A c \in Sinks, k \in 1 .. MaxMessages :
        accepted.n = k
            ~> \/ \E i \in 1 .. Len(alarms[c]) : alarms[c][i].n = k
               \/ accepted.n # k
               \/ c = "persister" /\ lost
               \/ client[c] \in {"absent", "offline", "deaf"}

\* PROJECT_PLAN.md:319, "every state message reaches SQLite": whatever the broker
\* gets while the persister is connected is sent to it.
EveryStateReachesSQLite ==
    [][(sent' # sent /\ client["persister"] \in {"subscribed", "deaf"})
          => Len(queue'["persister"]) = Len(queue["persister"]) + 1]_vars

\* gateway/README.md:57, "alarms - one row per state transition emitted by
\* Node-RED".
OneRowPerTransition ==
    \A i, j \in 1 .. Len(alarms["persister"]) :
        alarms["persister"][i].n = alarms["persister"][j].n => i = j

\* PROJECT_PLAN.md:596, "only emit transitions": an alarm announces another state
\* than the one announced before it.
OnlyTransitions ==
    [][(raised' # raised /\ outbox = <<>> /\ retained # NoAlarm)
          => outbox'[1].to # retained.to]_vars
=============================================================================
