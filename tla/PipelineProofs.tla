---------------------------- MODULE PipelineProofs ----------------------------
(***************************************************************************)
(* Node-RED's two functions and what surrounds them.                       *)
(*                                                                         *)
(* First MqttPipeline: its safety properties hold for any set of states,   *)
(* any of the two sinks, any number of messages, and any number of         *)
(* connection losses, restarts and failed inserts in any order.  Three     *)
(* arguments, none of which needs the others.  Order: the queues are FIFO  *)
(* and a clean session can only empty them, so what a sink has handled is  *)
(* older than what it is still to handle.  Belief: the newest              *)
(* unacknowledged alarm is always what the detector believes, and what was *)
(* handed to the broker last is retained; a restart forgets both the       *)
(* belief and what was not handed over.  Catching up: the retained alarm   *)
(* is the last one the broker accepted, and the last alarm in a            *)
(* subscriber's queue is that one or the subscriber has handled it         *)
(* already.                                                                *)
(*                                                                         *)
(* Then RollingAvailability: its properties hold for any window, any       *)
(* number of samples and any setting of the clock.  The buffer is the      *)
(* newest part of what was seen, each sample dropped was older than the    *)
(* window when one of the later ones came, and the oldest that is left is  *)
(* not older than the window.                                              *)
(***************************************************************************)
EXTENDS MqttPipeline, RollingAvailability, SequenceTheorems, FiniteSetTheorems, WellFoundedInduction, TLAPS

-----------------------------------------------------------------------------
(* The pipeline.                                                           *)

\* The state messages a client is still to handle come in the order of their
\* publication.
QueueInOrder(c) ==
    \A i \in 1 .. Len(queue[c]) :
        queue[c][i].kind = "state" =>
            /\ queue[c][i].n <= sent
            /\ \A j \in 1 .. Len(queue[c]) :
                 i < j /\ queue[c][j].kind = "state" => queue[c][i].n < queue[c][j].n

\* Those it has handled do too, and are older.
EventsBehind(c) ==
    \A i \in 1 .. Len(events[c]) :
        /\ events[c][i] <= sent
        /\ \A k \in 1 .. Len(queue[c]) :
             queue[c][k].kind = "state" => events[c][i] < queue[c][k].n

HandledInOrder(c) ==
    \A i, j \in 1 .. Len(events[c]) : i < j => events[c][i] < events[c][j]

OrderInv == \A c \in Sinks : QueueInOrder(c) /\ EventsBehind(c) /\ HandledInOrder(c)

\* The detector's newest unacknowledged alarm is what it believes; the newest that
\* went out is retained.
BeliefInv ==
    /\ outbox # <<>> => outbox[Len(outbox)].to = last
    /\ inflight > 0 => retained = outbox[inflight]
    /\ RetainedIsBelieved

\* The last alarm in a subscriber's queue is the one the broker got last.
NewestQueued(c) ==
    \A i \in 1 .. Len(queue[c]) :
        (/\ queue[c][i].kind = "alarm"
         /\ \A k \in 1 .. Len(queue[c]) : i < k => queue[c][k].kind = "state")
            => queue[c][i] = accepted

\* A subscriber with no alarm to handle has handled that one.
HasHandled(c) ==
    (/\ accepted # NoAlarm
     /\ \A k \in 1 .. Len(queue[c]) : queue[c][k].kind = "state"
     /\ ~(c = "persister" /\ lost))
        => alarms[c] # <<>> /\ alarms[c][Len(alarms[c])] = accepted

CatchUpInv ==
    /\ retained = accepted
    /\ \A c \in Sinks : client[c] = "subscribed" => NewestQueued(c) /\ HasHandled(c)

-----------------------------------------------------------------------------
(* Sequences, names and messages.                                          *)

LEMMA Appended ==
    ASSUME NEW S, NEW s \in Seq(S), NEW e \in S
    PROVE  /\ Append(s, e) \in Seq(S) /\ Append(s, e) # <<>>
           /\ Len(s) \in Nat /\ Len(Append(s, e)) = Len(s) + 1
           /\ \A i \in 1 .. Len(s) : Append(s, e)[i] = s[i]
           /\ Append(s, e)[Len(s) + 1] = e
           /\ \A i \in 1 .. Len(Append(s, e)) : i \in 1 .. Len(s) \/ i = Len(s) + 1
<1>1. Len(s) \in Nat
  BY LenProperties
<1>2. /\ Append(s, e) \in Seq(S) /\ Append(s, e) # <<>>
      /\ Len(Append(s, e)) = Len(s) + 1
      /\ \A i \in 1 .. Len(s) : Append(s, e)[i] = s[i]
      /\ Append(s, e)[Len(s) + 1] = e
  BY AppendProperties
<1> QED
  BY <1>1, <1>2

LEMMA Shortened ==
    ASSUME NEW S, NEW s \in Seq(S), s # <<>>
    PROVE  /\ Tail(s) \in Seq(S) /\ Head(s) = s[1] /\ Head(s) \in S
           /\ Len(s) \in Nat /\ Len(s) >= 1 /\ Len(Tail(s)) = Len(s) - 1
           /\ \A i \in 1 .. Len(Tail(s)) : Tail(s)[i] = s[i + 1] /\ i + 1 \in 1 .. Len(s)
           /\ \A i \in 1 .. Len(s) : i = 1 \/ i - 1 \in 1 .. Len(Tail(s))
<1>1. Len(s) \in Nat \ {0}
  BY EmptySeq
<1>2. /\ Tail(s) \in Seq(S) /\ Head(s) \in S
      /\ Len(Tail(s)) = Len(s) - 1
      /\ \A i \in 1 .. Len(Tail(s)) : Tail(s)[i] = s[i + 1]
  BY HeadTailProperties
<1>3. Head(s) = s[1]
  BY <1>1
<1> QED
  BY <1>1, <1>2, <1>3

Message == StateMessage \cup Alarm

LEMMA Names ==
    /\ Sinks \subseteq Clients /\ "nodered" \in Clients /\ "nodered" \notin Sinks
    /\ ListeningSinks \subseteq Sinks
BY PipelineAssumption DEF Clients, ListeningSinks

LEMMA MessageFields ==
    /\ \A m \in Message : m.kind \in {"state", "alarm"} /\ m.n \in Nat
    /\ \A m \in Message : m.kind = "state" => m \in StateMessage /\ m.state \in States
    /\ \A m \in Message : m.kind = "alarm" <=> m \in Alarm
    /\ NoAlarm.kind = "alarm"
BY DEF Message, StateMessage, Alarm, NoAlarm

\* What the broker's delivery of a message does to each client's queue.
LEMMA Delivered ==
    ASSUME TypeOK, NEW m \in Message, NEW cs \in SUBSET Clients, Deliver(m, cs),
           "nodered" \in cs => m.kind = "state"
    PROVE  /\ queue' \in [Clients -> Seq(Message)]
           /\ \A k \in 1 .. Len(queue'["nodered"]) : queue'["nodered"][k].kind = "state"
           /\ \A c \in Clients : c \in cs => queue'[c] = Append(queue[c], m)
           /\ \A c \in Clients : c \notin cs => queue'[c] = queue[c]
<1>1. queue \in [Clients -> Seq(Message)]
  BY DEF TypeOK, Message
<1>2. /\ queue' = [c \in Clients |-> IF c \in cs THEN Append(queue[c], m) ELSE queue[c]]
  BY DEF Deliver
<1>3. /\ \A c \in Clients : c \in cs => queue'[c] = Append(queue[c], m)
      /\ \A c \in Clients : c \notin cs => queue'[c] = queue[c]
  BY <1>2
<1>4. \A c \in Clients : Append(queue[c], m) \in Seq(Message) /\ queue[c] \in Seq(Message)
  BY <1>1, Appended
<1>5. queue' \in [Clients -> Seq(Message)]
  BY <1>2, <1>4
<1>6. \A k \in 1 .. Len(queue'["nodered"]) : queue'["nodered"][k].kind = "state"
  <2>1. "nodered" \in Clients /\ queue["nodered"] \in Seq(Message)
    BY <1>1, Names
  <2>2. \A k \in 1 .. Len(queue["nodered"]) : queue["nodered"][k].kind = "state"
    BY DEF TypeOK
  <2>3. CASE "nodered" \in cs
    <3>1. queue'["nodered"] = Append(queue["nodered"], m)
      BY <1>3, <2>1, <2>3
    <3> SUFFICES ASSUME NEW k \in 1 .. Len(queue'["nodered"])
                 PROVE  queue'["nodered"][k].kind = "state"
      OBVIOUS
    <3>2. CASE k \in 1 .. Len(queue["nodered"])
      BY <2>1, <2>2, <3>1, <3>2, Appended
    <3>3. CASE k = Len(queue["nodered"]) + 1
      BY <2>1, <2>3, <3>1, <3>3, Appended
    <3> QED
      BY <2>1, <3>1, <3>2, <3>3, Appended
  <2>4. CASE "nodered" \notin cs
    BY <1>3, <2>1, <2>2, <2>4
  <2> QED
    BY <2>3, <2>4
<1> QED
  BY <1>3, <1>5, <1>6

-----------------------------------------------------------------------------
(* Type correctness.                                                       *)

DetectorTypeOK ==
    /\ nodered \in {"up", "offline"} /\ last \in States \cup {None}
    /\ outbox \in Seq(Alarm) /\ inflight \in 0 .. Len(outbox)
    /\ raised \in Nat

BrokerTypeOK ==
    /\ sent \in 0 .. MaxMessages /\ faults \in 0 .. MaxFaults
    /\ retained \in Alarm \cup {NoAlarm} /\ accepted \in Alarm \cup {NoAlarm}

QueueTypeOK ==
    /\ queue \in [Clients -> Seq(Message)]
    /\ \A k \in 1 .. Len(queue["nodered"]) : queue["nodered"][k].kind = "state"

SinkTypeOK ==
    /\ client \in [Sinks -> {"absent", "down", "subscribed", "offline", "deaf"}]
    /\ events \in [Sinks -> Seq(Nat)] /\ alarms \in [Sinks -> Seq(Alarm)]
    /\ lost \in BOOLEAN

LEMMA TypeParts == TypeOK <=> DetectorTypeOK /\ BrokerTypeOK /\ QueueTypeOK /\ SinkTypeOK
BY DEF TypeOK, DetectorTypeOK, BrokerTypeOK, QueueTypeOK, SinkTypeOK, Message

\* Node-RED's next message: a state message, and the alarm made of it an alarm.
LEMMA NextState ==
    ASSUME TypeOK, queue["nodered"] # <<>>
    PROVE  LET m == Head(queue["nodered"]) IN
           /\ m \in StateMessage /\ m.state \in States
           /\ AlarmFor(m) \in Alarm
<1> DEFINE m == Head(queue["nodered"])
<1>1. queue["nodered"] \in Seq(Message)
  BY Names DEF TypeOK, Message
<1>2. m = queue["nodered"][1] /\ m \in Message /\ 1 \in 1 .. Len(queue["nodered"])
  BY <1>1, Shortened
<1>3. m.kind = "state"
  BY <1>2 DEF TypeOK
<1>4. m \in StateMessage /\ m.state \in States
  BY <1>2, <1>3, MessageFields
<1>5. AlarmFor(m) \in Alarm
  BY <1>4 DEF TypeOK, AlarmFor, Alarm
<1> QED
  BY <1>4, <1>5

\* Taking a message or losing the insert shortens one queue.
LEMMA QueueShortened ==
    ASSUME TypeOK, NEW c \in Clients, queue[c] # <<>>,
           queue' = [queue EXCEPT ![c] = Tail(@)]
    PROVE  /\ QueueTypeOK'
           /\ queue'[c] = Tail(queue[c])
           /\ \A d \in Clients : d # c => queue'[d] = queue[d]
<1>1. queue \in [Clients -> Seq(Message)] /\ queue[c] \in Seq(Message)
  BY DEF TypeOK, Message
<1>2. Tail(queue[c]) \in Seq(Message)
  BY <1>1, Shortened
<1>3. /\ queue' \in [Clients -> Seq(Message)] /\ queue'[c] = Tail(queue[c])
      /\ \A d \in Clients : d # c => queue'[d] = queue[d]
  BY <1>1, <1>2
<1>4. \A k \in 1 .. Len(queue'["nodered"]) : queue'["nodered"][k].kind = "state"
  <2>1. CASE c # "nodered"
    BY <1>3, <2>1, Names DEF TypeOK
  <2>2. CASE c = "nodered"
    <3> SUFFICES ASSUME NEW k \in 1 .. Len(Tail(queue["nodered"]))
                 PROVE  Tail(queue["nodered"])[k].kind = "state"
      BY <1>3, <2>2
    <3>1. /\ Tail(queue["nodered"])[k] = queue["nodered"][k + 1]
          /\ k + 1 \in 1 .. Len(queue["nodered"])
      BY <1>1, <2>2, Shortened
    <3> QED
      BY <3>1 DEF TypeOK
  <2> QED
    BY <2>1, <2>2
<1> QED
  BY <1>3, <1>4 DEF QueueTypeOK

\* A connection that ends or begins sets one queue.
LEMMA QueueReset ==
    ASSUME TypeOK, NEW c \in Clients, NEW q \in Seq(Message),
           c = "nodered" => q = <<>>,
           queue' = [queue EXCEPT ![c] = q]
    PROVE  /\ QueueTypeOK'
           /\ queue'[c] = q
           /\ \A d \in Clients : d # c => queue'[d] = queue[d]
<1>1. /\ queue' \in [Clients -> Seq(Message)] /\ queue'[c] = q
      /\ \A d \in Clients : d # c => queue'[d] = queue[d]
  BY DEF TypeOK, Message
<1>2. \A k \in 1 .. Len(queue'["nodered"]) : queue'["nodered"][k].kind = "state"
  <2>1. CASE c # "nodered"
    BY <1>1, <2>1, Names DEF TypeOK
  <2>2. CASE c = "nodered"
    <3>1. queue'["nodered"] = <<>>
      BY <1>1, <2>2
    <3> QED
      BY <3>1
  <2> QED
    BY <2>1, <2>2
<1> QED
  BY <1>1, <1>2 DEF QueueTypeOK

\* What a step of a sink's queue does: who delivers, who takes, who resets.
LEMMA Published ==
    ASSUME TypeOK, NEW s \in States, NEW high \in BOOLEAN, Publish(s, high)
    PROVE  LET m == [kind |-> "state", n |-> sent + 1, state |-> s, high |-> high] IN
           /\ m \in Message /\ QueueTypeOK'
           /\ sent \in Nat /\ sent' = sent + 1 /\ sent' \in 0 .. MaxMessages
           /\ \A c \in Sinks : queue'[c] \in {queue[c], Append(queue[c], m)}
<1> DEFINE m == [kind |-> "state", n |-> sent + 1, state |-> s, high |-> high]
           cs == ListeningSinks \cup (IF nodered = "up" THEN {"nodered"} ELSE {})
<1>1. sent \in Nat /\ sent' = sent + 1 /\ sent' \in 0 .. MaxMessages
  BY PipelineAssumption DEF Publish, TypeOK
<1>2. m \in Message /\ m.kind = "state"
  BY <1>1 DEF Message, StateMessage
<1>3. Deliver(m, cs)
  BY DEF Publish
<1>4. cs \in SUBSET Clients
  BY Names
<1> HIDE DEF m, cs
<1>5. /\ queue' \in [Clients -> Seq(Message)]
      /\ \A k \in 1 .. Len(queue'["nodered"]) : queue'["nodered"][k].kind = "state"
      /\ \A c \in Clients : queue'[c] \in {queue[c], Append(queue[c], m)}
  BY <1>2, <1>3, <1>4, Delivered
<1> QED
  BY <1>1, <1>2, <1>5, Names DEF QueueTypeOK, m

LEMMA Transmitted ==
    ASSUME TypeOK, Transmit
    PROVE  LET a == outbox[inflight + 1] IN
           /\ a \in Alarm /\ a \in Message /\ QueueTypeOK'
           /\ inflight \in Nat /\ inflight + 1 \in 1 .. Len(outbox)
           /\ \A c \in Sinks : queue'[c] = IF client[c] = "subscribed"
                                            THEN Append(queue[c], a) ELSE queue[c]
<1> DEFINE a == outbox[inflight + 1]
<1>1. inflight \in Nat /\ Len(outbox) \in Nat /\ inflight < Len(outbox)
      /\ outbox \in Seq(Alarm)
  BY LenProperties DEF Transmit, TypeOK
<1>2. inflight + 1 \in 1 .. Len(outbox)
  BY <1>1
<1>3. a \in Alarm /\ a \in Message
  BY <1>1, <1>2, ElementOfSeq DEF Message
<1>4. Deliver(a, ListeningSinks) /\ ListeningSinks \in SUBSET Clients
      /\ "nodered" \notin ListeningSinks
  BY Names DEF Transmit
<1>5. \A c \in Sinks : c \in ListeningSinks <=> client[c] = "subscribed"
  BY DEF ListeningSinks
<1> HIDE DEF a
<1>6. /\ queue' \in [Clients -> Seq(Message)]
      /\ \A k \in 1 .. Len(queue'["nodered"]) : queue'["nodered"][k].kind = "state"
      /\ \A c \in Clients : c \in ListeningSinks => queue'[c] = Append(queue[c], a)
      /\ \A c \in Clients : c \notin ListeningSinks => queue'[c] = queue[c]
  BY <1>3, <1>4, Delivered
<1> QED
  BY <1>1, <1>2, <1>3, <1>5, <1>6, Names DEF QueueTypeOK, a

\* A sink takes a message: its queue gets shorter, and one of its two histories longer.
LEMMA Taken ==
    ASSUME TypeOK, NEW c \in Sinks, Take(c)
    PROVE  LET m == Head(queue[c]) IN
           /\ queue[c] \in Seq(Message) /\ queue[c] # <<>> /\ m \in Message
           /\ QueueTypeOK' /\ queue'[c] = Tail(queue[c])
           /\ \A d \in Sinks : d # c => queue'[d] = queue[d]
           /\ events' \in [Sinks -> Seq(Nat)] /\ alarms' \in [Sinks -> Seq(Alarm)]
           /\ \A d \in Sinks : d # c => events'[d] = events[d] /\ alarms'[d] = alarms[d]
           /\ \/ m.kind = "state" /\ events'[c] = Append(events[c], m.n) /\ alarms' = alarms
              \/ m.kind = "alarm" /\ alarms'[c] = Append(alarms[c], m) /\ events' = events
<1> DEFINE m == Head(queue[c])
<1>1. queue[c] \in Seq(Message) /\ queue[c] # <<>>
  BY Names DEF Take, TypeOK, Message
<1>2. m \in Message
  BY <1>1, Shortened
<1>3. /\ QueueTypeOK' /\ queue'[c] = Tail(queue[c])
      /\ \A d \in Sinks : d # c => queue'[d] = queue[d]
  BY <1>1, Names, QueueShortened DEF Take
<1>4. events \in [Sinks -> Seq(Nat)] /\ alarms \in [Sinks -> Seq(Alarm)]
  BY DEF TypeOK
<1>5. CASE /\ m.kind = "state"
           /\ events' = [events EXCEPT ![c] = Append(@, m.n)]
           /\ UNCHANGED alarms
  <2>1. m.n \in Nat
    BY <1>2, MessageFields
  <2>2. Append(events[c], m.n) \in Seq(Nat)
    BY <1>4, <2>1, Appended
  <2> HIDE DEF m
  <2>3. /\ events' \in [Sinks -> Seq(Nat)] /\ events'[c] = Append(events[c], m.n)
        /\ \A d \in Sinks : d # c => events'[d] = events[d]
    BY <1>4, <1>5, <2>2
  <2> QED
    BY <1>1, <1>2, <1>3, <1>4, <1>5, <2>3 DEF m
<1>6. CASE /\ m.kind = "alarm"
           /\ alarms' = [alarms EXCEPT ![c] = Append(@, m)]
           /\ UNCHANGED events
  <2>1. m \in Alarm
    BY <1>2, <1>6, MessageFields
  <2>2. Append(alarms[c], m) \in Seq(Alarm)
    BY <1>4, <2>1, Appended
  <2> HIDE DEF m
  <2>3. /\ alarms' \in [Sinks -> Seq(Alarm)] /\ alarms'[c] = Append(alarms[c], m)
        /\ \A d \in Sinks : d # c => alarms'[d] = alarms[d]
    BY <1>4, <1>6, <2>2
  <2> QED
    BY <1>1, <1>2, <1>3, <1>4, <1>6, <2>3 DEF m
<1> QED
  BY <1>5, <1>6 DEF Take

\* The detector's half of the type invariant.
LEMMA DetectorTyped ==
    ASSUME TypeOK, [Next]_vars
    PROVE  DetectorTypeOK'
<1>1. DetectorTypeOK /\ Len(outbox) \in Nat
  BY LenProperties DEF TypeOK, DetectorTypeOK
<1>2. CASE Detect
  <2> DEFINE m == Head(queue["nodered"])
  <2>1. m \in StateMessage /\ m.state \in States /\ AlarmFor(m) \in Alarm
    BY <1>2, NextState DEF Detect
  <2>2. CASE IsTransition(m)
    <3>1. /\ last' = m.state /\ outbox' = Append(outbox, AlarmFor(m))
          /\ raised' = raised + 1 /\ UNCHANGED <<nodered, inflight>>
      BY <1>2, <2>2 DEF Detect
    <3>2. outbox' \in Seq(Alarm) /\ Len(outbox') = Len(outbox) + 1
      BY <1>1, <2>1, <3>1, Appended DEF DetectorTypeOK
    <3> HIDE DEF m
    <3> QED
      BY <1>1, <2>1, <3>1, <3>2 DEF DetectorTypeOK
  <2>3. CASE ~IsTransition(m)
    BY <1>1, <1>2, <2>3 DEF Detect, DetectorTypeOK
  <2> QED
    BY <2>2, <2>3
<1>3. CASE Transmit
  <2>1. inflight' = inflight + 1 /\ UNCHANGED <<nodered, last, outbox, raised>>
    BY <1>3 DEF Transmit
  <2>2. inflight + 1 \in 0 .. Len(outbox)
    BY <1>1, <1>3 DEF Transmit, DetectorTypeOK
  <2> QED
    BY <1>1, <2>1, <2>2 DEF DetectorTypeOK
<1>4. CASE Acknowledge
  <2>1. /\ inflight' = inflight - 1 /\ inflight > 0 /\ outbox' = Tail(outbox)
        /\ UNCHANGED <<nodered, last, raised>>
    BY <1>4 DEF Acknowledge
  <2>2. outbox # <<>>
    BY <1>1, <2>1 DEF DetectorTypeOK
  <2>3. outbox' \in Seq(Alarm) /\ Len(outbox') = Len(outbox) - 1
    BY <1>1, <2>1, <2>2, Shortened DEF DetectorTypeOK
  <2> QED
    BY <1>1, <2>1, <2>3 DEF DetectorTypeOK
<1>5. CASE NodeRedOffline \/ NodeRedOnline \/ NodeRedRestart
  <2>1. CASE NodeRedOffline \/ NodeRedOnline
    BY <1>1, <2>1 DEF NodeRedOffline, NodeRedOnline, DetectorTypeOK
  <2>2. CASE NodeRedRestart
    <3>1. /\ nodered' = "offline" /\ last' = None /\ outbox' = <<>> /\ inflight' = 0
          /\ raised' = raised
      BY <2>2 DEF NodeRedRestart
    <3>2. outbox' \in Seq(Alarm) /\ inflight' \in 0 .. Len(outbox')
      BY <3>1, EmptySeq
    <3> QED
      BY <1>1, <3>1, <3>2 DEF DetectorTypeOK
  <2> QED
    BY <1>5, <2>1, <2>2
<1>6. ASSUME NEW c \in Sinks, Start(c) \/ LoseConnection(c) \/ Reconnect(c) \/ Die(c) \/ Take(c)
      PROVE  DetectorTypeOK'
  BY <1>1, <1>6 DEF Start, LoseConnection, Reconnect, Die, Take, detector, DetectorTypeOK
<1>7. CASE InsertFails \/ UNCHANGED vars
  BY <1>1, <1>7 DEF InsertFails, vars, detector, DetectorTypeOK
<1>8. ASSUME NEW s \in States, NEW high \in BOOLEAN, Publish(s, high) PROVE DetectorTypeOK'
  BY <1>1, <1>8 DEF Publish, detector, DetectorTypeOK
<1> QED
  BY <1>2, <1>3, <1>4, <1>5, <1>6, <1>7, <1>8 DEF Next, Insert, Emit

\* The broker's.
LEMMA BrokerTyped ==
    ASSUME TypeOK, [Next]_vars
    PROVE  BrokerTypeOK'
<1>1. BrokerTypeOK /\ MaxFaults \in Nat
  BY PipelineAssumption DEF TypeOK, BrokerTypeOK
<1>2. Fault => faults' \in 0 .. MaxFaults
  BY <1>1 DEF Fault, BrokerTypeOK
<1>3. ASSUME NEW s \in States, NEW high \in BOOLEAN, Publish(s, high) PROVE BrokerTypeOK'
  <2>1. sent' \in 0 .. MaxMessages
    BY <1>3, Published
  <2> QED
    BY <1>1, <1>3, <2>1 DEF Publish, BrokerTypeOK
<1>4. CASE Transmit
  <2>1. outbox[inflight + 1] \in Alarm
    BY <1>4, Transmitted
  <2> QED
    BY <1>1, <1>4, <2>1 DEF Transmit, Retain, BrokerTypeOK
<1>5. CASE Detect \/ Acknowledge \/ NodeRedOnline \/ UNCHANGED vars
  BY <1>1, <1>5 DEF Detect, Acknowledge, NodeRedOnline, vars, broker, BrokerTypeOK
<1>6. CASE NodeRedOffline \/ NodeRedRestart \/ InsertFails
  BY <1>1, <1>2, <1>6 DEF NodeRedOffline, NodeRedRestart, InsertFails, BrokerTypeOK
<1>7. ASSUME NEW c \in Sinks, Start(c) \/ Reconnect(c) \/ Take(c) PROVE BrokerTypeOK'
  BY <1>1, <1>7 DEF Start, Reconnect, Take, broker, BrokerTypeOK
<1>8. ASSUME NEW c \in Sinks, LoseConnection(c) \/ Die(c) PROVE BrokerTypeOK'
  BY <1>1, <1>2, <1>8 DEF LoseConnection, Die, BrokerTypeOK
<1> QED
  BY <1>3, <1>4, <1>5, <1>6, <1>7, <1>8 DEF Next, Insert, Emit

\* The queues'.
LEMMA QueueTyped ==
    ASSUME TypeOK, [Next]_vars
    PROVE  QueueTypeOK'
<1>1. QueueTypeOK
  BY TypeParts
<1>2. <<>> \in Seq(Message)
  BY EmptySeq
<1>3. CASE Detect \/ InsertFails
  BY <1>3, Names, QueueShortened DEF Detect, InsertFails
<1>4. CASE NodeRedOffline \/ NodeRedRestart
  BY <1>2, <1>4, Names, QueueReset DEF NodeRedOffline, NodeRedRestart
<1>5. ASSUME NEW c \in Sinks, Start(c) PROVE QueueTypeOK'
  <2> DEFINE q == IF retained = NoAlarm THEN <<>> ELSE <<retained>>
  <2>1. q \in Seq(Message)
    <3>1. retained # NoAlarm => retained \in Message
      BY DEF TypeOK, Message
    <3> QED
      BY <1>2, <3>1
  <2>2. queue' = [queue EXCEPT ![c] = q] /\ c \in Clients /\ c # "nodered"
    BY <1>5, Names DEF Start
  <2> HIDE DEF q
  <2> QED
    BY <2>1, <2>2, QueueReset
<1>6. ASSUME NEW c \in Sinks, LoseConnection(c) \/ Die(c) PROVE QueueTypeOK'
  BY <1>2, <1>6, Names, QueueReset DEF LoseConnection, Die
<1>7. ASSUME NEW c \in Sinks, Take(c) PROVE QueueTypeOK'
  BY <1>7, Taken
<1>8. ASSUME NEW c \in Sinks, Reconnect(c) PROVE QueueTypeOK'
  BY <1>1, <1>8 DEF Reconnect, broker, QueueTypeOK
<1>9. CASE Acknowledge \/ NodeRedOnline \/ UNCHANGED vars
  BY <1>1, <1>9 DEF Acknowledge, NodeRedOnline, vars, broker, QueueTypeOK
<1>10. CASE Transmit
  BY <1>10, Transmitted
<1>11. ASSUME NEW s \in States, NEW high \in BOOLEAN, Publish(s, high) PROVE QueueTypeOK'
  BY <1>11, Published
<1> QED
  BY <1>3, <1>4, <1>5, <1>6, <1>7, <1>8, <1>9, <1>10, <1>11 DEF Next, Insert, Emit

\* The sinks'.
LEMMA SinkTyped ==
    ASSUME TypeOK, [Next]_vars
    PROVE  SinkTypeOK'
<1>1. SinkTypeOK
  BY TypeParts
<1>2. ASSUME NEW c \in Sinks, NEW v \in {"down", "subscribed", "offline", "deaf"},
             client' = [client EXCEPT ![c] = v], UNCHANGED <<events, alarms, lost>>
      PROVE  SinkTypeOK'
  BY <1>1, <1>2 DEF SinkTypeOK
<1>3. ASSUME NEW c \in Sinks, Start(c) \/ LoseConnection(c) \/ Reconnect(c) \/ Die(c)
      PROVE  SinkTypeOK'
  BY <1>2, <1>3 DEF Start, LoseConnection, Reconnect, Die
<1>4. ASSUME NEW c \in Sinks, Take(c), lost' \in BOOLEAN PROVE SinkTypeOK'
  <2>1. client' = client
    BY <1>4 DEF Take
  <2>2. events' \in [Sinks -> Seq(Nat)] /\ alarms' \in [Sinks -> Seq(Alarm)]
    BY <1>4, Taken
  <2> QED
    BY <1>1, <1>4, <2>1, <2>2 DEF SinkTypeOK
<1>5. CASE Insert \/ Emit
  <2>1. lost' \in BOOLEAN
    <3>1. CASE Insert
      BY <3>1 DEF Insert
    <3>2. CASE Emit
      BY <1>1, <3>2 DEF Emit, SinkTypeOK
    <3> QED
      BY <1>5, <3>1, <3>2
  <2> QED
    BY <1>4, <1>5, <2>1 DEF Insert, Emit
<1>6. CASE InsertFails
  <2>1. lost' \in BOOLEAN /\ UNCHANGED <<client, events, alarms>>
    BY <1>6 DEF InsertFails
  <2> QED
    BY <1>1, <2>1 DEF SinkTypeOK
<1>7. CASE UNCHANGED sinks
  BY <1>1, <1>7 DEF sinks, SinkTypeOK
<1>8. \/ UNCHANGED sinks \/ InsertFails \/ Insert \/ Emit
      \/ \E c \in Sinks : Start(c) \/ LoseConnection(c) \/ Reconnect(c) \/ Die(c)
  BY DEF Next, Publish, Detect, Transmit, Acknowledge, NodeRedOffline, NodeRedOnline,
         NodeRedRestart, vars
<1> QED
  BY <1>3, <1>5, <1>6, <1>7, <1>8

\* Every variable keeps its type, and Node-RED is sent state messages only: the
\* detector is subscribed to no alarm topic (flows.json), so an alarm never feeds the
\* detector that raised it.
THEOREM TypeCorrect == Spec => []TypeOK
<1>1. Init => TypeOK
  <2> SUFFICES ASSUME Init PROVE DetectorTypeOK /\ BrokerTypeOK /\ QueueTypeOK /\ SinkTypeOK
    BY TypeParts
  <2>1. DetectorTypeOK
    BY EmptySeq DEF Init, DetectorTypeOK
  <2>2. BrokerTypeOK
    BY PipelineAssumption DEF Init, BrokerTypeOK
  <2>3. QueueTypeOK
    <3>1. queue["nodered"] = <<>>
      BY Names DEF Init
    <3> QED
      BY <3>1, EmptySeq DEF Init, QueueTypeOK
  <2>4. SinkTypeOK
    BY EmptySeq DEF Init, SinkTypeOK
  <2> QED
    BY <2>1, <2>2, <2>3, <2>4
<1>2. TypeOK /\ [Next]_vars => TypeOK'
  <2> SUFFICES ASSUME TypeOK, [Next]_vars PROVE TypeOK'
    OBVIOUS
  <2>1. DetectorTypeOK' /\ BrokerTypeOK' /\ QueueTypeOK' /\ SinkTypeOK'
    BY DetectorTyped, BrokerTyped, QueueTyped, SinkTyped
  <2> QED
    BY <2>1 DEF TypeOK, DetectorTypeOK, BrokerTypeOK, QueueTypeOK, SinkTypeOK, Message
<1> QED
  BY <1>1, <1>2, PTL DEF Spec

-----------------------------------------------------------------------------
(* The retained alarm is what the detector believes.                       *)

LEMMA BeliefKept ==
    ASSUME TypeOK, BeliefInv, [Next]_vars
    PROVE  BeliefInv'
<1>1. outbox \in Seq(Alarm) /\ Len(outbox) \in Nat /\ inflight \in Nat /\ inflight <= Len(outbox)
  BY LenProperties DEF TypeOK
<1>2. /\ outbox # <<>> => outbox[Len(outbox)].to = last
      /\ inflight > 0 => retained = outbox[inflight]
      /\ last # None /\ outbox = <<>> => retained.to = last
  BY DEF BeliefInv, RetainedIsBelieved
<1>3. outbox # <<>> => Len(outbox) >= 1
  BY <1>1, EmptySeq
<1>4. CASE Detect
  <2> DEFINE m == Head(queue["nodered"])
  <2>1. CASE IsTransition(m)
    <3>1. /\ last' = m.state /\ outbox' = Append(outbox, AlarmFor(m))
          /\ UNCHANGED <<inflight, retained>>
      BY <1>4, <2>1 DEF Detect
    <3>2. AlarmFor(m) \in Alarm /\ AlarmFor(m).to = m.state
      BY <1>4, NextState DEF Detect, AlarmFor
    <3> HIDE DEF m
    <3>3. outbox' # <<>> /\ outbox'[Len(outbox')].to = last'
      BY <1>1, <3>1, <3>2, Appended
    <3>4. inflight > 0 => outbox'[inflight] = outbox[inflight]
      BY <1>1, <3>1, <3>2, Appended
    <3> QED
      BY <1>2, <3>1, <3>3, <3>4 DEF BeliefInv, RetainedIsBelieved
  <2>2. CASE ~IsTransition(m)
    BY <1>2, <1>4, <2>2 DEF Detect, BeliefInv, RetainedIsBelieved
  <2> QED
    BY <2>1, <2>2
<1>5. CASE Transmit
  <2>1. /\ inflight' = inflight + 1 /\ retained' = outbox[inflight + 1]
        /\ UNCHANGED <<last, outbox>> /\ outbox # <<>>
    BY <1>1, <1>5 DEF Transmit, Retain
  <2> QED
    BY <1>2, <2>1 DEF BeliefInv, RetainedIsBelieved
<1>6. CASE Acknowledge
  <2>1. /\ inflight > 0 /\ inflight' = inflight - 1 /\ outbox' = Tail(outbox)
        /\ UNCHANGED <<last, retained>>
    BY <1>6 DEF Acknowledge, broker
  <2>2. outbox # <<>>
    BY <1>1, <2>1
  <2>3. /\ outbox' \in Seq(Alarm) /\ Len(outbox') = Len(outbox) - 1
        /\ \A i \in 1 .. Len(outbox') : outbox'[i] = outbox[i + 1]
    BY <1>1, <2>1, <2>2, Shortened
  <2>4. outbox' # <<>> => outbox'[Len(outbox')].to = last
    <3>1. outbox' # <<>> => Len(outbox') >= 1
      BY <2>3, EmptySeq
    <3> QED
      BY <1>1, <1>2, <2>2, <2>3, <3>1
  <2>5. inflight' > 0 => retained = outbox'[inflight']
    BY <1>1, <1>2, <2>1, <2>3
  <2>6. outbox' = <<>> => retained.to = last
    <3>1. outbox' = <<>> => Len(outbox) = 1
      BY <1>1, <2>3
    <3> QED
      BY <1>1, <1>2, <2>1, <2>2, <3>1
  <2> QED
    BY <2>1, <2>4, <2>5, <2>6 DEF BeliefInv, RetainedIsBelieved
<1>7. CASE NodeRedOffline
  <2>1. inflight' = 0 /\ UNCHANGED <<last, outbox, retained>>
    BY <1>7 DEF NodeRedOffline
  <2> QED
    BY <1>2, <2>1 DEF BeliefInv, RetainedIsBelieved
<1>8. CASE NodeRedRestart
  <2>1. inflight' = 0 /\ outbox' = <<>> /\ last' = None
    BY <1>8 DEF NodeRedRestart
  <2> QED
    BY <2>1 DEF BeliefInv, RetainedIsBelieved
<1>9. CASE UNCHANGED <<last, outbox, inflight, retained>>
  BY <1>2, <1>9 DEF BeliefInv, RetainedIsBelieved
<1>10. \/ Detect \/ Transmit \/ Acknowledge \/ NodeRedOffline \/ NodeRedRestart
       \/ UNCHANGED <<last, outbox, inflight, retained>>
  BY DEF Next, Publish, NodeRedOnline, Start, LoseConnection, Reconnect, Die, Insert, Emit,
         Take, InsertFails, vars, detector, broker
<1> QED
  BY <1>4, <1>5, <1>6, <1>7, <1>8, <1>9, <1>10

\* Once the broker has acknowledged every alarm, the one it retains names the state
\* the detector believes, whatever connection losses and restarts of Node-RED came
\* between the messages: the context and the unsent alarms are lost together
\* (flows.json:37).
THEOREM BrokerAgreesWithDetector == Spec => []RetainedIsBelieved
<1>1. Init => BeliefInv
  BY DEF Init, BeliefInv, RetainedIsBelieved
<1>2. TypeOK /\ BeliefInv /\ [Next]_vars => BeliefInv'
  BY BeliefKept
<1>3. BeliefInv => RetainedIsBelieved
  BY DEF BeliefInv
<1> QED
  BY <1>1, <1>2, <1>3, TypeCorrect, PTL DEF Spec

-----------------------------------------------------------------------------
(* State messages are handled in order.                                    *)

\* The state messages in a queue are some of those that were there, in their order.
OnlyLess(c) ==
    \E off \in {0, 1} : \A i \in 1 .. Len(queue'[c]) :
        queue'[c][i].kind = "state" =>
            i + off \in 1 .. Len(queue[c]) /\ queue'[c][i] = queue[c][i + off]

\* Nothing but a state message from the gateway adds one to a queue.
LEMMA QueueOnlyLess ==
    ASSUME TypeOK, [Next]_vars, UNCHANGED sent, NEW c \in Sinks
    PROVE  OnlyLess(c)
<1>1. /\ queue \in [Clients -> Seq(Message)] /\ queue[c] \in Seq(Message)
      /\ c \in Clients /\ c # "nodered" /\ Len(queue[c]) \in Nat
  BY Names, LenProperties DEF TypeOK, Message
<1>2. CASE queue'[c] = queue[c]
  <2>1. \A i \in 1 .. Len(queue'[c]) : i + 0 \in 1 .. Len(queue[c]) /\ queue'[c][i] = queue[c][i + 0]
    BY <1>1, <1>2
  <2> QED
    BY <2>1 DEF OnlyLess
<1>3. CASE queue'[c] = <<>>
  BY <1>3 DEF OnlyLess
<1>4. CASE queue[c] # <<>> /\ queue'[c] = Tail(queue[c])
  <2>1. \A i \in 1 .. Len(queue'[c]) : i + 1 \in 1 .. Len(queue[c]) /\ queue'[c][i] = queue[c][i + 1]
    BY <1>1, <1>4, Shortened
  <2> QED
    BY <2>1 DEF OnlyLess
<1>5. ASSUME NEW a \in Message, a.kind = "alarm", queue'[c] = Append(queue[c], a)
      PROVE  OnlyLess(c)
  <2>1. \A i \in 1 .. Len(queue'[c]) :
          queue'[c][i].kind = "state" =>
            i + 0 \in 1 .. Len(queue[c]) /\ queue'[c][i] = queue[c][i + 0]
    <3> SUFFICES ASSUME NEW i \in 1 .. Len(queue'[c]), queue'[c][i].kind = "state"
                 PROVE  i + 0 \in 1 .. Len(queue[c]) /\ queue'[c][i] = queue[c][i + 0]
      OBVIOUS
    <3>1. i \in 1 .. Len(queue[c]) \/ i = Len(queue[c]) + 1
      BY <1>1, <1>5, Appended
    <3>2. i # Len(queue[c]) + 1
      BY <1>1, <1>5, Appended
    <3> QED
      BY <1>1, <1>5, <3>1, <3>2, Appended
  <2> QED
    BY <2>1 DEF OnlyLess
<1>6. CASE queue'[c] = <<retained>>
  <2>1. retained.kind = "alarm"
    BY MessageFields DEF TypeOK, Message
  <2> QED
    BY <1>6, <2>1 DEF OnlyLess
<1>7. CASE Detect
  <2>1. queue'[c] = queue[c]
    BY <1>1, <1>7 DEF Detect
  <2> QED
    BY <1>2, <2>1
<1>8. CASE Transmit
  <2>1. /\ outbox[inflight + 1] \in Message /\ outbox[inflight + 1].kind = "alarm"
        /\ queue'[c] \in {queue[c], Append(queue[c], outbox[inflight + 1])}
    BY <1>8, Transmitted, MessageFields
  <2> QED
    BY <1>2, <1>5, <2>1
<1>9. CASE NodeRedOffline \/ NodeRedRestart
  <2>1. queue'[c] = queue[c]
    BY <1>1, <1>9 DEF NodeRedOffline, NodeRedRestart
  <2> QED
    BY <1>2, <2>1
<1>10. ASSUME NEW d \in Sinks, Start(d) PROVE OnlyLess(c)
  <2>1. queue'[c] \in {queue[c], <<>>, <<retained>>}
    BY <1>1, <1>10 DEF Start
  <2> QED
    BY <1>2, <1>3, <1>6, <2>1
<1>11. ASSUME NEW d \in Sinks, LoseConnection(d) \/ Die(d) PROVE OnlyLess(c)
  <2>1. queue'[c] \in {queue[c], <<>>}
    BY <1>1, <1>11 DEF LoseConnection, Die
  <2> QED
    BY <1>2, <1>3, <2>1
<1>12. ASSUME NEW d \in Sinks, Take(d) PROVE OnlyLess(c)
  BY <1>2, <1>4, <1>12, Taken
<1>13. CASE InsertFails
  <2>1. queue'[c] = queue[c] \/ (queue[c] # <<>> /\ queue'[c] = Tail(queue[c]))
    BY <1>1, <1>13 DEF InsertFails
  <2> QED
    BY <1>2, <1>4, <2>1
<1>14. CASE UNCHANGED queue
  BY <1>2, <1>14
<1>15. \A s \in States, high \in BOOLEAN : ~Publish(s, high)
  <2>1. sent \in Nat
    BY PipelineAssumption DEF TypeOK
  <2> QED
    BY <2>1 DEF Publish
<1> QED
  BY <1>7, <1>8, <1>9, <1>10, <1>11, <1>12, <1>13, <1>14, <1>15
     DEF Next, Acknowledge, NodeRedOnline, Reconnect, Insert, Emit, vars, broker

\* What the order is read off.
LEMMA Numbers ==
    ASSUME TypeOK, NEW c \in Sinks
    PROVE  /\ sent \in Nat
           /\ queue[c] \in Seq(Message) /\ Len(queue[c]) \in Nat
           /\ \A i \in 1 .. Len(queue[c]) : queue[c][i] \in Message /\ queue[c][i].n \in Nat
           /\ events[c] \in Seq(Nat) /\ Len(events[c]) \in Nat
           /\ \A i \in 1 .. Len(events[c]) : events[c][i] \in Nat
<1>1. sent \in Nat /\ queue[c] \in Seq(Message) /\ events[c] \in Seq(Nat)
  BY Names, PipelineAssumption DEF TypeOK, Message
<1>2. Len(queue[c]) \in Nat /\ Len(events[c]) \in Nat
  BY <1>1, LenProperties
<1>3. \A i \in 1 .. Len(queue[c]) : queue[c][i] \in Message
  BY <1>1, ElementOfSeq
<1>4. \A i \in 1 .. Len(events[c]) : events[c][i] \in Nat
  BY <1>1, ElementOfSeq
<1> QED
  BY <1>1, <1>2, <1>3, <1>4, MessageFields

\* A state message from the gateway is newer than all before it.
LEMMA PublishKeepsOrder ==
    ASSUME TypeOK, OrderInv, NEW s \in States, NEW high \in BOOLEAN, Publish(s, high),
           NEW c \in Sinks
    PROVE  (QueueInOrder(c) /\ EventsBehind(c) /\ HandledInOrder(c))'
<1> DEFINE m == [kind |-> "state", n |-> sent + 1, state |-> s, high |-> high]
<1>1. /\ m \in Message /\ m.n = sent + 1 /\ sent' = sent + 1
      /\ queue'[c] = queue[c] \/ queue'[c] = Append(queue[c], m)
  BY Published
<1>2. events' = events
  BY DEF Publish, sinks
<1>3. /\ sent \in Nat /\ queue[c] \in Seq(Message) /\ Len(queue[c]) \in Nat
      /\ \A i \in 1 .. Len(queue[c]) : queue[c][i].n \in Nat
      /\ \A i \in 1 .. Len(events[c]) : events[c][i] \in Nat
  BY Numbers
<1>4. QueueInOrder(c) /\ EventsBehind(c) /\ HandledInOrder(c)
  BY DEF OrderInv
<1> HIDE DEF m
<1>5. \A i \in 1 .. Len(queue'[c]) :
        \/ i \in 1 .. Len(queue[c]) /\ queue'[c][i] = queue[c][i]
        \/ i = Len(queue[c]) + 1 /\ Len(queue'[c]) = i /\ queue'[c][i].n = sent + 1
  <2>1. CASE queue'[c] = queue[c]
    BY <2>1
  <2>2. CASE queue'[c] = Append(queue[c], m)
    <3>1. PICK q \in Seq(Message) : q = queue[c]
      BY <1>3
    <3>2. /\ Len(q) \in Nat /\ Len(Append(q, m)) = Len(q) + 1
          /\ \A i \in 1 .. Len(q) : Append(q, m)[i] = q[i]
          /\ Append(q, m)[Len(q) + 1] = m
          /\ \A i \in 1 .. Len(Append(q, m)) : i \in 1 .. Len(q) \/ i = Len(q) + 1
      BY <1>1, <3>1, Appended
    <3> QED
      BY <1>1, <2>2, <3>1, <3>2
  <2> QED
    BY <1>1, <2>1, <2>2
<1>6. QueueInOrder(c)'
  <2> SUFFICES ASSUME NEW i \in 1 .. Len(queue'[c]), queue'[c][i].kind = "state"
               PROVE  /\ queue'[c][i].n <= sent'
                      /\ \A j \in 1 .. Len(queue'[c]) :
                           i < j /\ queue'[c][j].kind = "state" => queue'[c][i].n < queue'[c][j].n
    BY DEF QueueInOrder
  <2>1. queue'[c][i].n <= sent'
    BY <1>1, <1>3, <1>4, <1>5 DEF QueueInOrder
  <2>2. ASSUME NEW j \in 1 .. Len(queue'[c]), i < j, queue'[c][j].kind = "state"
        PROVE  queue'[c][i].n < queue'[c][j].n
    <3>1. i \in 1 .. Len(queue[c]) /\ queue'[c][i] = queue[c][i]
      BY <1>3, <1>5, <2>2
    <3>2. queue[c][i].n <= sent
      BY <1>4, <3>1 DEF QueueInOrder
    <3>3. CASE j \in 1 .. Len(queue[c]) /\ queue'[c][j] = queue[c][j]
      BY <1>4, <2>2, <3>1, <3>3 DEF QueueInOrder
    <3>4. CASE queue'[c][j].n = sent + 1
      BY <1>3, <3>1, <3>2, <3>4
    <3> QED
      BY <1>5, <3>3, <3>4
  <2> QED
    BY <2>1, <2>2
<1>7. EventsBehind(c)'
  <2> SUFFICES ASSUME NEW i \in 1 .. Len(events[c])
               PROVE  /\ events[c][i] <= sent'
                      /\ \A k \in 1 .. Len(queue'[c]) :
                           queue'[c][k].kind = "state" => events[c][i] < queue'[c][k].n
    BY <1>2 DEF EventsBehind
  <2>1. events[c][i] <= sent /\ events[c][i] \in Nat
    BY <1>3, <1>4 DEF EventsBehind
  <2>2. ASSUME NEW k \in 1 .. Len(queue'[c]), queue'[c][k].kind = "state"
        PROVE  events[c][i] < queue'[c][k].n
    <3>1. CASE k \in 1 .. Len(queue[c]) /\ queue'[c][k] = queue[c][k]
      BY <1>4, <2>2, <3>1 DEF EventsBehind
    <3>2. CASE queue'[c][k].n = sent + 1
      BY <1>3, <2>1, <3>2
    <3> QED
      BY <1>5, <3>1, <3>2
  <2> QED
    BY <1>1, <1>3, <2>1, <2>2
<1>8. HandledInOrder(c)'
  BY <1>2, <1>4 DEF HandledInOrder
<1> QED
  BY <1>6, <1>7, <1>8

\* Any other step takes from a queue what its sink handles next, or drops it.
LEMMA OthersKeepOrder ==
    ASSUME TypeOK, OrderInv, [Next]_vars, UNCHANGED sent, NEW c \in Sinks
    PROVE  (QueueInOrder(c) /\ EventsBehind(c) /\ HandledInOrder(c))'
<1>1. PICK off \in {0, 1} : \A i \in 1 .. Len(queue'[c]) :
        queue'[c][i].kind = "state" =>
            i + off \in 1 .. Len(queue[c]) /\ queue'[c][i] = queue[c][i + off]
  BY QueueOnlyLess DEF OnlyLess
<1>2. /\ sent \in Nat /\ queue[c] \in Seq(Message) /\ Len(queue[c]) \in Nat
      /\ \A i \in 1 .. Len(queue[c]) : queue[c][i] \in Message /\ queue[c][i].n \in Nat
      /\ events[c] \in Seq(Nat) /\ Len(events[c]) \in Nat
      /\ \A i \in 1 .. Len(events[c]) : events[c][i] \in Nat
  BY Numbers
<1>3. QueueInOrder(c) /\ EventsBehind(c) /\ HandledInOrder(c)
  BY DEF OrderInv
<1>4. QueueInOrder(c)'
  <2> SUFFICES ASSUME NEW i \in 1 .. Len(queue'[c]), queue'[c][i].kind = "state"
               PROVE  /\ queue'[c][i].n <= sent
                      /\ \A j \in 1 .. Len(queue'[c]) :
                           i < j /\ queue'[c][j].kind = "state" => queue'[c][i].n < queue'[c][j].n
    BY DEF QueueInOrder
  <2>1. queue'[c][i].n <= sent
    BY <1>1, <1>3 DEF QueueInOrder
  <2>2. ASSUME NEW j \in 1 .. Len(queue'[c]), i < j, queue'[c][j].kind = "state"
        PROVE  queue'[c][i].n < queue'[c][j].n
    <3>1. /\ i + off \in 1 .. Len(queue[c]) /\ queue'[c][i] = queue[c][i + off]
          /\ j + off \in 1 .. Len(queue[c]) /\ queue'[c][j] = queue[c][j + off]
          /\ i + off < j + off
      BY <1>1, <2>2
    <3> QED
      BY <1>3, <2>2, <3>1 DEF QueueInOrder
  <2> QED
    BY <2>1, <2>2
<1>5. CASE events'[c] = events[c]
  <2>1. EventsBehind(c)'
    BY <1>1, <1>3, <1>5 DEF EventsBehind
  <2>2. HandledInOrder(c)'
    BY <1>3, <1>5 DEF HandledInOrder
  <2> QED
    BY <1>4, <2>1, <2>2
<1>6. CASE Take(c) /\ events'[c] # events[c]
  <2> DEFINE m == Head(queue[c])
  <2>1. /\ queue[c] # <<>> /\ queue'[c] = Tail(queue[c])
        /\ m.kind = "state" /\ events'[c] = Append(events[c], m.n)
    BY <1>6, Taken
  <2>2. m = queue[c][1] /\ 1 \in 1 .. Len(queue[c])
    BY <1>2, <2>1, Shortened
  <2> HIDE DEF m
  <2>3. m.n \in Nat
    BY <1>2, <2>2
  <2>4. /\ m.n <= sent
        /\ \A k \in 1 .. Len(queue'[c]) : queue'[c][k].kind = "state" => m.n < queue'[c][k].n
    <3>1. \A k \in 1 .. Len(queue'[c]) :
            k + 1 \in 1 .. Len(queue[c]) /\ queue'[c][k] = queue[c][k + 1] /\ 1 < k + 1
      BY <1>2, <2>1, Shortened
    <3> QED
      BY <1>3, <2>1, <2>2, <3>1 DEF QueueInOrder
  <2>5. \A i \in 1 .. Len(events[c]) : events[c][i] < m.n
    BY <1>3, <2>1, <2>2 DEF EventsBehind
  <2>6. \A i \in 1 .. Len(events'[c]) :
          \/ i \in 1 .. Len(events[c]) /\ events'[c][i] = events[c][i]
          \/ i = Len(events[c]) + 1 /\ Len(events'[c]) = i /\ events'[c][i] = m.n
    BY <1>2, <2>1, <2>3, Appended
  <2>7. EventsBehind(c)'
    <3> SUFFICES ASSUME NEW i \in 1 .. Len(events'[c])
                 PROVE  /\ events'[c][i] <= sent
                        /\ \A k \in 1 .. Len(queue'[c]) :
                             queue'[c][k].kind = "state" => events'[c][i] < queue'[c][k].n
      BY DEF EventsBehind
    <3>1. CASE i \in 1 .. Len(events[c]) /\ events'[c][i] = events[c][i]
      BY <1>1, <1>3, <3>1 DEF EventsBehind
    <3>2. CASE events'[c][i] = m.n
      BY <2>4, <3>2
    <3> QED
      BY <2>6, <3>1, <3>2
  <2>8. HandledInOrder(c)'
    <3> SUFFICES ASSUME NEW i \in 1 .. Len(events'[c]), NEW j \in 1 .. Len(events'[c]), i < j
                 PROVE  events'[c][i] < events'[c][j]
      BY DEF HandledInOrder
    <3>1. i \in 1 .. Len(events[c]) /\ events'[c][i] = events[c][i]
      BY <1>2, <2>6
    <3>2. CASE j \in 1 .. Len(events[c]) /\ events'[c][j] = events[c][j]
      BY <1>3, <3>1, <3>2 DEF HandledInOrder
    <3>3. CASE events'[c][j] = m.n
      BY <2>5, <3>1, <3>3
    <3> QED
      BY <2>6, <3>2, <3>3
  <2> QED
    BY <1>4, <2>7, <2>8
<1>7. \/ UNCHANGED events
      \/ \E d \in Sinks : Take(d)
  BY DEF Next, Publish, Detect, Transmit, Acknowledge, NodeRedOffline, NodeRedOnline,
         NodeRedRestart, Start, LoseConnection, Reconnect, Die, Insert, Emit, InsertFails,
         vars, sinks
<1>8. ASSUME NEW d \in Sinks, d # c, Take(d) PROVE events'[c] = events[c]
  BY <1>8, Taken
<1> QED
  BY <1>5, <1>6, <1>7, <1>8

\* The persister never stores, and the bridge never emits, a state message twice or
\* after a newer one, whatever connections end, processes restart and inserts fail:
\* what a clean session forgets is lost, and nothing comes back late
\* (mqtt_to_sqlite.py:74-85, mqtt_bridge.py:60-68).
THEOREM HandledOnceInOrder == Spec => []EventsInOrder
<1>1. Init => OrderInv
  <2> SUFFICES ASSUME Init, NEW c \in Sinks
               PROVE  QueueInOrder(c) /\ EventsBehind(c) /\ HandledInOrder(c)
    BY DEF OrderInv
  <2>1. queue[c] = <<>> /\ events[c] = <<>>
    BY Names DEF Init
  <2> QED
    BY <2>1 DEF QueueInOrder, EventsBehind, HandledInOrder
<1>2. TypeOK /\ OrderInv /\ [Next]_vars => OrderInv'
  <2> SUFFICES ASSUME TypeOK, OrderInv, [Next]_vars, NEW c \in Sinks
               PROVE  (QueueInOrder(c) /\ EventsBehind(c) /\ HandledInOrder(c))'
    BY DEF OrderInv
  <2>1. UNCHANGED sent \/ \E s \in States, high \in BOOLEAN : Publish(s, high)
    BY DEF Next, Detect, Transmit, Acknowledge, NodeRedOffline, NodeRedOnline,
           NodeRedRestart, Start, LoseConnection, Reconnect, Die, Insert, Emit, Take,
           InsertFails, vars, broker
  <2> QED
    BY <2>1, PublishKeepsOrder, OthersKeepOrder
<1>3. OrderInv => EventsInOrder
  BY DEF OrderInv, HandledInOrder, EventsInOrder
<1> QED
  BY <1>1, <1>2, <1>3, TypeCorrect, PTL DEF Spec

-----------------------------------------------------------------------------
(* A subscriber catches up.                                                *)

UpToDate(c) == NewestQueued(c) /\ HasHandled(c)

\* What leaves a client's queue, alarms and misfortune alone leaves it up to date.
LEMMA Untouched ==
    ASSUME NEW c \in Sinks, UpToDate(c), queue'[c] = queue[c], alarms'[c] = alarms[c],
           accepted' = accepted, c = "persister" => (lost' <=> lost)
    PROVE  UpToDate(c)'
<1>1. NewestQueued(c)'
  BY DEF UpToDate, NewestQueued
<1>2. HasHandled(c)'
  <2> SUFFICES ASSUME accepted # NoAlarm,
                      \A k \in 1 .. Len(queue[c]) : queue[c][k].kind = "state",
                      ~(c = "persister" /\ lost)
               PROVE  alarms[c] # <<>> /\ alarms[c][Len(alarms[c])] = accepted
    BY DEF HasHandled
  <2> QED
    BY DEF UpToDate, HasHandled
<1> QED
  BY <1>1, <1>2 DEF UpToDate

\* A state message at the end of a queue hides no alarm.
LEMMA PublishKeepsUpToDate ==
    ASSUME TypeOK, NEW s \in States, NEW high \in BOOLEAN, Publish(s, high),
           NEW c \in Sinks, UpToDate(c)
    PROVE  UpToDate(c)'
<1> DEFINE m == [kind |-> "state", n |-> sent + 1, state |-> s, high |-> high]
<1>1. /\ m \in Message /\ m.kind = "state"
      /\ queue'[c] = queue[c] \/ queue'[c] = Append(queue[c], m)
  BY Published
<1>2. accepted' = accepted /\ alarms' = alarms /\ (lost' <=> lost)
  BY DEF Publish, sinks
<1>3. queue[c] \in Seq(Message) /\ Len(queue[c]) \in Nat
  BY Numbers
<1> HIDE DEF m
<1>4. CASE queue'[c] = queue[c]
  BY <1>2, <1>4, Untouched
<1>5. CASE queue'[c] = Append(queue[c], m)
  <2>1. /\ \A i \in 1 .. Len(queue[c]) : i \in 1 .. Len(queue'[c]) /\ queue'[c][i] = queue[c][i]
        /\ \A i \in 1 .. Len(queue'[c]) : queue'[c][i].kind = "alarm" => i \in 1 .. Len(queue[c])
    BY <1>1, <1>3, <1>5, Appended
  <2>2. NewestQueued(c)'
    BY <1>2, <2>1 DEF UpToDate, NewestQueued
  <2>3. HasHandled(c)'
    <3>1. (\A k \in 1 .. Len(queue'[c]) : queue'[c][k].kind = "state")
            => \A k \in 1 .. Len(queue[c]) : queue[c][k].kind = "state"
      BY <2>1
    <3> QED
      BY <1>2, <3>1 DEF UpToDate, HasHandled
  <2> QED
    BY <2>2, <2>3 DEF UpToDate
<1> QED
  BY <1>1, <1>4, <1>5

\* The alarm that the broker gets is the last in every subscriber's queue.
LEMMA TransmitBringsUpToDate ==
    ASSUME TypeOK, Transmit, NEW c \in Sinks, client[c] = "subscribed"
    PROVE  UpToDate(c)'
<1> DEFINE a == outbox[inflight + 1]
<1>1. a \in Message /\ a.kind = "alarm" /\ queue'[c] = Append(queue[c], a)
  BY Transmitted, MessageFields
<1>2. accepted' = a
  BY DEF Transmit
<1>3. queue[c] \in Seq(Message) /\ Len(queue[c]) \in Nat
  BY Numbers
<1> HIDE DEF a
<1>4. /\ Len(queue[c]) + 1 \in 1 .. Len(queue'[c]) /\ queue'[c][Len(queue[c]) + 1] = a
      /\ \A i \in 1 .. Len(queue'[c]) : i = Len(queue[c]) + 1 \/ i < Len(queue[c]) + 1
  BY <1>1, <1>3, Appended
<1>5. NewestQueued(c)'
  BY <1>1, <1>2, <1>4 DEF NewestQueued
<1>6. HasHandled(c)'
  BY <1>1, <1>4 DEF HasHandled
<1> QED
  BY <1>5, <1>6 DEF UpToDate

\* The alarm that a new subscriber gets is the one the broker got last.
LEMMA StartBringsUpToDate ==
    ASSUME TypeOK, retained = accepted, NEW c \in Sinks, Start(c)
    PROVE  UpToDate(c)'
<1>1. queue'[c] = (IF retained = NoAlarm THEN <<>> ELSE <<retained>>) /\ accepted' = accepted
  BY Names DEF Start, TypeOK
<1>2. retained.kind = "alarm"
  BY MessageFields DEF TypeOK, Message
<1>3. CASE retained = NoAlarm
  BY <1>1, <1>3 DEF UpToDate, NewestQueued, HasHandled
<1>4. CASE retained # NoAlarm
  <2>1. queue'[c] = <<retained>> /\ Len(queue'[c]) = 1 /\ queue'[c][1] = retained
    BY <1>1, <1>4
  <2>2. \A i \in 1 .. Len(queue'[c]) : queue'[c][i] = accepted'
    BY <1>1, <2>1
  <2> QED
    BY <1>2, <2>1, <2>2 DEF UpToDate, NewestQueued, HasHandled
<1> QED
  BY <1>3, <1>4

\* A message leaves the queue, and if it is an alarm it is handled or counts as lost.
LEMMA HandlingKeepsUpToDate ==
    ASSUME TypeOK, NEW c \in Sinks, UpToDate(c),
           queue[c] # <<>>, queue'[c] = Tail(queue[c]), accepted' = accepted,
           \/ /\ Head(queue[c]).kind = "state" /\ alarms'[c] = alarms[c]
              /\ c = "persister" => (lost' <=> lost)
           \/ /\ Head(queue[c]).kind = "alarm"
              /\ \/ alarms'[c] = Append(alarms[c], Head(queue[c]))
                 \/ c = "persister" /\ lost'
    PROVE  UpToDate(c)'
<1> DEFINE m == Head(queue[c])
<1>1. queue[c] \in Seq(Message) /\ alarms[c] \in Seq(Alarm)
  BY Names DEF TypeOK, Message
<1>2. /\ m = queue[c][1] /\ m \in Message
      /\ Len(queue[c]) \in Nat /\ Len(queue[c]) >= 1 /\ Len(queue'[c]) = Len(queue[c]) - 1
      /\ \A k \in 1 .. Len(queue'[c]) : k + 1 \in 1 .. Len(queue[c]) /\ queue'[c][k] = queue[c][k + 1]
      /\ \A k \in 1 .. Len(queue[c]) : k = 1 \/ (k - 1 \in 1 .. Len(queue'[c]) /\ (k - 1) + 1 = k)
  BY <1>1, Shortened
<1> HIDE DEF m
<1>3. NewestQueued(c)'
  <2> SUFFICES ASSUME NEW i \in 1 .. Len(queue'[c]), queue'[c][i].kind = "alarm",
                      \A k \in 1 .. Len(queue'[c]) : i < k => queue'[c][k].kind = "state"
               PROVE  queue'[c][i] = accepted
    BY DEF NewestQueued
  <2>1. i + 1 \in 1 .. Len(queue[c]) /\ queue'[c][i] = queue[c][i + 1]
    BY <1>2
  <2>2. \A k \in 1 .. Len(queue[c]) : i + 1 < k => queue[c][k].kind = "state"
    <3> SUFFICES ASSUME NEW k \in 1 .. Len(queue[c]), i + 1 < k PROVE queue[c][k].kind = "state"
      OBVIOUS
    <3>1. k - 1 \in 1 .. Len(queue'[c]) /\ i < k - 1 /\ (k - 1) + 1 = k
      BY <1>2
    <3>2. queue'[c][k - 1].kind = "state"
      BY <3>1, Zenon
    <3>3. queue'[c][k - 1] = queue[c][(k - 1) + 1]
      BY <1>2, <3>1, Zenon
    <3> QED
      BY <3>1, <3>2, <3>3
  <2> QED
    BY <2>1, <2>2 DEF UpToDate, NewestQueued
<1>4. ASSUME accepted # NoAlarm,
             \A k \in 1 .. Len(queue'[c]) : queue'[c][k].kind = "state",
             ~(c = "persister" /\ lost')
      PROVE  alarms'[c] # <<>> /\ alarms'[c][Len(alarms'[c])] = accepted
  <2>1. \A k \in 1 .. Len(queue[c]) : 1 < k => queue[c][k].kind = "state"
    <3> SUFFICES ASSUME NEW k \in 1 .. Len(queue[c]), 1 < k PROVE queue[c][k].kind = "state"
      OBVIOUS
    <3>1. k - 1 \in 1 .. Len(queue'[c]) /\ (k - 1) + 1 = k
      BY <1>2
    <3>2. queue'[c][k - 1].kind = "state"
      BY <1>4, <3>1, Zenon
    <3> QED
      BY <1>2, <3>1, <3>2
  <2>2. CASE m.kind = "state" /\ alarms'[c] = alarms[c] /\ (c = "persister" => (lost' <=> lost))
    <3>1. \A k \in 1 .. Len(queue[c]) : queue[c][k].kind = "state"
      BY <1>2, <2>1, <2>2
    <3>2. ~(c = "persister" /\ lost)
      BY <1>4, <2>2
    <3> QED
      BY <1>4, <2>2, <3>1, <3>2 DEF UpToDate, HasHandled
  <2>3. CASE m.kind = "alarm" /\ alarms'[c] = Append(alarms[c], m)
    <3>1. m = accepted
      <4>1. 1 \in 1 .. Len(queue[c])
        BY <1>2
      <4> QED
        BY <1>2, <2>1, <2>3, <4>1 DEF UpToDate, NewestQueued
    <3>2. m \in Alarm
      BY <1>2, <2>3, MessageFields
    <3> QED
      BY <1>1, <2>3, <3>1, <3>2, Appended
  <2> QED
    BY <1>4, <2>2, <2>3 DEF m
<1>5. HasHandled(c)'
  BY <1>4 DEF HasHandled
<1> QED
  BY <1>3, <1>5 DEF UpToDate

\* The persister's misfortune is its own.
LEMMA SinksKeepUpToDate ==
    ASSUME TypeOK, Insert \/ Emit \/ InsertFails, NEW c \in Sinks, UpToDate(c)
    PROVE  UpToDate(c)'
<1>1. accepted' = accepted
  BY DEF Insert, Emit, InsertFails, Take
<1>2. ASSUME NEW d \in Sinks, Take(d), d # c, c = "persister" => (lost' <=> lost)
      PROVE  UpToDate(c)'
  <2>1. queue'[c] = queue[c] /\ alarms'[c] = alarms[c]
    <3>1. queue'[c] = queue[c]
      BY <1>2, Taken
    <3>2. alarms'[c] = alarms[c]
      BY <1>2, Taken
    <3> QED
      BY <3>1, <3>2
  <2> QED
    BY <1>1, <1>2, <2>1, Untouched
<1>3. ASSUME Take(c), Head(queue[c]).kind = "state" => (c = "persister" => (lost' <=> lost))
      PROVE  UpToDate(c)'
  <2>1. queue[c] # <<>> /\ queue'[c] = Tail(queue[c])
    BY <1>3, Taken
  <2>2. \/ Head(queue[c]).kind = "state" /\ alarms'[c] = alarms[c]
        \/ Head(queue[c]).kind = "alarm" /\ alarms'[c] = Append(alarms[c], Head(queue[c]))
    BY <1>3, Taken
  <2> QED
    BY <1>1, <1>3, <2>1, <2>2, HandlingKeepsUpToDate
<1>4. CASE Insert
  <2>1. /\ "persister" \in Sinks /\ Take("persister")
        /\ lost' <=> (lost /\ Head(queue["persister"]).kind = "state")
    BY <1>4 DEF Insert
  <2>2. CASE c = "persister"
    BY <1>3, <2>1, <2>2
  <2>3. CASE c # "persister"
    BY <1>2, <2>1, <2>3
  <2> QED
    BY <2>2, <2>3
<1>5. CASE Emit
  <2>1. "bridge" \in Sinks /\ Take("bridge") /\ (lost' <=> lost)
    BY <1>5 DEF Emit
  <2>2. CASE c = "bridge"
    BY <1>3, <2>1, <2>2
  <2>3. CASE c # "bridge"
    BY <1>2, <2>1, <2>3
  <2> QED
    BY <2>2, <2>3
<1>6. CASE InsertFails
  <2>1. /\ "persister" \in Sinks /\ queue["persister"] # <<>>
        /\ queue' = [queue EXCEPT !["persister"] = Tail(@)] /\ alarms' = alarms
    BY <1>6 DEF InsertFails
  <2>2. lost' <=> (lost \/ Head(queue["persister"]).kind = "alarm")
    BY <1>6 DEF InsertFails
  <2>3. CASE c = "persister"
    <3>1. queue[c] \in Seq(Message) /\ queue[c] # <<>> /\ queue'[c] = Tail(queue[c])
      BY <2>1, <2>3, Names DEF TypeOK, Message
    <3>2. Head(queue[c]).kind = "state" \/ Head(queue[c]).kind = "alarm"
      BY <3>1, Shortened, MessageFields
    <3>3. Head(queue[c]).kind = "alarm" => lost'
      BY <2>2, <2>3
    <3>4. Head(queue[c]).kind = "state" => (lost' <=> lost)
      <4>1. "state" # "alarm"
        OBVIOUS
      <4> QED
        BY <2>2, <2>3, <4>1
    <3> QED
      BY <1>1, <2>1, <2>3, <3>1, <3>2, <3>3, <3>4, HandlingKeepsUpToDate
  <2>4. CASE c # "persister"
    <3>1. queue'[c] = queue[c] /\ alarms'[c] = alarms[c]
      BY <2>1, <2>4, Names DEF TypeOK
    <3> QED
      BY <1>1, <2>4, <3>1, Untouched
  <2> QED
    BY <2>3, <2>4
<1> QED
  BY <1>4, <1>5, <1>6

\* The connections of the clients: one that begins brings its own up to date, one that
\* ends leaves no subscriber.
LEMMA ConnectionsKeepUpToDate ==
    ASSUME TypeOK, retained = accepted, NEW d \in Sinks,
           Start(d) \/ LoseConnection(d) \/ Reconnect(d) \/ Die(d),
           NEW c \in Sinks, client'[c] = "subscribed",
           client[c] = "subscribed" => UpToDate(c)
    PROVE  UpToDate(c)'
<1>1. accepted' = accepted /\ alarms' = alarms /\ (lost' <=> lost)
  BY DEF Start, LoseConnection, Reconnect, Die, broker
<1>2. CASE d # c
  <2>1. queue'[c] = queue[c]
    BY <1>2, Names DEF Start, LoseConnection, Reconnect, Die, broker, TypeOK
  <2>2. client'[c] = client[c]
    BY <1>2 DEF Start, LoseConnection, Reconnect, Die, TypeOK
  <2> QED
    BY <1>1, <2>1, <2>2, Untouched
<1>3. CASE d = c
  <2>1. ~LoseConnection(c) /\ ~Reconnect(c) /\ ~Die(c)
    BY DEF LoseConnection, Reconnect, Die, TypeOK
  <2> QED
    BY <1>3, <2>1, StartBringsUpToDate
<1> QED
  BY <1>2, <1>3

\* The rest, which concerns the detector.
LEMMA DetectorKeepsUpToDate ==
    ASSUME TypeOK, NEW c \in Sinks, UpToDate(c),
           \/ Detect \/ Acknowledge \/ NodeRedOffline \/ NodeRedOnline \/ NodeRedRestart
           \/ UNCHANGED vars
    PROVE  UpToDate(c)'
<1>1. accepted' = accepted /\ alarms' = alarms /\ (lost' <=> lost)
  BY DEF Detect, Acknowledge, NodeRedOffline, NodeRedOnline, NodeRedRestart, vars, broker, sinks
<1>2. queue'[c] = queue[c]
  BY Names DEF Detect, Acknowledge, NodeRedOffline, NodeRedOnline, NodeRedRestart, vars,
               broker, TypeOK
<1> QED
  BY <1>1, <1>2, Untouched

LEMMA CatchUpKept ==
    ASSUME TypeOK, CatchUpInv, [Next]_vars
    PROVE  CatchUpInv'
<1>1. (retained = accepted)'
  BY DEF CatchUpInv, Next, Publish, Detect, Transmit, Retain, Acknowledge, NodeRedOffline,
         NodeRedOnline, NodeRedRestart, Start, LoseConnection, Reconnect, Die, Insert, Emit,
         Take, InsertFails, vars, broker
<1>2. ASSUME NEW c \in Sinks, client'[c] = "subscribed" PROVE UpToDate(c)'
  <2>1. retained = accepted /\ (client[c] = "subscribed" => UpToDate(c))
    BY DEF CatchUpInv, UpToDate
  <2>2. ASSUME NEW d \in Sinks, Start(d) \/ LoseConnection(d) \/ Reconnect(d) \/ Die(d)
        PROVE  UpToDate(c)'
    BY <1>2, <2>1, <2>2, ConnectionsKeepUpToDate
  <2>3. CASE UNCHANGED client
    <3>1. client[c] = "subscribed" /\ UpToDate(c)
      BY <1>2, <2>1, <2>3
    <3>2. CASE Transmit
      BY <3>1, <3>2, TransmitBringsUpToDate
    <3>3. ASSUME NEW s \in States, NEW high \in BOOLEAN, Publish(s, high) PROVE UpToDate(c)'
      BY <3>1, <3>3, PublishKeepsUpToDate
    <3>4. CASE Insert \/ Emit \/ InsertFails
      BY <3>1, <3>4, SinksKeepUpToDate
    <3>5. CASE \/ Detect \/ Acknowledge \/ NodeRedOffline \/ NodeRedOnline \/ NodeRedRestart
               \/ UNCHANGED vars
      BY <3>1, <3>5, DetectorKeepsUpToDate
    <3> QED
      BY <2>2, <3>2, <3>3, <3>4, <3>5 DEF Next
  <2>4. \/ UNCHANGED client
        \/ \E d \in Sinks : Start(d) \/ LoseConnection(d) \/ Reconnect(d) \/ Die(d)
    BY DEF Next, Publish, Detect, Transmit, Acknowledge, NodeRedOffline, NodeRedOnline,
           NodeRedRestart, Insert, Emit, Take, InsertFails, vars, sinks
  <2> QED
    BY <2>2, <2>3, <2>4
<1> QED
  BY <1>1, <1>2 DEF CatchUpInv, UpToDate

\* A subscribed sink with no alarm left to handle has handled the newest that the
\* broker got, unless its insert failed, however often it, its connection, Node-RED or
\* the detector's connection went down in between: the retained message makes up for
\* the clean session (flows.json:59, mqtt_to_sqlite.py:92, mqtt_bridge.py:75).
THEOREM SubscribersCatchUp == Spec => []SubscriberCaughtUp
<1>1. Init => CatchUpInv
  <2> SUFFICES ASSUME Init PROVE CatchUpInv
    OBVIOUS
  <2>1. retained = accepted /\ \A c \in Sinks : client[c] # "subscribed"
    BY DEF Init
  <2> QED
    BY <2>1 DEF CatchUpInv
<1>2. TypeOK /\ CatchUpInv /\ [Next]_vars => CatchUpInv'
  BY CatchUpKept
<1>3. CatchUpInv => SubscriberCaughtUp
  BY DEF CatchUpInv, HasHandled, SubscriberCaughtUp
<1> QED
  BY <1>1, <1>2, <1>3, TypeCorrect, PTL DEF Spec

-----------------------------------------------------------------------------
(* The rolling window.                                                     *)

Stamped == [ts : Int, healthy : BOOLEAN]
Seen == [ts : Int, at : Nat, healthy : BOOLEAN]

WindowTypeOK ==
    /\ time \in Nat /\ offset \in Int
    /\ buf \in Seq(Stamped) /\ seen \in Seq(Seen)

\* How many of the samples seen have left the buffer.
Dropped == Len(seen) - Len(buf)

\* The buffer is the newest part of what was seen.
BufferIsNewest ==
    /\ Len(buf) <= Len(seen)
    /\ \A k \in 1 .. Len(buf) :
         /\ buf[k].ts = seen[Dropped + k].ts
         /\ buf[k].healthy = seen[Dropped + k].healthy

\* A sample is dropped because a later one came more than the window after it.
DroppedHadExpired ==
    \A i \in 1 .. Dropped : \E j \in i .. Len(seen) : seen[j].ts - seen[i].ts > Window

\* The oldest sample kept is within the window of the newest.
OldestIsWithin ==
    seen # <<>> => Len(buf) >= 1 /\ Last.ts - buf[1].ts <= Window

PublishedIsBuffer ==
    seen # <<>> => out = [healthy |-> HealthyIn(buf), samples |-> Len(buf)]

WindowInv ==
    /\ WindowTypeOK
    /\ BufferIsNewest /\ DroppedHadExpired /\ OldestIsWithin /\ PublishedIsBuffer

\* A set of natural numbers has a smallest.
LEMMA SmallestOf ==
    ASSUME NEW T, T \subseteq Nat, T # {}
    PROVE  \E x \in T : \A y \in T : x <= y
<1> DEFINE R == OpToRel(<, Nat)
<1>1. IsWellFoundedOn(R, Nat)
  BY NatLessThanWellFounded
<1>2. \A x, y \in Nat : x < y => <<x, y>> \in R
  BY DEF OpToRel
<1> HIDE DEF R
<1>3. PICK x \in T : \A y \in T : ~ (<<y, x>> \in R)
  BY <1>1, WFMin
<1>4. ASSUME NEW y \in T PROVE x <= y
  <2>1. x \in Nat /\ y \in Nat /\ ~(y < x)
    BY <1>2, <1>3
  <2> QED
    BY <2>1
<1> QED
  BY <1>4

\* The while loop drops the samples before the first that has not expired.
LEMMA KeptFromFirst ==
    ASSUME NEW b \in Seq(Stamped), Len(b) >= 1, ~Expired(b[Len(b)])
    PROVE  \E first \in 1 .. Len(b) :
             /\ ~Expired(b[first])
             /\ \A j \in 1 .. first - 1 : Expired(b[j])
             /\ Kept(b) \in Seq(Stamped)
             /\ Len(Kept(b)) = Len(b) - first + 1
             /\ \A k \in 1 .. Len(Kept(b)) :
                  first + k - 1 \in 1 .. Len(b) /\ Kept(b)[k] = b[first + k - 1]
<1> DEFINE T == {i \in 1 .. Len(b) : ~Expired(b[i])}
           IsFirst(i) == ~Expired(b[i]) /\ \A j \in 1 .. i - 1 : Expired(b[j])
           first == CHOOSE i \in 1 .. Len(b) : IsFirst(i)
<1>1. Len(b) \in Nat
  BY LenProperties
<1>2. \E i \in 1 .. Len(b) : IsFirst(i)
  <2>1. Len(b) \in T /\ T \subseteq Nat
    BY <1>1
  <2> HIDE DEF T
  <2>2. PICK x \in T : \A y \in T : x <= y
    BY <2>1, SmallestOf
  <2>3. x \in 1 .. Len(b) /\ ~Expired(b[x])
    BY <2>2 DEF T
  <2>4. ASSUME NEW j \in 1 .. x - 1 PROVE Expired(b[j])
    <3>1. j \in 1 .. Len(b) /\ ~(x <= j)
      BY <1>1, <2>3
    <3> QED
      BY <2>2, <3>1 DEF T
  <2> QED
    BY <2>3, <2>4
<1>3. first \in 1 .. Len(b) /\ IsFirst(first)
  BY <1>2
<1>4. Kept(b) = SubSeq(b, first, Len(b))
  BY DEF Kept
<1> HIDE DEF first
<1>5. /\ first \in Int /\ Len(b) \in Int /\ first <= Len(b)
      /\ \A i \in first .. Len(b) : i \in 1 .. Len(b)
  BY <1>1, <1>3
<1>6. \A i \in first .. Len(b) : b[i] \in Stamped
  BY <1>5, ElementOfSeq
<1>7. /\ Kept(b) \in Seq(Stamped)
      /\ Len(Kept(b)) = Len(b) - first + 1
      /\ \A k \in 1 .. Len(b) - first + 1 : Kept(b)[k] = b[first + k - 1]
  BY <1>4, <1>5, <1>6, SubSeqProperties
<1>8. \A k \in 1 .. Len(b) - first + 1 : first + k - 1 \in 1 .. Len(b)
  BY <1>1, <1>3
<1> QED
  BY <1>3, <1>7, <1>8

\* A state message keeps the invariant, whatever the clock has done before it.
LEMMA StateKeepsWindow ==
    ASSUME WindowInv, NEW ok \in BOOLEAN, OnState(ok)
    PROVE  WindowInv'
<1> DEFINE b == Append(buf, Sample(ok))
           r == [ts |-> wall, at |-> time, healthy |-> ok]
           N == Len(seen)
           L == Len(buf)
<1>1. /\ buf' = Kept(b) /\ seen' = Append(seen, r)
      /\ out' = [healthy |-> HealthyIn(buf'), samples |-> Len(buf')]
      /\ time' = time /\ offset' = offset
  BY DEF OnState
<1>2. /\ time \in Nat /\ offset \in Int /\ wall \in Int
      /\ buf \in Seq(Stamped) /\ seen \in Seq(Seen) /\ L \in Nat /\ N \in Nat
  BY LenProperties DEF WindowInv, WindowTypeOK, wall
<1>3. Window \in Nat
  BY AvailabilityAssumption
<1>4. Sample(ok) \in Stamped /\ Sample(ok).ts = wall /\ Sample(ok).healthy = ok
  BY <1>2 DEF Sample, Stamped
<1>5. r \in Seen /\ r.ts = wall /\ r.healthy = ok
  BY <1>2 DEF Seen
<1>6. /\ b \in Seq(Stamped) /\ Len(b) = L + 1 /\ b[L + 1] = Sample(ok)
      /\ \A k \in 1 .. L : b[k] = buf[k]
      /\ \A k \in 1 .. L + 1 : k \in 1 .. L \/ k = L + 1
  BY <1>2, <1>4, Appended
<1>7. /\ seen' \in Seq(Seen) /\ Len(seen') = N + 1 /\ seen'[N + 1] = r
      /\ \A i \in 1 .. N : seen'[i] = seen[i]
      /\ seen' # <<>>
  BY <1>1, <1>2, <1>5, Appended
<1> HIDE DEF b, r
<1>8. Len(b) >= 1 /\ ~Expired(b[Len(b)])
  BY <1>2, <1>3, <1>4, <1>6 DEF Expired
<1>9. PICK first \in 1 .. Len(b) :
        /\ ~Expired(b[first])
        /\ \A j \in 1 .. first - 1 : Expired(b[j])
        /\ Kept(b) \in Seq(Stamped)
        /\ Len(Kept(b)) = Len(b) - first + 1
        /\ \A k \in 1 .. Len(Kept(b)) :
             first + k - 1 \in 1 .. Len(b) /\ Kept(b)[k] = b[first + k - 1]
  BY <1>6, <1>8, KeptFromFirst
<1>10. /\ first \in Nat /\ first >= 1 /\ first <= L + 1
       /\ buf' \in Seq(Stamped) /\ Len(buf') = L + 2 - first
       /\ \A k \in 1 .. Len(buf') : first + k - 1 \in 1 .. L + 1 /\ buf'[k] = b[first + k - 1]
  BY <1>1, <1>2, <1>6, <1>9
<1>11. /\ L <= N
       /\ \A k \in 1 .. L : buf[k].ts = seen[N - L + k].ts
       /\ \A k \in 1 .. L : buf[k].healthy = seen[N - L + k].healthy
  BY DEF WindowInv, BufferIsNewest, Dropped
<1>12. /\ \A m \in 1 .. L + 1 : b[m].ts = seen'[N - L + m].ts
       /\ \A m \in 1 .. L + 1 : b[m].healthy = seen'[N - L + m].healthy
  <2> SUFFICES ASSUME NEW m \in 1 .. L + 1
               PROVE  /\ b[m].ts = seen'[N - L + m].ts
                      /\ b[m].healthy = seen'[N - L + m].healthy
    OBVIOUS
  <2>1. CASE m \in 1 .. L
    <3>1. N - L + m \in 1 .. N
      BY <1>2, <1>11, <2>1
    <3>2. b[m] = buf[m] /\ seen'[N - L + m] = seen[N - L + m]
      BY <1>6, <1>7, <2>1, <3>1
    <3> QED
      BY <1>11, <2>1, <3>2
  <2>2. CASE m = L + 1
    <3>1. N - L + m = N + 1
      BY <1>2, <2>2
    <3> QED
      BY <1>4, <1>5, <1>6, <1>7, <2>2, <3>1
  <2> QED
    BY <1>6, <2>1, <2>2
<1>13. Dropped' = N - L + first - 1
  BY <1>2, <1>7, <1>10 DEF Dropped
<1>14. BufferIsNewest'
  <2>1. Len(buf') <= Len(seen')
    BY <1>2, <1>7, <1>10, <1>11
  <2>2. ASSUME NEW k \in 1 .. Len(buf')
        PROVE  /\ buf'[k].ts = seen'[Dropped' + k].ts
               /\ buf'[k].healthy = seen'[Dropped' + k].healthy
    <3>1. first + k - 1 \in 1 .. L + 1 /\ buf'[k] = b[first + k - 1]
      BY <1>10
    <3>2. N - L + (first + k - 1) = Dropped' + k
      BY <1>2, <1>10, <1>13
    <3> QED
      BY <1>12, <3>1, <3>2
  <2> QED
    BY <2>1, <2>2 DEF BufferIsNewest
<1>15. DroppedHadExpired'
  <2> SUFFICES ASSUME NEW i \in 1 .. Dropped'
               PROVE  \E j \in i .. Len(seen') : seen'[j].ts - seen'[i].ts > Window
    BY DEF DroppedHadExpired
  <2>1. CASE i \in 1 .. N - L
    <3>1. PICK j \in i .. N : seen[j].ts - seen[i].ts > Window
      BY <2>1 DEF WindowInv, DroppedHadExpired, Dropped
    <3>2. i \in 1 .. N /\ j \in 1 .. N /\ j \in i .. Len(seen')
      BY <1>2, <1>7, <2>1, <3>1
    <3> QED
      BY <1>7, <3>1, <3>2
  <2>2. CASE i \notin 1 .. N - L
    <3> DEFINE m == i - (N - L)
    <3>1. m \in 1 .. first - 1 /\ m \in 1 .. L + 1 /\ N - L + m = i
      BY <1>2, <1>10, <1>11, <1>13, <2>2
    <3>2. wall - b[m].ts > Window
      BY <1>9, <3>1 DEF Expired
    <3>3. b[m].ts = seen'[i].ts
      BY <1>12, <3>1
    <3>4. N + 1 \in i .. Len(seen') /\ seen'[N + 1].ts = wall
      BY <1>2, <1>5, <1>7, <1>10, <1>11, <3>1
    <3> QED
      BY <3>2, <3>3, <3>4
  <2> QED
    BY <2>1, <2>2
<1>16. OldestIsWithin'
  <2>1. Len(buf') >= 1 /\ buf'[1] = b[first]
    <3>1. Len(buf') >= 1 /\ 1 \in 1 .. Len(buf') /\ first + 1 - 1 = first
      BY <1>2, <1>10
    <3> QED
      BY <1>10, <3>1
  <2>2. Last'.ts = wall
    BY <1>5, <1>7 DEF Last
  <2>3. wall - b[first].ts <= Window
    <3>1. b[first].ts \in Int
      <4>1. b[first] \in Stamped
        BY <1>6, <1>9, ElementOfSeq
      <4> QED
        BY <4>1 DEF Stamped
    <3> QED
      BY <1>2, <1>3, <1>9, <3>1 DEF Expired
  <2> QED
    BY <2>1, <2>2, <2>3 DEF OldestIsWithin
<1>17. WindowTypeOK'
  BY <1>1, <1>2, <1>7, <1>10 DEF WindowTypeOK
<1>18. PublishedIsBuffer'
  <2>1. HealthyIn(buf)' = HealthyIn(buf')
    BY DEF HealthyIn
  <2> QED
    BY <1>1, <2>1 DEF PublishedIsBuffer
<1> QED
  BY <1>14, <1>15, <1>16, <1>17, <1>18 DEF WindowInv

\* Nothing else touches the buffer, but a restart, which forgets everything.
LEMMA WindowInvariance == AvailabilitySpec => []WindowInv
<1>1. AvailabilityInit => WindowInv
  <2> SUFFICES ASSUME AvailabilityInit PROVE WindowInv
    OBVIOUS
  <2>1. /\ time = 0 /\ offset = 0 /\ buf = <<>> /\ seen = <<>>
        /\ Len(buf) = 0 /\ Len(seen) = 0 /\ Dropped = 0
    BY DEF AvailabilityInit, Dropped
  <2>2. WindowTypeOK
    BY <2>1, EmptySeq DEF WindowTypeOK
  <2> QED
    BY <2>1, <2>2 DEF WindowInv, BufferIsNewest, DroppedHadExpired, OldestIsWithin,
                      PublishedIsBuffer
<1>2. WindowInv /\ [AvailabilityNext]_availabilityVars => WindowInv'
  <2> SUFFICES ASSUME WindowInv, [AvailabilityNext]_availabilityVars PROVE WindowInv'
    OBVIOUS
  <2>1. CASE Restart
    <3>1. /\ UNCHANGED <<time, offset>> /\ buf' = <<>> /\ seen' = <<>>
          /\ Len(buf') = 0 /\ Len(seen') = 0 /\ Dropped' = 0
      BY <2>1 DEF Restart, Dropped
    <3>2. WindowTypeOK'
      BY <3>1, EmptySeq DEF WindowInv, WindowTypeOK
    <3> QED
      BY <3>1, <3>2 DEF WindowInv, BufferIsNewest, DroppedHadExpired, OldestIsWithin,
                        PublishedIsBuffer
  <2>2. ASSUME UNCHANGED <<buf, out, seen>>, time' \in Nat, offset' \in Int
        PROVE  WindowInv'
    BY <2>2 DEF WindowInv, WindowTypeOK, BufferIsNewest, DroppedHadExpired, OldestIsWithin,
                PublishedIsBuffer, Dropped, Last, HealthyIn
  <2>3. time \in Nat /\ offset \in Int
    BY DEF WindowInv, WindowTypeOK
  <2>4. CASE Tick \/ UNCHANGED availabilityVars
    BY <2>2, <2>3, <2>4 DEF Tick, availabilityVars
  <2>5. ASSUME NEW by \in {-x : x \in Back} \cup Ahead, ClockIsSet(by) PROVE WindowInv'
    <3>1. by \in Int
      <4>1. Back \subseteq Nat /\ Ahead \subseteq Nat
        BY AvailabilityAssumption
      <4>2. ASSUME NEW x \in Back PROVE -x \in Int
        BY <4>1
      <4>3. CASE by \in {-x : x \in Back}
        <5>1. PICK x \in Back : by = -x
          BY <4>3
        <5> QED
          BY <4>2, <5>1
      <4>4. CASE by \in Ahead
        BY <4>1, <4>4
      <4> QED
        BY <4>3, <4>4
    <3> QED
      BY <2>2, <2>3, <2>5, <3>1 DEF ClockIsSet
  <2> QED
    BY <2>1, <2>4, <2>5, StateKeepsWindow DEF AvailabilityNext
<1> QED
  BY <1>1, <1>2, PTL DEF AvailabilitySpec

\* Numbers for the reading of the invariant.
LEMMA WindowNumbers ==
    ASSUME WindowInv, seen # <<>>
    PROVE  /\ Window \in Nat
           /\ Len(seen) \in Nat \ {0} /\ Len(buf) \in Nat /\ Len(buf) <= Len(seen)
           /\ Dropped \in Nat /\ Len(seen) = Dropped + Len(buf)
           /\ Last.ts \in Int
           /\ \A i \in 1 .. Len(seen) : seen[i].ts \in Int
<1>1. /\ buf \in Seq(Stamped) /\ seen \in Seq(Seen)
      /\ Len(buf) <= Len(seen)
  BY DEF WindowInv, WindowTypeOK, BufferIsNewest
<1>2. Len(buf) \in Nat /\ Len(seen) \in Nat \ {0}
  BY <1>1, EmptySeq, LenProperties
<1>3. Dropped \in Nat /\ Len(seen) = Dropped + Len(buf)
  BY <1>1, <1>2 DEF Dropped
<1>4. \A i \in 1 .. Len(seen) : seen[i].ts \in Int
  <2> TAKE i \in 1 .. Len(seen)
  <2>1. seen[i] \in Seen
    BY <1>1, ElementOfSeq
  <2> QED
    BY <2>1 DEF Seen
<1>5. Last.ts \in Int
  BY <1>2, <1>4 DEF Last
<1> QED
  BY <1>1, <1>2, <1>3, <1>4, <1>5, AvailabilityAssumption

\* What is published never leaves out a sample stamped within the window of the newest,
\* unless the clock was further ahead between the two, however far the clock is set
\* back or ahead: the while loop stops at the first sample that is young enough, and
\* what it dropped was too old for a later one (flows.json:47).
THEOREM ForgetsOnlyExpired == AvailabilitySpec => []NeverForgetsEarly
<1>1. WindowInv => NeverForgetsEarly
  <2> SUFFICES ASSUME WindowInv, seen # <<>>, NEW i \in StampedWithin,
                      \A j \in i .. Len(seen) : seen[j].ts <= Last.ts,
                      ~(i > Len(seen) - Len(buf))
               PROVE  FALSE
    BY DEF NeverForgetsEarly
  <2>1. /\ Window \in Nat /\ Len(seen) \in Nat /\ Dropped \in Nat /\ Last.ts \in Int
        /\ \A j \in 1 .. Len(seen) : seen[j].ts \in Int
    BY WindowNumbers
  <2>2. i \in 1 .. Len(seen) /\ Last.ts - seen[i].ts <= Window
    BY DEF StampedWithin
  <2>3. i \in 1 .. Dropped
    BY <2>1, <2>2 DEF Dropped
  <2>4. PICK j \in i .. Len(seen) : seen[j].ts - seen[i].ts > Window
    BY <2>3 DEF WindowInv, DroppedHadExpired
  <2>5. j \in 1 .. Len(seen) /\ seen[j].ts <= Last.ts
    BY <2>1, <2>2
  <2> QED
    BY <2>1, <2>2, <2>4, <2>5
<1> QED
  BY <1>1, WindowInvariance, PTL

\* With stamps in order, what the buffer holds is what is stamped within the window.
LEMMA BufferIsWindow ==
    ASSUME WindowInv, seen # <<>>, InOrder
    PROVE  StampedWithin = Dropped + 1 .. Len(seen)
<1>1. /\ Window \in Nat
      /\ Len(seen) \in Nat \ {0} /\ Len(buf) \in Nat /\ Dropped \in Nat
      /\ Len(seen) = Dropped + Len(buf)
      /\ Last.ts \in Int
      /\ \A i \in 1 .. Len(seen) : seen[i].ts \in Int
  BY WindowNumbers
<1>2. \A i, j \in 1 .. Len(seen) : i <= j => seen[i].ts <= seen[j].ts
  <2> SUFFICES ASSUME NEW i \in 1 .. Len(seen), NEW j \in 1 .. Len(seen), i <= j
               PROVE  seen[i].ts <= seen[j].ts
    OBVIOUS
  <2>1. CASE i = j
    BY <1>1, <2>1
  <2>2. CASE i < j
    BY <2>2 DEF InOrder
  <2> QED
    BY <1>1, <2>1, <2>2
<1>3. \A i \in 1 .. Len(seen) : seen[i].ts <= Last.ts
  BY <1>1, <1>2 DEF Last
<1>4. ASSUME NEW i \in 1 .. Len(seen), i <= Dropped PROVE ~(Last.ts - seen[i].ts <= Window)
  <2>1. PICK j \in i .. Len(seen) : seen[j].ts - seen[i].ts > Window
    BY <1>1, <1>4 DEF WindowInv, DroppedHadExpired
  <2>2. j \in 1 .. Len(seen)
    BY <1>1
  <2> QED
    BY <1>1, <1>3, <2>1, <2>2
<1>5. ASSUME NEW i \in 1 .. Len(seen), i > Dropped PROVE Last.ts - seen[i].ts <= Window
  <2>1. 1 \in 1 .. Len(buf) /\ Last.ts - buf[1].ts <= Window
    BY <1>1 DEF WindowInv, OldestIsWithin
  <2>2. buf[1].ts = seen[Dropped + 1].ts
    BY <2>1 DEF WindowInv, BufferIsNewest
  <2>3. Dropped + 1 \in 1 .. Len(seen) /\ Dropped + 1 <= i
    BY <1>1, <1>5
  <2>4. seen[Dropped + 1].ts <= seen[i].ts
    BY <1>2, <2>3
  <2> QED
    BY <1>1, <2>1, <2>2, <2>3, <2>4
<1>6. \A i \in 1 .. Len(seen) : i \in StampedWithin <=> i \in Dropped + 1 .. Len(seen)
  BY <1>1, <1>4, <1>5 DEF StampedWithin
<1>7. \A i \in Dropped + 1 .. Len(seen) : i \in 1 .. Len(seen)
  BY <1>1
<1> QED
  BY <1>6, <1>7 DEF StampedWithin

\* As long as the stamps do not go back, the fraction published is exactly that of the
\* samples stamped within the window, for any window and any number of samples: to look
\* at the front of the buffer only is enough (flows.json:47).
THEOREM CountsExactly == AvailabilitySpec => []ExactInOrder
<1>1. WindowInv => ExactInOrder
  <2> SUFFICES ASSUME WindowInv, seen # <<>>, InOrder
               PROVE  /\ out.samples = Cardinality(StampedWithin)
                      /\ out.healthy = Cardinality({i \in StampedWithin : seen[i].healthy})
    BY DEF ExactInOrder
  <2> DEFINE D == Dropped
             N == Len(seen)
             L == Len(buf)
  <2>1. N \in Nat \ {0} /\ L \in Nat /\ D \in Nat /\ N = D + L
    BY WindowNumbers
  <2>2. StampedWithin = D + 1 .. N
    BY BufferIsWindow
  <2>3. out.samples = L /\ out.healthy = HealthyIn(buf)
    BY DEF WindowInv, PublishedIsBuffer
  <2>4. \A k \in 1 .. L : buf[k].healthy = seen[D + k].healthy
    BY DEF WindowInv, BufferIsNewest
  <2> HIDE DEF D, N, L
  <2>5. Cardinality(D + 1 .. N) = L
    <3>1. Cardinality(D + 1 .. N) = IF D + 1 > N THEN 0 ELSE N - (D + 1) + 1
      BY <2>1, FS_Interval
    <3> QED
      BY <2>1, <3>1
  <2>6. Cardinality({i \in D + 1 .. N : seen[i].healthy}) = HealthyIn(buf)
    <3> DEFINE S == {k \in 1 .. L : buf[k].healthy}
               T == {i \in D + 1 .. N : seen[i].healthy}
               shift == [k \in S |-> D + k]
    <3>1. IsFiniteSet(S)
      <4>1. IsFiniteSet(1 .. L) /\ S \in SUBSET (1 .. L)
        BY <2>1, FS_Interval
      <4> QED
        BY <4>1, FS_Subset
    <3>2. \A k \in 1 .. L : D + k \in D + 1 .. N
      BY <2>1
    <3>3. \A i \in D + 1 .. N : i - D \in 1 .. L /\ D + (i - D) = i
      BY <2>1
    <3>4. \A k, l \in 1 .. L : D + k = D + l => k = l
      BY <2>1
    <3>5. \A k \in S : D + k \in T
      BY <2>4, <3>2
    <3>6. \A i \in T : \E k \in S : D + k = i
      <4> TAKE i \in T
      <4>1. i - D \in 1 .. L /\ D + (i - D) = i
        BY <3>3
      <4>2. buf[i - D].healthy
        BY <2>4, <4>1
      <4> QED
        BY <4>1, <4>2
    <3>7. shift \in Bijection(S, T)
      <4>1. shift \in [S -> T]
        BY <3>5
      <4>2. \A k, l \in S : shift[k] = shift[l] => k = l
        BY <3>4
      <4>3. \A i \in T : \E k \in S : shift[k] = i
        BY <3>6
      <4> QED
        BY <4>1, <4>2, <4>3 DEF Bijection, Injection, Surjection, IsInjective
    <3>8. ExistsBijection(S, T)
      BY <3>7 DEF ExistsBijection
    <3>9. Cardinality(T) = Cardinality(S)
      BY <3>1, <3>8, FS_Bijection
    <3> QED
      BY <3>9 DEF HealthyIn, L
  <2> QED
    BY <2>2, <2>3, <2>5, <2>6 DEF D, N
<1> QED
  BY <1>1, WindowInvariance, PTL

=============================================================================
