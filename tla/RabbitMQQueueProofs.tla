------------------------- MODULE RabbitMQQueueProofs -------------------------
(***************************************************************************)
(* Theorems about RabbitMQQueue, for any number of consumer threads,       *)
(* messages, connections, faults, deletions and stray settlements.         *)
(***************************************************************************)
EXTENDS RabbitMQQueue, TLAPS

-----------------------------------------------------------------------------
(* Channels and messages *)

ChannelsOK == ch \in [ConnectionIds -> Channel]
StagesOK   == stage \in [Messages -> Stages]

\* A record of the right shape is a channel if its delivery tags are in its log.
Shape == [open: BOOLEAN, consumers: SUBSET Threads, log: Seq(Entry),
          unacked: SUBSET Nat, pending: SUBSET Nat]

LEMMA MakeChannel ==
    ASSUME NEW c \in Shape, c.unacked \subseteq 1..Len(c.log), c.pending \subseteq 1..Len(c.log)
    PROVE  c \in Channel
<1>1. c.log \in Seq(Entry)
  BY DEF Shape
<1>2. DOMAIN c.log = 1..Len(c.log)
  BY <1>1
<1> QED
  BY <1>2 DEF Channel, Shape

\* The log of a channel is a sequence, and what is pending or unacknowledged is in it.
LEMMA ChannelFacts ==
    ASSUME NEW c \in Channel
    PROVE  /\ c \in Shape
           /\ c.consumers \subseteq Threads
           /\ c.log \in Seq(Entry)
           /\ c.unacked \subseteq 1..Len(c.log) /\ c.pending \subseteq 1..Len(c.log)
           /\ \A i \in 1..Len(c.log) : c.log[i] \in Entry
<1>1. c \in Shape /\ c.pending \cup c.unacked \subseteq DOMAIN c.log
  BY DEF Channel, Shape
<1>2. c.log \in Seq(Entry) /\ c.consumers \subseteq Threads
  BY <1>1 DEF Shape
<1>3. DOMAIN c.log = 1..Len(c.log)
  BY <1>2
<1>4. \A i \in 1..Len(c.log) : c.log[i] \in Entry
  BY <1>2
<1> QED
  BY <1>1, <1>2, <1>3, <1>4

\* A channel just closed and one just opened are channels.
LEMMA NewChannels == Closed \in Channel /\ Fresh \in Channel
<1>1. <<>> \in Seq(Entry)
  OBVIOUS
<1>2. Closed \in Shape /\ Closed.unacked = {} /\ Closed.pending = {}
  BY <1>1 DEF Closed, Shape
<1>3. Fresh \in Shape /\ Fresh.unacked = {} /\ Fresh.pending = {}
  BY <1>2 DEF Fresh, Shape
<1> QED
  BY <1>2, <1>3, MakeChannel

\* Taking deliveries away and changing the consumers leaves a channel.
LEMMA ShrinkChannel ==
    ASSUME NEW c \in Channel, NEW s \in SUBSET Threads,
           NEW u \in SUBSET c.unacked, NEW p \in SUBSET c.pending
    PROVE  [c EXCEPT !.consumers = s, !.unacked = u, !.pending = p] \in Channel
<1> DEFINE d == [c EXCEPT !.consumers = s, !.unacked = u, !.pending = p]
<1>1. /\ c \in Shape
      /\ c.unacked \subseteq 1..Len(c.log) /\ c.pending \subseteq 1..Len(c.log)
  BY ChannelFacts
<1>2. u \in SUBSET Nat /\ p \in SUBSET Nat
  BY <1>1 DEF Shape
<1>3. d \in Shape /\ d.log = c.log /\ d.unacked = u /\ d.pending = p
  BY <1>1, <1>2 DEF Shape
<1> HIDE DEF d
<1>4. d.unacked \subseteq 1..Len(d.log) /\ d.pending \subseteq 1..Len(d.log)
  BY <1>1, <1>3
<1>5. d \in Channel
  BY <1>3, <1>4, MakeChannel
<1> QED
  BY <1>5 DEF d

\* A new delivery, whatever becomes of it, leaves a channel.
LEMMA GrowChannel ==
    ASSUME NEW c \in Channel, NEW e \in Entry,
           NEW u \in SUBSET (c.unacked \cup {Len(c.log) + 1}),
           NEW p \in SUBSET (c.pending \cup {Len(c.log) + 1})
    PROVE  [c EXCEPT !.log = Append(c.log, e), !.unacked = u, !.pending = p] \in Channel
<1> DEFINE l == Append(c.log, e)
           d == [c EXCEPT !.log = l, !.unacked = u, !.pending = p]
<1>1. /\ c \in Shape /\ c.log \in Seq(Entry)
      /\ c.unacked \subseteq 1..Len(c.log) /\ c.pending \subseteq 1..Len(c.log)
  BY ChannelFacts
<1>2. l \in Seq(Entry) /\ Len(l) = Len(c.log) + 1 /\ Len(c.log) \in Nat
  BY <1>1
<1> HIDE DEF l
<1>3. u \in SUBSET (1..Len(l)) /\ p \in SUBSET (1..Len(l))
  BY <1>1, <1>2
<1>4. u \in SUBSET Nat /\ p \in SUBSET Nat
  BY <1>2, <1>3
<1>5. d \in Shape /\ d.log = l /\ d.unacked = u /\ d.pending = p
  BY <1>1, <1>2, <1>4 DEF Shape
<1> HIDE DEF d
<1>6. d.unacked \subseteq 1..Len(d.log) /\ d.pending \subseteq 1..Len(d.log)
  BY <1>3, <1>5
<1>7. d \in Channel
  BY <1>5, <1>6, MakeChannel
<1> QED
  BY <1>7 DEF d, l

\* Messages that go back to the queue are in a stage.
LEMMA PutBackType ==
    ASSUME NEW k, NEW tags, StagesOK, PutBack(k, tags)
    PROVE  StagesOK'
BY DEF StagesOK, PutBack, Stages

\* Closing a channel.
LEMMA CloseChannelType ==
    ASSUME NEW k, ChannelsOK, StagesOK, CloseChannel(k)
    PROVE  ChannelsOK' /\ StagesOK'
<1>1. StagesOK'
  BY PutBackType DEF CloseChannel
<1> QED
  BY <1>1, NewChannels DEF CloseChannel, ChannelsOK

\* Acknowledging, refusing, or naming a delivery the channel does not know.
LEMMA SettleType ==
    ASSUME NEW tag, NEW where \in {"acked", "ready"}, channel \in ConnectionIds,
           ChannelsOK, StagesOK, Settle(tag, where)
    PROVE  ChannelsOK' /\ StagesOK'
<1>1. CASE tag \in ch[channel].unacked
  <2> DEFINE c == ch[channel]
  <2>1. c \in Channel
    BY DEF ChannelsOK
  <2>2. c \in Shape
    BY <2>1, ChannelFacts
  <2>3. [c EXCEPT !.unacked = c.unacked \ {tag}] \in Channel
    <3>1. [c EXCEPT !.consumers = c.consumers, !.unacked = c.unacked \ {tag},
                    !.pending = c.pending] \in Channel
      BY <2>1, ChannelFacts, ShrinkChannel
    <3>2. [c EXCEPT !.consumers = c.consumers, !.unacked = c.unacked \ {tag},
                    !.pending = c.pending] = [c EXCEPT !.unacked = c.unacked \ {tag}]
      BY <2>2 DEF Shape
    <3> QED
      BY <3>1, <3>2
  <2>4. ch' = [ch EXCEPT ![channel] = [c EXCEPT !.unacked = c.unacked \ {tag}]]
    BY <1>1 DEF Settle
  <2>5. ChannelsOK'
    BY <2>3, <2>4 DEF ChannelsOK
  <2>6. StagesOK'
    BY <1>1 DEF Settle, StagesOK, Stages
  <2> QED
    BY <2>5, <2>6
<1>2. CASE tag \notin ch[channel].unacked
  BY <1>2, CloseChannelType DEF Settle
<1> QED
  BY <1>1, <1>2

\* A usable channel is one of the channels.
LEMMA UsableChannel ==
    ASSUME QueueTypeOK, ChannelUsable
    PROVE  channel \in ConnectionIds /\ ch[channel] \in Channel
BY QueueAssumption DEF QueueTypeOK, ChannelUsable, ConnectionIds

-----------------------------------------------------------------------------
(* Type correctness *)

\* Every step goes to a point.
LEMMA PointFacts ==
    /\ {"idle", "connect", "channel", "consume_channel", "set", "spawn", "getting",
        "getting_for_ever", "waiting", "waiting_for_ever", "hangup", "disconnect",
        "forget_connection", "forget_channel", "test", "clear", "cancel", "join", "joining",
        "subscribe", "loop", "poll", "callback", "ack", "nack", "dead", "unborn"} \subseteq Points
    /\ Owner \in Actors /\ Threads \subseteq Actors
    /\ \A p \in Actors : AfterStop(p) \in Points
BY DEF Points, StopPoints, ConsumerPoints, HandlerPoints, OwnerPoints, ConnectPoints,
       ConsumePoints, HangupPoints, WaitPoints, EndlessPoints, Actors, AfterStop

LEMMA InitHasType == QueueInit => QueueTypeOK
<1> SUFFICES ASSUME QueueInit PROVE QueueTypeOK
  OBVIOUS
<1>1. at \in [Actors -> Points]
  BY PointFacts DEF QueueInit
<1>2. ch \in [ConnectionIds -> Channel]
  BY NewChannels DEF QueueInit
<1>3. stage \in [Messages -> Stages]
  BY DEF QueueInit, Stages
<1>4. hand \in [Actors -> Delivery \cup {NoDelivery}]
  BY DEF QueueInit
<1>5. joining \in [Actors -> Threads \cup {None}]
  BY DEF QueueInit
<1>6. /\ 0 \in 0..MaxConnections /\ 0 \in 0..MaxFaults
      /\ 0 \in 0..MaxDeletions /\ 0 \in 0..MaxStrays
  BY QueueAssumption
<1> QED
  BY <1>1, <1>2, <1>3, <1>4, <1>5, <1>6 DEF QueueInit, QueueTypeOK

\* The broker and the connections of RabbitMQ.
LEMMA BrokerKeepsType ==
    ASSUME QueueTypeOK,
           \/ \E k \in ConnectionIds : LoseConnection(k)
           \/ \E k \in ConnectionIds, t \in Threads, m \in Messages : Deliver(k, t, m)
    PROVE  QueueTypeOK'
<1>0. ChannelsOK /\ StagesOK
  BY DEF QueueTypeOK, ChannelsOK, StagesOK
<1>1. ASSUME NEW k \in ConnectionIds, LoseConnection(k)
      PROVE  QueueTypeOK'
  <2>1. ChannelsOK' /\ StagesOK'
    BY <1>0, <1>1, CloseChannelType DEF LoseConnection
  <2>2. faults' \in 0..MaxFaults
    BY <1>1, QueueAssumption DEF LoseConnection, QueueTypeOK
  <2> QED
    BY <1>1, <2>1, <2>2 DEF LoseConnection, QueueTypeOK, ChannelsOK, StagesOK, fields
<1>2. ASSUME NEW k \in ConnectionIds, NEW t \in Threads, NEW m \in Messages, Deliver(k, t, m)
      PROVE  QueueTypeOK'
  <2> DEFINE c   == ch[k]
             tag == Len(c.log) + 1
             d   == [c EXCEPT !.log = Append(c.log, [msg |-> m, to |-> t]),
                              !.unacked = c.unacked \cup {tag}, !.pending = c.pending \cup {tag}]
  <2>1. c \in Channel
    BY <1>0 DEF ChannelsOK
  <2>2. d \in Channel
    <3>1. [msg |-> m, to |-> t] \in Entry
      BY DEF Entry, Actors
    <3> QED
      BY <2>1, <3>1, GrowChannel
  <2>3. ch' = [ch EXCEPT ![k] = d]
    BY <1>2 DEF Deliver
  <2>4. ChannelsOK'
    BY <1>0, <2>2, <2>3 DEF ChannelsOK
  <2>5. StagesOK'
    BY <1>0, <1>2 DEF Deliver, StagesOK, Stages
  <2> QED
    BY <1>2, <2>4, <2>5 DEF Deliver, QueueTypeOK, ChannelsOK, StagesOK, fields, bounds
<1> QED
  BY <1>1, <1>2

\* A new connection.
LEMMA OpenConnectionType ==
    ASSUME QueueTypeOK, OpenConnection
    PROVE  /\ connection' \in 0..MaxConnections
           /\ open' \subseteq ConnectionIds
           /\ made' \in 0..MaxConnections
BY QueueAssumption DEF OpenConnection, QueueTypeOK, ConnectionIds

\* The methods the owner calls.
LEMMA CallKeepsType ==
    ASSUME QueueTypeOK, OwnerCall
    PROVE  QueueTypeOK'
<1>0. ChannelsOK /\ StagesOK
  BY DEF QueueTypeOK, ChannelsOK, StagesOK
<1> USE PointFacts
<1>1. CASE connect
  BY <1>1, OpenConnectionType DEF connect, Goto, QueueTypeOK
<1>2. CASE get
  BY <1>2 DEF get, Goto, QueueTypeOK, fields, broker, bounds
<1>3. CASE declare_queue
  BY <1>3 DEF declare_queue, QueueTypeOK, fields, bounds
<1>4. CASE delete_queue
  <2>1. \A k \in ConnectionIds : [ch[k] EXCEPT !.consumers = {}] \in Channel
    <3> SUFFICES ASSUME NEW k \in ConnectionIds
                 PROVE  [ch[k] EXCEPT !.consumers = {}] \in Channel
      OBVIOUS
    <3>1. ch[k] \in Channel
      BY <1>0 DEF ChannelsOK
    <3>2. ch[k] \in Shape
      BY <3>1, ChannelFacts
    <3>3. [ch[k] EXCEPT !.consumers = {}, !.unacked = ch[k].unacked, !.pending = ch[k].pending]
            \in Channel
      BY <3>1, ShrinkChannel
    <3>4. [ch[k] EXCEPT !.consumers = {}, !.unacked = ch[k].unacked, !.pending = ch[k].pending] =
          [ch[k] EXCEPT !.consumers = {}]
      BY <3>2 DEF Shape
    <3> QED
      BY <3>3, <3>4
  <2>2. ChannelsOK'
    BY <1>4, <2>1 DEF delete_queue, ChannelsOK
  <2>3. StagesOK'
    BY <1>0, <1>4 DEF delete_queue, StagesOK, Stages
  <2>4. deletions' \in 0..MaxDeletions
    BY <1>4, QueueAssumption DEF delete_queue, QueueTypeOK
  <2> QED
    BY <1>4, <2>2, <2>3, <2>4 DEF delete_queue, QueueTypeOK, ChannelsOK, StagesOK, fields
<1>5. CASE consume
  BY <1>5 DEF consume, Goto, QueueTypeOK, fields, broker, bounds
<1>6. CASE stop_consuming
  BY <1>6 DEF stop_consuming, Goto, QueueTypeOK, fields, broker, bounds
<1>7. CASE wait
  BY <1>7 DEF wait, Goto, QueueTypeOK, fields, broker, bounds
<1>8. CASE close
  BY <1>8 DEF close, Goto, QueueTypeOK, fields, broker, bounds
<1>9. CASE SettleHand
  <2>1. ChannelUsable /\ channel \in ConnectionIds
    BY <1>9, UsableChannel DEF SettleHand
  <2>2. \/ Settle(hand[Owner].tag, "acked") /\ processed' = processed \cup {hand[Owner].msg}
        \/ Settle(hand[Owner].tag, "ready") /\ processed' = processed
    BY <1>9 DEF SettleHand
  <2>3. ChannelsOK' /\ StagesOK'
    BY <1>0, <2>1, <2>2, SettleType
  <2>4. hand[Owner] \in Delivery
    BY <1>9 DEF SettleHand, QueueTypeOK
  <2>5. processed' \subseteq Messages
    BY <2>2, <2>4 DEF Delivery, QueueTypeOK
  <2>6. hand' \in [Actors -> Delivery \cup {NoDelivery}]
    BY <1>9 DEF SettleHand, QueueTypeOK
  <2>7. strays' \in 0..MaxStrays
    BY <1>9, QueueAssumption DEF SettleHand, QueueTypeOK
  <2> QED
    BY <1>9, <2>3, <2>5, <2>6, <2>7 DEF SettleHand, QueueTypeOK, ChannelsOK, StagesOK, fields
<1>10. ASSUME NEW m \in Messages, publish(m)
       PROVE  QueueTypeOK'
  BY <1>10 DEF publish, QueueTypeOK, Stages, fields, bounds
<1> QED
  BY <1>1, <1>2, <1>3, <1>4, <1>5, <1>6, <1>7, <1>8, <1>9, <1>10 DEF OwnerCall

\* stop_consuming, in the owner or at the end of a loop.
LEMMA StopKeepsType ==
    ASSUME QueueTypeOK, NEW p \in Actors, StopStep(p)
    PROVE  QueueTypeOK'
<1>0. ChannelsOK /\ StagesOK
  BY DEF QueueTypeOK, ChannelsOK, StagesOK
<1> USE PointFacts
<1>1. CASE TestActive(p)
  BY <1>1 DEF TestActive, Goto, QueueTypeOK, fields, broker, bounds
<1>2. CASE ClearActive(p)
  BY <1>2 DEF ClearActive, Goto, QueueTypeOK, broker, bounds
<1>3. CASE CancelConsumer(p)
  <2>1. ChannelsOK' /\ StagesOK'
    <3>1. CASE ChannelUsable /\ consumer_tag # None
      <4> DEFINE c == ch[channel]
                 undone == {i \in c.pending : c.log[i].to = consumer_tag}
                 d == [c EXCEPT !.consumers = c.consumers \ {consumer_tag},
                                !.unacked = c.unacked \ undone, !.pending = c.pending \ undone]
      <4>1. channel \in ConnectionIds /\ c \in Channel
        BY <3>1, UsableChannel
      <4>2. d \in Channel
        BY <4>1, ChannelFacts, ShrinkChannel
      <4>3. ch' = [ch EXCEPT ![channel] = d] /\ PutBack(channel, undone)
        <5>1. c \in Shape
          BY <4>1, ChannelFacts
        <5>2. [c EXCEPT !.consumers = c.consumers \ {consumer_tag},
                        !.pending = c.pending \ undone, !.unacked = c.unacked \ undone] = d
          BY <5>1 DEF Shape
        <5>3. ch' = [ch EXCEPT ![channel] =
                       [c EXCEPT !.consumers = c.consumers \ {consumer_tag},
                                 !.pending = c.pending \ undone, !.unacked = c.unacked \ undone]]
          BY <1>3, <3>1 DEF CancelConsumer
        <5>4. PutBack(channel, undone)
          BY <1>3, <3>1 DEF CancelConsumer
        <5> QED
          BY <5>2, <5>3, <5>4
      <4> HIDE DEF undone, d
      <4> QED
        BY <1>0, <4>1, <4>2, <4>3, PutBackType DEF ChannelsOK
    <3>2. CASE ~(ChannelUsable /\ consumer_tag # None)
      BY <1>0, <1>3, <3>2 DEF CancelConsumer, ChannelsOK, StagesOK
    <3> QED
      BY <3>1, <3>2
  <2>2. consumer_tag' \in Threads \cup {None}
    BY <1>3 DEF CancelConsumer, QueueTypeOK
  <2>3. at' \in [Actors -> Points]
    BY <1>3 DEF CancelConsumer, Goto, QueueTypeOK
  <2>4. UNCHANGED <<active, connection, channel, consume_thread, hand, joining, closing,
                    open, declared, processed, bounds>>
    BY <1>3 DEF CancelConsumer
  <2> QED
    BY <2>1, <2>2, <2>3, <2>4 DEF QueueTypeOK, ChannelsOK, StagesOK, bounds
<1>4. CASE BeginJoin(p)
  BY <1>4 DEF BeginJoin, Goto, QueueTypeOK, fields, broker, bounds
<1>5. CASE EndJoin(p)
  BY <1>5 DEF EndJoin, Goto, QueueTypeOK, broker, bounds
<1> QED
  BY <1>1, <1>2, <1>3, <1>4, <1>5 DEF StopStep

\* The owner fetches a message.
LEMMA FetchKeepsType ==
    ASSUME QueueTypeOK, NEW m \in Messages, FetchAcked(m) \/ Fetch(m)
    PROVE  QueueTypeOK'
<1> DEFINE c == ch[channel]
           e == [msg |-> m, to |-> Owner]
           l == Append(c.log, e)
           tag == Len(c.log) + 1
<1>0. ChannelsOK /\ StagesOK
  BY DEF QueueTypeOK, ChannelsOK, StagesOK
<1>1. channel \in ConnectionIds /\ c \in Channel
  BY UsableChannel DEF FetchAcked, Fetch, CanFetch
<1>2. c \in Shape /\ c.log \in Seq(Entry)
  BY <1>1, ChannelFacts
<1>3. e \in Entry
  BY DEF Entry, Actors
<1>4. at' \in [Actors -> Points]
  BY PointFacts DEF FetchAcked, Fetch, Goto, QueueTypeOK
<1>5. StagesOK'
  BY <1>0 DEF FetchAcked, Fetch, StagesOK, Stages
<1>6. CASE FetchAcked(m)
  <2>1. [c EXCEPT !.log = l, !.unacked = c.unacked, !.pending = c.pending] \in Channel
    BY <1>1, <1>3, GrowChannel
  <2>2. [c EXCEPT !.log = l, !.unacked = c.unacked, !.pending = c.pending] = [c EXCEPT !.log = l]
    BY <1>2 DEF Shape
  <2>3. ch' = [ch EXCEPT ![channel] = [c EXCEPT !.log = l]]
    BY <1>6 DEF FetchAcked
  <2>4. ChannelsOK'
    BY <1>0, <1>1, <2>1, <2>2, <2>3 DEF ChannelsOK
  <2> QED
    BY <1>4, <1>5, <1>6, <2>4 DEF FetchAcked, QueueTypeOK, ChannelsOK, StagesOK, fields, bounds
<1>7. CASE Fetch(m)
  <2> DEFINE d == [c EXCEPT !.log = l, !.unacked = c.unacked \cup {tag}]
  <2>1. [c EXCEPT !.log = l, !.unacked = c.unacked \cup {tag}, !.pending = c.pending] \in Channel
    BY <1>1, <1>3, GrowChannel
  <2>2. [c EXCEPT !.log = l, !.unacked = c.unacked \cup {tag}, !.pending = c.pending] = d
    BY <1>2 DEF Shape
  <2>3. /\ ch' = [ch EXCEPT ![channel] = d]
        /\ hand' = [hand EXCEPT ![Owner] = [msg |-> m, tag |-> tag, from |-> channel]]
    BY <1>7 DEF Fetch
  <2>4. ChannelsOK'
    BY <1>0, <1>1, <2>1, <2>2, <2>3 DEF ChannelsOK
  <2>5. hand' \in [Actors -> Delivery \cup {NoDelivery}]
    <3>1. tag \in Nat \ {0}
      BY <1>2
    <3> HIDE DEF tag
    <3>2. [msg |-> m, tag |-> tag, from |-> channel] \in Delivery
      BY <1>1, <3>1 DEF Delivery
    <3> QED
      BY <2>3, <3>2 DEF QueueTypeOK
  <2> QED
    BY <1>4, <1>5, <1>7, <2>4, <2>5 DEF Fetch, QueueTypeOK, ChannelsOK, StagesOK, fields, bounds
<1> QED
  BY <1>6, <1>7

\* The owner goes on with a method.
LEMMA OwnerKeepsType ==
    ASSUME QueueTypeOK, OwnerStep
    PROVE  QueueTypeOK'
<1>0. ChannelsOK /\ StagesOK
  BY DEF QueueTypeOK, ChannelsOK, StagesOK
<1> USE PointFacts
<1>1. CASE SetActive
  BY <1>1 DEF SetActive, Goto, QueueTypeOK, broker, bounds
<1>2. ASSUME NEW t \in Threads, Spawn(t)
      PROVE  QueueTypeOK'
  BY <1>2 DEF Spawn, QueueTypeOK, broker, bounds
<1>3. CASE StopStep(Owner)
  BY <1>3, StopKeepsType
<1>4. CASE EndWait
  BY <1>4 DEF EndWait, Goto, QueueTypeOK, fields, broker, bounds
<1>5. CASE OpenChannel
  <2>1. ChannelsOK'
    BY <1>0, <1>5, NewChannels DEF OpenChannel, ChannelsOK
  <2> QED
    BY <1>5, <2>1 DEF OpenChannel, Goto, QueueTypeOK, ChannelsOK, bounds
<1>6. CASE ConnectFails
  <2>1. faults' \in 0..MaxFaults
    BY <1>6, QueueAssumption DEF ConnectFails, QueueTypeOK
  <2> QED
    BY <1>6, <2>1 DEF ConnectFails, Goto, QueueTypeOK, fields, broker
<1>7. CASE ConsumeConnects
  BY <1>7, OpenConnectionType DEF ConsumeConnects, Goto, QueueTypeOK
<1>8. CASE FetchNothing
  BY <1>8 DEF FetchNothing, Goto, QueueTypeOK, fields, broker, bounds
<1>9. CASE GetRaises
  <2>1. ChannelsOK' /\ StagesOK'
    BY <1>0, <1>9, CloseChannelType DEF GetRaises
  <2> QED
    BY <1>9, <2>1 DEF GetRaises, Goto, QueueTypeOK, ChannelsOK, StagesOK, fields, bounds
<1>10. CASE Hangup
  <2>1. ChannelsOK' /\ StagesOK'
    BY <1>0, <1>10, CloseChannelType DEF Hangup, ChannelsOK, StagesOK
  <2> QED
    BY <1>10, <2>1 DEF Hangup, Goto, QueueTypeOK, ChannelsOK, StagesOK, fields, bounds
<1>11. CASE Disconnect
  <2>1. ChannelsOK' /\ StagesOK'
    BY <1>0, <1>11, CloseChannelType DEF Disconnect
  <2> QED
    BY <1>11, <2>1 DEF Disconnect, Goto, QueueTypeOK, ChannelsOK, StagesOK, fields, bounds
<1>12. CASE ForgetConnection \/ ForgetChannel
  BY <1>12, QueueAssumption
     DEF ForgetConnection, ForgetChannel, Goto, QueueTypeOK, broker, bounds
<1> QED
  BY <1>1, <1>2, <1>3, <1>4, <1>5, <1>6, <1>7, <1>8, <1>9, <1>10, <1>11, <1>12, FetchKeepsType
     DEF OwnerStep

\* A thread in message_handler has a delivery in hand.
HandlerInv == \A t \in Threads : at[t] \in HandlerPoints => hand[t] \in Delivery

\* The consumer threads.
LEMMA ThreadKeepsType ==
    ASSUME QueueTypeOK, HandlerInv, NEW t \in Threads, ThreadStep(t)
    PROVE  QueueTypeOK'
<1>0. ChannelsOK /\ StagesOK
  BY DEF QueueTypeOK, ChannelsOK, StagesOK
<1> USE PointFacts
<1>1. CASE Subscribe(t)
  <2> DEFINE c == ch[channel]
             d == [c EXCEPT !.consumers = c.consumers \cup {t}]
  <2>1. channel \in ConnectionIds /\ c \in Channel
    BY <1>1, UsableChannel DEF Subscribe
  <2>2. c \in Shape /\ c.consumers \cup {t} \in SUBSET Threads
    BY <2>1, ChannelFacts
  <2>3. [c EXCEPT !.consumers = c.consumers \cup {t}, !.unacked = c.unacked, !.pending = c.pending]
          \in Channel
    BY <2>1, <2>2, ShrinkChannel
  <2>4. [c EXCEPT !.consumers = c.consumers \cup {t}, !.unacked = c.unacked, !.pending = c.pending]
          = d
    BY <2>2 DEF Shape
  <2>5. ch' = [ch EXCEPT ![channel] = d]
    BY <1>1 DEF Subscribe
  <2>6. ChannelsOK'
    BY <1>0, <2>1, <2>3, <2>4, <2>5 DEF ChannelsOK
  <2>7. at' \in [Actors -> Points]
    BY <1>1 DEF Subscribe, Goto, QueueTypeOK
  <2> QED
    BY <1>1, <2>6, <2>7 DEF Subscribe, QueueTypeOK, ChannelsOK, bounds
<1>2. CASE SubscribeRaises(t)
  <2>1. ChannelsOK' /\ StagesOK'
    BY <1>0, <1>2, UsableChannel, CloseChannelType DEF SubscribeRaises
  <2> QED
    BY <1>2, <2>1 DEF SubscribeRaises, Goto, QueueTypeOK, ChannelsOK, StagesOK, fields, bounds
<1>3. CASE CheckActive(t)
  BY <1>3 DEF CheckActive, Goto, QueueTypeOK, fields, broker, bounds
<1>4. CASE LoopCrashes(t)
  BY <1>4 DEF LoopCrashes, Goto, QueueTypeOK, fields, broker, bounds
<1>5. CASE PollNothing(t)
  BY <1>5 DEF PollNothing, Goto, QueueTypeOK, fields, broker, bounds
<1>6. CASE DispatchMessage(t)
  <2>1. connection \in ConnectionIds
    BY <1>6 DEF DispatchMessage, AlreadyConnected, QueueTypeOK
  <2> DEFINE c == ch[connection]
  <2>2. c \in Channel /\ c \in Shape
    BY <1>0, <2>1, ChannelFacts DEF ChannelsOK
  <2>3. PICK tag \in c.pending :
          /\ hand' = [hand EXCEPT ![t] = [msg |-> c.log[tag].msg, tag |-> tag, from |-> connection]]
          /\ ch' = [ch EXCEPT ![connection].pending = @ \ {tag}]
    BY <1>6 DEF DispatchMessage
  <2>4. tag \in 1..Len(c.log) /\ c.log[tag] \in Entry /\ c.log \in Seq(Entry)
    BY <2>2, ChannelFacts
  <2>5. [msg |-> c.log[tag].msg, tag |-> tag, from |-> connection] \in Delivery
    BY <2>1, <2>4 DEF Delivery, Entry
  <2>6. [c EXCEPT !.pending = c.pending \ {tag}] \in Channel
    <3>1. [c EXCEPT !.consumers = c.consumers, !.unacked = c.unacked,
                    !.pending = c.pending \ {tag}] \in Channel
      BY <2>2, ChannelFacts, ShrinkChannel
    <3>2. [c EXCEPT !.consumers = c.consumers, !.unacked = c.unacked,
                    !.pending = c.pending \ {tag}] = [c EXCEPT !.pending = c.pending \ {tag}]
      BY <2>2 DEF Shape
    <3> QED
      BY <3>1, <3>2
  <2>7. ChannelsOK'
    BY <1>0, <2>1, <2>3, <2>6 DEF ChannelsOK
  <2>8. hand' \in [Actors -> Delivery \cup {NoDelivery}]
    BY <2>3, <2>5 DEF QueueTypeOK
  <2>9. at' \in [Actors -> Points]
    BY <1>6 DEF DispatchMessage, Goto, QueueTypeOK
  <2> QED
    BY <1>6, <2>7, <2>8, <2>9 DEF DispatchMessage, QueueTypeOK, ChannelsOK, fields, bounds
<1>7. CASE CallbackReturns(t)
  <2>1. at' \in [Actors -> Points]
    BY <1>7 DEF CallbackReturns, Goto, QueueTypeOK
  <2>2. hand[t] \in Delivery
    BY <1>7 DEF CallbackReturns, HandlerInv, HandlerPoints
  <2>3. processed' \subseteq Messages
    BY <1>7, <2>2 DEF CallbackReturns, QueueTypeOK, Delivery
  <2> QED
    BY <1>7, <2>1, <2>3 DEF CallbackReturns, QueueTypeOK, fields, broker, bounds
<1>8. CASE CallbackRaises(t)
  BY <1>8 DEF CallbackRaises, Goto, QueueTypeOK, fields, broker, bounds
<1>9. ASSUME NEW point \in {"ack", "nack"}, NEW where \in {"acked", "ready"},
             AckOrNack(t, point, where)
      PROVE  QueueTypeOK'
  <2>1. ChannelsOK' /\ StagesOK'
    BY <1>0, <1>9, UsableChannel, SettleType DEF AckOrNack
  <2>2. at' \in [Actors -> Points] /\ hand' \in [Actors -> Delivery \cup {NoDelivery}]
    BY <1>9 DEF AckOrNack, HandlerReturns, Goto, QueueTypeOK
  <2> QED
    BY <1>9, <2>1, <2>2 DEF AckOrNack, QueueTypeOK, ChannelsOK, StagesOK, fields, bounds
<1>10. CASE AckRaises(t)
  <2>1. at' \in [Actors -> Points] /\ hand' \in [Actors -> Delivery \cup {NoDelivery}]
    BY <1>10 DEF AckRaises, Goto, QueueTypeOK
  <2> QED
    BY <1>10, <2>1 DEF AckRaises, QueueTypeOK, fields, broker, bounds
<1>11. CASE StopStep(t)
  BY <1>11, StopKeepsType
<1> QED
  BY <1>1, <1>2, <1>3, <1>4, <1>5, <1>6, <1>7, <1>8, <1>9, <1>10, <1>11
     DEF ThreadStep, LoopStep, ack, nack

LEMMA StutterKeepsType ==
    QueueTypeOK /\ UNCHANGED queueVars => QueueTypeOK'
BY DEF QueueTypeOK, queueVars, fields, broker, bounds

\* Every step keeps HandlerInv: only DispatchMessage goes from outside into
\* message_handler, and a delivery is put down on the way out.
LEMMA HandlerStep ==
    ASSUME QueueTypeOK, HandlerInv, [QueueNext]_queueVars
    PROVE  HandlerInv'
<1>0. /\ at \in [Actors -> Points] /\ hand \in [Actors -> Delivery \cup {NoDelivery}]
      /\ Owner \notin Threads /\ Owner \in Actors /\ Threads \subseteq Actors
  BY QueueAssumption DEF QueueTypeOK, Actors
<1>1. CASE UNCHANGED queueVars
  BY <1>1 DEF HandlerInv, queueVars
<1>2. ASSUME \A t \in Threads :
                 \/ at'[t] = at[t] /\ hand'[t] = hand[t]
                 \/ at'[t] \notin HandlerPoints
                 \/ at[t] \in HandlerPoints /\ hand'[t] = hand[t]
                 \/ hand'[t] \in Delivery
      PROVE  HandlerInv'
  BY <1>2 DEF HandlerInv
<1>3. CASE OwnerCall
  <2>1. \A t \in Threads : at'[t] = at[t] /\ hand'[t] = hand[t]
    <3>1. \/ UNCHANGED <<at, hand>>
          \/ \E point \in Points : Goto(Owner, point) /\ hand' = hand
          \/ \E d : hand' = [hand EXCEPT ![Owner] = d] /\ at' = at
      BY <1>3, PointFacts
         DEF OwnerCall, connect, declare_queue, delete_queue, consume, stop_consuming,
             wait, close, SettleHand, publish, get
    <3> QED
      BY <1>0, <3>1 DEF Goto
  <2> QED
    BY <1>2, <2>1
<1>4. ASSUME NEW p \in Actors, StopStep(p)
      PROVE  HandlerInv'
  <2>1. hand' = hand /\ \E point \in Points \ HandlerPoints : Goto(p, point)
    <3>1. /\ {"clear", "cancel", "join", "joining", "dead", "idle"} \subseteq Points \ HandlerPoints
          /\ AfterStop(p) \in Points \ HandlerPoints
      BY PointFacts DEF HandlerPoints, AfterStop
    <3> QED
      BY <1>4, <3>1
         DEF StopStep, TestActive, ClearActive, CancelConsumer, BeginJoin, EndJoin
  <2> QED
    BY <1>0, <1>2, <2>1 DEF Goto
<1>5. CASE OwnerStep
  <2>1. CASE StopStep(Owner)
    BY <1>0, <1>4, <2>1
  <2>2. CASE SetActive \/ EndWait
    BY <1>0, <1>2, <2>2 DEF SetActive, EndWait, Goto
  <2>3. ASSUME NEW t \in Threads, Spawn(t)
        PROVE  HandlerInv'
    BY <1>0, <1>2, <2>3 DEF Spawn, HandlerPoints
  <2>4. CASE \/ OpenChannel \/ ConnectFails \/ ConsumeConnects \/ FetchNothing \/ GetRaises
             \/ Hangup \/ Disconnect \/ ForgetConnection \/ ForgetChannel
    <3>1. hand' = hand /\ \E point \in Points : Goto(Owner, point)
      BY <2>4, PointFacts
         DEF OpenChannel, ConnectFails, ConsumeConnects, FetchNothing, GetRaises,
             Hangup, Disconnect, ForgetConnection, ForgetChannel
    <3> QED
      BY <1>0, <1>2, <3>1 DEF Goto
  <2>5. ASSUME NEW m \in Messages, FetchAcked(m) \/ Fetch(m)
        PROVE  HandlerInv'
    <3>1. \A t \in Threads : at'[t] = at[t] /\ hand'[t] = hand[t]
      BY <1>0, <2>5 DEF FetchAcked, Fetch, Goto
    <3> QED
      BY <1>2, <3>1
  <2> QED
    BY <1>5, <2>1, <2>2, <2>3, <2>4, <2>5 DEF OwnerStep
<1>6. ASSUME NEW t \in Threads, ThreadStep(t)
      PROVE  HandlerInv'
  <2>1. CASE Subscribe(t) \/ SubscribeRaises(t) \/ CheckActive(t) \/ LoopCrashes(t)
             \/ PollNothing(t)
    <3>1. hand' = hand /\ \E point \in {"loop", "test", "poll"} : Goto(t, point)
      BY <2>1 DEF Subscribe, SubscribeRaises, CheckActive, LoopCrashes, PollNothing
    <3> QED
      BY <1>0, <1>2, <3>1 DEF Goto, HandlerPoints
  <2>2. CASE DispatchMessage(t)
    <3>1. hand' \in [Actors -> Delivery \cup {NoDelivery}]
      BY <2>2, ThreadKeepsType DEF ThreadStep, LoopStep, QueueTypeOK
    <3>2. PICK tag \in ch[connection].pending :
            hand' = [hand EXCEPT ![t] = [msg |-> ch[connection].log[tag].msg,
                                         tag |-> tag, from |-> connection]]
      BY <2>2 DEF DispatchMessage
    <3>3. connection \in ConnectionIds /\ ch[connection] \in Channel
      BY <2>2 DEF DispatchMessage, AlreadyConnected, QueueTypeOK
    <3>4. tag \in 1..Len(ch[connection].log) /\ ch[connection].log[tag] \in Entry
          /\ ch[connection].log \in Seq(Entry)
      BY <3>3, ChannelFacts
    <3>5. [msg |-> ch[connection].log[tag].msg, tag |-> tag, from |-> connection] \in Delivery
      BY <3>3, <3>4 DEF Delivery, Entry
    <3>6. \A u \in Threads : u # t => at'[u] = at[u] /\ hand'[u] = hand[u]
      BY <1>0, <2>2, <3>2 DEF DispatchMessage, Goto
    <3>7. hand'[t] \in Delivery
      BY <1>0, <3>2, <3>5
    <3> QED
      BY <1>2, <3>6, <3>7
  <2>3. CASE CallbackReturns(t) \/ CallbackRaises(t)
    BY <1>0, <1>2, <2>3 DEF CallbackReturns, CallbackRaises, Goto, HandlerPoints
  <2>4. ASSUME NEW point, NEW where, AckOrNack(t, point, where)
        PROVE  HandlerInv'
    <3>1. /\ \E p \in {"poll", "loop"} : Goto(t, p)
          /\ hand' = [hand EXCEPT ![t] = NoDelivery]
      BY <2>4 DEF AckOrNack, HandlerReturns
    <3> QED
      BY <1>0, <1>2, <3>1 DEF Goto, HandlerPoints
  <2>5. CASE AckRaises(t)
    BY <1>0, <1>2, <2>5 DEF AckRaises, Goto, HandlerPoints
  <2>6. CASE StopStep(t)
    BY <1>0, <1>4, <2>6
  <2> QED
    BY <1>6, <2>1, <2>2, <2>3, <2>4, <2>5, <2>6 DEF ThreadStep, LoopStep, ack, nack
<1>7. CASE \/ \E k \in ConnectionIds : LoseConnection(k)
           \/ \E k \in ConnectionIds, t \in Threads, m \in Messages : Deliver(k, t, m)
  BY <1>2, <1>7, ZenonT(60) DEF LoseConnection, Deliver
<1> QED
  BY <1>1, <1>3, <1>5, <1>6, <1>7 DEF QueueNext

\* The fields of the object, the threads and the broker keep their types: for any
\* number of threads and messages, and any faults, no step sees a missing delivery
\* or a delivery tag that is not in the log of its channel.
THEOREM QueueTypeCorrect == QueueSpec => []QueueTypeOK
<1>1. QueueInit => QueueTypeOK /\ HandlerInv
  <2>1. QueueInit => HandlerInv
    BY QueueAssumption DEF QueueInit, HandlerInv, HandlerPoints, Actors
  <2> QED
    BY <2>1, InitHasType
<1>2. QueueTypeOK /\ HandlerInv /\ [QueueNext]_queueVars => QueueTypeOK' /\ HandlerInv'
  BY HandlerStep, StutterKeepsType, BrokerKeepsType, CallKeepsType, OwnerKeepsType,
     ThreadKeepsType DEF QueueNext
<1> QED
  BY <1>1, <1>2, PTL DEF QueueSpec

-----------------------------------------------------------------------------
(* While the Event is set, a consumer runs *)

\* Not only is a thread alive, it is one that will test the Event before it ends:
\* whoever goes on to cancel and join has cleared the Event himself.
Undecided(p) == at[p] \notin {"unborn", "dead", "cancel", "join", "joining"}

EventInv == active => at[Owner] = "spawn" \/ \E t \in Threads : Undecided(t)

LEMMA EventStep ==
    ASSUME QueueTypeOK, EventInv, [QueueNext]_queueVars
    PROVE  EventInv'
<1>0. /\ at \in [Actors -> Points]
      /\ Owner \notin Threads /\ Owner \in Actors /\ Threads \subseteq Actors
  BY QueueAssumption DEF QueueTypeOK, Actors
<1>1. ASSUME active' => active,
             at[Owner] = "spawn" => at'[Owner] = "spawn",
             \A t \in Threads : Undecided(t) => Undecided(t)'
      PROVE  EventInv'
  BY <1>1 DEF EventInv
<1>2. CASE UNCHANGED queueVars
  BY <1>2 DEF EventInv, Undecided, queueVars, fields
<1>3. CASE OwnerCall
  <2>1. active' = active
    BY <1>3
       DEF OwnerCall, connect, declare_queue, delete_queue, consume, stop_consuming,
           wait, close, SettleHand, publish, get, fields
  <2>2. at' = at \/ (at[Owner] = "idle" /\ \E point : Goto(Owner, point))
    BY <1>3
       DEF OwnerCall, connect, declare_queue, delete_queue, consume, stop_consuming,
           wait, close, SettleHand, publish, get
  <2> QED
    BY <1>0, <1>1, <2>1, <2>2 DEF Goto, Undecided
<1>4. ASSUME NEW p \in Actors, StopStep(p)
      PROVE  EventInv'
  <2>1. CASE TestActive(p)
    <3>1. CASE active
      BY <1>0, <1>1, <2>1, <3>1 DEF TestActive, Goto, Undecided, fields
    <3>2. CASE ~active
      BY <2>1, <3>2 DEF TestActive, fields, EventInv
    <3> QED
      BY <3>1, <3>2
  <2>2. CASE ClearActive(p)
    BY <2>2 DEF ClearActive, EventInv
  <2>3. CASE CancelConsumer(p) \/ BeginJoin(p) \/ EndJoin(p)
    <3>1. /\ active' = active /\ at[p] \in {"cancel", "join", "joining"}
          /\ \A q \in Actors : q # p => at'[q] = at[q]
      BY <1>0, <2>3 DEF CancelConsumer, BeginJoin, EndJoin, Goto, fields
    <3> QED
      BY <1>0, <1>1, <3>1 DEF Undecided
  <2> QED
    BY <1>4, <2>1, <2>2, <2>3 DEF StopStep
<1>5. CASE OwnerStep
  <2>1. CASE SetActive
    BY <1>0, <2>1 DEF SetActive, Goto, EventInv
  <2>2. ASSUME NEW t \in Threads, Spawn(t)
        PROVE  EventInv'
    BY <1>0, <2>2 DEF Spawn, EventInv, Undecided
  <2>3. CASE StopStep(Owner)
    BY <1>0, <1>4, <2>3
  <2>4. CASE \/ OpenChannel \/ ConnectFails \/ ConsumeConnects \/ FetchNothing \/ GetRaises
             \/ EndWait \/ Hangup \/ Disconnect \/ ForgetConnection \/ ForgetChannel
             \/ \E m \in Messages : FetchAcked(m) \/ Fetch(m)
    <3>1. active' = active /\ at[Owner] # "spawn" /\ \E point : Goto(Owner, point)
      BY <2>4
         DEF OpenChannel, ConnectFails, ConsumeConnects, FetchNothing, GetRaises, EndWait,
             Hangup, Disconnect, ForgetConnection, ForgetChannel, FetchAcked, Fetch, CanFetch,
             Getting, ConnectPoints, fields
    <3> QED
      BY <1>0, <1>1, <3>1 DEF Goto, Undecided
  <2> QED
    BY <1>5, <2>1, <2>2, <2>3, <2>4 DEF OwnerStep
<1>6. ASSUME NEW t \in Threads, ThreadStep(t)
      PROVE  EventInv'
  <2>1. CASE StopStep(t)
    BY <1>0, <1>4, <2>1
  <2>2. CASE ~StopStep(t)
    <3>1. active' = active /\ \E point \in ConsumerPoints \cup {"test"} : Goto(t, point)
      BY <1>6, <2>2
         DEF ThreadStep, LoopStep, Subscribe, SubscribeRaises, CheckActive, LoopCrashes, PollNothing,
             DispatchMessage, CallbackReturns, CallbackRaises, ack, nack, AckOrNack,
             HandlerReturns, AckRaises, ConsumerPoints, HandlerPoints, fields
    <3> QED
      BY <1>0, <1>1, <3>1 DEF Goto, Undecided, ConsumerPoints, HandlerPoints
  <2> QED
    BY <2>1, <2>2
<1>7. CASE \/ \E k \in ConnectionIds : LoseConnection(k)
           \/ \E k \in ConnectionIds, t \in Threads, m \in Messages : Deliver(k, t, m)
  BY <1>1, <1>7, ZenonT(60) DEF LoseConnection, Deliver, Undecided, fields
<1> QED
  BY <1>2, <1>3, <1>5, <1>6, <1>7 DEF QueueNext

\* "Consumer is already running" is never a lie: for any number of threads, slow
\* callbacks, lost connections, failing connects and a deleted queue, a set Event
\* means that a thread runs or is about to be started.
THEOREM EventIsTrue == QueueSpec => []ActiveHasThread
<1>1. QueueInit => EventInv
  BY DEF QueueInit, EventInv
<1>2. QueueTypeOK /\ EventInv /\ [QueueNext]_queueVars => EventInv'
  BY EventStep
<1>3. EventInv => ActiveHasThread
  BY DEF EventInv, ActiveHasThread, Undecided, Alive
<1> QED
  BY <1>1, <1>2, <1>3, QueueTypeCorrect, PTL DEF QueueSpec

=============================================================================
