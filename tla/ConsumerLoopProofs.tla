------------------------- MODULE ConsumerLoopProofs --------------------------
(***************************************************************************)
(* What holds of an object whose queue is left alone, and whose owner      *)
(* settles only what the present channel gave it, while no connection is   *)
(* lost and callbacks are quicker than the join: for any number of         *)
(* threads, messages and reconnections, there is one consumer loop, it     *)
(* has its subscription, it settles its own deliveries, and the adapter    *)
(* keeps the promises of MessageQueue.                                     *)
(***************************************************************************)
EXTENDS RabbitMQQueueProofs

\* The circumstances; queue and owner are the concern of Undisturbed.
Steady == MaxFaults = 0 /\ ~SlowCallbacks

-----------------------------------------------------------------------------
(* The inductive invariant *)

\* The points of the owner at which no thread runs, those in the middle of close, and
\* those from which a channel, or the queue, is used.
HungPoints   == HangupPoints \ {"hangup"}
Threadless   == ConnectPoints \cup ConsumePoints \cup HangupPoints
GetPoints    == {"getting", "getting_for_ever"}
NeedsChannel == {"set", "spawn"} \cup GetPoints
NeedsQueue   == ConsumePoints \cup GetPoints

\* A thread that is alive is the one stop_consuming will join, and it ends only when
\* the Event is cleared; only the owner, on its way to the join, sees it end.
OneThread ==
    \A t \in Threads :
        /\ Alive(t) => /\ consume_thread = t
                       /\ at[t] \in ConsumerPoints \cup {"test"}
                       /\ at[Owner] \notin Threadless
                       /\ at[Owner] = "joining" => joining[Owner] = t
                       /\ active \/ at[Owner] \in {"cancel", "join", "joining"}
        /\ at[t] = "test" => ~active

\* Nobody but the owner sets and clears the Event.
OwnerTurn ==
    /\ at[Owner] \in {"connect", "consume_channel", "set", "cancel", "join", "joining"} => ~active
    /\ at[Owner] = "spawn" => active

\* The channel is the open one of the open connection, but between the steps of connect
\* and those of close; a thread and a get have one, and a queue.
Connected ==
    /\ at[Owner] \notin ConnectPoints \cup {"forget_channel"} => channel = connection
    /\ at[Owner] \in ConnectPoints => channel = 0 /\ connection \in open
    /\ at[Owner] = "forget_channel" => connection = 0
    /\ at[Owner] \notin HungPoints /\ channel # 0 => ch[channel].open /\ connection \in open
    /\ at[Owner] \in NeedsChannel \/ (\E t \in Threads : Alive(t)) => channel # 0
    /\ at[Owner] \in NeedsQueue \/ (\E t \in Threads : Alive(t)) => declared

\* What the owner has fetched is not of a channel still to be opened.
Numbered ==
    /\ {connection, channel, hand[Owner].from} \subseteq 0..made
    /\ at[Owner] \in ConnectPoints => hand[Owner].from # connection

\* The loop is subscribed until the owner cancels it.
Subscribed ==
    \A t \in Threads :
        active /\ at[t] \in ConsumerPoints \ {"subscribe"} =>
            consumer_tag = t /\ t \in ch[channel].consumers

\* A thread in message_handler has a delivery in hand, and so has the owner after a get
\* on the present channel.
InHand(p) ==
    IF p = Owner THEN ChannelUsable /\ hand[p].from = channel ELSE at[p] \in HandlerPoints

\* What p has in hand is a delivery of the present channel, dispatched and not
\* settled, and addressed to p if p is the owner.
Holds(p) ==
    /\ channel # 0
    /\ hand[p].from = channel
    /\ hand[p].tag \in ch[channel].unacked \ ch[channel].pending
    /\ ch[channel].log[hand[p].tag].msg = hand[p].msg
    /\ ch[channel].log[hand[p].tag].to = Owner <=> p = Owner

\* The delivery tags of the present channel.
Tags ==
    /\ channel # 0 =>
          \A i \in ch[channel].pending :
              i \in ch[channel].unacked /\ ch[channel].log[i].to # Owner
    /\ \A p \in Actors : InHand(p) => Holds(p)

LoopInv == OneThread /\ OwnerTurn /\ Connected /\ Numbered /\ Subscribed /\ Tags

\* What is delivered has been published.
Published ==
    channel # 0 =>
        \A i \in ch[channel].unacked : stage[ch[channel].log[i].msg] # "new"

\* Only processed messages are acknowledged, or about to be.
Acking ==
    /\ \A t \in Threads : at[t] = "ack" => hand[t].msg \in processed
    /\ \A m \in Messages : stage[m] = "acked" => m \in processed

CalmInv == Undisturbed => LoopInv /\ Published /\ Acking

-----------------------------------------------------------------------------
(* The threads *)

\* The sets the threads and the fields are taken from.
LEMMA ThreadFacts ==
    ASSUME QueueTypeOK
    PROVE  /\ at \in [Actors -> Points] /\ joining \in [Actors -> Threads \cup {None}]
           /\ hand \in [Actors -> Delivery \cup {NoDelivery}]
           /\ Owner \notin Threads /\ Owner \in Actors /\ Threads \subseteq Actors
           /\ None \notin Threads
           /\ {consumer_tag, consume_thread} \subseteq Threads \cup {None}
           /\ ch \in [ConnectionIds -> Channel]
           /\ channel # 0 => channel \in ConnectionIds /\ ch[channel] \in Channel
BY QueueAssumption DEF QueueTypeOK, Actors, ConnectionIds

\* The points are distinct.
LEMMA PointSets ==
    /\ Threadless \cap (StopPoints \cup GetPoints \cup {"idle", "waiting", "waiting_for_ever"}) = {}
    /\ (ConnectPoints \cup HungPoints) \subseteq Threadless
    /\ {"channel", "consume_channel"} = ConnectPoints
    /\ {"disconnect", "forget_connection", "forget_channel"} = HungPoints
BY DEF Threadless, StopPoints, GetPoints, ConnectPoints, ConsumePoints, HangupPoints, HungPoints

\* No thread crashes: it finds a channel and a queue.
LEMMA ThreadsDoNotCrash ==
    ASSUME QueueTypeOK, LoopInv, NEW t \in Threads, Alive(t)
    PROVE  /\ ChannelUsable /\ AlreadyConnected /\ declared /\ channel = connection
           /\ ~SubscribeRaises(t) /\ ~LoopCrashes(t) /\ ~AckRaises(t)
<1>1. at[Owner] \notin ConnectPoints \cup HungPoints
  BY PointSets DEF LoopInv, OneThread
<1>2. ChannelUsable /\ AlreadyConnected /\ declared /\ channel = connection
  BY <1>1, PointSets DEF LoopInv, Connected, ChannelUsable, AlreadyConnected
<1> QED
  BY <1>2 DEF SubscribeRaises, LoopCrashes, AckRaises

\* What a consumer thread does to the control state: it stays in its loop until the
\* Event is cleared, and then ends.
LEMMA ThreadMoves ==
    ASSUME QueueTypeOK, LoopInv, NEW t \in Threads, ThreadStep(t)
    PROVE  /\ Alive(t)
           /\ UNCHANGED <<active, connection, channel, consume_thread, joining, open, declared>>
           /\ \/ \E point \in ConsumerPoints \ {"subscribe"} : Goto(t, point)
              \/ ~active /\ (Goto(t, "test") \/ Goto(t, "dead"))
           /\ ~ClearActive(t) /\ ~CancelConsumer(t) /\ ~BeginJoin(t) /\ ~EndJoin(t)
<1>0. Owner \notin Threads
  BY ThreadFacts
<1>1. Alive(t)
  BY DEF ThreadStep, LoopStep, Subscribe, SubscribeRaises, CheckActive, LoopCrashes, PollNothing,
         DispatchMessage, CallbackReturns, CallbackRaises, ack, nack, AckOrNack, AckRaises,
         StopStep, TestActive, ClearActive, CancelConsumer, BeginJoin, EndJoin, Alive
<1>2. ~SubscribeRaises(t) /\ ~LoopCrashes(t) /\ ~AckRaises(t)
  BY <1>1, ThreadsDoNotCrash
<1>3. at[t] \in ConsumerPoints \cup {"test"} /\ (at[t] = "test" => ~active)
  BY <1>1 DEF LoopInv, OneThread
<1>4. ~ClearActive(t) /\ ~CancelConsumer(t) /\ ~BeginJoin(t) /\ ~EndJoin(t)
  BY <1>3 DEF ClearActive, CancelConsumer, BeginJoin, EndJoin, ConsumerPoints, HandlerPoints
<1>5. CASE TestActive(t)
  BY <1>0, <1>1, <1>3, <1>4, <1>5 DEF TestActive, AfterStop, fields, broker
<1>6. CASE CheckActive(t)
  BY <1>1, <1>4, <1>6 DEF CheckActive, ConsumerPoints, fields, broker
<1>7. CASE \/ Subscribe(t) \/ PollNothing(t) \/ DispatchMessage(t) \/ CallbackReturns(t)
           \/ CallbackRaises(t) \/ ack(t) \/ nack(t)
  <2>1. \E point \in {"loop", "poll", "callback", "ack", "nack"} : Goto(t, point)
    BY <1>7 DEF Subscribe, PollNothing, DispatchMessage, CallbackReturns, CallbackRaises, ack,
                nack, AckOrNack, HandlerReturns
  <2>2. UNCHANGED <<active, connection, channel, consume_thread, joining, open, declared>>
    BY <1>7 DEF Subscribe, PollNothing, DispatchMessage, CallbackReturns, CallbackRaises, ack,
                nack, AckOrNack, fields, broker
  <2> QED
    BY <1>1, <1>4, <2>1, <2>2 DEF ConsumerPoints, HandlerPoints
<1> QED
  BY <1>2, <1>4, <1>5, <1>6, <1>7 DEF ThreadStep, LoopStep, StopStep

\* The owner starts a thread when there is none, and goes on when the thread has ended.
LEMMA ThreadsStayOne ==
    ASSUME Steady, QueueTypeOK, LoopInv, QueueNext
    PROVE  OneThread' /\ OwnerTurn'
<1>0. /\ at \in [Actors -> Points] /\ joining \in [Actors -> Threads \cup {None}]
      /\ Owner \notin Threads /\ Owner \in Actors /\ Threads \subseteq Actors
      /\ None \notin Threads /\ consume_thread \in Threads \cup {None}
      /\ faults = 0 /\ ~(faults < MaxFaults)
  BY ThreadFacts, QueueAssumption DEF QueueTypeOK, Steady
<1> USE <1>0
<1>i. OneThread /\ OwnerTurn
  BY DEF LoopInv
\* Nobody moves.
<1>f. ASSUME UNCHANGED <<active, at, consume_thread, joining>>
      PROVE  OneThread' /\ OwnerTurn'
  BY <1>f, <1>i DEF OneThread, OwnerTurn, Alive
\* Only the owner moves.
<1>o. ASSUME NEW point \in Points, Goto(Owner, point)
      PROVE  at'[Owner] = point /\ \A t \in Threads : at'[t] = at[t] /\ (Alive(t)' <=> Alive(t))
  BY <1>o DEF Goto, Alive
<1> USE PointFacts DEF Threadless, ConnectPoints, ConsumePoints, HangupPoints
<1>1. CASE OwnerCall
  <2>1. CASE connect
    <3>1. Goto(Owner, "channel") /\ UNCHANGED <<active, consume_thread, joining>>
          /\ at[Owner] = "idle" /\ ~AlreadyConnected
      BY <2>1 DEF connect
    <3>2. \A t \in Threads : ~Alive(t)
      BY <3>1, ThreadsDoNotCrash
    <3> QED
      BY <1>i, <1>o, <3>1, <3>2 DEF OneThread, OwnerTurn
  <2>2. CASE consume
    <3>1. Goto(Owner, "connect") /\ UNCHANGED <<active, consume_thread, joining>>
          /\ at[Owner] = "idle" /\ ~active
      BY <2>2 DEF consume, fields
    <3> QED
      BY <1>i, <1>o, <3>1 DEF OneThread, OwnerTurn
  <2>3. CASE stop_consuming \/ close \/ get \/ wait
    <3>1. /\ UNCHANGED <<active, consume_thread>> /\ at[Owner] = "idle"
          /\ \E point \in {"test", "getting", "getting_for_ever", "waiting", "waiting_for_ever"} :
                Goto(Owner, point)
      BY <2>3 DEF stop_consuming, close, get, wait, fields
    <3> QED
      BY <1>i, <1>o, <3>1 DEF OneThread, OwnerTurn
  <2>4. CASE ~connect /\ ~consume /\ ~stop_consuming /\ ~close /\ ~get /\ ~wait
    <3>1. UNCHANGED <<active, at, consume_thread, joining>>
      BY <1>1, <2>4 DEF OwnerCall, declare_queue, delete_queue, SettleHand, publish, fields
    <3> QED
      BY <1>f, <3>1
  <2> QED
    BY <2>1, <2>2, <2>3, <2>4
<1>2. CASE SetActive
  <2>1. Goto(Owner, "spawn") /\ active' = TRUE /\ at[Owner] = "set"
        /\ UNCHANGED <<consume_thread, joining>>
    BY <1>2 DEF SetActive
  <2>2. \A t \in Threads : ~Alive(t)
    BY <1>i, <2>1 DEF OneThread
  <2> QED
    BY <1>i, <1>o, <2>1, <2>2, PointFacts DEF OneThread, OwnerTurn, Alive
<1>3. ASSUME NEW s \in Threads, Spawn(s)
      PROVE  OneThread' /\ OwnerTurn'
  <2>1. /\ at[Owner] = "spawn" /\ consume_thread' = s
        /\ at' = [at EXCEPT ![Owner] = "idle", ![s] = "subscribe"]
        /\ UNCHANGED <<active, joining>>
    BY <1>3 DEF Spawn
  <2>2. active /\ \A t \in Threads : ~Alive(t)
    BY <1>i, <2>1 DEF OneThread, OwnerTurn
  <2> QED
    BY <2>1, <2>2 DEF OneThread, OwnerTurn, Alive, ConsumerPoints
<1>4. CASE TestActive(Owner)
  <2>1. /\ at[Owner] = "test" /\ UNCHANGED <<active, consume_thread, joining>>
        /\ Goto(Owner, IF active THEN "clear" ELSE AfterStop(Owner))
    BY <1>4 DEF TestActive, fields
  <2>2. AfterStop(Owner) \in {"hangup", "idle"}
    BY DEF AfterStop
  <2>3. ~active => \A t \in Threads : ~Alive(t)
    BY <1>i, <2>1 DEF OneThread
  <2> QED
    BY <1>i, <1>o, <2>1, <2>2, <2>3, PointFacts DEF OneThread, OwnerTurn
<1>5. CASE ClearActive(Owner)
  <2>1. Goto(Owner, "cancel") /\ active' = FALSE /\ at[Owner] = "clear"
        /\ UNCHANGED <<consume_thread, joining>>
    BY <1>5 DEF ClearActive
  <2> QED
    BY <1>i, <1>o, <2>1, PointFacts DEF OneThread, OwnerTurn
<1>6. CASE CancelConsumer(Owner)
  <2>1. Goto(Owner, "join") /\ at[Owner] = "cancel" /\ UNCHANGED <<active, consume_thread, joining>>
    BY <1>6 DEF CancelConsumer
  <2> QED
    BY <1>i, <1>o, <2>1, PointFacts DEF OneThread, OwnerTurn
<1>7. CASE BeginJoin(Owner)
  <2>1. at[Owner] = "join" /\ ~active /\ UNCHANGED <<active, consume_thread>>
    BY <1>7, <1>i DEF BeginJoin, fields, OwnerTurn
  <2>2. CASE consume_thread \in Threads /\ Alive(consume_thread)
    <3>1. Goto(Owner, "joining") /\ joining'[Owner] = consume_thread
      BY <1>7, <2>2 DEF BeginJoin
    <3> QED
      BY <1>i, <1>o, <2>1, <3>1, PointFacts DEF OneThread, OwnerTurn
  <2>3. CASE ~(consume_thread \in Threads /\ Alive(consume_thread))
    <3>1. Goto(Owner, AfterStop(Owner)) /\ AfterStop(Owner) \in {"hangup", "idle"}
      BY <1>7, <2>3, QueueAssumption DEF BeginJoin, AfterStop, Actors
    <3>2. \A t \in Threads : ~Alive(t)
      BY <1>i, <2>3 DEF OneThread
    <3> QED
      BY <1>i, <1>o, <2>1, <3>1, <3>2, PointFacts DEF OneThread, OwnerTurn
  <2> QED
    BY <2>2, <2>3
<1>8. CASE EndJoin(Owner)
  <2>1. at[Owner] = "joining" /\ ~active /\ active' = active
    BY <1>8, <1>i DEF EndJoin, OwnerTurn
  <2>2. ~Alive(joining[Owner])
    BY <1>8, <2>1 DEF EndJoin, StillRunning, Steady
  <2>3. \A t \in Threads : ~Alive(t)
    BY <1>i, <2>1, <2>2 DEF OneThread
  <2>4. \E point \in {"hangup", "idle"} : Goto(Owner, point)
    BY <1>8 DEF EndJoin, AfterStop
  <2> QED
    BY <1>i, <1>o, <2>1, <2>3, <2>4, PointFacts DEF OneThread, OwnerTurn
<1>9. CASE \/ EndWait \/ FetchNothing \/ GetRaises \/ ConnectFails
           \/ \E m \in Messages : FetchAcked(m) \/ Fetch(m)
  <2>1. /\ UNCHANGED <<active, consume_thread>>
        /\ Goto(Owner, "idle") \/ (at[Owner] # "joining" /\ Goto(Owner, "getting_for_ever"))
        /\ at[Owner] \in GetPoints \cup ConnectPoints \cup {"waiting", "waiting_for_ever"}
    BY <1>9 DEF EndWait, FetchNothing, GetRaises, ConnectFails, FetchAcked, Fetch, CanFetch,
                Getting, GetPoints, fields
  <2> QED
    BY <1>i, <1>o, <2>1 DEF OneThread, OwnerTurn, GetPoints
<1>13. CASE \/ OpenChannel \/ ConsumeConnects
            \/ Hangup \/ Disconnect \/ ForgetConnection \/ ForgetChannel
  <2>1. /\ UNCHANGED <<active, consume_thread, joining>> /\ at[Owner] \in Threadless
        /\ at[Owner] \in {"channel"} \cup HangupPoints =>
              \E point \in {"idle"} \cup HungPoints : Goto(Owner, point)
        /\ at[Owner] \in {"connect", "consume_channel"} =>
              \E point \in {"idle", "consume_channel", "set"} : Goto(Owner, point)
        /\ at[Owner] \in {"channel", "connect", "consume_channel"} \cup HangupPoints
    BY <1>13 DEF OpenChannel, ConsumeConnects, Hangup, Disconnect, ForgetConnection,
                 ForgetChannel, HungPoints, fields
  <2>2. \A t \in Threads : ~Alive(t)
    BY <1>i, <2>1 DEF OneThread
  <2> QED
    BY <1>i, <1>o, <2>1, <2>2 DEF OneThread, OwnerTurn, HungPoints
<1>10. ASSUME NEW s \in Threads, ThreadStep(s)
       PROVE  OneThread' /\ OwnerTurn'
  <2>1. /\ Alive(s)
        /\ UNCHANGED <<active, consume_thread, joining>>
        /\ \/ \E point \in ConsumerPoints \ {"subscribe"} : Goto(s, point)
           \/ ~active /\ (Goto(s, "test") \/ Goto(s, "dead"))
    BY <1>10, ThreadMoves
  <2>2. PICK point \in ConsumerPoints \cup {"test", "dead"} :
          Goto(s, point) /\ (point = "test" => ~active)
    BY <2>1 DEF ConsumerPoints, HandlerPoints
  <2>3. at'[Owner] = at[Owner] /\ at'[s] = point /\ \A t \in Threads \ {s} : at'[t] = at[t]
    BY <2>2 DEF Goto
  <2> QED
    BY <1>i, <2>1, <2>2, <2>3 DEF OneThread, OwnerTurn, Alive
<1>11. CASE \E k \in ConnectionIds, t \in Threads, m \in Messages : Deliver(k, t, m)
  BY <1>f, <1>11 DEF Deliver, fields
<1>12. ~(\E k \in ConnectionIds : LoseConnection(k))
  BY DEF LoseConnection
<1> QED
  BY <1>1, <1>2, <1>3, <1>4, <1>5, <1>6, <1>7, <1>8, <1>9, <1>10, <1>11, <1>12, <1>13
     DEF QueueNext, OwnerStep, StopStep

-----------------------------------------------------------------------------
(* The channel *)

\* What a step that keeps connection and channel leaves to be shown.
LEMMA ChannelKept ==
    ASSUME QueueTypeOK, LoopInv,
           UNCHANGED <<connection, channel, open, made>>, declared => declared',
           \/ at'[Owner] = at[Owner]
           \/ {at[Owner], at'[Owner]} \cap (ConnectPoints \cup HungPoints) = {},
           at'[Owner] \in NeedsChannel => at[Owner] \in NeedsChannel \/ channel # 0,
           at'[Owner] \in NeedsQueue => at[Owner] \in NeedsQueue \/ declared',
           \A t \in Threads : Alive(t)' => Alive(t) \/ at[Owner] = "spawn",
           hand'[Owner].from \in {0, channel, hand[Owner].from},
           \A t \in Threads :
               active' /\ at'[t] \in ConsumerPoints \ {"subscribe"} =>
                  \/ /\ active /\ at[t] \in ConsumerPoints \ {"subscribe"}
                     /\ consumer_tag' = consumer_tag
                     /\ ch'[channel].consumers = ch[channel].consumers
                  \/ consumer_tag' = t /\ t \in ch'[channel].consumers,
           channel # 0 =>
              LET c == ch[channel]  d == ch'[channel] IN
              /\ d.open = c.open
              /\ \A i \in c.unacked : d.log[i] = c.log[i]
              /\ \A i \in d.pending : i \in d.unacked /\ (i \in c.pending \/ d.log[i].to # Owner)
              /\ \A p \in Actors : InHand(p)' =>
                    \/ InHand(p) /\ hand'[p] = hand[p] /\ hand[p].tag \in d.unacked \ d.pending
                    \/ Holds(p)',
           channel = 0 => \A p \in Actors : InHand(p)' => InHand(p)
    PROVE  Connected' /\ Numbered' /\ Subscribed' /\ Tags'
<1>0. made \in Nat /\ open \subseteq ConnectionIds /\ 0 \notin ConnectionIds
      /\ connection \in Nat /\ channel \in Nat
  BY QueueAssumption DEF QueueTypeOK, ConnectionIds
<1>p. "forget_channel" \in HungPoints /\ "spawn" \in NeedsChannel /\ "spawn" \in NeedsQueue
  BY PointSets DEF NeedsChannel, NeedsQueue, ConsumePoints
<1>q. /\ (at[Owner] \in NeedsChannel \/ \E t \in Threads : Alive(t)) => channel # 0
      /\ (at[Owner] \in NeedsQueue \/ \E t \in Threads : Alive(t)) => declared
  BY DEF LoopInv, Connected
<1>1. Connected'
  <2>1. /\ at'[Owner] \notin ConnectPoints \cup {"forget_channel"} => channel' = connection'
        /\ at'[Owner] \in ConnectPoints => channel' = 0 /\ connection' \in open'
        /\ at'[Owner] = "forget_channel" => connection' = 0
        /\ at'[Owner] \notin HungPoints /\ channel' # 0 => ch'[channel'].open /\ connection' \in open'
    BY <1>p DEF LoopInv, Connected
  <2>2. at'[Owner] \in NeedsChannel \/ (\E t \in Threads : Alive(t)') => channel' # 0
    BY <1>p, <1>q
  <2>3. at'[Owner] \in NeedsQueue \/ (\E t \in Threads : Alive(t)') => declared'
    BY <1>p, <1>q
  <2> QED
    BY <2>1, <2>2, <2>3 DEF Connected
<1>n. Numbered'
  <2>1. {connection', channel', hand'[Owner].from} \subseteq 0..made'
    BY <1>0 DEF LoopInv, Numbered
  <2>2. at'[Owner] \in ConnectPoints => hand'[Owner].from # connection'
    BY <1>0 DEF LoopInv, Numbered, Connected
  <2> QED
    BY <2>1, <2>2 DEF Numbered
<1>2. Subscribed'
  BY DEF LoopInv, Subscribed
<1>3. CASE channel = 0
  <2>1. \A p \in Actors : ~InHand(p)'
    BY <1>3 DEF LoopInv, Tags, Holds
  <2> QED
    BY <1>1, <1>n, <1>2, <1>3, <2>1 DEF Tags
<1>4. CASE channel # 0
  <2> DEFINE c == ch[channel]
             d == ch'[channel]
  <2>1. \A i \in c.pending : i \in c.unacked /\ c.log[i].to # Owner
    BY <1>4 DEF LoopInv, Tags
  <2>2. \A i \in d.pending : i \in d.unacked /\ d.log[i].to # Owner
    BY <1>4, <2>1
  <2>3. ASSUME NEW p \in Actors, InHand(p)'
        PROVE  Holds(p)'
    <3>1. CASE InHand(p) /\ hand'[p] = hand[p] /\ hand[p].tag \in d.unacked \ d.pending
      BY <1>4, <3>1 DEF LoopInv, Tags, Holds
    <3> QED
      BY <1>4, <2>3, <3>1
  <2> QED
    BY <1>1, <1>n, <1>2, <1>4, <2>2, <2>3 DEF Tags
<1> QED
  BY <1>3, <1>4

\* A step that leaves the channel, what is in hand and the subscription alone.
LEMMA ChannelAlone ==
    ASSUME QueueTypeOK, LoopInv,
           UNCHANGED <<connection, channel, open, made, ch, consumer_tag>>, declared => declared',
           \/ at'[Owner] = at[Owner]
           \/ {at[Owner], at'[Owner]} \cap (ConnectPoints \cup HungPoints) = {},
           at'[Owner] \in NeedsChannel => at[Owner] \in NeedsChannel \/ channel # 0,
           at'[Owner] \in NeedsQueue => at[Owner] \in NeedsQueue \/ declared',
           \A t \in Threads : Alive(t)' => Alive(t) \/ at[Owner] = "spawn",
           \A t \in Threads :
               active' /\ at'[t] \in ConsumerPoints \ {"subscribe"} =>
                  active /\ at[t] \in ConsumerPoints \ {"subscribe"},
           \A p \in Actors : InHand(p)' => InHand(p) /\ hand'[p] = hand[p],
           hand'[Owner] = hand[Owner]
    PROVE  Connected' /\ Numbered' /\ Subscribed' /\ Tags'
<1>1. channel # 0 =>
         /\ \A i \in ch[channel].pending : i \in ch[channel].unacked
         /\ \A p \in Actors : InHand(p)' =>
               hand[p].tag \in ch[channel].unacked \ ch[channel].pending
  BY DEF LoopInv, Tags, Holds
<1> QED
  BY <1>1, ChannelKept

\* Where no thread runs, only the owner can have something in hand.
LEMMA NoThreadHolds ==
    ASSUME QueueTypeOK, LoopInv, at[Owner] \in Threadless, \A t \in Threads : at'[t] = at[t]
    PROVE  /\ \A t \in Threads : ~Alive(t) /\ ~Alive(t)' /\ at'[t] \notin ConsumerPoints
           /\ \A p \in Actors : InHand(p)' => p = Owner
<1>1. \A t \in Threads : ~Alive(t)
  BY DEF LoopInv, OneThread
<1>2. \A t \in Threads : ~Alive(t)' /\ at'[t] \notin ConsumerPoints
  BY <1>1 DEF Alive, ConsumerPoints, HandlerPoints
<1> QED
  BY <1>1, <1>2, ThreadFacts DEF InHand, Actors, ConsumerPoints

\* A connection is opened when there is none, and no channel.
LEMMA OpeningKeepsChannel ==
    ASSUME QueueTypeOK, LoopInv, OpenConnection, ~AlreadyConnected,
           \/ at[Owner] = "idle" /\ at'[Owner] = "channel"
           \/ at[Owner] = "connect" /\ at'[Owner] = "consume_channel",
           UNCHANGED <<active, channel, hand, ch, consumer_tag, declared>>,
           \A t \in Threads : at'[t] = at[t]
    PROVE  Connected' /\ Numbered' /\ Subscribed' /\ Tags'
<1>0. made \in Nat
  BY QueueAssumption DEF QueueTypeOK
<1>1. at[Owner] \notin ConnectPoints \cup HungPoints /\ at'[Owner] \in ConnectPoints
      /\ at'[Owner] \notin HungPoints \cup NeedsChannel \cup {"forget_channel"}
      /\ (at'[Owner] \in NeedsQueue => at[Owner] \in NeedsQueue)
  BY DEF ConnectPoints, HangupPoints, HungPoints, NeedsChannel, NeedsQueue, ConsumePoints, GetPoints
<1>2. channel = 0
  BY <1>1, PointSets DEF LoopInv, Connected, AlreadyConnected
<1>3. \A t \in Threads : ~Alive(t) /\ ~Alive(t)' /\ at'[t] \notin ConsumerPoints
  <2>1. \A t \in Threads : ~Alive(t)
    BY ThreadsDoNotCrash
  <2> QED
    BY <2>1 DEF Alive, ConsumerPoints, HandlerPoints
<1>4. Connected'
  <2>1. connection' \in open'
    BY DEF OpenConnection
  <2>2. at[Owner] \in NeedsQueue => declared
    BY DEF LoopInv, Connected
  <2> QED
    BY <1>1, <1>2, <1>3, <2>1, <2>2 DEF Connected
<1>5. Numbered'
  <2>1. {connection, channel, hand[Owner].from} \subseteq 0..made
    BY DEF LoopInv, Numbered
  <2> QED
    BY <1>0, <2>1 DEF OpenConnection, Numbered
<1>6. \A p \in Actors : ~InHand(p)'
  BY <1>2, <1>3, ThreadFacts DEF InHand, Actors, ChannelUsable, ConsumerPoints
<1> QED
  BY <1>2, <1>3, <1>4, <1>5, <1>6 DEF Subscribed, Tags

\* The new connection gets its channel.
LEMMA OpenChannelKeepsChannel ==
    ASSUME QueueTypeOK, LoopInv, OpenChannel
    PROVE  Connected' /\ Numbered' /\ Subscribed' /\ Tags'
<1>0. /\ at \in [Actors -> Points] /\ Owner \in Actors /\ Owner \notin Threads
      /\ Threads \subseteq Actors /\ ch \in [ConnectionIds -> Channel]
      /\ open \subseteq ConnectionIds /\ 0 \notin ConnectionIds
  BY ThreadFacts DEF QueueTypeOK, ConnectionIds
<1>1. /\ at[Owner] \in ConnectPoints /\ AlreadyConnected
      /\ channel' = connection /\ ch' = [ch EXCEPT ![connection] = Fresh]
      /\ Goto(Owner, IF at[Owner] = "channel" THEN "idle" ELSE "set")
      /\ UNCHANGED <<active, connection, consumer_tag, hand, open, declared, made>>
  BY DEF OpenChannel, bounds
<1>2. /\ at[Owner] \in Threadless
      /\ at'[Owner] = IF at[Owner] = "channel" THEN "idle" ELSE "set"
      /\ \A t \in Threads : at'[t] = at[t]
  BY <1>0, <1>1, PointSets DEF Goto
<1>3. /\ at'[Owner] \notin ConnectPoints \cup HungPoints \cup {"forget_channel"}
      /\ at'[Owner] \in NeedsQueue => at[Owner] \in NeedsQueue
  BY <1>1, <1>2 DEF ConnectPoints, HangupPoints, HungPoints, NeedsQueue, ConsumePoints, GetPoints
<1>4. connection \in ConnectionIds /\ connection # 0 /\ connection \in open
      /\ hand[Owner].from # connection
  BY <1>0, <1>1 DEF AlreadyConnected, LoopInv, Numbered
<1>5. ch'[connection] = Fresh /\ Fresh.open /\ Fresh.pending = {}
  BY <1>0, <1>1, <1>4 DEF Fresh, Closed
<1>6. \A t \in Threads : ~Alive(t)' /\ at'[t] \notin ConsumerPoints
  BY <1>2, NoThreadHolds
<1>7. Connected'
  <2>1. at[Owner] \in NeedsQueue => declared
    BY DEF LoopInv, Connected
  <2> QED
    BY <1>1, <1>3, <1>4, <1>5, <1>6, <2>1 DEF Connected
<1>8. Numbered'
  BY <1>1, <1>3 DEF LoopInv, Numbered
<1>9. \A p \in Actors : ~InHand(p)'
  <2>1. \A p \in Actors : InHand(p)' => p = Owner
    BY <1>2, NoThreadHolds
  <2>2. ~InHand(Owner)'
    BY <1>1, <1>4 DEF InHand
  <2> QED
    BY <2>1, <2>2
<1> QED
  BY <1>1, <1>5, <1>6, <1>7, <1>8, <1>9 DEF Subscribed, Tags

\* The deliveries in hand are of the present channel.
LEMMA InHandFacts ==
    ASSUME QueueTypeOK, LoopInv, channel # 0
    PROVE  /\ channel \in ConnectionIds
           /\ ch \in [ConnectionIds -> Channel] /\ ch[channel] \in Channel /\ ch[channel] \in Shape
           /\ \A p \in Actors : InHand(p) =>
                 /\ hand[p].from = channel
                 /\ hand[p].tag \in ch[channel].unacked \ ch[channel].pending
                 /\ ch[channel].log[hand[p].tag].msg = hand[p].msg
                 /\ ch[channel].log[hand[p].tag].to = Owner <=> p = Owner
           /\ \A i \in ch[channel].pending :
                 i \in ch[channel].unacked /\ ch[channel].log[i].to # Owner
BY ThreadFacts, ChannelFacts DEF LoopInv, Tags, Holds

\* Messages the owner fetches or settles itself.
LEMMA OwnerKeepsChannel ==
    ASSUME QueueTypeOK, LoopInv,
           \/ SettleHand /\ strays' = strays
           \/ \E m \in Messages : FetchAcked(m) \/ Fetch(m)
    PROVE  Connected' /\ Numbered' /\ Subscribed' /\ Tags'
<1> DEFINE c == ch[channel]
           d == ch'[channel]
<1>4. /\ Owner \in Actors /\ Owner \notin Threads /\ Threads \subseteq Actors
      /\ hand \in [Actors -> Delivery \cup {NoDelivery}] /\ at \in [Actors -> Points]
  BY ThreadFacts
<1>1. /\ at[Owner] \in {"idle"} \cup GetPoints /\ ChannelUsable
      /\ UNCHANGED <<active, connection, channel, open, declared, consumer_tag, made>>
      /\ at' = at \/ Goto(Owner, "idle")
  BY DEF SettleHand, FetchAcked, Fetch, CanFetch, Getting, GetPoints, fields, bounds
<1>2. channel # 0 /\ \A p \in Actors \ {Owner} : InHand(p)' <=> InHand(p)
  BY <1>1, <1>4 DEF ChannelUsable, InHand, Goto
<1>3. /\ channel \in ConnectionIds
      /\ ch \in [ConnectionIds -> Channel] /\ c \in Channel /\ c \in Shape
  BY <1>2, InHandFacts
\* What remains to be shown.
<1>5. ASSUME d.open = c.open, d.consumers = c.consumers, d.pending = c.pending,
             \A i \in c.unacked : d.log[i] = c.log[i],
             \A i \in c.pending : i \in d.unacked,
             hand'[Owner].from \in {0, channel, hand[Owner].from},
             \A p \in Actors : InHand(p)' =>
                \/ InHand(p) /\ hand'[p] = hand[p] /\ hand[p].tag \in d.unacked \ d.pending
                \/ Holds(p)'
      PROVE  Connected' /\ Numbered' /\ Subscribed' /\ Tags'
  <2>1. /\ at'[Owner] \in {at[Owner], "idle"} /\ \A t \in Threads : at'[t] = at[t]
    BY <1>1, <1>4 DEF Goto
  <2>2. /\ {at[Owner], at'[Owner]} \cap (ConnectPoints \cup HungPoints) = {}
        /\ at'[Owner] \in NeedsQueue => at[Owner] \in NeedsQueue
    BY <1>1, <2>1
       DEF GetPoints, ConnectPoints, HangupPoints, HungPoints, NeedsQueue, ConsumePoints
  <2> QED
    BY <1>1, <1>2, <1>5, <2>1, <2>2, ChannelKept DEF Alive
<1>6. ASSUME NEW m \in Messages, FetchAcked(m)
      PROVE  Connected' /\ Numbered' /\ Subscribed' /\ Tags'
  <2>1. ch' = [ch EXCEPT ![channel].log = Append(@, [msg |-> m, to |-> Owner])] /\ hand' = hand
    BY <1>6 DEF FetchAcked
  <2>2. /\ d.open = c.open /\ d.consumers = c.consumers /\ d.pending = c.pending
        /\ d.unacked = c.unacked /\ d.log = Append(c.log, [msg |-> m, to |-> Owner])
    BY <1>3, <2>1 DEF Shape
  <2>3. \A p \in Actors : InHand(p)' => InHand(p)
    BY <1>1, <1>2, <2>1, <2>2 DEF InHand, ChannelUsable
  <2>4. \A i \in c.unacked : d.log[i] = c.log[i]
    <3>1. c.log \in Seq(Entry) /\ Len(c.log) \in Nat /\ c.unacked \subseteq 1..Len(c.log)
      BY <1>3, ChannelFacts
    <3> QED
      BY <2>2, <3>1
  <2> QED
    BY <1>2, <1>5, <2>1, <2>2, <2>3, <2>4, InHandFacts
<1>7. ASSUME NEW m \in Messages, Fetch(m)
      PROVE  Connected' /\ Numbered' /\ Subscribed' /\ Tags'
  <2> DEFINE tag == Len(c.log) + 1
  <2>1. /\ hand' = [hand EXCEPT ![Owner] = [msg |-> m, tag |-> tag, from |-> channel]]
        /\ ch' = [ch EXCEPT ![channel].log = Append(@, [msg |-> m, to |-> Owner]),
                            ![channel].unacked = @ \cup {tag}]
    BY <1>7 DEF Fetch
  <2>3. tag = Len(c.log) + 1
    OBVIOUS
  <2> HIDE DEF tag
  <2>2. /\ d.open = c.open /\ d.consumers = c.consumers /\ d.pending = c.pending
        /\ d.unacked = c.unacked \cup {tag} /\ d.log = Append(c.log, [msg |-> m, to |-> Owner])
    BY <1>3, <2>1 DEF Shape
  <2>4. /\ tag \notin c.unacked \cup c.pending /\ d.log[tag] = [msg |-> m, to |-> Owner]
        /\ \A i \in c.unacked : d.log[i] = c.log[i]
    <3>1. /\ c.log \in Seq(Entry) /\ Len(c.log) \in Nat
          /\ c.unacked \subseteq 1..Len(c.log) /\ c.pending \subseteq 1..Len(c.log)
      BY <1>3, ChannelFacts
    <3> QED
      BY <2>2, <2>3, <3>1
  <2>5. hand'[Owner] = [msg |-> m, tag |-> tag, from |-> channel]
    BY <1>4, <2>1
  <2>6. Holds(Owner)'
    <3>1. d.log[tag].msg = m /\ d.log[tag].to = Owner
      BY <2>4
    <3>2. tag \in d.unacked \ d.pending
      <4>1. tag \notin c.pending
        BY <2>4
      <4> QED
        BY <2>2, <4>1
    <3>3. hand'[Owner].from = channel /\ hand'[Owner].tag = tag /\ hand'[Owner].msg = m
      BY <2>5
    <3> QED
      <4>1. channel' = channel
        BY <1>1
      <4> QED
        BY <1>2, <3>1, <3>2, <3>3, <4>1 DEF Holds
  <2>7. \A p \in Actors \ {Owner} : InHand(p)' => InHand(p) /\ hand'[p] = hand[p]
    BY <1>2, <1>4, <2>1
  <2>8. \A p \in Actors : InHand(p) => hand[p].tag \in d.unacked \ d.pending
    BY <1>2, <2>2, InHandFacts
  <2>9. \A i \in c.pending : i \in d.unacked
    BY <1>2, <2>2, InHandFacts
  <2>10. /\ hand'[Owner].from = channel
         /\ d.open = c.open /\ d.consumers = c.consumers /\ d.pending = c.pending
    BY <2>2, <2>5
  <2>11. \A i \in c.unacked : d.log[i] = c.log[i]
    BY <2>4
  <2> QED
    <3> HIDE DEF c, d
    <3>1. \A p \in Actors : InHand(p)' =>
             \/ InHand(p) /\ hand'[p] = hand[p] /\ hand[p].tag \in d.unacked \ d.pending
             \/ Holds(p)'
      BY <2>6, <2>7, <2>8
    <3>2. hand'[Owner].from \in {0, channel, hand[Owner].from}
      BY <2>10
    <3> QED
      BY <1>5, <2>9, <2>10, <2>11, <3>1, <3>2
<1>8. CASE SettleHand /\ strays' = strays
  <2>1. /\ hand[Owner].from = channel
        /\ hand' = [hand EXCEPT ![Owner] = NoDelivery]
        /\ \/ Settle(hand[Owner].tag, "acked")
           \/ Settle(hand[Owner].tag, "ready")
    BY <1>8, QueueAssumption DEF SettleHand, QueueTypeOK
  <2> DEFINE tag == hand[Owner].tag
  <2>2. InHand(Owner)
    BY <1>1, <2>1 DEF InHand
  <2>3. tag \in c.unacked \ c.pending /\ c.log[tag].to = Owner
    BY <1>2, <1>4, <2>2, InHandFacts
  <2>4. ch' = [ch EXCEPT ![channel].unacked = @ \ {tag}]
    BY <1>3, <2>1, <2>3 DEF Settle
  <2>5. /\ d.open = c.open /\ d.consumers = c.consumers /\ d.pending = c.pending
        /\ d.unacked = c.unacked \ {tag} /\ d.log = c.log
    BY <1>3, <2>4 DEF Shape
  <2>6. hand'[Owner].from = 0
    BY <1>4, <2>1 DEF NoDelivery
  <2>7. ~InHand(Owner)' /\ \A p \in Actors \ {Owner} : InHand(p)' => InHand(p) /\ hand'[p] = hand[p]
    BY <1>1, <1>2, <1>4, <2>1, <2>6 DEF InHand
  <2>8. \A p \in Actors \ {Owner} : InHand(p) => hand[p].tag # tag
    BY <1>2, <2>3, InHandFacts
  <2> QED
    BY <1>2, <1>5, <2>3, <2>5, <2>6, <2>7, <2>8, InHandFacts
<1> QED
  BY <1>6, <1>7, <1>8

\* What the owner calls, while it does not delete the queue and settles no stray message.
LEMMA CallKeepsChannel ==
    ASSUME Undisturbed, QueueTypeOK, LoopInv, OwnerCall, deletions' = 0, strays' = 0
    PROVE  Connected' /\ Numbered' /\ Subscribed' /\ Tags'
<1>0. /\ Owner \notin Threads /\ Owner \in Actors /\ Threads \subseteq Actors
      /\ at \in [Actors -> Points] /\ deletions = 0 /\ strays' = strays
  BY ThreadFacts DEF Undisturbed
<1> USE <1>0
<1>1. CASE connect
  <2>1. /\ OpenConnection /\ ~AlreadyConnected /\ at[Owner] = "idle" /\ at'[Owner] = "channel"
        /\ UNCHANGED <<active, channel, hand, ch, consumer_tag, declared>>
        /\ \A t \in Threads : at'[t] = at[t]
    BY <1>1 DEF connect, Goto
  <2> QED
    BY <2>1, OpeningKeepsChannel
<1>2. CASE declare_queue \/ \E m \in Messages : publish(m)
  <2>1. /\ UNCHANGED <<fields, at, hand, open, ch, made>>
        /\ declared => declared'
    BY <1>2 DEF declare_queue, publish, bounds
  <2> QED
    BY <2>1, ChannelAlone DEF fields, Alive, InHand, ChannelUsable
<1>3. CASE stop_consuming \/ close \/ wait \/ get \/ consume
  <2>1. /\ UNCHANGED <<fields, hand, open, ch, declared, made>> /\ at[Owner] = "idle"
        /\ \E point \in {"test", "waiting", "waiting_for_ever", "connect"} \cup GetPoints :
              /\ Goto(Owner, point)
              /\ point \in GetPoints => channel # 0 /\ declared
              /\ point = "connect" => declared
    <3>1. CASE get
      <4>1. channel # 0 /\ declared /\ at[Owner] = "idle"
            /\ \E point \in GetPoints : Goto(Owner, point)
        BY <3>1 DEF get, WasDeclared, GetPoints
      <4> QED
        BY <3>1, <4>1 DEF get, GetPoints, broker, bounds
    <3>2. CASE consume
      <4>1. declared /\ at[Owner] = "idle" /\ Goto(Owner, "connect")
        BY <3>2 DEF consume, WasDeclared
      <4> QED
        BY <3>2, <4>1 DEF consume, GetPoints, broker, bounds
    <3>3. CASE stop_consuming \/ close \/ wait
      BY <3>3 DEF stop_consuming, close, wait, GetPoints, broker, bounds
    <3> QED
      BY <1>3, <3>1, <3>2, <3>3
  <2>2. PICK point \in {"test", "waiting", "waiting_for_ever", "connect"} \cup GetPoints :
          /\ at'[Owner] = point /\ \A t \in Threads : at'[t] = at[t]
          /\ point \in GetPoints => channel # 0 /\ declared
          /\ point = "connect" => declared
    BY <2>1, PointFacts DEF Goto, GetPoints
  <2>3. /\ {at[Owner], at'[Owner]} \cap (ConnectPoints \cup HungPoints) = {}
        /\ at'[Owner] \in NeedsChannel => channel # 0
        /\ at'[Owner] \in NeedsQueue => declared
    BY <2>1, <2>2
       DEF GetPoints, ConnectPoints, ConsumePoints, HangupPoints, HungPoints, NeedsChannel, NeedsQueue
  <2> QED
    BY <2>1, <2>2, <2>3, ChannelAlone DEF fields, Alive, InHand, ChannelUsable, Actors
<1>4. CASE SettleHand
  BY <1>4, OwnerKeepsChannel
<1>5. ~delete_queue
  BY DEF delete_queue
<1> QED
  BY <1>1, <1>2, <1>3, <1>4, <1>5 DEF OwnerCall

\* CancelConsumer: what it gives back was pending, and the Event is cleared.
LEMMA CancelKeepsChannel ==
    ASSUME QueueTypeOK, LoopInv, CancelConsumer(Owner)
    PROVE  Connected' /\ Numbered' /\ Subscribed' /\ Tags'
<1>0. /\ Owner \notin Threads /\ Owner \in Actors /\ Threads \subseteq Actors
      /\ at \in [Actors -> Points]
  BY ThreadFacts
<1>1. /\ ~active /\ UNCHANGED <<active, connection, channel, open, made, declared, hand>>
      /\ at[Owner] = "cancel" /\ at'[Owner] = "join" /\ \A t \in Threads : at'[t] = at[t]
  <2>1. /\ at[Owner] = "cancel" /\ Goto(Owner, "join")
        /\ UNCHANGED <<active, connection, channel, open, made, declared, hand>>
    BY DEF CancelConsumer, bounds
  <2>2. ~active
    BY <2>1 DEF LoopInv, OwnerTurn
  <2> QED
    BY <1>0, <2>1, <2>2 DEF Goto
<1>p. /\ {at[Owner], at'[Owner]} \cap (ConnectPoints \cup HungPoints) = {}
      /\ at'[Owner] \notin NeedsChannel \cup NeedsQueue
  BY <1>1 DEF ConnectPoints, ConsumePoints, HangupPoints, HungPoints, NeedsChannel, NeedsQueue, GetPoints
<1>3. CASE channel = 0
  <2>1. \A p \in Actors : InHand(p)' => InHand(p)
    BY <1>0, <1>1, <1>3 DEF InHand, Actors, ChannelUsable
  <2> QED
    BY <1>1, <1>p, <1>3, <2>1, ChannelKept DEF Alive
<1>4. CASE channel # 0
  <2> DEFINE c == ch[channel]
             d == ch'[channel]
  <2>1. /\ channel \in ConnectionIds
        /\ ch \in [ConnectionIds -> Channel] /\ c \in Channel /\ c \in Shape
    BY <1>4, InHandFacts
  <2>2. \E undone \in SUBSET c.pending :
          /\ d.open = c.open /\ d.log = c.log
          /\ d.pending = c.pending \ undone /\ d.unacked = c.unacked \ undone
    <3>1. CASE ChannelUsable /\ consumer_tag # None
      <4> DEFINE undone == {i \in ch[channel].pending : ch[channel].log[i].to = consumer_tag}
      <4>1. ch' = [ch EXCEPT ![channel].consumers = @ \ {consumer_tag},
                             ![channel].pending = @ \ undone,
                             ![channel].unacked = @ \ undone]
        BY <3>1 DEF CancelConsumer
      <4>2. undone \in SUBSET c.pending
        BY <2>1
      <4> HIDE DEF undone
      <4> QED
        BY <2>1, <4>1, <4>2 DEF Shape
    <3>2. CASE ~(ChannelUsable /\ consumer_tag # None)
      <4>1. ch' = ch
        BY <3>2 DEF CancelConsumer
      <4>2. {} \in SUBSET c.pending
        OBVIOUS
      <4> QED
        BY <4>1, <4>2
    <3> QED
      BY <3>1, <3>2
  <2>5. \A p \in Actors : InHand(p)' => InHand(p)
    BY <1>0, <1>1, <1>4, <2>2 DEF InHand, Actors, ChannelUsable
  <2>3. \A p \in Actors : InHand(p)' =>
          InHand(p) /\ hand'[p] = hand[p] /\ hand[p].tag \in d.unacked \ d.pending
    BY <1>1, <1>4, <2>2, <2>5, InHandFacts
  <2>4. \A i \in d.pending : i \in d.unacked /\ i \in c.pending
    BY <1>4, <2>2, InHandFacts
  <2> QED
    BY <1>1, <1>p, <1>4, <2>2, <2>3, <2>4, ChannelKept DEF Alive
<1> QED
  BY <1>3, <1>4

\* The end of close(): no thread runs, and the channel is closed and then forgotten.
LEMMA HangupKeepsChannel ==
    ASSUME QueueTypeOK, LoopInv, Hangup \/ Disconnect \/ ForgetConnection \/ ForgetChannel
    PROVE  Connected' /\ Numbered' /\ Subscribed' /\ Tags'
<1>0. /\ Owner \notin Threads /\ Owner \in Actors /\ at \in [Actors -> Points]
      /\ Threads \subseteq Actors /\ ch \in [ConnectionIds -> Channel]
      /\ channel # 0 => channel \in ConnectionIds /\ made \in Nat
  BY ThreadFacts, QueueAssumption DEF QueueTypeOK
<1>1. /\ at[Owner] \in HangupPoints /\ UNCHANGED <<active, hand, consumer_tag, declared, made>>
      /\ \E point \in {"idle"} \cup HungPoints : Goto(Owner, point)
  BY DEF Hangup, Disconnect, ForgetConnection, ForgetChannel, HangupPoints, HungPoints, fields,
         broker, bounds
<1>2. /\ at[Owner] \in Threadless /\ at'[Owner] \in {"idle"} \cup HungPoints
      /\ \A t \in Threads : at'[t] = at[t]
  BY <1>0, <1>1, PointFacts DEF Goto, Threadless, HangupPoints, HungPoints
<1>3. \A t \in Threads : ~Alive(t)' /\ at'[t] \notin ConsumerPoints
  BY <1>2, NoThreadHolds
<1>4. \A p \in Actors : InHand(p)' => p = Owner
  BY <1>2, NoThreadHolds
<1>5. Subscribed'
  BY <1>3 DEF Subscribed
<1>6. at'[Owner] \notin ConnectPoints \cup NeedsChannel \cup NeedsQueue
  BY <1>2 DEF ConnectPoints, ConsumePoints, HangupPoints, HungPoints, NeedsChannel, NeedsQueue, GetPoints
\* What remains to be shown.
<1>7. ASSUME at'[Owner] # "forget_channel" => channel' = connection',
             at'[Owner] = "forget_channel" => connection' = 0,
             at'[Owner] = "idle" => channel' = 0,
             connection' \in {0, connection}, channel' \in {0, channel},
             channel' # 0 => ch' = ch \/ ch'[channel] = Closed
      PROVE  Connected' /\ Numbered' /\ Subscribed' /\ Tags'
  <2>1. Connected'
    BY <1>2, <1>3, <1>6, <1>7 DEF Connected
  <2>2. Numbered'
    <3>1. {connection, channel, hand[Owner].from} \subseteq 0..made
      BY DEF LoopInv, Numbered
    <3> QED
      BY <1>1, <1>6, <1>7, <3>1, QueueAssumption DEF Numbered, QueueTypeOK
  <2>3. CASE channel' = 0
    BY <1>4, <1>5, <2>1, <2>2, <2>3 DEF Tags, InHand, ChannelUsable
  <2>4. CASE channel' # 0 /\ ch' = ch
    <3>1. channel' = channel /\ \A p \in Actors : InHand(p)' => InHand(p)
      BY <1>1, <1>4, <1>7, <2>4 DEF InHand, ChannelUsable
    <3>2. Tags'
      BY <1>1, <2>4, <3>1 DEF LoopInv, Tags, Holds
    <3> QED
      BY <1>5, <2>1, <2>2, <3>2
  <2>5. CASE channel' # 0 /\ ch'[channel] = Closed
    <3>1. channel' = channel /\ ~ch'[channel].open /\ ch'[channel].pending = {}
      BY <1>7, <2>5 DEF Closed
    <3>2. Tags'
      BY <1>4, <3>1 DEF Tags, InHand, ChannelUsable
    <3> QED
      BY <1>5, <2>1, <2>2, <3>2
  <2> QED
    BY <1>7, <2>3, <2>4, <2>5
<1>8. CASE Hangup
  <2>1. /\ at[Owner] = "hangup" /\ UNCHANGED <<connection, channel>>
        /\ Goto(Owner, IF connection = 0 THEN "idle" ELSE "disconnect")
        /\ ch' = ch \/ (channel # 0 /\ ch' = [ch EXCEPT ![channel] = Closed])
    BY <1>8 DEF Hangup, CloseChannel, ChannelUsable, fields
  <2>2. channel = connection
    BY <2>1 DEF LoopInv, Connected, ConnectPoints
  <2> QED
    BY <1>0, <1>7, <2>1, <2>2 DEF Goto
<1>9. CASE Disconnect
  <2>1. /\ at[Owner] = "disconnect" /\ UNCHANGED <<connection, channel>>
        /\ Goto(Owner, "forget_connection") /\ ch' = [ch EXCEPT ![connection] = Closed]
    BY <1>9 DEF Disconnect, CloseChannel, fields
  <2>2. channel = connection
    BY <2>1 DEF LoopInv, Connected, ConnectPoints
  <2> QED
    BY <1>0, <1>7, <2>1, <2>2 DEF Goto
<1>10. CASE ForgetConnection
  <2>1. /\ at[Owner] = "forget_connection" /\ channel' = channel /\ connection' = 0
        /\ Goto(Owner, "forget_channel") /\ ch' = ch
    BY <1>10 DEF ForgetConnection, broker
  <2> QED
    BY <1>0, <1>7, <2>1 DEF Goto
<1>11. CASE ForgetChannel
  <2>1. /\ at[Owner] = "forget_channel" /\ connection' = connection /\ channel' = 0
        /\ Goto(Owner, "idle")
    BY <1>11 DEF ForgetChannel
  <2>2. connection = 0
    BY <2>1 DEF LoopInv, Connected
  <2> QED
    BY <1>0, <1>7, <2>1, <2>2 DEF Goto
<1> QED
  BY <1>8, <1>9, <1>10, <1>11

\* connect on the way through consume.
LEMMA ConsumeKeepsChannel ==
    ASSUME QueueTypeOK, LoopInv, ConsumeConnects
    PROVE  Connected' /\ Numbered' /\ Subscribed' /\ Tags'
<1>0. /\ Owner \notin Threads /\ Owner \in Actors /\ Threads \subseteq Actors
      /\ at \in [Actors -> Points]
  BY ThreadFacts
<1>1. /\ at[Owner] = "connect"
      /\ UNCHANGED <<active, channel, consumer_tag, hand, ch, declared>>
  BY DEF ConsumeConnects
<1>2. CASE OpenConnection /\ ~AlreadyConnected /\ Goto(Owner, "consume_channel")
  <2>1. at'[Owner] = "consume_channel" /\ \A t \in Threads : at'[t] = at[t]
    BY <1>0, <1>2 DEF Goto
  <2> QED
    BY <1>1, <1>2, <2>1, OpeningKeepsChannel
<1>3. CASE /\ UNCHANGED <<connection, open, made>>
           /\ Goto(Owner, "idle") \/ (Goto(Owner, "set") /\ AlreadyConnected)
  <2>1. /\ at'[Owner] \in {"idle", "set"} /\ \A t \in Threads : at'[t] = at[t]
        /\ at'[Owner] = "set" => AlreadyConnected
    BY <1>0, <1>3 DEF Goto
  <2>2. /\ {at[Owner], at'[Owner]} \cap (ConnectPoints \cup HungPoints) = {}
        /\ at'[Owner] \in NeedsChannel => at'[Owner] = "set"
        /\ at[Owner] \in NeedsQueue
    BY <1>1, <2>1
       DEF GetPoints, ConnectPoints, ConsumePoints, HangupPoints, HungPoints, NeedsChannel, NeedsQueue
  <2>3. AlreadyConnected => channel # 0
    <3>1. channel = connection
      BY <1>1, PointSets, <2>2 DEF LoopInv, Connected
    <3> QED
      BY <3>1, QueueAssumption DEF AlreadyConnected, QueueTypeOK, ConnectionIds
  <2> QED
    BY <1>1, <1>3, <2>1, <2>2, <2>3, ChannelAlone DEF Alive, InHand, ChannelUsable, Actors
<1> QED
  BY <1>2, <1>3 DEF ConsumeConnects

\* A get finds a channel and a queue.
LEMMA GetDoesNotRaise ==
    ASSUME LoopInv
    PROVE  ~GetRaises
<1>1. Getting => at[Owner] \in NeedsChannel /\ at[Owner] \in NeedsQueue /\ at[Owner] \notin HungPoints
  BY DEF Getting, GetPoints, NeedsChannel, NeedsQueue, HungPoints, HangupPoints
<1> QED
  BY <1>1 DEF GetRaises, LoopInv, Connected, ChannelUsable

\* The owner within a method.
LEMMA OwnerStepKeepsChannel ==
    ASSUME Steady, QueueTypeOK, LoopInv, OwnerStep
    PROVE  Connected' /\ Numbered' /\ Subscribed' /\ Tags'
<1>0. /\ Owner \notin Threads /\ Owner \in Actors /\ Threads \subseteq Actors
      /\ at \in [Actors -> Points]
  BY ThreadFacts
<1> USE <1>0
<1>1. CASE SetActive
  <2>1. /\ UNCHANGED <<connection, channel, open, made, ch, consumer_tag, declared, hand>>
        /\ at[Owner] = "set" /\ at'[Owner] = "spawn" /\ \A t \in Threads : at'[t] = at[t]
    BY <1>1 DEF SetActive, Goto, broker, bounds
  <2>2. at[Owner] \in Threadless
    BY <2>1 DEF Threadless, ConsumePoints
  <2>3. \A t \in Threads : at'[t] \notin ConsumerPoints
    BY <2>1, <2>2, NoThreadHolds
  <2>4. /\ {at[Owner], at'[Owner]} \cap (ConnectPoints \cup HungPoints) = {}
        /\ at[Owner] \in NeedsChannel /\ at[Owner] \in NeedsQueue
    BY <2>1 DEF ConnectPoints, ConsumePoints, HangupPoints, HungPoints, NeedsChannel, NeedsQueue
  <2> QED
    BY <2>1, <2>3, <2>4, ChannelAlone DEF Alive, InHand, ChannelUsable, Actors
<1>2. ASSUME NEW s \in Threads, Spawn(s)
      PROVE  Connected' /\ Numbered' /\ Subscribed' /\ Tags'
  <2>1. /\ UNCHANGED <<active, connection, channel, open, made, ch, consumer_tag, declared, hand>>
        /\ at[Owner] = "spawn" /\ at'[Owner] = "idle" /\ at'[s] = "subscribe"
        /\ \A t \in Threads \ {s} : at'[t] = at[t]
    BY <1>2 DEF Spawn, broker, bounds
  <2>2. /\ {at[Owner], at'[Owner]} \cap (ConnectPoints \cup HungPoints) = {}
        /\ at'[Owner] \notin NeedsChannel \cup NeedsQueue
    BY <2>1
       DEF GetPoints, ConnectPoints, ConsumePoints, HangupPoints, HungPoints, NeedsChannel, NeedsQueue
  <2> QED
    BY <2>1, <2>2, ChannelAlone DEF Alive, InHand, ChannelUsable, Actors, HandlerPoints
<1>3. CASE \/ TestActive(Owner) \/ ClearActive(Owner) \/ BeginJoin(Owner) \/ EndJoin(Owner)
           \/ EndWait \/ FetchNothing
  <2>1. /\ UNCHANGED <<connection, channel, open, made, ch, consumer_tag, declared, hand>>
        /\ active' => active
        /\ at[Owner] \in StopPoints \cup GetPoints \cup {"waiting", "waiting_for_ever"}
        /\ \E point \in StopPoints \cup GetPoints \cup {"idle", "hangup", "dead"} :
              Goto(Owner, point) /\ (point \in GetPoints => at[Owner] \in GetPoints)
    BY <1>3 DEF TestActive, ClearActive, BeginJoin, EndJoin, EndWait, FetchNothing, Getting,
                GetPoints, StopPoints, AfterStop, fields, broker, bounds
  <2>2. /\ at'[Owner] \in StopPoints \cup GetPoints \cup {"idle", "hangup", "dead"}
        /\ at'[Owner] \in GetPoints => at[Owner] \in GetPoints
        /\ \A t \in Threads : at'[t] = at[t]
    BY <2>1 DEF Goto
  <2>3. /\ {at[Owner], at'[Owner]} \cap (ConnectPoints \cup HungPoints) = {}
        /\ at'[Owner] \in NeedsChannel => at[Owner] \in NeedsChannel
        /\ at'[Owner] \in NeedsQueue => at[Owner] \in NeedsQueue
    BY <2>1, <2>2
       DEF GetPoints, StopPoints, ConnectPoints, ConsumePoints, HangupPoints, HungPoints,
           NeedsChannel, NeedsQueue
  <2> QED
    BY <2>1, <2>2, <2>3, ChannelAlone DEF Alive, InHand, ChannelUsable, Actors
<1>4. ~ConnectFails
  BY QueueAssumption
     DEF ConnectFails, LoopInv, Connected, AlreadyConnected, Steady, QueueTypeOK
<1>5. ~GetRaises
  BY GetDoesNotRaise
<1> QED
  BY <1>1, <1>2, <1>3, <1>4, <1>5, CancelKeepsChannel, HangupKeepsChannel, ConsumeKeepsChannel,
     OpenChannelKeepsChannel, OwnerKeepsChannel
     DEF OwnerStep, StopStep

\* The loop: it takes deliveries of the present channel and settles them there.
LEMMA LoopKeepsChannel ==
    ASSUME QueueTypeOK, LoopInv, NEW t \in Threads, Alive(t),
           Subscribe(t) \/ DispatchMessage(t) \/ ack(t) \/ nack(t)
    PROVE  Connected' /\ Numbered' /\ Subscribed' /\ Tags'
<1> DEFINE c == ch[channel]
           d == ch'[channel]
<1>0. /\ Owner \notin Threads /\ Owner \in Actors /\ Threads \subseteq Actors
      /\ at \in [Actors -> Points] /\ hand \in [Actors -> Delivery \cup {NoDelivery}]
  BY ThreadFacts
<1>1. channel # 0 /\ ChannelUsable /\ channel = connection
  BY ThreadsDoNotCrash DEF ChannelUsable
<1>2. /\ channel \in ConnectionIds
      /\ ch \in [ConnectionIds -> Channel] /\ c \in Channel /\ c \in Shape
  BY <1>1, InHandFacts
<1>3. UNCHANGED <<active, connection, channel, open, made, declared>>
  BY DEF Subscribe, DispatchMessage, ack, nack, AckOrNack, fields, bounds
<1>4. \E point \in ConsumerPoints \ {"subscribe"} : Goto(t, point)
  BY DEF Subscribe, DispatchMessage, ack, nack, AckOrNack, HandlerReturns, ConsumerPoints, HandlerPoints
<1>5. /\ at'[Owner] = at[Owner] /\ \A u \in Threads \ {t} : at'[u] = at[u] /\ ~Alive(u)
  <2>1. \A u \in Threads \ {t} : ~Alive(u)
    BY DEF LoopInv, OneThread
  <2> QED
    BY <1>0, <1>4, <2>1 DEF Goto
<1>6. \A u \in Threads \ {t} : at[u] \notin ConsumerPoints /\ at'[u] \notin ConsumerPoints
  BY <1>5 DEF Alive, ConsumerPoints, HandlerPoints
<1>7. \A u \in Threads : Alive(u)' => Alive(u)
  BY <1>5 DEF Alive
\* What remains to be shown.
<1>8. ASSUME d.open = c.open, d.log = c.log,
             \A i \in d.pending : i \in d.unacked /\ i \in c.pending,
             active /\ at'[t] # "subscribe" =>
                \/ /\ at[t] \in ConsumerPoints \ {"subscribe"} /\ consumer_tag' = consumer_tag
                   /\ d.consumers = c.consumers
                \/ consumer_tag' = t /\ t \in d.consumers,
             \A p \in {t, Owner} : InHand(p)' =>
                \/ InHand(p) /\ hand'[p] = hand[p] /\ hand[p].tag \in d.unacked \ d.pending
                \/ Holds(p)',
             hand'[Owner] = hand[Owner]
      PROVE  Connected' /\ Numbered' /\ Subscribed' /\ Tags'
  <2>1. \A p \in Actors : InHand(p)' => p \in {t, Owner}
    BY <1>6 DEF InHand, Actors, ConsumerPoints
  <2>2. \A u \in Threads :
           active' /\ at'[u] \in ConsumerPoints \ {"subscribe"} =>
              \/ /\ active /\ at[u] \in ConsumerPoints \ {"subscribe"} /\ consumer_tag' = consumer_tag
                 /\ d.consumers = c.consumers
              \/ consumer_tag' = u /\ u \in d.consumers
    BY <1>3, <1>6, <1>8
  <2> QED
    BY <1>1, <1>3, <1>5, <1>7, <1>8, <2>1, <2>2, ChannelKept
<1>9. CASE Subscribe(t)
  <2>1. /\ ch' = [ch EXCEPT ![channel].consumers = @ \cup {t}] /\ consumer_tag' = t
        /\ hand' = hand /\ at'[t] = "loop"
    BY <1>0, <1>9 DEF Subscribe, Goto
  <2>2. /\ d.open = c.open /\ d.log = c.log /\ d.pending = c.pending /\ d.unacked = c.unacked
        /\ t \in d.consumers
    BY <1>2, <2>1 DEF Shape
  <2>3. \A p \in {t, Owner} : InHand(p)' => InHand(p)
    BY <1>0, <1>3, <2>1, <2>2 DEF InHand, HandlerPoints, ChannelUsable
  <2> QED
    BY <1>0, <1>1, <1>8, <2>1, <2>2, <2>3, InHandFacts
<1>10. CASE DispatchMessage(t)
  <2>1. PICK tag \in c.pending :
          /\ hand' = [hand EXCEPT ![t] = [msg |-> c.log[tag].msg, tag |-> tag, from |-> channel]]
          /\ ch' = [ch EXCEPT ![channel].pending = @ \ {tag}]
    BY <1>1, <1>10 DEF DispatchMessage
  <2>2. /\ d.open = c.open /\ d.log = c.log /\ d.pending = c.pending \ {tag}
        /\ d.unacked = c.unacked /\ d.consumers = c.consumers
    BY <1>2, <2>1 DEF Shape
  <2>3. tag \in c.unacked /\ c.log[tag].to # Owner
    BY <1>1, InHandFacts
  <2>4. hand'[t] = [msg |-> c.log[tag].msg, tag |-> tag, from |-> channel]
    BY <1>0, <2>1
  <2>5. Holds(t)'
    BY <1>0, <1>1, <1>3, <2>2, <2>3, <2>4 DEF Holds
  <2>6. InHand(Owner)' => InHand(Owner) /\ hand'[Owner] = hand[Owner]
    BY <1>0, <1>3, <2>1, <2>2 DEF InHand, ChannelUsable
  <2>7. at[t] \in ConsumerPoints \ {"subscribe"} /\ consumer_tag' = consumer_tag
    BY <1>10 DEF DispatchMessage, ConsumerPoints, fields
  <2> QED
    BY <1>0, <1>1, <1>8, <2>1, <2>2, <2>5, <2>6, <2>7, InHandFacts
<1>11. CASE ack(t) \/ nack(t)
  <2>1. /\ at[t] \in HandlerPoints /\ hand' = [hand EXCEPT ![t] = NoDelivery]
        /\ Settle(hand[t].tag, "acked") \/ Settle(hand[t].tag, "ready")
        /\ \E point \in {"poll", "loop"} : Goto(t, point)
        /\ consumer_tag' = consumer_tag
    BY <1>11 DEF ack, nack, AckOrNack, HandlerReturns, HandlerPoints, fields
  <2> DEFINE tag == hand[t].tag
  <2>2. tag \in c.unacked \ c.pending /\ c.log[tag].to # Owner
    BY <1>0, <1>1, <2>1, InHandFacts DEF InHand
  <2>3. ch' = [ch EXCEPT ![channel].unacked = @ \ {tag}]
    BY <1>2, <2>1, <2>2 DEF Settle
  <2>4. /\ d.open = c.open /\ d.log = c.log /\ d.pending = c.pending
        /\ d.unacked = c.unacked \ {tag} /\ d.consumers = c.consumers
    BY <1>2, <2>3 DEF Shape
  <2>5. ~InHand(t)'
    BY <1>0, <2>1 DEF InHand, Goto, HandlerPoints
  <2>6. InHand(Owner)' => InHand(Owner) /\ hand'[Owner] = hand[Owner]
    BY <1>0, <1>3, <2>1, <2>4 DEF InHand, ChannelUsable
  <2>7. InHand(Owner) => hand[Owner].tag # tag
    BY <1>0, <1>1, <2>2, InHandFacts
  <2>8. at[t] \in ConsumerPoints \ {"subscribe"}
    BY <2>1 DEF ConsumerPoints, HandlerPoints
  <2> QED
    BY <1>0, <1>1, <1>8, <2>1, <2>2, <2>4, <2>5, <2>6, <2>7, <2>8, InHandFacts
<1> QED
  BY <1>9, <1>10, <1>11

\* The steps of a consumer thread.
LEMMA ThreadKeepsChannel ==
    ASSUME QueueTypeOK, LoopInv, NEW t \in Threads, ThreadStep(t)
    PROVE  Connected' /\ Numbered' /\ Subscribed' /\ Tags'
<1>0. /\ Owner \notin Threads /\ Owner \in Actors /\ Threads \subseteq Actors
      /\ at \in [Actors -> Points]
  BY ThreadFacts
<1>1. /\ Alive(t)
      /\ UNCHANGED <<active, connection, channel, consume_thread, joining, open, declared>>
      /\ made' = made
      /\ ~ClearActive(t) /\ ~CancelConsumer(t) /\ ~BeginJoin(t) /\ ~EndJoin(t)
      /\ ~SubscribeRaises(t) /\ ~LoopCrashes(t) /\ ~AckRaises(t)
  <2>1. made' = made
    BY DEF ThreadStep, LoopStep, StopStep, Subscribe, SubscribeRaises, CheckActive, LoopCrashes,
           PollNothing, DispatchMessage, CallbackReturns, CallbackRaises, ack, nack, AckOrNack,
           AckRaises, TestActive, ClearActive, CancelConsumer, BeginJoin, EndJoin, bounds
  <2> QED
    BY <2>1, ThreadMoves, ThreadsDoNotCrash
<1>2. CASE Subscribe(t) \/ DispatchMessage(t) \/ ack(t) \/ nack(t)
  BY <1>1, <1>2, LoopKeepsChannel
<1>3. CASE CheckActive(t) \/ PollNothing(t) \/ CallbackReturns(t) \/ CallbackRaises(t) \/ TestActive(t)
  <2>1. /\ UNCHANGED <<ch, consumer_tag, hand>>
        /\ \E point \in Points :
              /\ Goto(t, point)
              /\ point \in HandlerPoints => at[t] \in HandlerPoints
              /\ active /\ point \in ConsumerPoints \ {"subscribe"} =>
                    at[t] \in ConsumerPoints \ {"subscribe"}
    <3>1. CASE CheckActive(t) \/ PollNothing(t)
      BY <3>1, PointFacts DEF CheckActive, PollNothing, fields, broker, HandlerPoints, ConsumerPoints
    <3>2. CASE CallbackReturns(t) \/ CallbackRaises(t)
      BY <3>2, PointFacts DEF CallbackReturns, CallbackRaises, fields, broker, HandlerPoints,
                              ConsumerPoints
    <3>3. CASE TestActive(t)
      <4>1. Goto(t, "clear") \/ Goto(t, "dead")
        BY <1>0, <3>3 DEF TestActive, AfterStop
      <4> QED
        BY <3>3, <4>1, PointFacts DEF TestActive, fields, broker, HandlerPoints, ConsumerPoints
    <3> QED
      BY <1>3, <3>1, <3>2, <3>3
  <2>2. PICK point \in Points :
          /\ at'[t] = point /\ at'[Owner] = at[Owner] /\ \A u \in Threads \ {t} : at'[u] = at[u]
          /\ point \in HandlerPoints => at[t] \in HandlerPoints
          /\ active /\ point \in ConsumerPoints \ {"subscribe"} =>
                at[t] \in ConsumerPoints \ {"subscribe"}
    BY <1>0, <2>1 DEF Goto
  <2>3. \A p \in Actors : InHand(p)' => InHand(p) /\ hand'[p] = hand[p]
    BY <1>0, <1>1, <2>1, <2>2 DEF InHand, Actors, ChannelUsable
  <2>4. \A u \in Threads : Alive(u)' => Alive(u)
    BY <1>1, <2>2 DEF Alive
  <2> QED
    BY <1>1, <2>1, <2>2, <2>3, <2>4, ChannelAlone
<1> QED
  BY <1>1, <1>2, <1>3 DEF ThreadStep, LoopStep, StopStep

\* A delivery, on the present channel or on another one.
LEMMA DeliverKeepsChannel ==
    ASSUME QueueTypeOK, LoopInv, NEW k \in ConnectionIds, NEW s \in Threads, NEW m \in Messages,
           Deliver(k, s, m)
    PROVE  Connected' /\ Numbered' /\ Subscribed' /\ Tags'
<1> DEFINE c == ch[channel]
           d == ch'[channel]
           tag == Len(ch[k].log) + 1
           e == [msg |-> m, to |-> s]
<1>0. Owner \notin Threads
  BY ThreadFacts
<1>1. /\ UNCHANGED <<fields, at, hand, open, declared, made>>
      /\ ch' = [ch EXCEPT ![k].log = Append(@, e), ![k].unacked = @ \cup {tag},
                          ![k].pending = @ \cup {tag}]
  BY DEF Deliver, bounds
<1>2. CASE channel = 0
  <2>1. \A t \in Threads : at[t] \notin ConsumerPoints
    BY <1>2, ThreadsDoNotCrash DEF ChannelUsable, Alive, ConsumerPoints, HandlerPoints
  <2>2. \A p \in Actors : ~InHand(p)
    BY <1>2 DEF LoopInv, Tags, Holds
  <2>3. \A t \in Threads : at'[t] \notin ConsumerPoints
    BY <1>1, <2>1
  <2>4. \A p \in Actors : InHand(p)' => InHand(p)
    BY <1>1, <1>2 DEF InHand, ChannelUsable, fields
  <2>5. UNCHANGED <<connection, channel, open>> /\ \A t \in Threads : Alive(t)' => Alive(t)
    BY <1>1 DEF fields, Alive
  <2> QED
    BY <1>1, <1>2, <2>3, <2>4, <2>5, ChannelKept
<1>3. CASE channel # 0
  <2>1. /\ channel \in ConnectionIds
        /\ ch \in [ConnectionIds -> Channel] /\ c \in Channel /\ c \in Shape
    BY <1>3, InHandFacts
  <2>2. CASE k # channel
    <3>1. d = c
      BY <1>1, <2>1, <2>2
    <3> QED
      BY <1>1, <1>3, <3>1, ChannelKept, InHandFacts DEF fields, InHand, ChannelUsable, Alive
  <2>3. CASE k = channel
    <3>1. /\ d.open = c.open /\ d.consumers = c.consumers /\ d.log = Append(c.log, e)
          /\ d.unacked = c.unacked \cup {tag} /\ d.pending = c.pending \cup {tag}
      <4> HIDE DEF tag
      <4> QED
        BY <1>1, <2>1, <2>3 DEF Shape
    <3>2. /\ c.log \in Seq(Entry) /\ Len(c.log) \in Nat
          /\ c.unacked \subseteq 1..Len(c.log) /\ c.pending \subseteq 1..Len(c.log)
      BY <2>1, ChannelFacts
    <3>3. tag \notin c.unacked /\ d.log[tag] = e /\ \A i \in c.unacked : d.log[i] = c.log[i]
      BY <2>3, <3>1, <3>2
    <3>4. \A i \in d.pending : i \in d.unacked /\ (i \in c.pending \/ d.log[i].to # Owner)
      <4>1. \A i \in d.pending : i \in c.pending \/ i = tag
        BY <3>1
      <4>2. \A i \in d.pending : i \in d.unacked
        BY <1>3, <3>1, InHandFacts
      <4>3. d.log[tag].to # Owner
        BY <1>0, <3>3
      <4> QED
        BY <4>1, <4>2, <4>3
    <3>5. \A p \in Actors : InHand(p) => hand[p].tag \in d.unacked \ d.pending
      BY <1>3, <3>1, <3>3, InHandFacts
    <3>6. d.open = c.open /\ d.consumers = c.consumers
      BY <3>1
    <3> HIDE DEF tag, e
    <3> QED
      BY <1>1, <1>3, <3>3, <3>4, <3>5, <3>6, ChannelKept DEF fields, InHand, ChannelUsable, Alive
  <2> QED
    BY <2>2, <2>3
<1> QED
  BY <1>2, <1>3

-----------------------------------------------------------------------------
(* The messages *)

\* What a thread or the owner settles is a message in hand, which is "out" or was lost.
LEMMA SettledMessage ==
    ASSUME QueueTypeOK, LoopInv, Published, NEW p \in Actors, InHand(p), NEW where,
           Settle(hand[p].tag, where)
    PROVE  /\ hand[p].msg \in Messages
           /\ stage[hand[p].msg] # "new"
           /\ stage' = [stage EXCEPT ![hand[p].msg] = IF @ = "out" THEN where ELSE @]
<1>1. channel # 0
  BY DEF LoopInv, Tags, Holds
<1> DEFINE c == ch[channel]
<1>2. /\ c \in Channel
      /\ hand[p].tag \in c.unacked /\ c.log[hand[p].tag].msg = hand[p].msg
  BY <1>1, InHandFacts
<1>3. c.log[hand[p].tag] \in Entry
  BY <1>2, ChannelFacts
<1> QED
  BY <1>1, <1>2, <1>3 DEF Settle, Published, Entry

\* Messages that go back to the queue.
LEMMA PutBackIsRequeue ==
    ASSUME NEW k, NEW tags, QueueTypeOK, PutBack(k, tags), processed' = processed
    PROVE  Promise!Requeue
<1> DEFINE back == {ch[k].log[i].msg : i \in tags}
<1>1. PICK S \in SUBSET {m \in Messages : stage[m] = "out"} :
        S = {m \in Messages : m \in back /\ stage[m] = "out"}
  OBVIOUS
<1>2. stage' = [m \in Messages |-> IF m \in back /\ stage[m] = "out" THEN "ready" ELSE stage[m]]
  BY DEF PutBack
<1> HIDE DEF back
<1>3. stage' = [m \in Messages |-> IF m \in S THEN "ready" ELSE stage[m]]
  BY <1>1, <1>2
<1> QED
  BY <1>3 DEF Promise!Requeue, Promise!Put

\* ack and nack, or the owner settling what it has fetched.
LEMMA SettleIsPromised ==
    ASSUME QueueTypeOK, LoopInv, Published, NEW p \in Actors, InHand(p),
           \/ /\ Settle(hand[p].tag, "acked")
              /\ processed' \in {processed, processed \cup {hand[p].msg}}
              /\ hand[p].msg \in processed'
           \/ Settle(hand[p].tag, "ready") /\ processed' = processed
    PROVE  Promise!PromiseNext \/ UNCHANGED <<stage, processed>>
<1>1. PICK where \in {"acked", "ready"} :
         /\ Settle(hand[p].tag, where)
         /\ processed' \in {processed, processed \cup {hand[p].msg}}
         /\ where = "acked" => hand[p].msg \in processed'
         /\ where = "ready" => processed' = processed
  OBVIOUS
<1>2. PICK m \in Messages : m = hand[p].msg
  BY <1>1, SettledMessage
<1>3. stage[m] # "new" /\ stage' = [stage EXCEPT ![m] = IF @ = "out" THEN where ELSE @]
      /\ stage \in [Messages -> Stages]
  BY <1>1, <1>2, SettledMessage DEF QueueTypeOK
<1>4. CASE stage[m] # "out"
  <2>1. stage' = stage
    BY <1>3, <1>4
  <2>2. processed' = processed \/ Promise!Process(m)
    BY <1>1, <1>2, <1>3, <2>1 DEF Promise!Process
  <2> QED
    BY <2>1, <2>2 DEF Promise!PromiseNext
<1>5. CASE stage[m] = "out"
  <2>1. stage' = [x \in Messages |-> IF x \in {m} THEN where ELSE stage[x]]
    BY <1>3, <1>5
  <2>2. CASE where = "acked"
    BY <1>1, <1>2, <1>5, <2>1, <2>2 DEF Promise!PromiseNext, Promise!Ack, Promise!Put
  <2>3. CASE where = "ready"
    <3>1. Promise!Requeue
      BY <1>1, <1>5, <2>1, <2>3 DEF Promise!Requeue, Promise!Put
    <3> QED
      BY <3>1 DEF Promise!PromiseNext
  <2> QED
    BY <2>2, <2>3
<1> QED
  BY <1>4, <1>5

\* Every step is one that MessageQueue allows, the deletion included.
LEMMA StepIsPromised ==
    ASSUME Steady, Undisturbed, QueueTypeOK, LoopInv, Published, Acking, QueueNext, strays' = 0
    PROVE  Promise!PromiseNext \/ UNCHANGED <<stage, processed>>
<1>0. /\ stage \in [Messages -> Stages] /\ Owner \in Actors /\ Threads \subseteq Actors
      /\ faults = 0 /\ ~(faults < MaxFaults) /\ deletions = 0 /\ strays' = strays
  BY ThreadFacts, QueueAssumption DEF QueueTypeOK, Steady, Undisturbed
<1>1. ASSUME NEW m \in Messages, publish(m)
      PROVE  Promise!PromiseNext
  <2>1. PICK where \in {"ready", "lost"} :
           stage' = [stage EXCEPT ![m] = where] /\ stage[m] = "new" /\ processed' = processed
    BY <1>1 DEF publish
  <2>2. stage' = [x \in Messages |-> IF x \in {m} THEN where ELSE stage[x]]
    BY <1>0, <2>1
  <2> QED
    BY <2>1, <2>2 DEF Promise!PromiseNext, Promise!Publish, Promise!Put
<1>2. ASSUME NEW m \in Messages, FetchAcked(m)
      PROVE  Promise!PromiseNext
  <2>1. stage' = [stage EXCEPT ![m] = "acked"] /\ stage[m] = "ready"
        /\ processed' = processed \cup {m}
    BY <1>2 DEF FetchAcked, CanFetch
  <2>2. stage' = [x \in Messages |-> IF x \in {m} THEN "acked" ELSE stage[x]]
    BY <1>0, <2>1
  <2> QED
    BY <2>1, <2>2 DEF Promise!PromiseNext, Promise!HandOver, Promise!Put
<1>3. ASSUME NEW m \in Messages,
             Fetch(m) \/ \E k \in ConnectionIds, t \in Threads : Deliver(k, t, m)
      PROVE  Promise!PromiseNext
  <2>1. stage' = [stage EXCEPT ![m] = "out"] /\ stage[m] = "ready" /\ processed' = processed
    BY <1>3 DEF Fetch, CanFetch, Deliver
  <2>2. stage' = [x \in Messages |-> IF x \in {m} THEN "out" ELSE stage[x]]
    BY <1>0, <2>1
  <2> QED
    BY <2>1, <2>2 DEF Promise!PromiseNext, Promise!HandOut, Promise!Put
<1>4. CASE SettleHand
  <2>1. InHand(Owner)
    BY <1>0, <1>4, QueueAssumption DEF SettleHand, InHand, QueueTypeOK
  <2>2. \/ Settle(hand[Owner].tag, "acked") /\ processed' = processed \cup {hand[Owner].msg}
        \/ Settle(hand[Owner].tag, "ready") /\ processed' = processed
    BY <1>4 DEF SettleHand
  <2> QED
    BY <1>0, <2>1, <2>2, SettleIsPromised
<1>5. CASE delete_queue
  <2>1. stage' = [m \in Messages |-> IF stage[m] \in {"ready", "out"} THEN "lost" ELSE stage[m]]
        /\ processed' = processed
    BY <1>5 DEF delete_queue
  <2>2. stage' = Promise!Put({m \in Messages : stage[m] \in {"ready", "out"}}, "lost")
    BY <1>0, <2>1 DEF Promise!Put
  <2> QED
    BY <2>1, <2>2 DEF Promise!PromiseNext, Promise!Delete
<1>6. CASE OwnerCall /\ ~SettleHand /\ ~delete_queue /\ \A m \in Messages : ~publish(m)
  BY <1>6 DEF OwnerCall, connect, declare_queue, get, consume, stop_consuming, wait, close, broker
\* What closes a channel or cancels a consumer gives messages back.
<1>7. CASE CancelConsumer(Owner) \/ Hangup \/ Disconnect
  <2>1. processed' = processed
    BY <1>7 DEF CancelConsumer, Hangup, Disconnect
  <2>2. stage' = stage \/ \E k, tags : PutBack(k, tags)
    BY <1>7 DEF CancelConsumer, Hangup, Disconnect, CloseChannel
  <2> QED
    BY <2>1, <2>2, PutBackIsRequeue DEF Promise!PromiseNext
<1>8. ~GetRaises
  BY GetDoesNotRaise
<1>9. CASE /\ OwnerStep /\ ~CancelConsumer(Owner) /\ ~Hangup /\ ~Disconnect
           /\ \A m \in Messages : ~FetchAcked(m) /\ ~Fetch(m)
  BY <1>8, <1>9
     DEF OwnerStep, StopStep, OpenChannel, ConnectFails, FetchNothing, ConsumeConnects, SetActive,
         Spawn, TestActive, ClearActive, BeginJoin, EndJoin, EndWait, ForgetConnection,
         ForgetChannel, broker
<1>10. ASSUME NEW t \in Threads, ThreadStep(t)
       PROVE  Promise!PromiseNext \/ UNCHANGED <<stage, processed>>
  <2>1. /\ ~ClearActive(t) /\ ~CancelConsumer(t) /\ ~BeginJoin(t) /\ ~EndJoin(t)
        /\ ~SubscribeRaises(t) /\ ~LoopCrashes(t) /\ ~AckRaises(t)
    BY <1>10, ThreadMoves, ThreadsDoNotCrash
  <2>2. Owner \notin Threads /\ t \in Actors
    BY ThreadFacts
  <2>3. CASE CallbackReturns(t)
    <3>1. InHand(t)
      BY <2>2, <2>3 DEF CallbackReturns, InHand, HandlerPoints
    <3>2. /\ channel # 0 /\ hand[t].tag \in ch[channel].unacked
          /\ ch[channel].log[hand[t].tag].msg = hand[t].msg /\ ch[channel] \in Channel
      BY <2>2, <3>1, InHandFacts DEF LoopInv, Tags, Holds
    <3>3. ch[channel].log[hand[t].tag] \in Entry
      BY <3>2, ChannelFacts
    <3>4. PICK m \in Messages : m = hand[t].msg
      BY <3>2, <3>3 DEF Entry
    <3>5. stage[m] # "new" /\ stage' = stage /\ processed' = processed \cup {m}
      BY <2>3, <3>2, <3>4 DEF Published, CallbackReturns, broker
    <3> QED
      BY <3>5 DEF Promise!PromiseNext, Promise!Process
  <2>4. CASE ack(t) \/ nack(t)
    <3>1. InHand(t)
      BY <2>2, <2>4 DEF ack, nack, AckOrNack, InHand, HandlerPoints
    <3>2. /\ processed' = processed
          /\ \/ Settle(hand[t].tag, "acked") /\ hand[t].msg \in processed
             \/ Settle(hand[t].tag, "ready")
      BY <2>4 DEF ack, nack, AckOrNack, Acking
    <3> QED
      BY <2>2, <3>1, <3>2, SettleIsPromised
  <2>5. CASE ~CallbackReturns(t) /\ ~ack(t) /\ ~nack(t)
    BY <1>10, <2>1, <2>5 DEF ThreadStep, LoopStep, StopStep, Subscribe, CheckActive, PollNothing,
                             DispatchMessage, CallbackRaises, TestActive, broker
  <2> QED
    BY <2>3, <2>4, <2>5
<1>11. ~(\E k \in ConnectionIds : LoseConnection(k))
  BY <1>0 DEF LoseConnection
<1> QED
  BY <1>1, <1>2, <1>3, <1>4, <1>5, <1>6, <1>7, <1>9, <1>10, <1>11 DEF QueueNext, OwnerStep

\* What MessageQueue promises implies that nothing unprocessed is acknowledged.
LEMMA PromiseKeepsMessages ==
    ASSUME QueueTypeOK, Promise!PromiseNext \/ UNCHANGED <<stage, processed>>
    PROVE  /\ processed \subseteq processed'
           /\ \A m \in Messages : stage[m] # "new" => stage'[m] # "new"
           /\ \A m \in Messages : stage'[m] = "acked" => stage[m] = "acked" \/ m \in processed'
<1>1. stage \in [Messages -> Stages]
  BY DEF QueueTypeOK
<1>2. ASSUME NEW m \in Messages,
             Promise!Publish(m) \/ Promise!HandOut(m) \/ Promise!HandOver(m)
             \/ Promise!Process(m) \/ Promise!Ack(m)
      PROVE  /\ processed \subseteq processed'
             /\ \A x \in Messages : stage[x] # "new" => stage'[x] # "new"
             /\ \A x \in Messages : stage'[x] = "acked" => stage[x] = "acked" \/ x \in processed'
  BY <1>1, <1>2 DEF Promise!Publish, Promise!HandOut, Promise!HandOver, Promise!Process,
                    Promise!Ack, Promise!Put
<1>3. ASSUME Promise!Requeue \/ Promise!Delete
      PROVE  /\ processed \subseteq processed'
             /\ \A x \in Messages : stage[x] # "new" => stage'[x] # "new"
             /\ \A x \in Messages : stage'[x] = "acked" => stage[x] = "acked" \/ x \in processed'
  BY <1>1, <1>3 DEF Promise!Requeue, Promise!Delete, Promise!Put
<1> QED
  BY <1>1, <1>2, <1>3 DEF Promise!PromiseNext

\* A thread is about to acknowledge only after its callback has returned.
LEMMA AckingStep ==
    ASSUME Steady, Undisturbed, QueueTypeOK, LoopInv, Published, Acking, QueueNext, strays' = 0
    PROVE  Acking'
<1>0. /\ Owner \notin Threads /\ Owner \in Actors /\ Threads \subseteq Actors
      /\ at \in [Actors -> Points] /\ hand \in [Actors -> Delivery \cup {NoDelivery}]
  BY ThreadFacts
<1>1. /\ processed \subseteq processed'
      /\ \A m \in Messages : stage'[m] = "acked" => stage[m] = "acked" \/ m \in processed'
  BY StepIsPromised, PromiseKeepsMessages
<1>2. ASSUME NEW t \in Threads, at'[t] = "ack"
      PROVE  (at[t] = "ack" /\ hand'[t] = hand[t]) \/ hand'[t].msg \in processed'
  <2>1. CASE OwnerCall
    <3>1. hand'[t] = hand[t]
      BY <1>0, <2>1 DEF OwnerCall, connect, declare_queue, delete_queue, get, SettleHand, consume,
             stop_consuming, wait, close, publish
    <3>2. at' = at \/ \E point : Goto(Owner, point)
      BY <2>1 DEF OwnerCall, connect, declare_queue, delete_queue, get, SettleHand, consume,
             stop_consuming, wait, close, publish
    <3> QED
      BY <1>0, <1>2, <3>1, <3>2 DEF Goto
  <2>2. CASE OwnerStep
    <3>1. hand'[t] = hand[t]
      BY <1>0, <2>2 DEF OwnerStep, StopStep, OpenChannel, ConnectFails, FetchNothing, GetRaises,
             FetchAcked, Fetch, ConsumeConnects, SetActive, Spawn, TestActive, ClearActive,
             CancelConsumer, BeginJoin, EndJoin, EndWait, Hangup, Disconnect, ForgetConnection,
             ForgetChannel
    <3>2. at'[t] \in {at[t], "subscribe"}
      <4>1. CASE \E s \in Threads : Spawn(s)
        BY <1>0, <4>1 DEF Spawn
      <4>2. CASE ~\E s \in Threads : Spawn(s)
        <5>1. \E point : Goto(Owner, point)
          BY <2>2, <4>2
             DEF OwnerStep, StopStep, OpenChannel, ConnectFails, FetchNothing, GetRaises,
                 FetchAcked, Fetch, ConsumeConnects, SetActive, TestActive, ClearActive,
                 CancelConsumer, BeginJoin, EndJoin, EndWait, Hangup, Disconnect,
                 ForgetConnection, ForgetChannel
        <5> QED
          BY <1>0, <5>1 DEF Goto
      <4> QED
        BY <4>1, <4>2
    <3> QED
      BY <1>2, <3>1, <3>2
  <2>3. ASSUME NEW s \in Threads, ThreadStep(s), s # t
        PROVE  at[t] = "ack" /\ hand'[t] = hand[t]
    <3>1. Alive(s) /\ \E point : Goto(s, point)
      BY <2>3, ThreadMoves
    <3>2. at'[t] = at[t] /\ ~Alive(t)
      BY <1>0, <2>3, <3>1 DEF Goto, LoopInv, OneThread
    <3> QED
      BY <1>2, <3>2 DEF Alive
  <2>4. CASE ThreadStep(t)
    <3>1. /\ ~ClearActive(t) /\ ~CancelConsumer(t) /\ ~BeginJoin(t) /\ ~EndJoin(t)
          /\ ~SubscribeRaises(t) /\ ~LoopCrashes(t) /\ ~AckRaises(t)
      BY <2>4, ThreadMoves, ThreadsDoNotCrash
    <3>2. CASE CallbackReturns(t)
      BY <3>2 DEF CallbackReturns
    <3>3. CASE TestActive(t)
      BY <1>0, <1>2, <3>3 DEF TestActive, AfterStop, Goto
    <3>4. CASE ~CallbackReturns(t) /\ ~TestActive(t)
      BY <1>0, <1>2, <2>4, <3>1, <3>4
         DEF ThreadStep, LoopStep, StopStep, Subscribe, CheckActive, PollNothing, DispatchMessage,
             CallbackRaises, ack, nack, AckOrNack, HandlerReturns, Goto
    <3> QED
      BY <3>2, <3>3, <3>4
  <2>5. CASE \/ \E k \in ConnectionIds : LoseConnection(k)
             \/ \E k \in ConnectionIds, s \in Threads, m \in Messages : Deliver(k, s, m)
    BY <1>2, <2>5, ZenonT(60) DEF LoseConnection, Deliver
  <2> QED
    BY <2>1, <2>2, <2>3, <2>4, <2>5 DEF QueueNext
<1> QED
  BY <1>1, <1>2 DEF Acking

\* A channel knows deliveries of published messages only.
LEMMA PublishedStep ==
    ASSUME Steady, Undisturbed, QueueTypeOK, LoopInv, Published, Acking, QueueNext, strays' = 0
    PROVE  Published'
<1>0. /\ Owner \notin Threads /\ Owner \in Actors /\ ch \in [ConnectionIds -> Channel]
      /\ stage \in [Messages -> Stages] /\ made \in 0..MaxConnections /\ MaxConnections \in Nat
      /\ faults = 0 /\ ~(faults < MaxFaults) /\ deletions = 0
      /\ strays' = strays /\ strays = 0
  BY ThreadFacts, QueueAssumption DEF QueueTypeOK, Steady, Undisturbed
<1> DEFINE c == ch[channel]
           d == ch'[channel]
<1>1. \A m \in Messages : stage[m] # "new" => stage'[m] # "new"
  BY StepIsPromised, PromiseKeepsMessages
<1>2. channel # 0 =>
         /\ channel \in ConnectionIds /\ c \in Channel /\ c \in Shape
         /\ c.log \in Seq(Entry) /\ Len(c.log) \in Nat /\ c.unacked \subseteq 1..Len(c.log)
         /\ \A i \in c.unacked : c.log[i].msg \in Messages /\ stage[c.log[i].msg] # "new"
  <2>1. channel # 0 =>
           channel \in ConnectionIds /\ c \in Channel /\ c \in Shape
    BY InHandFacts
  <2>2. channel # 0 =>
           /\ c.log \in Seq(Entry) /\ Len(c.log) \in Nat /\ c.unacked \subseteq 1..Len(c.log)
           /\ \A i \in 1..Len(c.log) : c.log[i] \in Entry
    BY <2>1, ChannelFacts
  <2>3. channel # 0 =>
           \A i \in c.unacked : c.log[i].msg \in Messages /\ stage[c.log[i].msg] # "new"
    BY <2>2 DEF Entry, Published
  <2> QED
    BY <2>1, <2>2, <2>3
\* The channel stays, and no delivery is new ...
<1>3. ASSUME channel' = channel,
             channel # 0 => d.unacked \subseteq c.unacked /\ \A i \in c.unacked : d.log[i] = c.log[i]
      PROVE  Published'
  BY <1>1, <1>2, <1>3 DEF Published
\* ... or message m is delivered ...
<1>4. ASSUME NEW m \in Messages, stage' = [stage EXCEPT ![m] = "out"], NEW u,
             channel' = channel, channel # 0,
             d.log = Append(c.log, [msg |-> m, to |-> u]),
             d.unacked = c.unacked \cup {Len(c.log) + 1}
      PROVE  Published'
  <2>1. /\ d.log[Len(c.log) + 1] = [msg |-> m, to |-> u]
        /\ \A i \in c.unacked : d.log[i] = c.log[i]
    BY <1>2, <1>4
  <2>2. stage'[m] # "new"
    BY <1>0, <1>4
  <2>3. ASSUME NEW i \in d.unacked
        PROVE  stage'[d.log[i].msg] # "new"
    <3>1. CASE i \in c.unacked
      <4>1. stage'[c.log[i].msg] # "new"
        BY <1>1, <1>2, <1>4, <3>1
      <4> QED
        BY <2>1, <3>1, <4>1
    <3>2. CASE i = Len(c.log) + 1
      <4>1. d.log[i].msg = m
        BY <2>1, <3>2
      <4> QED
        BY <2>2, <4>1
    <3> QED
      BY <1>4, <3>1, <3>2
  <2> QED
    BY <1>4, <2>3 DEF Published
\* ... or it is another channel.
<1>5. ASSUME channel' # 0 => ch'[channel'].unacked = {}
      PROVE  Published'
  BY <1>5 DEF Published
<1>6. CASE OpenChannel \/ ForgetChannel
  <2>1. CASE OpenChannel
    <3>1. ch'[channel'] = Fresh
      BY <2>1, <1>0 DEF OpenChannel, AlreadyConnected, QueueTypeOK
    <3> QED
      BY <1>5, <3>1 DEF Fresh, Closed
  <2>2. CASE ForgetChannel
    BY <1>5, <2>2 DEF ForgetChannel
  <2> QED
    BY <1>6, <2>1, <2>2
<1>7. ASSUME NEW m \in Messages, FetchAcked(m)
      PROVE  Published'
  <2>1. ch' = [ch EXCEPT ![channel].log = Append(@, [msg |-> m, to |-> Owner])]
        /\ channel' = channel
    BY <1>7 DEF FetchAcked, fields
  <2>2. channel # 0 =>
          d.unacked = c.unacked /\ d.log = Append(c.log, [msg |-> m, to |-> Owner])
    BY <1>0, <1>2, <2>1 DEF Shape
  <2>3. channel # 0 => \A i \in c.unacked : d.log[i] = c.log[i]
    BY <1>2, <2>2
  <2>4. channel # 0 => d.unacked \subseteq c.unacked
    BY <2>2
  <2> QED
    BY <1>3, <2>1, <2>3, <2>4
<1>8. ASSUME NEW m \in Messages, Fetch(m)
      PROVE  Published'
  <2>1. channel # 0
    BY <1>8 DEF Fetch, CanFetch, ChannelUsable
  <2>2. /\ ch' = [ch EXCEPT ![channel].log = Append(@, [msg |-> m, to |-> Owner]),
                            ![channel].unacked = @ \cup {Len(ch[channel].log) + 1}]
        /\ stage' = [stage EXCEPT ![m] = "out"] /\ channel' = channel
    BY <1>8 DEF Fetch, fields
  <2>3. /\ d.log = Append(c.log, [msg |-> m, to |-> Owner])
        /\ d.unacked = c.unacked \cup {Len(c.log) + 1}
    BY <1>0, <1>2, <2>1, <2>2 DEF Shape
  <2> QED
    BY <1>4, <2>1, <2>2, <2>3
<1>9. ASSUME NEW k \in ConnectionIds, NEW t \in Threads, NEW m \in Messages, Deliver(k, t, m)
      PROVE  Published'
  <2> DEFINE tag == Len(ch[k].log) + 1
  <2>1. /\ ch' = [ch EXCEPT ![k].log = Append(@, [msg |-> m, to |-> t]),
                            ![k].unacked = @ \cup {tag}, ![k].pending = @ \cup {tag}]
        /\ stage' = [stage EXCEPT ![m] = "out"] /\ channel' = channel
    BY <1>9 DEF Deliver, fields
  <2>2. CASE channel = 0 \/ k # channel
    <3>1. channel # 0 => d = c
      BY <1>0, <1>2, <2>1, <2>2
    <3> QED
      BY <1>3, <2>1, <3>1
  <2>3. CASE channel # 0 /\ k = channel
    <3>1. /\ d.log = Append(c.log, [msg |-> m, to |-> t]) /\ d.unacked = c.unacked \cup {tag}
      <4> HIDE DEF tag
      <4> QED
        BY <1>0, <1>2, <2>1, <2>3 DEF Shape
    <3> QED
      BY <1>4, <2>1, <2>3, <3>1
  <2> QED
    BY <2>2, <2>3
<1>10. CASE SettleHand
  <2>1. ChannelUsable /\ InHand(Owner) /\ channel' = channel
        /\ (Settle(hand[Owner].tag, "acked") \/ Settle(hand[Owner].tag, "ready"))
    BY <1>0, <1>10 DEF SettleHand, InHand, fields
  <2>2. channel # 0 /\ hand[Owner].tag \in c.unacked
    BY <1>0, <2>1, InHandFacts DEF ChannelUsable
  <2>3. ch' = [ch EXCEPT ![channel].unacked = @ \ {hand[Owner].tag}]
    BY <1>2, <2>1, <2>2 DEF Settle
  <2>4. d.log = c.log /\ d.unacked \subseteq c.unacked
    BY <1>0, <1>2, <2>2, <2>3 DEF Shape
  <2> QED
    BY <1>3, <2>1, <2>4
<1>11. CASE UNCHANGED <<channel, ch>>
  BY <1>3, <1>11
<1>12. CASE delete_queue
  <2>1. channel' = channel
        /\ ch' = [k \in ConnectionIds |-> [ch[k] EXCEPT !.consumers = {}]]
    BY <1>12 DEF delete_queue, fields
  <2>2. channel # 0 => d.log = c.log /\ d.unacked = c.unacked
    BY <1>2, <2>1 DEF Shape
  <2> QED
    BY <1>3, <2>1, <2>2
<1>13. CASE OwnerCall
  <2>1. CASE \/ connect \/ declare_queue \/ get \/ consume \/ stop_consuming \/ wait \/ close
             \/ \E m \in Messages : publish(m)
    BY <1>11, <2>1 DEF connect, declare_queue, get, consume, stop_consuming, wait, close, publish,
                       fields, broker
  <2> QED
    BY <1>10, <1>12, <1>13, <2>1 DEF OwnerCall
<1>14. CASE CancelConsumer(Owner)
  <2>1. channel' = channel
    BY <1>14 DEF CancelConsumer
  <2>2. CASE ChannelUsable /\ consumer_tag # None
    <3> DEFINE undone == {i \in ch[channel].pending : ch[channel].log[i].to = consumer_tag}
    <3>1. ch' = [ch EXCEPT ![channel].consumers = @ \ {consumer_tag},
                           ![channel].pending = @ \ undone,
                           ![channel].unacked = @ \ undone]
      BY <1>14, <2>2 DEF CancelConsumer
    <3> HIDE DEF undone
    <3>2. channel # 0 => d.log = c.log /\ d.unacked \subseteq c.unacked
      BY <1>0, <1>2, <3>1 DEF Shape
    <3> QED
      BY <1>3, <2>1, <3>2
  <2>3. CASE ~(ChannelUsable /\ consumer_tag # None)
    BY <1>11, <1>14, <2>1, <2>3 DEF CancelConsumer
  <2> QED
    BY <2>2, <2>3
<1>15. CASE Hangup \/ Disconnect
  <2>1. channel' = channel
    BY <1>15 DEF Hangup, Disconnect, fields
  <2>2. CASE ch' = ch
    BY <1>11, <2>1, <2>2
  <2>3. CASE ch' = [ch EXCEPT ![channel] = Closed]
    <3>1. channel' # 0 => ch'[channel'].unacked = {}
      BY <1>0, <1>2, <2>1, <2>3 DEF Closed
    <3> QED
      BY <1>5, <3>1
  <2>4. Disconnect => channel = connection
    BY PointSets DEF Disconnect, LoopInv, Connected, ConnectPoints
  <2> QED
    BY <1>15, <2>2, <2>3, <2>4 DEF Hangup, Disconnect, CloseChannel
<1>16. CASE /\ OwnerStep /\ ~CancelConsumer(Owner) /\ ~Hangup /\ ~Disconnect
            /\ ~OpenChannel /\ ~ForgetChannel
            /\ \A m \in Messages : ~FetchAcked(m) /\ ~Fetch(m)
  <2>1. ~GetRaises
    BY GetDoesNotRaise
  <2> QED
    BY <1>11, <1>16, <2>1
       DEF OwnerStep, StopStep, ConnectFails, FetchNothing, ConsumeConnects, SetActive, Spawn,
           TestActive, ClearActive, BeginJoin, EndJoin, EndWait, ForgetConnection, fields, broker
<1>17. ASSUME NEW t \in Threads, ThreadStep(t)
       PROVE  Published'
  <2>1. /\ Alive(t) /\ channel' = channel
        /\ ~ClearActive(t) /\ ~CancelConsumer(t) /\ ~BeginJoin(t) /\ ~EndJoin(t)
        /\ ~SubscribeRaises(t) /\ ~LoopCrashes(t) /\ ~AckRaises(t)
    BY <1>17, ThreadMoves, ThreadsDoNotCrash
  <2>2. channel # 0 /\ t \in Actors
    BY <2>1, ThreadFacts DEF LoopInv, Connected
  <2>3. CASE Subscribe(t)
    <3>1. ch' = [ch EXCEPT ![channel].consumers = @ \cup {t}]
      BY <2>3 DEF Subscribe
    <3>2. d.log = c.log /\ d.unacked = c.unacked
      BY <1>0, <1>2, <2>2, <3>1 DEF Shape
    <3> QED
      BY <1>3, <2>1, <3>2
  <2>4. CASE DispatchMessage(t)
    <3>1. \E tag : ch' = [ch EXCEPT ![channel].pending = @ \ {tag}]
      BY <2>1, <2>4, ThreadsDoNotCrash DEF DispatchMessage
    <3>2. d.log = c.log /\ d.unacked = c.unacked
      BY <1>0, <1>2, <2>2, <3>1 DEF Shape
    <3> QED
      BY <1>3, <2>1, <3>2
  <2>5. CASE ack(t) \/ nack(t)
    <3>1. InHand(t) /\ (Settle(hand[t].tag, "acked") \/ Settle(hand[t].tag, "ready"))
      BY <1>0, <2>5 DEF ack, nack, AckOrNack, InHand, HandlerPoints
    <3>2. hand[t].tag \in c.unacked
      BY <2>2, <3>1, InHandFacts
    <3>3. ch' = [ch EXCEPT ![channel].unacked = @ \ {hand[t].tag}]
      BY <1>2, <2>2, <3>1, <3>2 DEF Settle
    <3>4. d.log = c.log /\ d.unacked \subseteq c.unacked
      BY <1>0, <1>2, <2>2, <3>3 DEF Shape
    <3> QED
      BY <1>3, <2>1, <3>4
  <2>6. CASE CheckActive(t) \/ PollNothing(t) \/ CallbackReturns(t) \/ CallbackRaises(t) \/ TestActive(t)
    BY <1>11, <2>6 DEF CheckActive, PollNothing, CallbackReturns, CallbackRaises, TestActive,
                       fields, broker
  <2> QED
    BY <1>17, <2>1, <2>3, <2>4, <2>5, <2>6 DEF ThreadStep, LoopStep, StopStep
<1>18. ~(\E k \in ConnectionIds : LoseConnection(k))
  BY <1>0 DEF LoseConnection
<1> QED
  BY <1>6, <1>7, <1>8, <1>9, <1>13, <1>14, <1>15, <1>16, <1>17, <1>18 DEF QueueNext

-----------------------------------------------------------------------------
(* The theorems *)

LEMMA LoopInvStep ==
    ASSUME Steady, Undisturbed, QueueTypeOK, LoopInv, QueueNext, deletions' = 0, strays' = 0
    PROVE  LoopInv'
<1>1. OneThread' /\ OwnerTurn'
  BY ThreadsStayOne
<1>2. ~(\E k \in ConnectionIds : LoseConnection(k))
  BY QueueAssumption DEF QueueTypeOK, Steady, LoseConnection
<1>3. Connected' /\ Numbered' /\ Subscribed' /\ Tags'
  BY <1>2, CallKeepsChannel, OwnerStepKeepsChannel, ThreadKeepsChannel, DeliverKeepsChannel
     DEF QueueNext
<1> QED
  BY <1>1, <1>3 DEF LoopInv

LEMMA LoopStutter ==
    ASSUME LoopInv, UNCHANGED queueVars
    PROVE  LoopInv'
BY DEF LoopInv, OneThread, OwnerTurn, Connected, Numbered, Subscribed, Tags, Holds, InHand,
       ChannelUsable, Alive, queueVars, fields, broker, bounds

LEMMA LoopInit == QueueInit => LoopInv
<1> SUFFICES ASSUME QueueInit PROVE LoopInv
  OBVIOUS
<1>0. Owner \notin Threads /\ Owner \in Actors /\ Threads \subseteq Actors
  BY QueueAssumption DEF Actors
<1>1. at[Owner] = "idle" /\ \A t \in Threads : at[t] = "unborn" /\ ~Alive(t)
  BY <1>0 DEF QueueInit, Alive
<1>2. OneThread /\ OwnerTurn
  BY <1>1 DEF OneThread, OwnerTurn
<1>3. Connected
  BY <1>1 DEF Connected, QueueInit, ConnectPoints, ConsumePoints, HangupPoints, HungPoints,
              GetPoints, NeedsChannel, NeedsQueue
<1>6. Numbered /\ Subscribed
  BY <1>0, <1>1 DEF Numbered, Subscribed, QueueInit, ConnectPoints, NoDelivery
<1>4. \A p \in Actors : ~InHand(p)
  BY <1>1 DEF InHand, QueueInit, Actors, HandlerPoints, ChannelUsable
<1>5. Tags
  BY <1>4 DEF Tags, QueueInit
<1> QED
  BY <1>2, <1>3, <1>5, <1>6 DEF LoopInv

\* The numbers of deletions and of stray settlements do not fall.
LEMMA DisturbancesStay ==
    ASSUME QueueTypeOK, QueueNext
    PROVE  /\ deletions' = 0 => deletions = 0
           /\ strays' = 0 => strays = 0
<1>1. deletions \in Nat /\ strays \in Nat
  BY QueueAssumption DEF QueueTypeOK
<1>2. deletions' \in {deletions, deletions + 1} /\ strays' \in {strays, strays + 1}
  <2>1. CASE OwnerCall
    BY <2>1 DEF OwnerCall, connect, declare_queue, delete_queue, get, SettleHand, consume,
         stop_consuming, wait, close, publish, bounds
  <2>2. CASE OwnerStep
    BY <2>2 DEF OwnerStep, StopStep, OpenChannel, ConnectFails, FetchNothing, GetRaises,
         FetchAcked, Fetch, ConsumeConnects, SetActive, Spawn, TestActive, ClearActive,
         CancelConsumer, BeginJoin, EndJoin, EndWait, Hangup, Disconnect, ForgetConnection,
         ForgetChannel, bounds
  <2>3. ASSUME NEW t \in Threads, ThreadStep(t)
        PROVE  deletions' \in {deletions, deletions + 1} /\ strays' \in {strays, strays + 1}
    BY <2>3 DEF ThreadStep, LoopStep, StopStep, Subscribe, SubscribeRaises, CheckActive,
         LoopCrashes, PollNothing, DispatchMessage, CallbackReturns, CallbackRaises, ack, nack,
         AckOrNack, AckRaises, TestActive, ClearActive, CancelConsumer, BeginJoin, EndJoin, bounds
  <2>4. CASE \/ \E k \in ConnectionIds : LoseConnection(k)
             \/ \E k \in ConnectionIds, t \in Threads, m \in Messages : Deliver(k, t, m)
    BY <2>4 DEF LoseConnection, Deliver, bounds
  <2> QED
    BY <2>1, <2>2, <2>3, <2>4 DEF QueueNext
<1> QED
  BY <1>1, <1>2

LEMMA CalmStep ==
    ASSUME Steady, QueueTypeOK, CalmInv, [QueueNext]_queueVars
    PROVE  CalmInv'
<1> SUFFICES ASSUME Undisturbed' PROVE (LoopInv /\ Published /\ Acking)'
  BY DEF CalmInv
<1>1. CASE UNCHANGED queueVars
  <2>1. Undisturbed
    BY <1>1 DEF Undisturbed, queueVars, bounds
  <2>2. LoopInv /\ Published /\ Acking
    BY <2>1 DEF CalmInv
  <2>3. LoopInv'
    BY <1>1, <2>2, LoopStutter
  <2> QED
    BY <1>1, <2>2, <2>3 DEF Published, Acking, queueVars, fields, broker
<1>2. CASE QueueNext
  <2>1. Undisturbed /\ deletions' = 0 /\ strays' = 0
    BY <1>2, DisturbancesStay DEF Undisturbed
  <2>2. LoopInv /\ Published /\ Acking
    BY <2>1 DEF CalmInv
  <2> QED
    BY <1>2, <2>1, <2>2, LoopInvStep, PublishedStep, AckingStep
<1> QED
  BY <1>1, <1>2

LEMMA CalmInvariant ==
    ASSUME Steady
    PROVE  QueueSpec => []QueueTypeOK /\ []CalmInv
<1>1. QueueInit => CalmInv
  <2> SUFFICES ASSUME QueueInit PROVE LoopInv /\ Published /\ Acking
    BY DEF CalmInv
  <2>1. \A t \in Threads : at[t] = "unborn"
    BY QueueAssumption DEF QueueInit, Actors
  <2>2. Published /\ Acking
    BY <2>1 DEF QueueInit, Published, Acking
  <2> QED
    BY <2>2, LoopInit
<1>2. QueueTypeOK /\ CalmInv /\ [QueueNext]_queueVars => CalmInv'
  BY CalmStep
<1> QED
  BY <1>1, <1>2, QueueTypeCorrect, PTL DEF QueueSpec

\* One object runs one consumer loop, however often it is started and stopped: the
\* owner waits for the old thread before it can start a new one.
THEOREM OneLoopRuns ==
    ASSUME Steady
    PROVE  QueueSpec => []OneConsumerLoop
<1>1. QueueTypeOK /\ CalmInv => OneConsumerLoop
  BY DEF CalmInv, LoopInv, OneThread, OneConsumerLoop, Alive, ConsumerPoints, HandlerPoints
<1> QED
  BY <1>1, CalmInvariant, PTL

\* When stop_consuming or close has returned, no callback runs and none will.
THEOREM StoppedObjectsAreQuiet ==
    ASSUME Steady
    PROVE  QueueSpec => []StoppedIsQuiet
<1>1. QueueTypeOK /\ CalmInv => StoppedIsQuiet
  BY DEF CalmInv, LoopInv, OneThread, StoppedIsQuiet, Alive, ConsumerPoints, HandlerPoints
<1> QED
  BY <1>1, CalmInvariant, PTL

\* A running loop polls the connection it has subscribed on.
THEOREM RunningLoopsAreSubscribed ==
    ASSUME Steady
    PROVE  QueueSpec => []RunningLoopIsSubscribed
<1>1. QueueTypeOK /\ CalmInv => RunningLoopIsSubscribed
  BY ThreadsDoNotCrash
     DEF CalmInv, LoopInv, Subscribed, RunningLoopIsSubscribed, ConsumerPoints, Alive
<1> QED
  BY <1>1, CalmInvariant, PTL

\* No acknowledgement takes an unprocessed message out of the queue: the delivery tag
\* a thread names is of the channel the object has when it names it.
THEOREM AckedMessagesAreProcessed ==
    ASSUME Steady
    PROVE  QueueSpec => []AckedMessageWasProcessed
<1>1. QueueTypeOK /\ CalmInv => AckedMessageWasProcessed
  BY DEF CalmInv, Acking, AckedMessageWasProcessed
<1> QED
  BY <1>1, CalmInvariant, PTL

\* The adapter keeps the promise of BaseMessageQueue about every message: what its threads
\* and channels do with a message is to hand it out, process it, acknowledge it or give it
\* back, as long as the owner settles only what the present channel gave it.
THEOREM AdapterKeepsItsPromises ==
    ASSUME Steady
    PROVE  QueueSpec => ImplementsMessageQueue
<1>1. QueueInit => Promise!PromiseInit
  BY DEF QueueInit, Promise!PromiseInit
<1>2. QueueTypeOK /\ CalmInv /\ [QueueNext]_queueVars
      => [Undisturbed /\ strays' = 0 => Promise!PromiseNext]_(Promise!promiseVars)
  <2> SUFFICES ASSUME QueueTypeOK, CalmInv, [QueueNext]_queueVars, Undisturbed, strays' = 0
               PROVE  Promise!PromiseNext \/ UNCHANGED <<stage, processed>>
    BY DEF Promise!promiseVars
  <2>1. CASE UNCHANGED queueVars
    BY <2>1 DEF queueVars, broker
  <2>2. CASE QueueNext
    BY <2>2, StepIsPromised DEF CalmInv
  <2> QED
    BY <2>1, <2>2
<1> QED
  BY <1>1, <1>2, CalmInvariant, PTL DEF QueueSpec, ImplementsMessageQueue

=============================================================================
