---------------------------- MODULE RabbitMQQueue ----------------------------
(***************************************************************************)
(* One RabbitMQQueue object                                                *)
(* (object_interface/message_queue/rabbitmq_adapter.py), the thread that   *)
(* owns it and the consumer threads that consume() starts.  The threads    *)
(* share the fields of the object without a lock; every step below is one  *)
(* test or assignment of them, or one command to RabbitMQ with the test    *)
(* that guards it or the assignment of what it returns.  consume is        *)
(* modelled as it is called, without auto_ack.                             *)
(*                                                                         *)
(* pika and RabbitMQ are modelled from how the adapter uses them: a        *)
(* connection carries one channel of the same number, a channel has its    *)
(* own delivery tags, and what is not acknowledged when the channel closes *)
(* goes back to the queue.  A command that names a queue nobody has        *)
(* declared closes the channel, except basic_publish, which says nothing.  *)
(***************************************************************************)
EXTENDS Naturals, Sequences

CONSTANTS
    Threads,         \* bound: the consumer threads that may ever be started
    Owner,           \* the thread that calls the methods of the object
    Messages,        \* the messages published to the queue
    None,            \* Python's None
    MaxConnections,  \* bound: connections opened
    MaxTags,         \* bound: deliveries on one channel
    MaxFaults,       \* bound: connections lost and connects that raise
    MaxDeletions,    \* bound: how often the queue is deleted
    MaxStrays,       \* bound: how often the owner settles a message on a channel
                     \* it did not come from
    SlowCallbacks    \* a callback may outlast the five seconds of join

VARIABLES
    active,          \* _active.is_set()
    connection,      \* _connection, 0 for None
    channel,         \* _channel, 0 for None
    consumer_tag,    \* _consumer_tag; a consumer is named after its thread
    consume_thread,  \* _consume_thread
    at,              \* at[p]:     the step thread p is at
    hand,            \* hand[p]:   the delivery thread p is processing
    joining,         \* joining[p]: the thread p waits for in join
    closing,         \* the owner is in close(), not only in stop_consuming()
    open,            \* the open connections
    ch,              \* ch[k]:     channel k as pika and RabbitMQ see it
    stage,           \* stage[m]:  where message m is
    declared,        \* the queue exists
    processed,       \* the messages whose callback has returned
    made, faults, deletions, strays   \* how often what the bounds limit has happened

fields  == <<active, connection, channel, consumer_tag, consume_thread>>
broker  == <<open, ch, stage, declared>>
bounds  == <<made, faults, deletions, strays>>
queueVars == <<fields, at, hand, joining, closing, broker, processed, bounds>>

-----------------------------------------------------------------------------
(* Data *)

ConnectionIds == 1..MaxConnections
Actors == Threads \cup {Owner}

StopPoints     == {"test", "clear", "cancel", "join", "joining"}
HandlerPoints  == {"callback", "ack", "nack"}
ConsumerPoints == {"subscribe", "loop", "poll"} \cup HandlerPoints
\* In connect; in consume before its thread runs; at the end of close.
ConnectPoints  == {"channel", "consume_channel"}
ConsumePoints  == {"connect", "consume_channel", "set", "spawn"}
HangupPoints   == {"hangup", "disconnect", "forget_connection", "forget_channel"}
\* In get and in wait, and the same without a timeout.
WaitPoints     == {"getting", "waiting"}
EndlessPoints  == {"getting_for_ever", "waiting_for_ever"}
OwnerPoints    == {"idle"} \cup ConnectPoints \cup ConsumePoints \cup HangupPoints
                           \cup WaitPoints \cup EndlessPoints
Points == {"unborn", "dead"} \cup StopPoints \cup ConsumerPoints \cup OwnerPoints

\* "out": delivered and not acknowledged; "lost": gone with the queue.
Stages == {"new", "ready", "out", "acked", "lost"}

NoDelivery == [msg |-> None, tag |-> 0, from |-> 0]

Delivery == [msg: Messages, tag: Nat \ {0}, from: ConnectionIds]

\* log[i]: message and addressee of delivery tag i; pending: not dispatched yet.
Entry == [msg: Messages, to: Actors]
Channel ==
    {c \in [open: BOOLEAN, consumers: SUBSET Threads, log: Seq(Entry),
            unacked: SUBSET Nat, pending: SUBSET Nat] :
        c.pending \cup c.unacked \subseteq DOMAIN c.log}
Closed == [open |-> FALSE, consumers |-> {}, log |-> <<>>, unacked |-> {}, pending |-> {}]
Fresh  == [Closed EXCEPT !.open = TRUE]

ASSUME QueueAssumption ==
    /\ Owner \notin Threads
    /\ None \notin Actors \cup Messages
    /\ MaxConnections \in Nat
    /\ MaxTags \in Nat
    /\ MaxFaults \in Nat
    /\ MaxDeletions \in Nat
    /\ MaxStrays \in Nat
    /\ SlowCallbacks \in BOOLEAN

QueueTypeOK ==
    /\ active \in BOOLEAN
    /\ {connection, channel} \subseteq 0..MaxConnections
    /\ {consumer_tag, consume_thread} \subseteq Threads \cup {None}
    /\ at \in [Actors -> Points]
    /\ hand \in [Actors -> Delivery \cup {NoDelivery}]
    /\ joining \in [Actors -> Threads \cup {None}]
    /\ closing \in BOOLEAN
    /\ open \subseteq ConnectionIds
    /\ ch \in [ConnectionIds -> Channel]
    /\ stage \in [Messages -> Stages]
    /\ declared \in BOOLEAN
    /\ processed \subseteq Messages
    /\ made \in 0..MaxConnections
    /\ faults \in 0..MaxFaults
    /\ deletions \in 0..MaxDeletions
    /\ strays \in 0..MaxStrays

QueueInit ==
    /\ active = FALSE
    /\ connection = 0
    /\ channel = 0
    /\ consumer_tag = None
    /\ consume_thread = None
    /\ at = [p \in Actors |-> IF p = Owner THEN "idle" ELSE "unborn"]
    /\ hand = [p \in Actors |-> NoDelivery]
    /\ joining = [p \in Actors |-> None]
    /\ closing = FALSE
    /\ open = {}
    /\ ch = [k \in ConnectionIds |-> Closed]
    /\ stage = [m \in Messages |-> "new"]
    /\ declared = FALSE
    /\ processed = {}
    /\ made = 0
    /\ faults = 0
    /\ deletions = 0
    /\ strays = 0

Goto(p, point) == at' = [at EXCEPT ![p] = point]

Alive(t) == at[t] \notin {"unborn", "dead"}

\* A command on self._channel does not raise.
ChannelUsable == channel # 0 /\ ch[channel].open

-----------------------------------------------------------------------------
(* RabbitMQ and pika *)

\* The messages of the deliveries with these tags of channel k go back, unless the
\* queue has been deleted meanwhile.
PutBack(k, tags) ==
    LET back == {ch[k].log[i].msg : i \in tags} IN
    stage' = [m \in Messages |-> IF m \in back /\ stage[m] = "out" THEN "ready" ELSE stage[m]]

CloseChannel(k) ==
    /\ ch' = [ch EXCEPT ![k] = Closed]
    /\ PutBack(k, ch[k].unacked)

\* basic_ack or basic_nack on self._channel; RabbitMQ closes a channel that names
\* a delivery tag it does not know.
Settle(tag, where) ==
    IF tag \in ch[channel].unacked
    THEN /\ ch' = [ch EXCEPT ![channel].unacked = @ \ {tag}]
         /\ stage' = [stage EXCEPT ![ch[channel].log[tag].msg] = IF @ = "out" THEN where ELSE @]
    ELSE CloseChannel(channel)

\* RabbitMQ sends message m to the consumer that thread t has registered.
Deliver(k, t, m) ==
    /\ Len(ch[k].log) < MaxTags
    /\ t \in ch[k].consumers
    /\ stage[m] = "ready"
    /\ stage' = [stage EXCEPT ![m] = "out"]
    /\ LET tag == Len(ch[k].log) + 1 IN
       ch' = [ch EXCEPT ![k].log = Append(@, [msg |-> m, to |-> t]),
                        ![k].unacked = @ \cup {tag},
                        ![k].pending = @ \cup {tag}]
    /\ UNCHANGED <<fields, at, hand, joining, closing, open, declared, processed, bounds>>

LoseConnection(k) ==
    /\ faults < MaxFaults
    /\ k \in open
    /\ faults' = faults + 1
    /\ open' = open \ {k}
    /\ CloseChannel(k)
    /\ UNCHANGED <<fields, at, hand, joining, closing, declared, processed, made, deletions, strays>>

-----------------------------------------------------------------------------
(* connect, publish and get by the owner *)

AlreadyConnected == connection \in open

OpenConnection ==
    /\ made < MaxConnections
    /\ made' = made + 1
    /\ connection' = made'
    /\ open' = open \cup {made'}

\* Mutant: connect does not ask whether the connection is open.
connect_again ==
    /\ at[Owner] = "idle"
    /\ OpenConnection
    /\ Goto(Owner, "channel")
    /\ UNCHANGED <<active, channel, consumer_tag, consume_thread, hand, joining, closing,
                   ch, stage, declared, processed, faults, deletions, strays>>

\* connect: there is no open connection, and a new one is made ...
connect ==
    /\ at[Owner] = "idle"
    /\ ~AlreadyConnected
    /\ OpenConnection
    /\ Goto(Owner, "channel")
    /\ UNCHANGED <<active, channel, consumer_tag, consume_thread, hand, joining, closing,
                   ch, stage, declared, processed, faults, deletions, strays>>

\* ... and then its channel, by connect itself or on the way through consume.
OpenChannel ==
    /\ at[Owner] \in ConnectPoints
    /\ AlreadyConnected
    /\ channel' = connection
    /\ ch' = [ch EXCEPT ![connection] = Fresh]
    /\ Goto(Owner, IF at[Owner] = "channel" THEN "idle" ELSE "set")
    /\ UNCHANGED <<active, connection, consumer_tag, consume_thread, hand, joining, closing,
                   open, stage, declared, processed, bounds>>

\* BlockingConnection.channel() raises: the new connection is kept without a channel.
ConnectFails ==
    /\ at[Owner] \in ConnectPoints
    /\ \/ ~AlreadyConnected /\ UNCHANGED faults
       \/ faults < MaxFaults /\ faults' = faults + 1
    /\ Goto(Owner, "idle")
    /\ UNCHANGED <<fields, hand, joining, closing, broker, processed, made, deletions, strays>>

declare_queue ==
    /\ at[Owner] = "idle"
    /\ ChannelUsable
    /\ ~declared
    /\ declared' = TRUE
    /\ UNCHANGED <<fields, at, hand, joining, closing, open, ch, stage, processed, bounds>>

\* The messages of the queue go with it, delivered ones too, and RabbitMQ cancels
\* the consumers: pika drops the subscription and tells the adapter nothing.
delete_queue ==
    /\ at[Owner] = "idle"
    /\ ChannelUsable
    /\ declared
    /\ deletions < MaxDeletions
    /\ deletions' = deletions + 1
    /\ declared' = FALSE
    /\ stage' = [m \in Messages |-> IF stage[m] \in {"ready", "out"} THEN "lost" ELSE stage[m]]
    /\ ch' = [k \in ConnectionIds |-> [ch[k] EXCEPT !.consumers = {}]]
    /\ UNCHANGED <<fields, at, hand, joining, closing, open, processed, made, faults, strays>>

publish(m) ==
    /\ at[Owner] = "idle"
    /\ ChannelUsable
    /\ stage[m] = "new"
    /\ stage' = [stage EXCEPT ![m] = IF declared THEN "ready" ELSE "lost"]
    /\ UNCHANGED <<fields, at, hand, joining, closing, open, declared, ch, processed, bounds>>

\* The queue is declared before it is used, as start_connection and the tests do;
\* afterwards it may be deleted.
WasDeclared == declared \/ deletions > 0

\* get: the queue is polled until there is a message or, when it has a timeout, until
\* that has passed.  get_simple is a get whose timeout has passed at once.
get ==
    /\ at[Owner] = "idle"
    /\ channel # 0
    /\ WasDeclared
    /\ \E point \in {"getting", "getting_for_ever"} : Goto(Owner, point)
    /\ UNCHANGED <<fields, hand, joining, closing, broker, processed, bounds>>

Getting == at[Owner] \in {"getting", "getting_for_ever"}

\* basic_get has a message for the owner.  The caller has at most one message of each
\* channel that is not acknowledged; one of an earlier channel may be forgotten.
CanFetch(m) ==
    /\ Getting
    /\ hand[Owner].from # channel
    /\ ChannelUsable
    /\ Len(ch[channel].log) < MaxTags
    /\ stage[m] = "ready"

\* With auto_ack RabbitMQ forgets the message it sends ...
FetchAcked(m) ==
    /\ CanFetch(m)
    /\ stage' = [stage EXCEPT ![m] = "acked"]
    /\ processed' = processed \cup {m}
    /\ ch' = [ch EXCEPT ![channel].log = Append(@, [msg |-> m, to |-> Owner])]
    /\ Goto(Owner, "idle")
    /\ UNCHANGED <<fields, hand, joining, closing, open, declared, bounds>>

\* ... and without it the caller has the message in hand.
Fetch(m) ==
    /\ CanFetch(m)
    /\ stage' = [stage EXCEPT ![m] = "out"]
    /\ LET tag == Len(ch[channel].log) + 1 IN
       /\ hand' = [hand EXCEPT ![Owner] = [msg |-> m, tag |-> tag, from |-> channel]]
       /\ ch' = [ch EXCEPT ![channel].log = Append(@, [msg |-> m, to |-> Owner]),
                           ![channel].unacked = @ \cup {tag}]
    /\ Goto(Owner, "idle")
    /\ UNCHANGED <<fields, joining, closing, open, declared, processed, bounds>>

\* basic_get finds nothing: after the timeout get returns None, otherwise it polls again.
FetchNothing ==
    /\ Getting
    /\ ChannelUsable /\ declared
    /\ \A m \in Messages : ~CanFetch(m)
    /\ Goto(Owner, IF at[Owner] = "getting" THEN "idle" ELSE "getting_for_ever")
    /\ UNCHANGED <<fields, hand, joining, closing, broker, processed, bounds>>

\* basic_get raises on a closed channel, and from a queue that does not exist:
\* RabbitMQ then closes the channel.
GetRaises ==
    /\ Getting
    /\ ~(ChannelUsable /\ declared)
    /\ CloseChannel(channel)
    /\ Goto(Owner, "idle")
    /\ UNCHANGED <<fields, hand, joining, closing, open, declared, processed, bounds>>

\* ack or nack by the caller, who has processed the message or not.  The tag goes to
\* the channel the object has now, whatever channel the message came from.
SettleHand ==
    /\ at[Owner] = "idle"
    /\ hand[Owner] # NoDelivery
    /\ ChannelUsable
    /\ IF hand[Owner].from = channel
       THEN UNCHANGED strays
       ELSE strays < MaxStrays /\ strays' = strays + 1
    /\ \/ Settle(hand[Owner].tag, "acked") /\ processed' = processed \cup {hand[Owner].msg}
       \/ Settle(hand[Owner].tag, "ready") /\ processed' = processed
    /\ hand' = [hand EXCEPT ![Owner] = NoDelivery]
    /\ UNCHANGED <<fields, at, joining, closing, open, declared, made, faults, deletions>>

-----------------------------------------------------------------------------
(* consume, stop_consuming and close *)

\* Mutant: consume does not test the Event.
consume_untested ==
    /\ at[Owner] = "idle"
    /\ WasDeclared
    /\ \E t \in Threads : at[t] = "unborn"
    /\ Goto(Owner, "connect")
    /\ UNCHANGED <<fields, hand, joining, closing, broker, processed, bounds>>

\* consume: the Event is tested ...
consume ==
    /\ at[Owner] = "idle"
    /\ WasDeclared
    /\ ~active
    /\ \E t \in Threads : at[t] = "unborn"
    /\ Goto(Owner, "connect")
    /\ UNCHANGED <<fields, hand, joining, closing, broker, processed, bounds>>

\* ... connect called, which finds a connection or makes one, or raises ...
ConsumeConnects ==
    /\ at[Owner] = "connect"
    /\ \/ /\ AlreadyConnected
          /\ Goto(Owner, "set")
          /\ UNCHANGED <<connection, open, made>>
       \/ /\ ~AlreadyConnected
          /\ OpenConnection
          /\ Goto(Owner, "consume_channel")
       \/ /\ ~AlreadyConnected
          /\ Goto(Owner, "idle")
          /\ UNCHANGED <<connection, open, made>>
    /\ UNCHANGED <<active, channel, consumer_tag, consume_thread, hand, joining, closing,
                   ch, stage, declared, processed, faults, deletions, strays>>

\* ... the Event is set ...
SetActive ==
    /\ at[Owner] = "set"
    /\ active' = TRUE
    /\ Goto(Owner, "spawn")
    /\ UNCHANGED <<connection, channel, consumer_tag, consume_thread, hand, joining,
                   closing, broker, processed, bounds>>

\* ... and the thread started.
Spawn(t) ==
    /\ at[Owner] = "spawn"
    /\ at[t] = "unborn"
    /\ consume_thread' = t
    /\ at' = [at EXCEPT ![Owner] = "idle", ![t] = "subscribe"]
    /\ UNCHANGED <<active, connection, channel, consumer_tag, hand, joining, closing,
                   broker, processed, bounds>>

stop_consuming ==
    /\ at[Owner] = "idle"
    /\ Goto(Owner, "test")
    /\ closing' = FALSE
    /\ UNCHANGED <<fields, hand, joining, broker, processed, bounds>>

close ==
    /\ at[Owner] = "idle"
    /\ Goto(Owner, "test")
    /\ closing' = TRUE
    /\ UNCHANGED <<fields, hand, joining, broker, processed, bounds>>

\* Where p goes on when stop_consuming has returned.
AfterStop(p) == CASE p # Owner -> "dead"
                  [] p = Owner /\ closing -> "hangup"
                  [] OTHER -> "idle"

TestActive(p) ==
    /\ at[p] = "test"
    /\ Goto(p, IF active THEN "clear" ELSE AfterStop(p))
    /\ UNCHANGED <<fields, hand, joining, closing, broker, processed, bounds>>

ClearActive(p) ==
    /\ at[p] = "clear"
    /\ active' = FALSE
    /\ Goto(p, "cancel")
    /\ UNCHANGED <<connection, channel, consumer_tag, consume_thread, hand, joining,
                   closing, broker, processed, bounds>>

\* basic_cancel: pika gives back what it has not dispatched for that consumer.  On
\* a closed channel it raises, and the exception is logged.
CancelConsumer(p) ==
    /\ at[p] = "cancel"
    /\ IF ChannelUsable /\ consumer_tag # None
       THEN LET undone == {i \in ch[channel].pending :
                              ch[channel].log[i].to = consumer_tag}
            IN  /\ ch' = [ch EXCEPT ![channel].consumers = @ \ {consumer_tag},
                                    ![channel].pending = @ \ undone,
                                    ![channel].unacked = @ \ undone]
                /\ PutBack(channel, undone)
       ELSE UNCHANGED <<ch, stage>>
    /\ consumer_tag' = IF channel # 0 THEN None ELSE consumer_tag
    /\ Goto(p, "join")
    /\ UNCHANGED <<active, connection, channel, consume_thread, hand, joining, closing,
                   open, declared, processed, bounds>>

\* Mutant: stop_consuming does not wait for the thread.
NoJoin(p) ==
    /\ at[p] = "join"
    /\ Goto(p, AfterStop(p))
    /\ UNCHANGED <<fields, hand, joining, closing, broker, processed, bounds>>

\* A thread that joins itself raises RuntimeError, and dies of it.
BeginJoin(p) ==
    /\ at[p] = "join"
    /\ CASE consume_thread = p -> Goto(p, "dead") /\ UNCHANGED joining
         [] consume_thread \in Threads \ {p} /\ Alive(consume_thread) ->
               /\ Goto(p, "joining")
               /\ joining' = [joining EXCEPT ![p] = consume_thread]
         [] OTHER -> Goto(p, AfterStop(p)) /\ UNCHANGED joining
    /\ UNCHANGED <<fields, hand, closing, broker, processed, bounds>>

\* The thread is not about to end: it is in a slow callback, or the Event that
\* was to end it has been set again.
StillRunning(t) == active \/ (SlowCallbacks /\ at[t] = "callback")

\* Mutant: join without a timeout.
EndJoinUntimed(p) ==
    /\ at[p] = "joining"
    /\ ~Alive(joining[p])
    /\ Goto(p, IF consume_thread = None /\ p = Owner THEN "idle" ELSE AfterStop(p))
    /\ joining' = [joining EXCEPT ![p] = None]
    /\ consume_thread' = None
    /\ UNCHANGED <<active, connection, channel, consumer_tag, hand, closing, broker,
                   processed, bounds>>

\* join returns when the thread has ended or after five seconds.  If another
\* thread has reset the field meanwhile, the second is_alive() raises.
EndJoin(p) ==
    /\ at[p] = "joining"
    /\ ~Alive(joining[p]) \/ StillRunning(joining[p])
    /\ Goto(p, IF consume_thread = None /\ p = Owner THEN "idle" ELSE AfterStop(p))
    /\ joining' = [joining EXCEPT ![p] = None]
    /\ consume_thread' = None
    /\ UNCHANGED <<active, connection, channel, consumer_tag, hand, closing, broker,
                   processed, bounds>>

\* wait, with or without a timeout: the field is read and the thread joined.
wait ==
    /\ at[Owner] = "idle"
    /\ consume_thread # None
    /\ \E point \in {"waiting", "waiting_for_ever"} : Goto(Owner, point)
    /\ joining' = [joining EXCEPT ![Owner] = consume_thread]
    /\ UNCHANGED <<fields, hand, closing, broker, processed, bounds>>

\* The thread has ended, or the timeout has passed.
EndWait ==
    /\ at[Owner] \in {"waiting", "waiting_for_ever"}
    /\ at[Owner] = "waiting" \/ ~Alive(joining[Owner])
    /\ Goto(Owner, "idle")
    /\ joining' = [joining EXCEPT ![Owner] = None]
    /\ UNCHANGED <<fields, hand, closing, broker, processed, bounds>>

\* The end of close(): without a connection it returns, otherwise the channel is
\* closed ...
Hangup ==
    /\ at[Owner] = "hangup"
    /\ Goto(Owner, IF connection = 0 THEN "idle" ELSE "disconnect")
    /\ IF connection # 0 /\ ChannelUsable
       THEN CloseChannel(channel)
       ELSE UNCHANGED <<ch, stage>>
    /\ UNCHANGED <<fields, hand, joining, closing, open, declared, processed, bounds>>

\* ... then the connection, with a channel it may still have ...
Disconnect ==
    /\ at[Owner] = "disconnect"
    /\ Goto(Owner, "forget_connection")
    /\ open' = open \ {connection}
    /\ CloseChannel(connection)
    /\ UNCHANGED <<fields, hand, joining, closing, declared, processed, bounds>>

\* ... and the two fields are reset.
ForgetConnection ==
    /\ at[Owner] = "forget_connection"
    /\ Goto(Owner, "forget_channel")
    /\ connection' = 0
    /\ UNCHANGED <<active, channel, consumer_tag, consume_thread, hand, joining, closing,
                   broker, processed, bounds>>

ForgetChannel ==
    /\ at[Owner] = "forget_channel"
    /\ Goto(Owner, "idle")
    /\ channel' = 0
    /\ UNCHANGED <<active, connection, consumer_tag, consume_thread, hand, joining, closing,
                   broker, processed, bounds>>

-----------------------------------------------------------------------------
(* _consume_loop, in thread t *)

\* basic_consume returns the consumer tag.
Subscribe(t) ==
    /\ at[t] = "subscribe"
    /\ ChannelUsable
    /\ declared
    /\ ch' = [ch EXCEPT ![channel].consumers = @ \cup {t}]
    /\ consumer_tag' = t
    /\ Goto(t, "loop")
    /\ UNCHANGED <<active, connection, channel, consume_thread, hand, joining, closing,
                   open, stage, declared, processed, bounds>>

\* There is no queue to consume from: RabbitMQ closes the channel and basic_consume
\* raises.
SubscribeRaises(t) ==
    /\ at[t] = "subscribe"
    /\ ChannelUsable
    /\ ~declared
    /\ CloseChannel(channel)
    /\ Goto(t, "test")
    /\ UNCHANGED <<fields, hand, joining, closing, open, declared, processed, bounds>>

\* while self._active.is_set().  Leaving the loop runs stop_consuming.
CheckActive(t) ==
    /\ at[t] = "loop"
    /\ Goto(t, IF active THEN "poll" ELSE "test")
    /\ UNCHANGED <<fields, hand, joining, closing, broker, processed, bounds>>

\* Mutant: no stop_consuming in the finally block.
LoopCrashesSilently(t) ==
    /\ \/ at[t] = "subscribe" /\ ~ChannelUsable
       \/ at[t] = "poll" /\ ~AlreadyConnected
    /\ Goto(t, "dead")
    /\ UNCHANGED <<fields, hand, joining, closing, broker, processed, bounds>>

\* basic_consume or process_data_events raises: no channel, or a closed connection.
LoopCrashes(t) ==
    /\ \/ at[t] = "subscribe" /\ ~ChannelUsable
       \/ at[t] = "poll" /\ ~AlreadyConnected
    /\ Goto(t, "test")
    /\ UNCHANGED <<fields, hand, joining, closing, broker, processed, bounds>>

\* pika dispatches for one caller at a time.
Dispatching(k) == \E t \in Threads : at[t] \in HandlerPoints /\ hand[t].from = k

\* process_data_events finds nothing to dispatch.
PollNothing(t) ==
    /\ at[t] = "poll"
    /\ AlreadyConnected
    /\ ch[connection].pending = {} \/ Dispatching(connection)
    /\ Goto(t, "loop")
    /\ UNCHANGED <<fields, hand, joining, closing, broker, processed, bounds>>

\* process_data_events calls message_handler with the oldest delivery.
DispatchMessage(t) ==
    /\ at[t] = "poll"
    /\ AlreadyConnected
    /\ ~Dispatching(connection)
    /\ \E tag \in ch[connection].pending :
       /\ \A i \in ch[connection].pending : tag <= i
       /\ hand' = [hand EXCEPT ![t] = [msg |-> ch[connection].log[tag].msg,
                                       tag |-> tag, from |-> connection]]
       /\ ch' = [ch EXCEPT ![connection].pending = @ \ {tag}]
    /\ Goto(t, "callback")
    /\ UNCHANGED <<fields, joining, closing, open, stage, declared, processed, bounds>>

CallbackReturns(t) ==
    /\ at[t] = "callback"
    /\ processed' = processed \cup {hand[t].msg}
    /\ Goto(t, "ack")
    /\ UNCHANGED <<fields, hand, joining, closing, broker, bounds>>

\* Mutant: the message of a failed callback is acknowledged.
CallbackRaisesUnnoticed(t) ==
    /\ at[t] = "callback"
    /\ Goto(t, "ack")
    /\ UNCHANGED <<fields, hand, joining, closing, broker, processed, bounds>>

CallbackRaises(t) ==
    /\ at[t] = "callback"
    /\ Goto(t, "nack")
    /\ UNCHANGED <<fields, hand, joining, closing, broker, processed, bounds>>

\* process_data_events goes on while it has deliveries, without a look at _active.
HandlerReturns(t) ==
    /\ Goto(t, IF ch'[hand[t].from].pending # {} THEN "poll" ELSE "loop")
    /\ hand' = [hand EXCEPT ![t] = NoDelivery]

\* ack(msg) and nack(msg), with the channel the object has now.
AckOrNack(t, point, where) ==
    /\ at[t] = point
    /\ ChannelUsable
    /\ Settle(hand[t].tag, where)
    /\ HandlerReturns(t)
    /\ UNCHANGED <<fields, joining, closing, open, declared, processed, bounds>>

ack(t)  == AckOrNack(t, "ack", "acked")

\* Mutant: basic_nack with requeue=False.
nack_discards(t) == AckOrNack(t, "nack", "lost")

nack(t) == AckOrNack(t, "nack", "ready")

\* A failing ack is answered by nack, a failing nack ends the loop.
AckRaises(t) ==
    /\ at[t] \in {"ack", "nack"}
    /\ ~ChannelUsable
    /\ IF at[t] = "ack"
       THEN Goto(t, "nack") /\ UNCHANGED hand
       ELSE Goto(t, "test") /\ hand' = [hand EXCEPT ![t] = NoDelivery]
    /\ UNCHANGED <<fields, joining, closing, broker, processed, bounds>>

-----------------------------------------------------------------------------
(* The specification *)

StopStep(p) == TestActive(p) \/ ClearActive(p) \/ CancelConsumer(p) \/ BeginJoin(p) \/ EndJoin(p)

OwnerCall ==
    \/ connect \/ declare_queue \/ delete_queue \/ get \/ SettleHand
    \/ consume \/ stop_consuming \/ wait \/ close
    \/ \E m \in Messages : publish(m)

\* The owner goes on with the method it has called.
OwnerStep ==
    \/ OpenChannel \/ ConnectFails
    \/ FetchNothing \/ GetRaises \/ \E m \in Messages : FetchAcked(m) \/ Fetch(m)
    \/ ConsumeConnects \/ SetActive \/ \E t \in Threads : Spawn(t)
    \/ StopStep(Owner) \/ EndWait
    \/ Hangup \/ Disconnect \/ ForgetConnection \/ ForgetChannel

\* The consumer thread runs, outside its callback.
LoopStep(t) ==
    \/ Subscribe(t) \/ SubscribeRaises(t) \/ CheckActive(t) \/ LoopCrashes(t)
    \/ PollNothing(t) \/ DispatchMessage(t) \/ ack(t) \/ nack(t) \/ AckRaises(t)
    \/ StopStep(t)

ThreadStep(t) == LoopStep(t) \/ CallbackReturns(t) \/ CallbackRaises(t)

QueueNext ==
    \/ OwnerCall \/ OwnerStep
    \/ \E t \in Threads : ThreadStep(t)
    \/ \E k \in ConnectionIds : LoseConnection(k)
    \/ \E k \in ConnectionIds, t \in Threads, m \in Messages : Deliver(k, t, m)

QueueSpec == QueueInit /\ [][QueueNext]_queueVars

\* Threads run; a callback need not end, and nobody has to call a method.
FairQueueSpec ==
    QueueSpec /\ WF_queueVars(OwnerStep) /\ \A t \in Threads : WF_queueVars(LoopStep(t))

-----------------------------------------------------------------------------
(* Properties *)

\* "Consumer is already running" is the truth: while the Event is set there is a
\* thread that runs, or the owner is about to start it.
ActiveHasThread ==
    active => at[Owner] = "spawn" \/ \E t \in Threads : Alive(t)

\* A loop whose queue has been deleted crashes.  It clears the Event first and only
\* then cancels and joins; a thread that consume() has started meanwhile loses its
\* subscription to it, and its place in _consume_thread: nobody waits for that thread
\* any more, not even close, and it may acknowledge on a later connection.  An owner
\* that settles a message of an earlier channel names a delivery of another message,
\* or none, and then loses the channel.  The following properties are about an object
\* whose queue is left alone and whose owner settles what this channel gave it.
Undisturbed == deletions = 0 /\ strays = 0

\* A message leaves the queue for good only after its callback has returned.
AckedMessageWasProcessed ==
    Undisturbed => \A m \in Messages : stage[m] = "acked" => m \in processed

\* One object runs one consumer loop.
OneConsumerLoop ==
    Undisturbed =>
        \A t, u \in Threads : at[t] \in ConsumerPoints /\ at[u] \in ConsumerPoints => t = u

\* What stop_consuming promises its caller, as long as callbacks are quicker than
\* the join: when it has returned no callback runs, and none will before consume.
StoppedIsQuiet ==
    Undisturbed =>
        (at[Owner] = "idle" /\ ~active => \A t \in Threads : at[t] \notin ConsumerPoints)

\* A running loop has its subscription: it would otherwise poll for ever and receive
\* nothing, while is_set() says that it consumes.
RunningLoopIsSubscribed ==
    Undisturbed =>
        \A t \in Threads :
            active /\ at[t] \in {"loop", "poll"} =>
                consumer_tag = t /\ t \in ch[connection].consumers

\* The adapter keeps the promise of BaseMessageQueue about every message, with the first
\* deletion and before any stray settlement: one holder at a time, gone for good only
\* when processed, requeued otherwise.
Promise == INSTANCE MessageQueue
ImplementsMessageQueue ==
    /\ Promise!PromiseInit
    /\ [][Undisturbed /\ strays' = 0 => Promise!PromiseNext]_(Promise!promiseVars)

\* Every method the owner calls returns, even while a callback never ends and whatever
\* connections are lost; except get and wait without a timeout.
OwnerReturns == at[Owner] \notin {"idle"} \cup EndlessPoints ~> at[Owner] = "idle"

=============================================================================
