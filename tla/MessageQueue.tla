----------------------------- MODULE MessageQueue -----------------------------
(***************************************************************************)
(* The part of what BaseMessageQueue promises                              *)
(* (object_interface/message_queue/base.py) that is about where the        *)
(* messages of one queue are, whatever threads, channels and connections   *)
(* an adapter uses: a message is handed out to one place at a time, leaves *)
(* the queue for good only when it has been processed, and comes back      *)
(* otherwise.  RabbitMQQueue implements it while no connection is lost and *)
(* callbacks are quicker than the join, up to the first deletion of the    *)
(* queue or settlement on a channel the message did not come from.         *)
(*                                                                         *)
(* Two other promises of the interface are no part of it and the adapter   *)
(* does not keep them: that the callback itself acknowledges (186-189; the *)
(* adapter does, after the callback) and the prefetch limit of one (195;   *)
(* the adapter sets none).                                                 *)
(***************************************************************************)
CONSTANT Messages

VARIABLES
    stage,      \* where a message is
    processed   \* the messages somebody has processed

promiseVars == <<stage, processed>>

PromiseInit ==
    /\ stage = [m \in Messages |-> "new"]
    /\ processed = {}

Put(S, where) == [m \in Messages |-> IF m \in S THEN where ELSE stage[m]]

\* publish; without a queue of that name the message is gone.
Publish(m) ==
    /\ stage[m] = "new"
    /\ \E where \in {"ready", "lost"} : stage' = Put({m}, where)
    /\ UNCHANGED processed

\* get without auto_ack, or a delivery to the callback of consume.
HandOut(m) ==
    /\ stage[m] = "ready"
    /\ stage' = Put({m}, "out")
    /\ UNCHANGED processed

\* get with auto_ack: the message is acknowledged before it is returned.
HandOver(m) ==
    /\ stage[m] = "ready"
    /\ stage' = Put({m}, "acked")
    /\ processed' = processed \cup {m}

\* The callback returns; its message may have been taken away meanwhile.
Process(m) ==
    /\ stage[m] # "new"
    /\ processed' = processed \cup {m}
    /\ UNCHANGED stage

\* ack, by a consumer or by the caller of get once it has processed the message.
Ack(m) ==
    /\ stage[m] = "out"
    /\ stage' = Put({m}, "acked")
    /\ processed' \in {processed, processed \cup {m}}
    /\ m \in processed'

\* nack, or the end of a consumer: what it has not acknowledged is queued again.
Requeue ==
    /\ \E S \in SUBSET {m \in Messages : stage[m] = "out"} : stage' = Put(S, "ready")
    /\ UNCHANGED processed

\* delete_queue
Delete ==
    /\ stage' = Put({m \in Messages : stage[m] \in {"ready", "out"}}, "lost")
    /\ UNCHANGED processed

PromiseNext ==
    \/ \E m \in Messages : Publish(m) \/ HandOut(m) \/ HandOver(m) \/ Process(m) \/ Ack(m)
    \/ Requeue \/ Delete

PromiseSpec == PromiseInit /\ [][PromiseNext]_promiseVars

=============================================================================
