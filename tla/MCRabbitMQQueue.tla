--------------------------- MODULE MCRabbitMQQueue ---------------------------
(* Model checking of RabbitMQQueue: interchangeable threads and messages. *)
EXTENDS RabbitMQQueue, TLC

Symmetry == Permutations(Threads) \cup Permutations(Messages)

=============================================================================
