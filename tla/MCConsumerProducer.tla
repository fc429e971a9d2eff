-------------------------- MODULE MCConsumerProducer --------------------------
(* ConsumerProducer on small instances.                                    *)
EXTENDS ConsumerProducer, TLC

(* Clients and tasks are interchangeable; workers are numbered.            *)
Symmetry == Permutations(Client) \cup Permutations(Task \ {NullTask})

=============================================================================
