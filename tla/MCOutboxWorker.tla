-------------------------- MODULE MCOutboxWorker --------------------------
(* Instances of OutboxWorker for TLC. *)
EXTENDS OutboxWorker

CONSTANTS e1, e2    \* rows, in the order of their creation; of e2 the event
                    \* type has no topic

CreatedInOrder == [e \in Events |-> IF e = e1 THEN 1 ELSE 2]
=============================================================================
