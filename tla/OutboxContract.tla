--------------------------- MODULE OutboxContract ---------------------------
(***************************************************************************)
(* What a transactional outbox promises, whoever implements it: an event   *)
(* reaches the topic only after the transaction that saved it committed,   *)
(* it may reach it any number of times, and the outbox closes it either    *)
(* because it reached the topic or because it gave up, once and for all.   *)
(***************************************************************************)

CONSTANT Events

VARIABLES
    saved,      \* events whose transaction committed
    topic,      \* events that reached Kafka at least once
    outcome     \* open, published or abandoned

contractVars == <<saved, topic, outcome>>

ContractInit ==
    /\ saved = {}
    /\ topic = {}
    /\ outcome = [e \in Events |-> "open"]

Save(e) ==
    /\ e \notin saved
    /\ saved' = saved \cup {e}
    /\ UNCHANGED <<topic, outcome>>

Deliver(e) ==
    /\ e \in saved
    /\ topic' = topic \cup {e}
    /\ UNCHANGED <<saved, outcome>>

Close(e) ==
    /\ e \in saved /\ outcome[e] = "open"
    /\ \/ e \in topic /\ outcome' = [outcome EXCEPT ![e] = "published"]
       \/ outcome' = [outcome EXCEPT ![e] = "abandoned"]
    /\ UNCHANGED <<saved, topic>>

ContractNext == \E e \in Events : Save(e) \/ Deliver(e) \/ Close(e)

ContractSpec == ContractInit /\ [][ContractNext]_contractVars
=============================================================================
