------------------------ MODULE CompensationContract ------------------------
(***************************************************************************)
(* What compensation promises the orders of a market, however the events   *)
(* about it are delivered: an event is applied once and as a whole.  One   *)
(* that closes the market cancels every order that was active when the     *)
(* event was first published and still is, perhaps later ones too, and     *)
(* announces each of them; no other event cancels anything.                *)
(***************************************************************************)
EXTENDS Naturals

CONSTANTS Events, Unavailable, Orders

VARIABLES
    orders,     \* status of every order
    notices,    \* announced cancellations per order
    published,  \* events that were published
    due,        \* the orders that were active when an event was first published
    applied     \* events that were applied

contractVars == <<orders, notices, published, due, applied>>

Active == {o \in Orders : orders[o] = "created"}

ContractInit ==
    /\ orders = [o \in Orders |-> "none"]
    /\ notices = [o \in Orders |-> 0]
    /\ published = {}
    /\ due = [e \in Events |-> {}]
    /\ applied = {}

Save(o) ==
    /\ orders[o] = "none"
    /\ orders' = [orders EXCEPT ![o] = "created"]
    /\ UNCHANGED <<notices, published, due, applied>>

Announce(e) ==
    /\ e \notin published
    /\ published' = published \cup {e}
    /\ due' = [due EXCEPT ![e] = Active]
    /\ UNCHANGED <<orders, notices, applied>>

Cancel(S) ==
    /\ orders' = [o \in Orders |-> IF o \in S THEN "cancelled" ELSE orders[o]]
    /\ notices' = [o \in Orders |-> IF o \in S THEN notices[o] + 1 ELSE notices[o]]

Apply(e) ==
    /\ e \in published \ applied
    /\ applied' = applied \cup {e}
    /\ \E S \in SUBSET Active :
          /\ IF e \in Unavailable THEN due[e] \cap Active \subseteq S ELSE S = {}
          /\ Cancel(S)
    /\ UNCHANGED <<published, due>>

ContractNext ==
    \/ \E o \in Orders : Save(o)
    \/ \E e \in Events : Announce(e) \/ Apply(e)

ContractSpec == ContractInit /\ [][ContractNext]_contractVars
=============================================================================
