----------------------- MODULE MCMarketCompensation -----------------------
(* Instance of MarketCompensation for TLC. *)
EXTENDS MarketCompensation

\* An event that disables the market, later ones that enable and delete it, and
\* a message that is no event.
CONSTANTS off, on, deleted, garbled

\* The changes in the order they were made; a message that is no event has no
\* timestamp that anybody reads.
UpdatedAtOf == [e \in Events |-> IF e = off THEN 1 ELSE IF e = on THEN 2 ELSE 3]

\* off published twice, and late, after a newer event of the same kind; a message
\* that is no event, before an event that cancels nothing.
Partitions == {<<off, off>>, <<deleted, off>>, <<garbled, on>>}
=============================================================================
