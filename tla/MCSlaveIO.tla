----------------------------- MODULE MCSlaveIO -----------------------------
(* SlaveIO for TLC: of several pastes and drags, any few take place.       *)
EXTENDS SlaveIO

CONSTANT MaxTransfers  \* bound: transfers that take place

AnyFew == Next /\ Cardinality(over' \cap Transfers) <= MaxTransfers

MCSpec == Init /\ [][AnyFew]_vars /\ Fairness
=============================================================================
