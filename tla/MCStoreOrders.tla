--------------------------- MODULE MCStoreOrders ---------------------------
(* Small instances of StoreOrders for TLC. *)
EXTENDS StoreOrders, TLC

\* One stocked product, one of which there is no limit.
CONSTANTS book, licence

MCInitialStock == [p \in Products |-> IF p \in Stocked THEN 1 ELSE 0]

\* The stocked product alone.
MCOneBook == {[p \in Products |-> IF p = book THEN 1 ELSE 0]}

\* Two of the stocked product are one too many.
MCBooks == {[p \in Products |-> IF p = book THEN n ELSE 0] : n \in {1, 2}}
=============================================================================
