------------------------ MODULE MCSubscriptionOrders ------------------------
(* A small instance of SubscriptionOrders for TLC. *)
EXTENDS SubscriptionOrders, TLC

Symmetry == Permutations(Requests) \cup Permutations(Payments)
=============================================================================
