------------------------------ MODULE Requests ------------------------------
(****************************************************************************)
(* Requests in flight at the API.  A request first reads (the guards of the *)
(* controller and the reads before the transaction are one step) and later  *)
(* commits; between the two, other requests read and commit.  A request     *)
(* that is refused changes nothing and is not a step.                       *)
(*                                                                          *)
(* A scenario says which operations a behaviour may ask for and how many    *)
(* times: it bounds the state space, and a run checks several.              *)
(****************************************************************************)
EXTENDS Naturals

CONSTANTS
    InFlight,   \* bound: requests in flight, numbered
    Scenarios,  \* bound: per name, a record with ops and requests (how many) and what
                \* the module that extends this one adds
    None

VARIABLES request, scenario, left

requestVars == <<request, scenario, left>>

Asked == Scenarios[scenario]

NoRequest == [op |-> "none", user |-> 0, row |-> 0, what |-> None, seen |-> {}]

RequestsInit ==
    /\ scenario \in DOMAIN Scenarios
    /\ request = [r \in InFlight |-> NoRequest]
    /\ left = Asked.requests

RequestsTypeOK ==
    /\ left \in Nat /\ scenario \in DOMAIN Scenarios
    /\ DOMAIN request = InFlight

\* A request that passed its first reads.
Enter(op, u, row, what, seen) ==
    /\ op \in Asked.ops /\ left > 0 /\ left' = left - 1
    /\ \E r \in InFlight :
          /\ request[r].op = "none"
          /\ \A k \in InFlight : k < r => request[k].op # "none"
          /\ request' = [request EXCEPT ![r] = [op |-> op, user |-> u, row |-> row,
                                                what |-> what, seen |-> seen]]
    /\ UNCHANGED scenario

\* One with nothing to read first.
AtOnce(op) == op \in Asked.ops /\ left > 0 /\ left' = left - 1 /\ UNCHANGED <<request, scenario>>

Proceed(r, next) == request' = [request EXCEPT ![r] = next] /\ UNCHANGED <<scenario, left>>

Continue(r, op, u, row) == Proceed(r, [op |-> op, user |-> u, row |-> row,
                                       what |-> request[r].what, seen |-> request[r].seen])

End(r) == Proceed(r, NoRequest)
=============================================================================
