----------------------------- MODULE MCPoLifecycle -----------------------------
(* PoLifecycle on one order, whose handlers race in a few request slots,   *)
(* beside a second order whose route a change request may be sent under.   *)
EXTENDS PoLifecycle, TLC

CONSTANTS p1, p2

\* Roles: "ADMIN" is SUPER_ADMIN, "OFFICER" holds po.approve up to a cap that
\* lies between the totals, "FOREMAN" does not hold it.
MCThreshold == [OFFICER |-> 1]

\* The second order is a draft nobody works on: it has a route and a revision.
\* An approval under its route touches none of the first order's columns, so
\* the handlers rest once there was one.
SecondAtRest ==
    /\ po[p2] = [status |-> "DRAFT", approvalStatus |-> "NOT_REQUIRED",
                 poType |-> "STANDARD", total |-> 1]
    /\ \A r \in Request : req[r] # NoRequest =>
                             req[r].po = p1 /\ misrouted = {}

Symmetry == Permutations(Request)

===============================================================================
