--------------------------- MODULE MCDeliveryPortal ---------------------------
(* Two tabs of one delivery person on one order.                           *)
EXTENDS DeliveryPortal, TLC

CONSTANTS p1, p2, r1, r2, d1

Tabs == {f @@ g : f \in Permutations({p1, p2}), g \in Permutations({r1, r2})}

===============================================================================
