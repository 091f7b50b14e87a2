--------------------------- MODULE MCDeliveryReceipt ---------------------------
(* DeliveryReceipt on an order of two lines, one of them from the catalogue. *)
EXTENDS DeliveryReceipt, FiniteSets, TLC

CONSTANTS l1, l2

\* The tracked line is short, which keeps the stock small; the other one can be
\* delivered in part.
MCOrdered == l1 :> 1 @@ l2 :> 2

\* A return with more kept than was ordered, and a line that did not come.
MCContent ==
    {l1 :> [outcome |-> "DAMAGED_RETURNED", received |-> 3, damaged |-> 1],
     l1 :> [outcome |-> "NOT_DELIVERED", received |-> 1, damaged |-> 0]
        @@ l2 :> [outcome |-> "DAMAGED_ACCEPTED", received |-> 1, damaged |-> 1]}

\* One change lowers a line to what a first receipt may have brought, raises one
\* that is short, and takes the header's location away; one cancels every line.
MCChange == {[ordered |-> l1 :> 2 @@ l2 :> 1, located |-> {FALSE}],
             [ordered |-> l1 :> 0 @@ l2 :> 0, located |-> {}]}

\* A header's location that was taken away is not given back; an order that is
\* changed or has no location has one report and one request at a time, which
\* may still have read it before the change.
LocationLost == homeless => ~located
AloneWhenChanged ==
    homeless \/ proposed # {} \/ ordered # Ordered =>
        /\ Cardinality({d \in Report : report[d] # NoReport}) <= 1
        /\ Cardinality({r \in Request : req[r] # NoRequest}) <= 1

Symmetry == Permutations(Request) \cup Permutations(Report)

===============================================================================
