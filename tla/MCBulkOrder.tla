------------------------------ MODULE MCBulkOrder ------------------------------
(* BulkOrder with two lines. *)
EXTENDS BulkOrder, TLC

CONSTANTS l1, l2

\* One line, and one that a change request can add.
MCAtFirst == l1 :> 2 @@ l2 :> 0

MCEdits == {[action |-> "update", line |-> l1, qty |-> 1],
            [action |-> "remove", line |-> l1, qty |-> 0],
            [action |-> "add", qty |-> 1]}

\* The RFQ asks for two of the material of the first line.
MCWanted == l1 :> 2 @@ l2 :> 0
MCMaxDrawn == l1 :> 2 @@ l2 :> 1

Symmetry == Permutations(Request) \cup Permutations(Change)

===============================================================================
