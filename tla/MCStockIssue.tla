------------------------------ MODULE MCStockIssue ------------------------------
(* StockIssue on two requests and one balance row. *)
EXTENDS StockIssue, TLC

CONSTANTS l1, l2, l3, p1

\* Two lines drawn from the same balance, and one that is not in the catalogue.
MCPlaceOf == l1 :> p1 @@ l2 :> p1 @@ l3 :> NoPlace
MCAsked == l1 :> 1 @@ l2 :> 2 @@ l3 :> 1

Symmetry == Permutations(Mr) \cup Permutations(Doc) \cup Permutations(Request)

===============================================================================
