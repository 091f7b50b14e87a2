------------------------------ MODULE MCRfqQuotes ------------------------------
(* RfqQuotes on two vendors, two quotes, two links and two requests at a time. *)
EXTENDS RfqQuotes, TLC

Symmetry == Permutations(Vendor) \cup Permutations(Quote)
                \cup Permutations(Token) \cup Permutations(Request)

===============================================================================
