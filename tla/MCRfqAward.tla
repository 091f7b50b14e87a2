------------------------------ MODULE MCRfqAward ------------------------------
(* RfqAward on two requests, the quotes of one of them, two handlers at a time. *)
EXTENDS RfqAward, TLC

CONSTANTS f1, f2

\* All quotes answer the first request.
MCRfqOf == [x \in Quote |-> f1]

\* Bound: of the second request, only that its route may be taken for a quote of
\* the first, and then nothing is in flight any more.
SecondAtRest ==
    /\ rfq[f2] # "CANCELLED"
    /\ misrouted # {} => \A r \in Request : req[r] = NoRequest

\* Bound: line rows of all quotes together, enough for two revisions of one quote
\* beside the other.
FewRows == Cardinality(Quote) + 2 >= SumFunction(made)

Symmetry == Permutations(Quote) \cup Permutations(Request)

===============================================================================
