------------------------------- MODULE MCEmailLog -------------------------------
(* One mail that is delivered and then opened twice.                       *)
EXTENDS EmailLog

CONSTANTS m1, h1, h2

MCEvent ==
    {[type |-> "DELIVERED", at |-> 1], [type |-> "OPENED", at |-> 2],
     [type |-> "OPENED", at |-> 3]}

===============================================================================
