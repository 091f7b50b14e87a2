---------------------------- MODULE MCClientSession ----------------------------
(* A tab with two requests beside a tab with one.                          *)
EXTENDS ClientSession, TLC

CONSTANTS left, right, l1, l2, r1

MCTabOf == (l1 :> left) @@ (l2 :> left) @@ (r1 :> right)

===============================================================================
