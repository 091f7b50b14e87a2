------------------------------- MODULE PoContract -------------------------------
(***************************************************************************)
(* What the purchase-order handlers promise when the requests on an order  *)
(* do not overlap: the life of an order as one atomic step per handler.    *)
(* An order on which two handlers did overlap joins `raced`, and nothing   *)
(* is promised of it from then on.                                         *)
(***************************************************************************)
EXTENDS Naturals, PoStateMachine

CONSTANT PO

VARIABLES status, approvalStatus, mails, raced

vars == <<status, approvalStatus, mails, raced>>

Init ==
    /\ status \in [PO -> {"DRAFT", "SPLIT"}]
    /\ approvalStatus = [p \in PO |-> "NOT_REQUIRED"]
    /\ mails = [p \in PO |-> 0]
    /\ raced = {}

Move(p, from, to) ==
    /\ status[p] \in from
    /\ status' = [status EXCEPT ![p] = to]

Decided(p, approval) == approvalStatus' = [approvalStatus EXCEPT ![p] = approval]

Mailed(p) == mails' = [mails EXCEPT ![p] = @ + 1]

\* The company's side: hold a draft for approval, send it, release a held
\* order, approve an order outside that route, withdraw it.
Hold(p) ==
    /\ Move(p, {"DRAFT"}, "PENDING_APPROVAL")
    /\ Decided(p, "PENDING") /\ UNCHANGED mails

Send(p) ==
    /\ Move(p, {"DRAFT"}, "SENT")
    /\ Mailed(p) /\ UNCHANGED approvalStatus

Release(p) ==
    /\ Move(p, {"PENDING_APPROVAL"}, "SENT")
    /\ Decided(p, "APPROVED") /\ Mailed(p)

Approve(p) ==
    /\ Move(p, {"DRAFT", "SENT"}, "ACKNOWLEDGED")
    /\ Decided(p, "APPROVED") /\ UNCHANGED mails

Withdraw(p) ==
    /\ Move(p, {"DRAFT", "PENDING_APPROVAL", "SENT", "ACKNOWLEDGED", "ACCEPTED"},
            "CANCELLED")
    /\ Decided(p, "REJECTED") /\ UNCHANGED mails

\* The vendor's side, and the goods.
Answer(p) ==
    /\ \/ Move(p, {"SENT"}, "ACKNOWLEDGED")
       \/ Move(p, {"ACKNOWLEDGED"}, "ACCEPTED")
       \/ Move(p, {"SENT", "ACKNOWLEDGED"}, "CANCELLED_BY_VENDOR")
    /\ UNCHANGED <<approvalStatus, mails>>

Deliver(p) ==
    /\ \/ Move(p, {"ACKNOWLEDGED", "ACCEPTED"}, "PARTIALLY_DELIVERED")
       \/ Move(p, {"ACKNOWLEDGED", "ACCEPTED", "PARTIALLY_DELIVERED"}, "DELIVERED")
    /\ UNCHANGED <<approvalStatus, mails>>

Orderly(p) ==
    /\ \/ Hold(p) \/ Send(p) \/ Release(p) \/ Approve(p) \/ Withdraw(p)
       \/ Answer(p) \/ Deliver(p)
    /\ UNCHANGED raced

\* A raced order is left to itself; the others do not notice.
Raced(p) ==
    /\ raced' = raced \cup {p}
    /\ \A o \in PO \ {p} : /\ status'[o] = status[o]
                           /\ approvalStatus'[o] = approvalStatus[o]
                           /\ mails'[o] = mails[o]

Next == \E p \in PO : Orderly(p) \/ Raced(p)

Spec == Init /\ [][Next]_vars

===============================================================================
