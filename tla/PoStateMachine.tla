---------------------------- MODULE PoStateMachine ----------------------------
(***************************************************************************)
(* The purchase-order state machine of po-state-machine.ts: the table of   *)
(* legal status changes every handler consults before it writes a status.  *)
(* The module has no state.                                                *)
(***************************************************************************)

\* The legal next statuses of each status (PO_TRANSITIONS).
PO_TRANSITIONS ==
    [DRAFT |-> {"SENT", "PENDING_APPROVAL", "ACKNOWLEDGED", "CANCELLED"},
     PENDING_APPROVAL |-> {"SENT", "APPROVED", "ACKNOWLEDGED", "CANCELLED"},
     APPROVED |-> {"SENT", "CANCELLED"},
     SENT |-> {"ACKNOWLEDGED", "ACCEPTED", "SCHEDULED_FOR_DELIVERY",
               "CANCELLED", "CANCELLED_BY_VENDOR"},
     ACKNOWLEDGED |-> {"ACCEPTED", "SCHEDULED_FOR_DELIVERY",
                       "PARTIALLY_DELIVERED", "DELIVERED",
                       "CANCELLED", "CANCELLED_BY_VENDOR"},
     ACCEPTED |-> {"SCHEDULED_FOR_DELIVERY", "PARTIALLY_DELIVERED",
                   "DELIVERED", "CANCELLED", "CANCELLED_BY_VENDOR"},
     SCHEDULED_FOR_DELIVERY |-> {"PARTIALLY_DELIVERED", "DELIVERED",
                                 "LATE_FOR_DELIVERY", "NOT_DELIVERED",
                                 "CANCELLED", "CANCELLED_BY_VENDOR"},
     PARTIALLY_DELIVERED |-> {"PARTIALLY_DELIVERED", "DELIVERED",
                              "LATE_FOR_DELIVERY"},
     LATE_FOR_DELIVERY |-> {"PARTIALLY_DELIVERED", "DELIVERED",
                            "NOT_DELIVERED"},
     DELIVERED |-> {"INVOICED", "CLOSED", "DISPUTE"},
     INVOICED |-> {"CLOSED", "DISPUTE"},
     DISPUTE |-> {"CLOSED", "INVOICED"},
     CHANGE_PENDING |-> {"ACKNOWLEDGED", "ACCEPTED", "CANCELLED"},
     CLOSED |-> {}, CANCELLED |-> {}, CANCELLED_BY_VENDOR |-> {},
     DECLINED |-> {}, NOT_DELIVERED |-> {}, SPLIT |-> {}]

PoStatus == DOMAIN PO_TRANSITIONS

\* canTransition: a status never counts as a change to itself, whatever the
\* table says (PARTIALLY_DELIVERED lists itself).
CanTransition(from, to) == from # to /\ to \in PO_TRANSITIONS[from]

\* "Terminal states ... have no outgoing edges" (po-state-machine.ts:27-28).
Terminal == {s \in PoStatus : PO_TRANSITIONS[s] = {}}

===============================================================================
