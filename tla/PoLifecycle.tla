------------------------------ MODULE PoLifecycle ------------------------------
(***************************************************************************)
(* The status lifecycle of purchase orders: the handlers of                *)
(* po-status.service.ts, the draft editor of purchase-orders.service.ts and *)
(* the change requests of po-change.service.ts, which alter an order that  *)
(* went out.                                                               *)
(*                                                                         *)
(* Every handler reads the order's row, decides on what it read, and       *)
(* writes some columns with an UPDATE that names the order by id alone.    *)
(* Nothing is locked in between, so a handler is two steps here: the       *)
(* action named for it reads the row and fixes the write, and Commit       *)
(* performs the write, on whatever the row has become. A handler that      *)
(* rejects the request changes nothing and is no step at all.              *)
(***************************************************************************)
EXTENDS Naturals, FiniteSets, PoStateMachine

CONSTANTS
    PO,          \* purchase orders
    Request,     \* slots for requests in flight
    NoRequest,   \* the content of a free slot
    Change,      \* identifiers of change requests
    NoChange,    \* a change request that has not been proposed
    Total,       \* order totals, in whole currency units
    Role,        \* roles of the company's users
    SuperAdmin,  \* the role that bypasses approval thresholds
    Threshold    \* the cap of each role that holds the po.approve grant

ASSUME ChangeAssumption == IsFiniteSet(Change)
ASSUME TotalAssumption == Total \subseteq Nat
ASSUME RoleAssumption ==
    /\ SuperAdmin \in Role
    /\ DOMAIN Threshold \subseteq Role
    /\ \A role \in DOMAIN Threshold : Threshold[role] \in Nat

VARIABLES
    po,          \* po[p]: the columns of p's row the handlers decide on
    issuedAt,    \* issuedAt[p]: how many times a send stamped p and mailed it
    viewLink,    \* viewLink[p]: p's PO_VIEW token
    req,         \* req[r]: what the request in slot r read and will write
    decisions,   \* history: the <<role, total>> p was released or approved on
    raced,       \* history: orders written from a row read before a change
    revision,    \* revision[p]: the revision number of p
    change,      \* change[c]: a change request's row
    talk,        \* talk[r]: what the request on a change request in slot r read
    crossed,     \* history: orders with a change request resolved from a row
                 \* read before another resolution
    misrouted    \* history: orders at either end of an approval that named a
                 \* change request of one order under the route of another

changeVars == <<revision, change, talk, crossed, misrouted>>

vars == <<po, issuedAt, viewLink, req, decisions, raced, changeVars>>

-------------------------------------------------------------------------------

Columns == {"status", "approvalStatus", "poType", "total"}

Row == [status : PoStatus,
        approvalStatus : {"NOT_REQUIRED", "PENDING", "APPROVED", "REJECTED"},
        poType : {"STANDARD", "SPLIT"},
        total : Total]

Decision == Role \X Total

\* A request in flight: the order, the row as read, the row as the handler
\* means to leave it, the columns its UPDATE sets, whether the transaction
\* also sends the order out, and the approval decision it rests on, if any.
InFlight == [po : PO, snap : Row, row : Row, writes : SUBSET Columns,
             sends : BOOLEAN, decision : SUBSET Decision]

ChangeStatus == {"PENDING", "APPROVED", "REJECTED"}

ChangeRow == [po : PO, status : ChangeStatus]

\* A request on the change requests in flight: the order its route names, and
\* for a resolution the change request with the status it was read in.
Talking == [kind : {"propose"}, po : PO] \cup
           [kind : {"approve", "reject"}, po : PO, change : Change,
            seen : ChangeStatus]

ASSUME NoRequestAssumption == NoRequest \notin InFlight \cup Talking
ASSUME NoChangeAssumption == NoChange \notin ChangeRow

TypeOK ==
    /\ po \in [PO -> Row]
    /\ issuedAt \in [PO -> Nat]
    /\ viewLink \in [PO -> {"NONE", "LIVE", "EXPIRED"}]
    /\ req \in [Request -> InFlight \cup {NoRequest}]
    /\ decisions \in [PO -> SUBSET Decision]
    /\ raced \subseteq PO
    /\ revision \in [PO -> Nat]
    /\ change \in [Change -> ChangeRow \cup {NoChange}]
    /\ talk \in [Request -> Talking \cup {NoRequest}]
    /\ crossed \subseteq PO
    /\ misrouted \subseteq PO

\* Rows as they are created: a draft, the SPLIT parent of a multi-vendor
\* award, or a draft made with the type SPLIT (the create form accepts it,
\* and copying a SPLIT parent gives one).
NewRow == {row \in Row :
    /\ row.approvalStatus = "NOT_REQUIRED"
    /\ \/ row.status = "DRAFT"
       \/ row.status = "SPLIT" /\ row.poType = "SPLIT"}

Init ==
    /\ po \in [PO -> NewRow]
    /\ issuedAt = [p \in PO |-> 0]
    /\ viewLink = [p \in PO |-> "NONE"]
    /\ req = [r \in Request |-> NoRequest]
    /\ decisions = [p \in PO |-> {}]
    /\ raced = {}
    /\ revision = [p \in PO |-> 1]
    /\ change = [c \in Change |-> NoChange]
    /\ talk = [r \in Request |-> NoRequest]
    /\ crossed = {}
    /\ misrouted = {}

-------------------------------------------------------------------------------
(* Reading: what each handler admits, and the write it settles on.         *)

\* ApprovalAuthorizationService.evaluate gives "allowed", or the caller is
\* SUPER_ADMIN and is not evaluated.
MayApprove(role, total) ==
    \/ role = SuperAdmin
    \/ role \in DOMAIN Threshold /\ total <= Threshold[role]

Idle(r) == req[r] = NoRequest /\ talk[r] = NoRequest

Begin(r, p, row, writes, sends, decision) ==
    /\ Idle(r)
    /\ req' = [req EXCEPT ![r] =
                  [po |-> p, snap |-> po[p], row |-> row, writes |-> writes,
                   sends |-> sends, decision |-> decision]]
    /\ UNCHANGED <<po, issuedAt, viewLink, decisions, raced, changeVars>>

\* Every status write passes assertTransition, on the status that was read.
\* MoveStatus: an UPDATE of the status alone.
MoveStatus(r, p, to) ==
    /\ CanTransition(po[p].status, to)
    /\ Begin(r, p, [po[p] EXCEPT !.status = to], {"status"}, FALSE, {})

\* Mutant: the two columns of the UPDATE are swapped.
DecideStatusSwapped(r, p, to, approval, sends, decision) ==
    /\ CanTransition(po[p].status, to)
    /\ Begin(r, p, [po[p] EXCEPT !.status = approval, !.approvalStatus = to],
             {"status", "approvalStatus"}, sends, decision)

\* DecideStatus: an UPDATE of the status and the approval status.
DecideStatus(r, p, to, approval, sends, decision) ==
    /\ CanTransition(po[p].status, to)
    /\ Begin(r, p, [po[p] EXCEPT !.status = to, !.approvalStatus = approval],
             {"status", "approvalStatus"}, sends, decision)

\* issuePurchaseOrder: within the caller's authority the order goes out, else
\* it is held for approval.
IssuePurchaseOrder(r, p, role) ==
    LET row == po[p] IN
    /\ row.poType # "SPLIT"
    /\ row.status = "DRAFT"
    /\ \/ /\ MayApprove(role, row.total)
          /\ CanTransition(row.status, "SENT")
          /\ Begin(r, p, [row EXCEPT !.status = "SENT"], {"status"}, TRUE,
                   {<<role, row.total>>})
       \/ /\ ~MayApprove(role, row.total)
          /\ DecideStatus(r, p, "PENDING_APPROVAL", "PENDING", FALSE, {})

\* approvePurchaseOrder: a held order goes out, any other is acknowledged.
ApprovePurchaseOrder(r, p, role) ==
    LET held == po[p].status = "PENDING_APPROVAL" IN
    /\ po[p].status \in {"DRAFT", "SENT", "PENDING_APPROVAL"}
    /\ MayApprove(role, po[p].total)
    /\ DecideStatus(r, p, IF held THEN "SENT" ELSE "ACKNOWLEDGED", "APPROVED",
                    held, {<<role, po[p].total>>})

\* declinePurchaseOrder: the company withdraws the order.
DeclinePurchaseOrder(r, p) ==
    /\ po[p].status \notin {"CANCELLED", "CLOSED"}
    /\ DecideStatus(r, p, "CANCELLED", "REJECTED", FALSE, {})

\* Mutant: the handler relies on the table, which lets a draft be acknowledged.
ConfirmPurchaseOrderUnguarded(r, p) == MoveStatus(r, p, "ACKNOWLEDGED")

\* confirmPurchaseOrder and its portal twin, for which the live PO_VIEW token
\* is the authorization.
ConfirmPurchaseOrder(r, p) ==
    /\ po[p].status = "SENT"
    /\ MoveStatus(r, p, "ACKNOWLEDGED")

ConfirmPurchaseOrderViaToken(r, p) ==
    /\ viewLink[p] = "LIVE"
    /\ ConfirmPurchaseOrder(r, p)

\* acceptPurchaseOrder and its portal twin.
AcceptPurchaseOrder(r, p) ==
    /\ po[p].status = "ACKNOWLEDGED"
    /\ MoveStatus(r, p, "ACCEPTED")

AcceptPurchaseOrderViaToken(r, p) ==
    /\ viewLink[p] = "LIVE"
    /\ AcceptPurchaseOrder(r, p)

\* Mutant: the handler relies on the table, which lets an accepted order be
\* cancelled by the vendor.
VendorDeclinePurchaseOrderUnguarded(r, p) == MoveStatus(r, p, "CANCELLED_BY_VENDOR")

\* vendorDeclinePurchaseOrder and its portal twin.
VendorDeclinePurchaseOrder(r, p) ==
    /\ po[p].status \in {"SENT", "ACKNOWLEDGED"}
    /\ MoveStatus(r, p, "CANCELLED_BY_VENDOR")

VendorDeclinePurchaseOrderViaToken(r, p) ==
    /\ viewLink[p] = "LIVE"
    /\ VendorDeclinePurchaseOrder(r, p)

\* receivePurchaseOrder, or the approval of a delivery report: the quantities
\* (module DeliveryReceipt) decide which status is aimed at, and a receipt
\* that leaves the status alone is no step here.
ReceivePurchaseOrder(r, p) ==
    \E to \in {"PARTIALLY_DELIVERED", "DELIVERED"} : MoveStatus(r, p, to)

\* Mutant: an order may be edited after it went out.
UpdatePurchaseOrderAnytime(r, p) ==
    \E total \in Total :
        Begin(r, p, [po[p] EXCEPT !.total = total], {"total"}, FALSE, {})

\* updatePurchaseOrder with line items: only a draft may be edited. The UPDATE
\* sets the recomputed total, and the type when the form carries one.
UpdatePurchaseOrder(r, p) ==
    /\ po[p].status = "DRAFT"
    /\ \E total \in Total :
         \/ Begin(r, p, [po[p] EXCEPT !.total = total], {"total"}, FALSE, {})
         \/ \E type \in {"STANDARD", "SPLIT"} :
              Begin(r, p, [po[p] EXCEPT !.total = total, !.poType = type],
                    {"total", "poType"}, FALSE, {})

-------------------------------------------------------------------------------
(* Writing.                                                                *)

\* UPDATE ... SET the columns written, WHERE id = the order.
Written(row, q) ==
    [status |-> IF "status" \in q.writes THEN q.row.status ELSE row.status,
     approvalStatus |-> IF "approvalStatus" \in q.writes
                        THEN q.row.approvalStatus ELSE row.approvalStatus,
     poType |-> IF "poType" \in q.writes THEN q.row.poType ELSE row.poType,
     total |-> IF "total" \in q.writes THEN q.row.total ELSE row.total]

\* The handler's UPDATE. A send stamps issuedAt, mails the vendor and, in the
\* same transaction, mints the PO_VIEW token when none is live.
Commit(r) ==
    LET q == req[r]
        p == q.po
    IN  /\ q # NoRequest
        /\ po' = [po EXCEPT ![p] = Written(po[p], q)]
        /\ issuedAt' = IF q.sends THEN [issuedAt EXCEPT ![p] = @ + 1]
                                  ELSE issuedAt
        /\ viewLink' = IF q.sends THEN [viewLink EXCEPT ![p] = "LIVE"]
                                  ELSE viewLink
        /\ decisions' = [decisions EXCEPT ![p] = @ \cup q.decision]
        /\ raced' = IF q.snap = po[p] THEN raced ELSE raced \cup {p}
        /\ req' = [req EXCEPT ![r] = NoRequest]
        /\ UNCHANGED changeVars

\* The PO_VIEW token reaches its expiry.
ExpireLink(p) ==
    /\ viewLink[p] = "LIVE"
    /\ viewLink' = [viewLink EXCEPT ![p] = "EXPIRED"]
    /\ UNCHANGED <<po, issuedAt, req, decisions, raced, changeVars>>

-------------------------------------------------------------------------------
(* Change requests: how an order that went out is altered. The slots are   *)
(* the same, so they overlap with the handlers above.                      *)

Talk(r, talking) ==
    /\ Idle(r)
    /\ talk' = [talk EXCEPT ![r] = talking]
    /\ UNCHANGED <<po, issuedAt, viewLink, req, decisions, raced,
                   revision, change, crossed, misrouted>>

\* proposeChange: the buyer or the vendor asks for a change of an order that
\* was sent and is not yet delivered, and then stores the request.
ProposeChange(r, p) ==
    /\ po[p].status \in {"SENT", "ACKNOWLEDGED", "ACCEPTED"}
    /\ Talk(r, [kind |-> "propose", po |-> p])

StoreChange(r, c) ==
    /\ talk[r] # NoRequest
    /\ talk[r].kind = "propose"
    /\ change[c] = NoChange
    /\ change' = [change EXCEPT ![c] = [po |-> talk[r].po, status |-> "PENDING"]]
    /\ talk' = [talk EXCEPT ![r] = NoRequest]
    /\ UNCHANGED <<po, issuedAt, viewLink, req, decisions, raced, revision,
                   crossed, misrouted>>

\* Mutant: approveChange does not look at the status of the request.
ReadChangeUnguarded(r, c, p, kind) ==
    /\ change[c] # NoChange
    /\ Talk(r, [kind |-> kind, po |-> p, change |-> c, seen |-> change[c].status])

\* approveChange and rejectChange read the change request, which must be
\* pending. Whether it is one of the route's order p is not compared ...
ReadChange(r, c, p, kind) ==
    /\ change[c] # NoChange
    /\ change[c].status = "PENDING"
    /\ Talk(r, [kind |-> kind, po |-> p, change |-> c, seen |-> change[c].status])

\* ... and resolve it, whatever it has become.
Resolve(r, c, status) ==
    /\ talk[r].change = c
    /\ change' = [change EXCEPT ![c].status = status]
    /\ talk' = [talk EXCEPT ![r] = NoRequest]
    /\ crossed' = IF change[c].status = talk[r].seen
                  THEN crossed ELSE crossed \cup {change[c].po}
    /\ UNCHANGED <<issuedAt, viewLink, req, decisions, raced>>

\* The transaction of approveChange, on the route's order: it rewrites the
\* lines that are that order's, recomputes its total and counts its revision,
\* whatever the order's status and whoever may approve the new total.
ApproveChange(r, c) ==
    LET p == talk[r].po IN
    /\ talk[r] # NoRequest
    /\ talk[r].kind = "approve"
    /\ Resolve(r, c, "APPROVED")
    /\ \E total \in Total : po' = [po EXCEPT ![p].total = total]
    /\ revision' = [revision EXCEPT ![p] = @ + 1]
    /\ misrouted' = IF p = change[c].po THEN misrouted
                    ELSE misrouted \cup {p, change[c].po}

RejectChange(r, c) ==
    /\ talk[r] # NoRequest
    /\ talk[r].kind = "reject"
    /\ Resolve(r, c, "REJECTED")
    /\ UNCHANGED <<po, revision, misrouted>>

-------------------------------------------------------------------------------

Read(r, p) ==
    \/ \E role \in Role : \/ IssuePurchaseOrder(r, p, role)
                          \/ ApprovePurchaseOrder(r, p, role)
    \/ DeclinePurchaseOrder(r, p)
    \/ ConfirmPurchaseOrder(r, p)
    \/ ConfirmPurchaseOrderViaToken(r, p)
    \/ AcceptPurchaseOrder(r, p)
    \/ AcceptPurchaseOrderViaToken(r, p)
    \/ VendorDeclinePurchaseOrder(r, p)
    \/ VendorDeclinePurchaseOrderViaToken(r, p)
    \/ ReceivePurchaseOrder(r, p)
    \/ UpdatePurchaseOrder(r, p)

Negotiate(r) ==
    \/ \E p \in PO : ProposeChange(r, p)
    \/ \E c \in Change : \/ StoreChange(r, c)
                         \/ \E p \in PO, kind \in {"approve", "reject"} :
                               ReadChange(r, c, p, kind)
                         \/ ApproveChange(r, c)
                         \/ RejectChange(r, c)

Next ==
    \/ \E r \in Request, p \in PO : Read(r, p)
    \/ \E r \in Request : Commit(r)
    \/ \E p \in PO : ExpireLink(p)
    \/ \E r \in Request : Negotiate(r)

Spec == Init /\ [][Next]_vars

-------------------------------------------------------------------------------
(* Properties.                                                             *)

\* The statuses in which an order has left the company's hands.
Released == {"SENT", "ACKNOWLEDGED", "ACCEPTED", "PARTIALLY_DELIVERED",
             "DELIVERED", "CANCELLED_BY_VENDOR"}

\* The total a released order carries is one that a user entitled to approve
\* that total decided on (issuePurchaseOrder and approvePurchaseOrder against
\* every later handler and the draft editor), unless handlers overlapped or a
\* change request, whose approval consults no threshold, revised the order.
ReleasedWithinAuthority ==
    \A p \in PO \ raced : po[p].status \in Released /\ revision[p] = 1 =>
        \E d \in decisions[p] : d[2] = po[p].total /\ MayApprove(d[1], d[2])

\* However handlers overlap, no vendor-side or receiving handler carries an
\* order past the draft stage that nobody with the authority ever released.
NoReleaseWithoutDecision ==
    \A p \in PO : po[p].status \in Released =>
        \E d \in decisions[p] : MayApprove(d[1], d[2])

ApprovedChanges(p) ==
    {c \in Change : change[c] = [po |-> p, status |-> "APPROVED"]}

\* The revision number of an order counts the change requests approved on it,
\* and never falls behind them: two resolutions of one request that overlap
\* can only leave it ahead (approveChange twice, or rejectChange last). Orders
\* that an approval under another order's route mixed up are left out.
RevisionCountsChanges ==
    \A p \in PO \ misrouted :
        /\ revision[p] >= 1 + Cardinality(ApprovedChanges(p))
        /\ p \notin crossed => revision[p] = 1 + Cardinality(ApprovedChanges(p))

\* The two columns a decline writes stay together: no other handler cancels an
\* order on the company's side or revives a rejected one, unless they overlap.
RejectedMeansCancelled ==
    \A p \in PO \ raced :
        po[p].approvalStatus = "REJECTED" <=> po[p].status = "CANCELLED"

\* The vendor is mailed at most once per order, whichever of the two routes
\* (issue, or hold and approve) sends it, unless handlers overlap.
MailedOnce ==
    \A p \in PO \ raced :
        /\ issuedAt[p] <= 1
        /\ po[p].status \in {"DRAFT", "PENDING_APPROVAL"} => issuedAt[p] = 0

\* "... cannot leave the PO sent without a usable link" (po-status.service.ts
\* :237-239): an order that was sent has had its PO_VIEW token.
IssuedHasLink == \A p \in PO : issuedAt[p] > 0 => viewLink[p] # "NONE"

\* An order of type SPLIT is never sent or queued for sending, although its
\* type can be edited while it is a draft, unless handlers overlap.
SplitNeverSent ==
    \A p \in PO \ raced : po[p].poType = "SPLIT" =>
        po[p].status \notin {"PENDING_APPROVAL", "SENT"}

\* Every status change is an edge of the state machine, or was written from a
\* row that had changed since it was read.
LegalUnlessRaced ==
    [][\A p \in PO : po'[p].status # po[p].status =>
          CanTransition(po[p].status, po'[p].status) \/ p \in raced']_vars

\* The handlers implement the contract: up to the first overlap on an order,
\* its row moves as if every handler were one atomic step.
Contract == INSTANCE PoContract WITH
    status <- [p \in PO |-> po[p].status],
    approvalStatus <- [p \in PO |-> po[p].approvalStatus],
    mails <- issuedAt

ImplementsContract == Contract!Spec

===============================================================================
