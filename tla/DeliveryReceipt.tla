---------------------------- MODULE DeliveryReceipt ----------------------------
(***************************************************************************)
(* Receiving goods against one purchase order: the manual receipt of       *)
(* po-status.service.ts, the delivery reports of deliveries.service.ts, the *)
(* stock pushed in by inventory.service.ts, and the change requests of     *)
(* po-change.service.ts, which alter what was ordered meanwhile.           *)
(*                                                                         *)
(* A receipt and an approval read the order outside any transaction, work  *)
(* out the new delivered quantities and the new status from what they read,*)
(* and write them as absolute values in one transaction, which PostgreSQL  *)
(* runs at READ COMMITTED. So each is a step that reads and a step that    *)
(* commits; an approval has one more step in between, where its open       *)
(* transaction reads the report's status again. A handler that rejects its *)
(* request changes nothing and is no step.                                 *)
(***************************************************************************)
EXTENDS Integers, PoStateMachine

CONSTANTS
    Line,        \* the order's lines
    Ordered,     \* Ordered[l]: the quantity of line l the order was sent with
    Catalogued,  \* lines with a catalogue material
    OwnPlace,    \* lines with a delivery location of their own
    Change,      \* what change requests may ask for
    Report,      \* delivery reports
    NoReport,    \* the content of a report not yet submitted
    Content,     \* what reports may say: functions from some lines to ReportLine
    Request,     \* slots for requests in flight
    NoRequest,   \* the content of a free slot
    MaxStock     \* bound: no more manual receipts once a line's stock is over it

\* What a report says of one line (DeliveryOutcome, DamageDisposition).
ReportLine == [outcome : {"DELIVERED", "NOT_DELIVERED", "DAMAGED_RETURNED",
                          "DAMAGED_ACCEPTED"},
               received : Nat, damaged : Nat]

ASSUME OrderedAssumption ==
    /\ Ordered \in [Line -> Nat]
    /\ Catalogued \subseteq Line /\ OwnPlace \subseteq Line
\* A change request gives new quantities to some lines, any number the form or
\* the API sends, and may give the header a delivery location or take it away.
ASSUME ChangeAssumption ==
    \A c \in Change :
        /\ DOMAIN c.ordered \subseteq Line
        /\ \A l \in DOMAIN c.ordered : c.ordered[l] \in Int
        /\ c.located \in {{}, {TRUE}, {FALSE}}
ASSUME MaxStockAssumption == MaxStock \in Nat
ASSUME ContentAssumption ==
    \A c \in Content :
        /\ DOMAIN c \subseteq Line /\ DOMAIN c # {}
        /\ \A l \in DOMAIN c : c[l] \in ReportLine /\ c[l].damaged <= c[l].received

VARIABLES
    status,      \* the order's status
    delivered,   \* delivered[l]: the quantity delivered of line l, cumulative
    ordered,     \* ordered[l]: the quantity ordered of line l
    located,     \* the order's header has a delivery location
    proposed,    \* the change requests that are pending
    stock,       \* stock[l]: the quantity line l has pushed into inventory
    report,      \* report[d]: the delivery report d
    req,         \* req[r]: what the request in slot r read and will write
    applied,     \* history: how often the quantities of report d were applied
    lowered,     \* history: a receipt has lowered a delivered quantity
    raced,       \* history: a write rested on a row that had changed since
    counted,     \* history: the ordered quantities the last receipt or approval
                 \* went by
    cut,         \* history: lines whose ordered quantity a change has lowered
    homeless     \* history: the header has been without a delivery location

changeVars == <<ordered, located, proposed, cut, homeless>>

vars == <<status, delivered, stock, report, req, applied, lowered, raced, counted,
          changeVars>>

-------------------------------------------------------------------------------

OrderStatus == {"SENT", "ACKNOWLEDGED", "ACCEPTED", "PARTIALLY_DELIVERED",
                "DELIVERED", "CANCELLED"}

SubmittedReport == [status : {"SUBMITTED", "APPROVED", "REJECTED"}, lines : Content]

\* A receipt or an approval in flight: the order as read, the lines it writes
\* and by how much, and how far an approval has come. A rejection reads its
\* report alone.
Applying ==
    [kind : {"receive", "approve"}, report : Report \cup {NoReport},
     status : OrderStatus, delivered : [Line -> Nat],
     ordered : [Line -> Int], located : BOOLEAN,
     lines : SUBSET Line, delta : [Line -> Int], checked : BOOLEAN]
Rejecting == [kind : {"reject"}, report : Report]
InFlight == Applying \cup Rejecting

ASSUME NoRequestAssumption == NoRequest \notin InFlight
ASSUME NoReportAssumption == NoReport \notin Report \cup SubmittedReport

TypeOK ==
    /\ status \in OrderStatus
    /\ delivered \in [Line -> Nat]
    /\ stock \in [Line -> Nat]
    /\ report \in [Report -> SubmittedReport \cup {NoReport}]
    /\ req \in [Request -> InFlight \cup {NoRequest}]
    /\ applied \in [Report -> Nat]
    /\ lowered \in BOOLEAN
    /\ raced \in BOOLEAN
    /\ ordered \in [Line -> Int]
    /\ located \in BOOLEAN
    /\ proposed \subseteq Change
    /\ counted \in [Line -> Int]
    /\ cut \subseteq Line
    /\ homeless \in BOOLEAN

\* The order has just been sent.
Init ==
    /\ status = "SENT"
    /\ delivered = [l \in Line |-> 0]
    /\ stock = [l \in Line |-> 0]
    /\ report = [d \in Report |-> NoReport]
    /\ req = [r \in Request |-> NoRequest]
    /\ applied = [d \in Report |-> 0]
    /\ lowered = FALSE
    /\ raced = FALSE
    /\ ordered = Ordered
    /\ located \in BOOLEAN
    /\ proposed = {}
    /\ counted = Ordered
    /\ cut = {}
    /\ homeless = ~located

-------------------------------------------------------------------------------
(* The rest of the order's life, of which module PoLifecycle tells more.   *)

MoveOrder(from, to) ==
    /\ status \in from
    /\ status' = to
    /\ UNCHANGED <<delivered, stock, report, req, applied, lowered, raced, counted,
                   changeVars>>

ConfirmPurchaseOrder == MoveOrder({"SENT"}, "ACKNOWLEDGED")
AcceptPurchaseOrder  == MoveOrder({"ACKNOWLEDGED"}, "ACCEPTED")
DeclinePurchaseOrder == MoveOrder({"SENT", "ACKNOWLEDGED", "ACCEPTED"}, "CANCELLED")

\* proposeChange: an order that was sent and is not yet delivered.
ProposeChange(c) ==
    /\ status \in {"SENT", "ACKNOWLEDGED", "ACCEPTED"}
    /\ proposed' = proposed \cup {c}
    /\ UNCHANGED <<status, delivered, stock, report, req, applied, lowered, raced,
                   counted, ordered, located, cut, homeless>>

\* What approveChange writes: new quantities and the header's location, at any
\* status of the order, which it leaves as it is.
Revise(quantities, places) ==
    /\ ordered' = [l \in Line |-> IF l \in DOMAIN quantities
                                 THEN quantities[l] ELSE ordered[l]]
    /\ located' \in IF places = {} THEN {located} ELSE places
    /\ cut' = cut \cup {l \in Line : ordered'[l] < ordered[l]}
    /\ homeless' = (homeless \/ ~located')
    /\ UNCHANGED <<status, delivered, stock, report, req, applied, lowered, raced,
                   counted>>

\* approveChange, in one step. The request may stay open for a second approval
\* that has read it as pending, too (module PoLifecycle has the two steps).
ApproveChange(c) ==
    /\ c \in proposed
    /\ Revise(c.ordered, c.located)
    /\ proposed' \in {proposed, proposed \ {c}}

\* approveChange of another order's change request under this order's route:
\* its lines are not found here, its header fields are written.
ApproveChangeOfAnother ==
    /\ Revise(<<>>, BOOLEAN)
    /\ UNCHANGED proposed

\* rejectChange, or an approval under another order's route.
RejectChange(c) ==
    /\ c \in proposed
    /\ proposed' = proposed \ {c}
    /\ UNCHANGED <<status, delivered, stock, report, req, applied, lowered, raced,
                   counted, ordered, located, cut, homeless>>

-------------------------------------------------------------------------------
(* What a receipt and an approval have in common (applyDeliveryDeltasTx).  *)

\* The cumulative quantities once the deltas are added to those read.
Projected(read, lines, delta) ==
    [l \in Line |-> IF l \in lines THEN read[l] + delta[l] ELSE read[l]]

\* Mutant: the receipt is complete as soon as some line is.
NextStatusAnyLine(from, projected, quantities) ==
    IF \E l \in Line : projected[l] >= quantities[l] THEN "DELIVERED"
    ELSE IF \E l \in Line : projected[l] > 0        THEN "PARTIALLY_DELIVERED"
    ELSE from

\* The status those quantities call for, against the quantities ordered.
NextStatus(from, projected, quantities) ==
    IF \A l \in Line : projected[l] >= quantities[l] THEN "DELIVERED"
    ELSE IF \E l \in Line : projected[l] > 0        THEN "PARTIALLY_DELIVERED"
    ELSE from

Target(q) ==
    NextStatus(q.status, Projected(q.delivered, q.lines, q.delta), q.ordered)

\* The order is read; assertTransition looks at nothing but what was read.
Begin(r, kind, d, lines, delta) ==
    LET to == NextStatus(status, Projected(delivered, lines, delta), ordered) IN
    /\ req[r] = NoRequest
    /\ to = status \/ CanTransition(status, to)
    /\ req' = [req EXCEPT ![r] =
                  [kind |-> kind, report |-> d, status |-> status,
                   delivered |-> delivered, ordered |-> ordered,
                   located |-> located, lines |-> lines, delta |-> delta,
                   checked |-> FALSE]]
    /\ UNCHANGED <<status, delivered, stock, report, applied, lowered, raced,
                   counted, changeVars>>

-------------------------------------------------------------------------------
(* Reading.                                                                *)

\* The quantities a form may carry: none above what is ordered of some line.
Given(lines) == [lines -> UNION {0..ordered[l] : l \in lines}]

Receive(r, lines, given) ==
    /\ \A l \in Line : stock[l] <= MaxStock
    /\ Begin(r, "receive", NoReport, lines,
             [l \in Line |-> IF l \in lines THEN given[l] - delivered[l] ELSE 0])

\* receivePurchaseOrder: the form gives the cumulative quantity of some lines,
\* none above what is ordered of that line.
ReceivePurchaseOrder(r) ==
    \E lines \in SUBSET Line \ {{}} : \E given \in Given(lines) :
        /\ \A l \in lines : given[l] <= ordered[l]
        /\ Receive(r, lines, given)

\* createReport, from the staff's form or from the portal.
CreateReport(d, content) ==
    /\ report[d] = NoReport
    /\ status \in {"SENT", "ACKNOWLEDGED", "ACCEPTED", "PARTIALLY_DELIVERED"}
    /\ report' = [report EXCEPT ![d] = [status |-> "SUBMITTED", lines |-> content]]
    /\ UNCHANGED <<status, delivered, stock, req, applied, lowered, raced, counted,
                   changeVars>>

\* Mutant: what was damaged less what was received.
AcceptedSwapped(line) ==
    CASE line.outcome = "NOT_DELIVERED"    -> 0
      [] line.outcome = "DAMAGED_RETURNED" -> line.damaged - line.received
      [] OTHER                             -> line.received

\* buildApprovalDeltas: what a report line adds to the quantity delivered.
Accepted(line) ==
    CASE line.outcome = "NOT_DELIVERED"    -> 0
      [] line.outcome = "DAMAGED_RETURNED" -> line.received - line.damaged
      [] OTHER                             -> line.received

\* approve: the report must be SUBMITTED, then the order is read.
ApproveReport(r, d) ==
    /\ report[d] # NoReport
    /\ report[d].status = "SUBMITTED"
    /\ LET lines == report[d].lines IN
         Begin(r, "approve", d, DOMAIN lines,
               [l \in Line |-> IF l \in DOMAIN lines THEN Accepted(lines[l]) ELSE 0])

\* The approval's transaction reads the report again, and gives up if it is no
\* longer SUBMITTED.
RecheckReport(r) ==
    LET q == req[r] IN
    /\ q # NoRequest
    /\ q.kind = "approve" /\ ~q.checked
    /\ req' = IF report[q.report].status = "SUBMITTED"
              THEN [req EXCEPT ![r].checked = TRUE]
              ELSE [req EXCEPT ![r] = NoRequest]
    /\ UNCHANGED <<status, delivered, stock, report, applied, lowered, raced,
                   counted, changeVars>>

\* reject: the report must be SUBMITTED; the order is left alone.
RejectReport(r, d) ==
    /\ report[d] # NoReport
    /\ report[d].status = "SUBMITTED"
    /\ req[r] = NoRequest
    /\ req' = [req EXCEPT ![r] = [kind |-> "reject", report |-> d]]
    /\ UNCHANGED <<status, delivered, stock, report, applied, lowered, raced,
                   counted, changeVars>>

-------------------------------------------------------------------------------
(* Writing.                                                                *)

\* The lines a request moves in stock: they have a material and resolve a
\* location, their own or the header's as it was read.
Moved(q) ==
    {l \in q.lines \cap Catalogued : q.delta[l] > 0 /\ (l \in OwnPlace \/ q.located)}

\* Mutant: the quantity pushed in is the cumulative one.
PushedCumulative(q) ==
    [l \in Line |-> IF l \in Moved(q)
                    THEN stock[l] + q.delivered[l] + q.delta[l] ELSE stock[l]]

\* applyIn: a positive delta of such a line is added to the stock, by an
\* increment in the database.
Pushed(q) ==
    [l \in Line |-> IF l \in Moved(q) THEN stock[l] + q.delta[l] ELSE stock[l]]

\* Mutant: the approval does not close the report.
ApplyLeavingReport(q) ==
    /\ delivered' = [l \in Line |-> IF l \in q.lines
                                    THEN q.delivered[l] + q.delta[l] ELSE delivered[l]]
    /\ stock' = Pushed(q)
    /\ status' = IF Target(q) = q.status THEN status ELSE Target(q)
    /\ lowered' = (lowered \/ \E l \in q.lines : q.delta[l] < 0)
    /\ counted' = q.ordered
    /\ IF q.kind = "approve"
       THEN applied' = [applied EXCEPT ![q.report] = @ + 1] /\ UNCHANGED report
       ELSE UNCHANGED <<report, applied>>

\* The transaction of a receipt or an approval: the quantities of its lines and
\* the status are written as worked out, the stock is incremented, and an
\* approval closes its report.
Apply(q) ==
    /\ delivered' = [l \in Line |-> IF l \in q.lines
                                    THEN q.delivered[l] + q.delta[l] ELSE delivered[l]]
    /\ stock' = Pushed(q)
    /\ status' = IF Target(q) = q.status THEN status ELSE Target(q)
    /\ lowered' = (lowered \/ \E l \in q.lines : q.delta[l] < 0)
    /\ counted' = q.ordered
    /\ IF q.kind = "approve"
       THEN /\ applied' = [applied EXCEPT ![q.report] = @ + 1]
            /\ report' = [report EXCEPT ![q.report].status = "APPROVED"]
       ELSE UNCHANGED <<report, applied>>

\* What a request read is no longer so.
Stale(q) ==
    \/ q.kind # "reject" /\ <<q.status, q.delivered>> # <<status, delivered>>
    \/ q.kind # "receive" /\ report[q.report].status # "SUBMITTED"

Commit(r) ==
    LET q == req[r] IN
    /\ q # NoRequest
    /\ q.kind = "approve" => q.checked
    /\ IF q.kind = "reject"
       THEN /\ report' = [report EXCEPT ![q.report].status = "REJECTED"]
            /\ UNCHANGED <<status, delivered, stock, applied, lowered, counted>>
       ELSE Apply(q)
    /\ raced' = (raced \/ Stale(q))
    /\ req' = [req EXCEPT ![r] = NoRequest]
    /\ UNCHANGED changeVars

-------------------------------------------------------------------------------

Next ==
    \/ ConfirmPurchaseOrder \/ AcceptPurchaseOrder \/ DeclinePurchaseOrder
    \/ ApproveChangeOfAnother
    \/ \E c \in Change : ProposeChange(c) \/ ApproveChange(c) \/ RejectChange(c)
    \/ \E d \in Report, content \in Content : CreateReport(d, content)
    \/ \E r \in Request :
        \/ ReceivePurchaseOrder(r)
        \/ RecheckReport(r)
        \/ Commit(r)
        \/ \E d \in Report : ApproveReport(r, d) \/ RejectReport(r, d)

Spec == Init /\ [][Next]_vars

-------------------------------------------------------------------------------
(* Properties.                                                             *)

\* The lines that resolved a location at every receipt: their own, or that of a
\* header which never was without one.
Tracked == IF homeless THEN Catalogued \cap OwnPlace ELSE Catalogued

\* However receipts and approvals overlap, stock is never short of what the
\* order says was delivered: every quantity an order shows has been pushed in.
StockCoversDelivered == \A l \in Tracked : stock[l] >= delivered[l]

\* Without an overlap and without a lowered figure, it is exactly that: no
\* receipt and no approval pushes the same goods in twice.
StockIsDelivered ==
    ~raced /\ ~lowered => \A l \in Tracked : stock[l] = delivered[l]

\* Together: what receipts push into inventory (applyIn) follows what they write on
\* the order's lines (applyDeliveryDeltasTx), never short of it, and equal to it as
\* long as nothing overlapped and no figure was corrected downwards.
StockFollows == StockCoversDelivered /\ StockIsDelivered

\* "The manual receive path stays strict ... the delivery-report approval path
\* ALLOWS over-receipt" (po-status.service.ts:825-828), however they overlap: a
\* line holds more than is ordered only if an applied report said so or a change
\* request lowered what was ordered of it.
OverReceiptOnlyByReport ==
    \A l \in Line \ cut : delivered[l] > ordered[l] =>
        \E d \in Report : applied[d] > 0 /\ l \in DOMAIN report[d].lines

\* The status tells the quantities, against what was ordered when a receipt or
\* an approval last looked: a change request alters the order and leaves its
\* status to the next of them. An order is complete with nothing delivered only
\* if there was nothing to deliver.
StatusTellsQuantities ==
    ~raced /\ ~lowered =>
        IF \E l \in Line : delivered[l] > 0
        THEN status = IF \A l \in Line : delivered[l] >= counted[l]
                      THEN "DELIVERED" ELSE "PARTIALLY_DELIVERED"
        ELSE /\ status # "PARTIALLY_DELIVERED"
             /\ status = "DELIVERED" => \A l \in Line : Ordered[l] = 0 \/ l \in cut

\* The quantities of a report are applied once if it is approved and never if it
\* is rejected, unless reviews of it overlap.
AppliedAsDecided ==
    ~raced => \A d \in Report :
        applied[d] = IF report[d] # NoReport /\ report[d].status = "APPROVED"
                     THEN 1 ELSE 0

\* A complete order stays complete: neither a late report nor a corrected
\* receipt takes DELIVERED back, unless they overlap.
DeliveredIsKept == [][status = "DELIVERED" /\ ~raced' => status' = "DELIVERED"]_vars

\* "Re-read status inside the tx - defeats a concurrent/double approve"
\* (deliveries.service.ts:439).
ApprovedOnce == \A d \in Report : applied[d] <= 1

===============================================================================
