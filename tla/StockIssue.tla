------------------------------- MODULE StockIssue -------------------------------
(***************************************************************************)
(* Material requests and the stock they draw on: material-requests         *)
(* .service.ts submits, approves, declines, cancels and converts requests, *)
(* and an approval issues what is on hand (inventory.service.ts, issueOut) *)
(* while receipts of goods push stock in (applyIn; what a receipt is, is   *)
(* module DeliveryReceipt).                                                *)
(*                                                                         *)
(* Every handler reads the request outside any transaction and then writes *)
(* it by id. An approval's transaction is followed statement by statement, *)
(* at READ COMMITTED: it holds the row of the request from its first write *)
(* and a balance row from the moment it takes from it, and others that     *)
(* write these rows wait. What it wrote is seen by others at its commit.   *)
(***************************************************************************)
EXTENDS Integers, FiniteSets

CONSTANTS
    Mr,           \* material requests
    NoMr,         \* the owner of a line not yet created
    Line,         \* ids of request lines
    NoLine,       \* no line is being issued
    Place,        \* a catalogue material at a delivery location: one balance row
    NoPlace,      \* a line without material or without location
    PlaceOf,      \* PlaceOf[l]: where line l would be issued from
    Asked,        \* Asked[l]: the quantity line l asks for
    Doc,          \* ids of the requests for quotation and orders made
    NoDoc,        \* no document, and the content of an id not yet in use
    Request,      \* slots for HTTP requests in flight
    NoRequest,    \* the content of a free slot
    MaxReceived   \* bound: no more receipts at a place after so many

ASSUME LineAssumption ==
    /\ PlaceOf \in [Line -> Place \cup {NoPlace}]
    /\ Asked \in [Line -> Nat \ {0}]
    /\ NoMr \notin Mr /\ NoLine \notin Line /\ NoPlace \notin Place
    /\ IsFiniteSet(Line)
ASSUME MaxReceivedAssumption == MaxReceived \in Nat

VARIABLES
    mr,        \* mr[m]: the material request m
    owner,     \* owner[l]: the request line l was created for
    onHand,    \* onHand[p]: the balance row of place p
    received,  \* received[p]: the sum of the IN movements of p
    issued,    \* issued[l]: the sum of the OUT movements for line l
    doc,       \* doc[d]: the document d
    req,       \* req[r]: what the HTTP request in slot r read and will write
    raced,     \* history: the requests written though the check no longer admits it
    stale      \* history: the places taken from by a balance that had gone down

vars == <<mr, owner, onHand, received, issued, doc, req, raced, stale>>

-------------------------------------------------------------------------------

\* Mutant: an approved request can be approved once more.
ApprovedTwice ==
    [DRAFT     |-> {"SUBMITTED", "CANCELLED"},
     SUBMITTED |-> {"APPROVED", "DECLINED", "CANCELLED"},
     APPROVED  |-> {"APPROVED", "CONVERTED", "CANCELLED"},
     CONVERTED |-> {}, DECLINED |-> {}, CANCELLED |-> {}]

\* MR_TRANSITIONS of mr-state-machine.ts.
MR_TRANSITIONS ==
    [DRAFT     |-> {"SUBMITTED", "CANCELLED"},
     SUBMITTED |-> {"APPROVED", "DECLINED", "CANCELLED"},
     APPROVED  |-> {"CONVERTED", "CANCELLED"},
     CONVERTED |-> {}, DECLINED |-> {}, CANCELLED |-> {}]

MrStatus == {"DRAFT", "SUBMITTED", "APPROVED", "CONVERTED", "DECLINED", "CANCELLED"}

MrRow == [status : MrStatus, lines : SUBSET Line,
          rfq : Doc \cup {NoDoc}, po : Doc \cup {NoDoc}]

DocRow == [mr : Mr, lines : SUBSET Line]

\* An approval's open transaction: the lines it has still to issue, the line
\* whose balance it has just read, and what it has taken so far, by line and by
\* place.
Issuing == [kind : {"issue"}, mr : Mr, lines : SUBSET Line, left : SUBSET Line,
            reading : Line \cup {NoLine}, read : Int,
            taken : [Line -> Nat], out : [Place -> Nat]]

InFlight ==
    [kind : {"update"}, mr : Mr]
    \cup [kind : {"move"}, mr : Mr, to : {"SUBMITTED", "DECLINED", "CANCELLED"}]
    \cup [kind : {"approve", "rfq", "po"}, mr : Mr, lines : SUBSET Line]
    \cup Issuing

ASSUME NoRequestAssumption == NoRequest \notin InFlight
ASSUME NoDocAssumption == NoDoc \notin Doc \cup DocRow

TypeOK ==
    /\ mr \in [Mr -> MrRow]
    /\ owner \in [Line -> Mr \cup {NoMr}]
    /\ onHand \in [Place -> Int]
    /\ received \in [Place -> Nat]
    /\ issued \in [Line -> Nat]
    /\ doc \in [Doc -> DocRow \cup {NoDoc}]
    /\ req \in [Request -> InFlight \cup {NoRequest}]
    /\ raced \subseteq Mr
    /\ stale \subseteq Place

LinesOf(m) == {l \in Line : owner[l] = m}

\* create: a draft or, with submit set, a submitted request, and its lines.
Init ==
    /\ owner \in [Line -> Mr \cup {NoMr}]
    /\ \A m \in Mr : LinesOf(m) # {}
    /\ \E status \in [Mr -> {"DRAFT", "SUBMITTED"}] :
        mr = [m \in Mr |-> [status |-> status[m], lines |-> LinesOf(m),
                            rfq |-> NoDoc, po |-> NoDoc]]
    /\ onHand = [p \in Place |-> 0]
    /\ received = [p \in Place |-> 0]
    /\ issued = [l \in Line |-> 0]
    /\ doc = [d \in Doc |-> NoDoc]
    /\ req = [r \in Request |-> NoRequest]
    /\ raced = {}
    /\ stale = {}

-------------------------------------------------------------------------------
(* Reading a request.                                                      *)

\* What the handler of q checked: an approval, too, needs the lines it read.
Admits(q) ==
    \/ q.kind = "update" /\ mr[q.mr].status = "DRAFT"
    \/ q.kind = "move" /\ q.to \in MR_TRANSITIONS[mr[q.mr].status]
    \/ /\ q.kind \in {"approve", "issue"}
       /\ "APPROVED" \in MR_TRANSITIONS[mr[q.mr].status]
       /\ q.lines = mr[q.mr].lines
    \/ /\ q.kind \in {"rfq", "po"}
       /\ mr[q.mr].status = "APPROVED"
       /\ q.lines = mr[q.mr].lines

Begin(r, q) ==
    /\ req[r] = NoRequest
    /\ Admits(q)
    /\ req' = [req EXCEPT ![r] = q]
    /\ UNCHANGED <<mr, owner, onHand, received, issued, doc, raced, stale>>

\* An update without lines changes nothing a property is about.
Update(r, m) == Begin(r, [kind |-> "update", mr |-> m])

Submit(r, m)  == Begin(r, [kind |-> "move", mr |-> m, to |-> "SUBMITTED"])
Decline(r, m) == Begin(r, [kind |-> "move", mr |-> m, to |-> "DECLINED"])
Cancel(r, m)  == Begin(r, [kind |-> "move", mr |-> m, to |-> "CANCELLED"])

Approve(r, m) == Begin(r, [kind |-> "approve", mr |-> m, lines |-> mr[m].lines])

ConvertToRfq(r, m) == Begin(r, [kind |-> "rfq", mr |-> m, lines |-> mr[m].lines])
ConvertToPo(r, m)  == Begin(r, [kind |-> "po", mr |-> m, lines |-> mr[m].lines])

-------------------------------------------------------------------------------
(* Row locks, and the end of a transaction.                                *)

InTransaction(r) == req[r] # NoRequest /\ req[r].kind = "issue"

RowFree(m) == \A s \in Request : ~(InTransaction(s) /\ req[s].mr = m)

BalanceFree(p, others) == \A s \in others : ~(InTransaction(s) /\ req[s].out[p] > 0)

\* A number taken meanwhile, a deadlock, a timeout or a lost connection.
RollBack(r) ==
    /\ req[r] # NoRequest
    /\ req' = [req EXCEPT ![r] = NoRequest]
    /\ UNCHANGED <<mr, owner, onHand, received, issued, doc, raced, stale>>

Commit(r, kinds) ==
    /\ req[r] # NoRequest
    /\ req[r].kind \in kinds
    /\ req' = [req EXCEPT ![r] = NoRequest]
    /\ raced' = IF Admits(req[r]) THEN raced ELSE raced \cup {req[r].mr}

-------------------------------------------------------------------------------
(* Writing a request.                                                      *)

\* All lines are deleted and new ones created.
CommitUpdate(r) ==
    LET m == req[r].mr IN
    /\ Commit(r, {"update"})
    /\ RowFree(m)
    /\ \E new \in SUBSET {l \in Line : owner[l] = NoMr} :
        /\ new # {}
        /\ owner' = [l \in Line |-> IF l \in new THEN m ELSE owner[l]]
        /\ mr' = [mr EXCEPT ![m].lines = new]
    /\ UNCHANGED <<onHand, received, issued, doc, stale>>

\* submit, decline and cancel: one UPDATE.
CommitMove(r) ==
    LET q == req[r] IN
    /\ Commit(r, {"move"})
    /\ RowFree(q.mr)
    /\ mr' = [mr EXCEPT ![q.mr].status = q.to]
    /\ UNCHANGED <<owner, onHand, received, issued, doc, stale>>

\* Mutant: the request is linked and not marked converted.
CommitConvertLinkOnly(r, d) ==
    LET q == req[r] IN
    /\ Commit(r, {"rfq", "po"})
    /\ RowFree(q.mr)
    /\ doc[d] = NoDoc
    /\ doc' = [doc EXCEPT ![d] = [mr |-> q.mr, lines |-> q.lines]]
    /\ mr' = [mr EXCEPT ![q.mr] =
                [status |-> @.status, lines |-> @.lines,
                 rfq |-> IF q.kind = "rfq" THEN d ELSE @.rfq,
                 po  |-> IF q.kind = "po" THEN d ELSE @.po]]
    /\ UNCHANGED <<owner, onHand, received, issued, stale>>

\* The document asks for every line as read, in full.
CommitConvert(r, d) ==
    LET q == req[r] IN
    /\ Commit(r, {"rfq", "po"})
    /\ RowFree(q.mr)
    /\ doc[d] = NoDoc
    /\ doc' = [doc EXCEPT ![d] = [mr |-> q.mr, lines |-> q.lines]]
    /\ mr' = [mr EXCEPT ![q.mr] =
                [status |-> "CONVERTED", lines |-> @.lines,
                 rfq |-> IF q.kind = "rfq" THEN d ELSE @.rfq,
                 po  |-> IF q.kind = "po" THEN d ELSE @.po]]
    /\ UNCHANGED <<owner, onHand, received, issued, stale>>

-------------------------------------------------------------------------------
(* Approving, statement by statement.                                      *)

\* Where the transaction in slot r is after a statement.
GoOn(r, left, reading, read, taken, out) ==
    req' = [req EXCEPT ![r] =
                [kind |-> "issue", mr |-> req[r].mr, lines |-> req[r].lines,
                 left |-> left, reading |-> reading, read |-> read,
                 taken |-> taken, out |-> out]]

\* The request's row is written first, so two approvals of it follow each other.
OpenApproval(r) ==
    LET q == req[r] IN
    /\ q # NoRequest
    /\ q.kind = "approve"
    /\ RowFree(q.mr)
    /\ GoOn(r, {l \in q.lines : PlaceOf[l] # NoPlace}, NoLine, 0,
            [l \in Line |-> 0], [p \in Place |-> 0])
    /\ UNCHANGED <<mr, owner, onHand, received, issued, doc, raced, stale>>

\* issueOut: the balance as committed, less what this transaction took.
ReadOnHand(r, l) ==
    LET q == req[r] IN
    /\ InTransaction(r)
    /\ q.reading = NoLine /\ l \in q.left
    /\ GoOn(r, q.left, l, onHand[PlaceOf[l]] - q.out[PlaceOf[l]], q.taken, q.out)
    /\ UNCHANGED <<mr, owner, onHand, received, issued, doc, raced, stale>>

\* Mutant: not clamped.
Unclamped(l, read) == IF read > 0 THEN Asked[l] ELSE 0

\* min(requested, onHand).
Clamped(l, read) == IF Asked[l] <= read THEN Asked[l] ELSE read

\* Nothing to issue: no movement and no write.
IssueNothing(r) ==
    LET q == req[r] IN
    /\ InTransaction(r)
    /\ q.reading # NoLine
    /\ Clamped(q.reading, q.read) <= 0
    /\ GoOn(r, q.left \ {q.reading}, NoLine, 0, q.taken, q.out)
    /\ UNCHANGED <<mr, owner, onHand, received, issued, doc, raced, stale>>

\* Mutant: the balance read, less the issue, is written back.
IssueOutWriteBack(r) ==
    LET q == req[r]
        l == q.reading
        p == PlaceOf[l]
        n == Clamped(l, q.read) IN
    /\ InTransaction(r)
    /\ l # NoLine
    /\ n > 0
    /\ BalanceFree(p, Request \ {r})
    /\ stale' = IF onHand[p] - q.out[p] < q.read THEN stale \cup {p} ELSE stale
    /\ GoOn(r, q.left \ {l}, NoLine, 0, [q.taken EXCEPT ![l] = @ + n],
            [q.out EXCEPT ![p] = onHand[p] - (q.read - n)])
    /\ UNCHANGED <<mr, owner, onHand, received, issued, doc, raced>>

\* Decrement and movement; it waits while another transaction took from there.
IssueOut(r) ==
    LET q == req[r]
        l == q.reading
        p == PlaceOf[l]
        n == Clamped(l, q.read) IN
    /\ InTransaction(r)
    /\ l # NoLine
    /\ n > 0
    /\ BalanceFree(p, Request \ {r})
    /\ stale' = IF onHand[p] - q.out[p] < q.read THEN stale \cup {p} ELSE stale
    /\ GoOn(r, q.left \ {l}, NoLine, 0, [q.taken EXCEPT ![l] = @ + n],
            [q.out EXCEPT ![p] = @ + n])
    /\ UNCHANGED <<mr, owner, onHand, received, issued, doc, raced>>

\* Mutant: the movement is booked with the wrong sign.
CommitApprovalNegative(r) ==
    LET q == req[r] IN
    /\ Commit(r, {"issue"})
    /\ q.reading = NoLine /\ q.left = {}
    /\ mr' = [mr EXCEPT ![q.mr].status = "APPROVED"]
    /\ onHand' = [p \in Place |-> onHand[p] - q.out[p]]
    /\ issued' = [l \in Line |-> issued[l] - q.taken[l]]
    /\ UNCHANGED <<owner, received, doc, stale>>

\* Both the request's status and the movements, or neither.
CommitApproval(r) ==
    LET q == req[r] IN
    /\ Commit(r, {"issue"})
    /\ q.reading = NoLine /\ q.left = {}
    /\ mr' = [mr EXCEPT ![q.mr].status = "APPROVED"]
    /\ onHand' = [p \in Place |-> onHand[p] - q.out[p]]
    /\ issued' = [l \in Line |-> issued[l] + q.taken[l]]
    /\ UNCHANGED <<owner, received, doc, stale>>

\* applyIn, from a receipt of goods.
ApplyIn(p) ==
    /\ received[p] < MaxReceived
    /\ BalanceFree(p, Request)
    /\ onHand' = [onHand EXCEPT ![p] = @ + 1]
    /\ received' = [received EXCEPT ![p] = @ + 1]
    /\ UNCHANGED <<mr, owner, issued, doc, req, raced, stale>>

-------------------------------------------------------------------------------

Next ==
    \/ \E p \in Place : ApplyIn(p)
    \/ \E r \in Request :
        \/ \E m \in Mr :
            \/ Update(r, m) \/ Submit(r, m) \/ Decline(r, m) \/ Cancel(r, m)
            \/ Approve(r, m) \/ ConvertToRfq(r, m) \/ ConvertToPo(r, m)
        \/ RollBack(r)
        \/ CommitUpdate(r) \/ CommitMove(r)
        \/ \E d \in Doc : CommitConvert(r, d)
        \/ OpenApproval(r)
        \/ \E l \in Line : ReadOnHand(r, l)
        \/ IssueNothing(r) \/ IssueOut(r) \/ CommitApproval(r)

Spec == Init /\ [][Next]_vars

-------------------------------------------------------------------------------
(* Properties.                                                             *)

\* The units that f counts on the lines ls, one by one, and their number.
Units(f, ls) == UNION {{l} \X (1..f[l]) : l \in ls}

Total(f, ls) == Cardinality(Units(f, ls))

LinesAt(p) == {l \in Line : PlaceOf[l] = p}

\* "A running on-hand balance per (material, location) and an append-only movement
\* ledger" (inventory.service.ts:65-66): however receipts and approvals overlap, the
\* balance is the sum of the movements. Decrementing in the database, and not writing
\* back what was read, keeps it so.
BalanceIsLedger ==
    \A p \in Place : onHand[p] = received[p] - Total(issued, LinesAt(p))

\* Clamping an issue at the balance read keeps a balance from going below zero,
\* unless the balance went down between an approval's read and its decrement.
OnHandCoversIssues ==
    \A p \in Place \ stale : onHand[p] >= 0

\* Unless an overlap wrote to a request that its check no longer admits, no more is
\* issued for a line than it asks for, and none for a request not yet approved or one
\* declined: approval is the only hook and comes once.
IssuedAsAsked ==
    \A m \in Mr \ raced : \A l \in LinesOf(m) :
        /\ issued[l] <= Asked[l]
        /\ issued[l] > 0 => /\ l \in mr[m].lines
                            /\ mr[m].status \in {"APPROVED", "CONVERTED", "CANCELLED"}

DocsOf(m) == {d \in Doc : doc[d] # NoDoc /\ doc[d].mr = m}

\* Unless an overlap did so, a request is converted into one document and not two
\* (convertToRfq, convertToPo); the document asks for the lines the request has now
\* and the request names it. A request not converted has none.
OneDocument ==
    \A m \in Mr \ raced :
        /\ mr[m].status = "CONVERTED" <=> DocsOf(m) # {}
        /\ \A d, e \in DocsOf(m) : d = e
        /\ \A d \in DocsOf(m) : doc[d].lines = mr[m].lines /\ d \in {mr[m].rfq, mr[m].po}

===============================================================================
