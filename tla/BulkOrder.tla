------------------------------- MODULE BulkOrder -------------------------------
(***************************************************************************)
(* One bulk order, whose lines are drawn down in three ways and edited in  *)
(* two: createDrawdown and updateLineItem of bulk-orders.service.ts,       *)
(* applyDrawdownsFromPo of purchase-orders.service.ts, confirmCoverage of  *)
(* rfq-availability.service.ts, and approveChange of                       *)
(* bulk-order-change.service.ts.                                           *)
(*                                                                         *)
(* All of them read a line, reckon, and write the numbers they reckoned.   *)
(* An order placed and a coverage confirmed are transactions, at READ      *)
(* COMMITTED: the first reads inside it, line by line, and holds a line    *)
(* from its update to its commit; the second reads everything before it.   *)
(* A drawdown is two statements with no transaction around them. Requests  *)
(* may fail, or the process die, wherever they wait.                       *)
(***************************************************************************)
EXTENDS Integers

CONSTANTS
    Line,        \* ids of the order's lines, those of lines still to be added too
    NotYet,      \* the content of an id not yet in use
    Removed,     \* the content of the id of a deleted line
    Change,      \* ids of change requests
    NoChange,    \* the content of an id not yet in use
    Request,     \* slots for HTTP requests in flight
    NoRequest,   \* the content of a free slot
    Quantity,    \* the quantities that come in to be drawn
    Corrected,   \* the quantities a line is corrected to
    Edits,       \* the changes of lines that are proposed
    AtFirst,     \* AtFirst[l]: the quantity line l was created with, or 0
    Wanted,      \* Wanted[l]: what the drafted RFQ asks of the material of line l
    MaxDrawn     \* bound: none sets out to draw more of line l than MaxDrawn[l]

ASSUME QuantityAssumption == Quantity \subseteq Nat /\ Corrected \subseteq Nat \ {0}
ASSUME AtFirstAssumption == AtFirst \in [Line -> Nat]
ASSUME WantedAssumption == Wanted \in [Line -> Nat]
ASSUME MaxDrawnAssumption == MaxDrawn \in [Line -> Nat]

VARIABLES
    status,    \* the status of the bulk order
    line,      \* line[l]: the row of line l
    drawn,     \* drawn[l]: the sum of the drawdown rows of line l
    wanted,    \* wanted[l]: the quantity of the RFQ's line, 0 once it is deleted
    covered,   \* covered[l]: what confirmed coverages drew for that RFQ
    change,    \* change[c]: the change request c
    req,       \* req[r]: what the HTTP request in slot r read and will write
    pending,   \* history: drawn from line l by drawdowns still to update its row
    lost,      \* history: lines whose drawdowns overlapped, or one died half way
    mixed      \* history: lines drawn and edited by requests that overlapped

vars == <<status, line, drawn, wanted, covered, change, req, pending, lost, mixed>>
history == <<pending, lost, mixed>>

-------------------------------------------------------------------------------

Status == {"ACTIVE", "EXPIRED", "COMPLETED", "CANCELLED"}
Closed == {"COMPLETED", "CANCELLED"}

Row == [qty : Nat, remaining : Int, ordered : Nat]

\* A change request of one entry; an entry that adds a line names none.
Edit == [action : {"update", "remove"}, line : Line, qty : Nat]
        \cup [action : {"add"}, qty : Nat]
ChangeRow == [status : {"PENDING", "APPROVED", "REJECTED"}, edit : Edit]

\* A request that draws amount[l] from each line l. It has read snap[l] of the
\* lines it got to, a coverage also the RFQ's quantities, and holds the lines its
\* transaction has updated. "inserted": the drawdown row is written, the line's
\* is not; "completes", "stays": whether every line of the order was found drawn.
Drawing == [kind : {"drawdown", "po", "coverage"}, amount : [Line -> Nat],
            snap : [Line -> Row \cup {NotYet, Removed}], wanted : [Line -> Nat],
            held : SUBSET Line,
            step : {"begun", "inserted", "completes", "stays"}]

InFlight == Drawing
            \cup [kind : {"edit"}, line : Line, qty : Nat, snap : Row]
            \cup [kind : {"approve"}, change : Change, snap : Row \cup {NotYet, Removed}]
            \cup [kind : {"reject"}, change : Change]
            \cup [kind : {"propose"}, edit : Edit]
            \cup [kind : {"status"}, to : Status]
            \cup [kind : {"cancel", "cancelled"}]

ASSUME EditsAssumption == Edits \subseteq Edit
ASSUME NoRequestAssumption == NoRequest \notin InFlight
ASSUME NoChangeAssumption == NoChange \notin ChangeRow
ASSUME NoRowAssumption == NotYet \notin Row /\ Removed \notin Row \cup {NotYet}

TypeOK ==
    /\ status \in Status
    /\ line \in [Line -> Row \cup {NotYet, Removed}]
    /\ drawn \in [Line -> Nat]
    /\ wanted \in [Line -> Nat]
    /\ covered \in [Line -> Nat]
    /\ change \in [Change -> ChangeRow \cup {NoChange}]
    /\ req \in [Request -> InFlight \cup {NoRequest}]
    /\ pending \in [Line -> Int]
    /\ lost \subseteq Line
    /\ mixed \subseteq Line

NewRow(q) == [qty |-> q, remaining |-> q, ordered |-> 0]

\* createBulkOrder, and the draft of an RFQ.
Init ==
    /\ status = "ACTIVE"
    /\ line = [l \in Line |-> IF AtFirst[l] = 0 THEN NotYet ELSE NewRow(AtFirst[l])]
    /\ drawn = [l \in Line |-> 0]
    /\ wanted = Wanted
    /\ covered = [l \in Line |-> 0]
    /\ change = [c \in Change |-> NoChange]
    /\ req = [r \in Request |-> NoRequest]
    /\ pending = [l \in Line |-> 0]
    /\ lost = {}
    /\ mixed = {}

-------------------------------------------------------------------------------
(* What is written to a line: the columns a handler reckons from what it   *)
(* read, the others as they are by then.                                   *)

Live(l) == line[l] \in Row

\* No other transaction holds the row.
Free(r, l) == \A s \in Request \ {r} :
    req[s] # NoRequest => ~(req[s].kind = "po" /\ l \in req[s].held)

\* Mutant: the columns are swapped.
DrawnSwapped(row, snap, a) ==
    [qty |-> row.qty, remaining |-> snap.remaining + a, ordered |-> snap.ordered - a]

Drawn(row, snap, a) ==
    [qty |-> row.qty, remaining |-> snap.remaining - a, ordered |-> snap.ordered + a]

\* Mutant: a new quantity leaves what remains alone.
EditedOnly(row, snap, q) ==
    [qty |-> q, remaining |-> snap.remaining, ordered |-> row.ordered]

Edited(row, snap, q) ==
    [qty |-> q, remaining |-> snap.remaining + q - snap.qty, ordered |-> row.ordered]

DrawLines(q) ==
    LET taken == {l \in Line : q.amount[l] > 0} IN
    /\ line' = [l \in Line |-> IF l \in taken THEN Drawn(line[l], q.snap[l], q.amount[l])
                                              ELSE line[l]]
    /\ lost' = lost \cup {l \in taken : q.snap[l].ordered # line[l].ordered}
    /\ mixed' = mixed \cup {l \in taken : q.snap[l].qty # line[l].qty}

EditLine(l, snap, q) ==
    /\ line' = [line EXCEPT ![l] = Edited(line[l], snap, q)]
    /\ mixed' = mixed \cup IF snap.ordered # line[l].ordered THEN {l} ELSE {}

Begin(r, q) ==
    /\ req[r] = NoRequest
    /\ req' = [req EXCEPT ![r] = q]
    /\ UNCHANGED <<status, line, drawn, wanted, covered, change, history>>

Advance(r, q) ==
    /\ req' = [req EXCEPT ![r] = q]
    /\ UNCHANGED <<status, line, drawn, wanted, covered, change, history>>

End(r) == req' = [req EXCEPT ![r] = NoRequest]

\* The amounts a request may draw: some line's, and within the bound.
Amounts ==
    {a \in [Line -> Quantity \cup {0}] :
        /\ \E l \in Line : a[l] > 0
        /\ \A l \in Line : a[l] > 0 => drawn[l] + a[l] <= MaxDrawn[l]}

\* The part of f about the lines drawn.
Of(a, f, none) == [l \in Line |-> IF a[l] > 0 THEN f[l] ELSE none]

NewDrawing(kind, a, snap, w) ==
    [kind |-> kind, amount |-> a, snap |-> Of(a, snap, NotYet), wanted |-> Of(a, w, 0),
     held |-> {}, step |-> "begun"]

Nothing == [l \in Line |-> 0]
Unread == [l \in Line |-> NotYet]

-------------------------------------------------------------------------------
(* createDrawdown: a row is inserted, then the line updated.               *)

BeginDrawdown(r, a) ==
    /\ status = "ACTIVE"
    /\ \E l \in Line : \A k \in Line \ {l} : a[k] = 0
    /\ \A l \in Line : a[l] > 0 => Live(l) /\ a[l] <= line[l].remaining
    /\ Begin(r, NewDrawing("drawdown", a, line, Nothing))

InsertDrawdown(r) ==
    LET q == req[r] IN
    /\ q # NoRequest /\ q.kind = "drawdown" /\ q.step = "begun"
    /\ \A l \in Line : q.amount[l] > 0 => Live(l)
    /\ req' = [req EXCEPT ![r] = [q EXCEPT !.step = "inserted"]]
    /\ drawn' = [l \in Line |-> drawn[l] + q.amount[l]]
    /\ pending' = [l \in Line |-> pending[l] + q.amount[l]]
    /\ UNCHANGED <<status, line, wanted, covered, change, lost, mixed>>

FinishDrawdown(r) ==
    LET q == req[r] IN
    /\ q # NoRequest /\ q.kind = "drawdown" /\ q.step = "inserted"
    /\ \A l \in Line : q.amount[l] > 0 => Live(l) /\ Free(r, l)
    /\ DrawLines(q)
    /\ pending' = [l \in Line |-> pending[l] - q.amount[l]]
    /\ End(r)
    /\ UNCHANGED <<status, drawn, wanted, covered, change>>

-------------------------------------------------------------------------------
(* applyDrawdownsFromPo: line by line, in a transaction. Any order of the  *)
(* lines may be the order's.                                               *)

BeginPo(r, a) == Begin(r, NewDrawing("po", a, Unread, Nothing))

ReadLine(r, l) ==
    LET q == req[r] IN
    /\ q # NoRequest /\ q.kind = "po" /\ q.step = "begun"
    /\ q.amount[l] > 0 /\ q.snap[l] = NotYet
    /\ \A k \in Line : q.snap[k] # NotYet => k \in q.held
    /\ Live(l) /\ q.amount[l] <= line[l].remaining
    /\ Advance(r, [q EXCEPT !.snap = [q.snap EXCEPT ![l] = line[l]]])

HoldLine(r, l) ==
    LET q == req[r] IN
    /\ q # NoRequest /\ q.kind = "po" /\ q.step = "begun"
    /\ q.snap[l] # NotYet /\ l \notin q.held
    /\ Live(l) /\ Free(r, l)
    /\ Advance(r, [q EXCEPT !.held = q.held \cup {l}])

\* The lines as the transaction sees them, its own updates among them.
Seen(q) == [l \in Line |-> IF l \in q.held THEN Drawn(line[l], q.snap[l], q.amount[l])
                                           ELSE line[l]]

Tally(r) ==
    LET q == req[r]
        drawnOut == \A l \in Line : Live(l) => Seen(q)[l].remaining = 0
    IN
    /\ q # NoRequest /\ q.kind = "po" /\ q.step = "begun"
    /\ \A l \in Line : q.amount[l] > 0 => l \in q.held
    /\ Advance(r, [q EXCEPT !.step = IF drawnOut THEN "completes" ELSE "stays"])

\* Mutant: the rows of the drawdowns are not written.
CommitPoUnlogged(r) ==
    LET q == req[r] IN
    /\ q # NoRequest /\ q.kind = "po" /\ q.step \in {"completes", "stays"}
    /\ DrawLines(q)
    /\ status' = IF q.step = "completes" THEN "COMPLETED" ELSE status
    /\ End(r)
    /\ UNCHANGED <<drawn, wanted, covered, change, pending>>

CommitPo(r) ==
    LET q == req[r] IN
    /\ q # NoRequest /\ q.kind = "po" /\ q.step \in {"completes", "stays"}
    /\ DrawLines(q)
    /\ drawn' = [l \in Line |-> drawn[l] + q.amount[l]]
    /\ status' = IF q.step = "completes" THEN "COMPLETED" ELSE status
    /\ End(r)
    /\ UNCHANGED <<wanted, covered, change, pending>>

-------------------------------------------------------------------------------
(* confirmCoverage: everything is read and checked, then one transaction   *)
(* draws the lines and shrinks the RFQ's.                                  *)

BeginCoverage(r, a) ==
    /\ status = "ACTIVE"
    /\ \A l \in Line : a[l] > 0 => Live(l) /\ a[l] <= line[l].remaining /\ a[l] <= wanted[l]
    /\ Begin(r, NewDrawing("coverage", a, line, wanted))

\* Mutant: a line that is covered in part is deleted.
LeftNone(w, a) == IF a > 0 THEN 0 ELSE w

\* What a line of the RFQ is left with.
Left(w, a) == w - a

\* The update or deletion of a line another coverage deleted fails.
CommitCoverage(r) ==
    LET q == req[r] IN
    /\ q # NoRequest /\ q.kind = "coverage"
    /\ \A l \in Line : q.amount[l] > 0 => Live(l) /\ Free(r, l) /\ wanted[l] > 0
    /\ DrawLines(q)
    /\ drawn' = [l \in Line |-> drawn[l] + q.amount[l]]
    /\ covered' = [l \in Line |-> covered[l] + q.amount[l]]
    /\ wanted' = [l \in Line |-> IF q.amount[l] > 0 THEN Left(q.wanted[l], q.amount[l])
                                                    ELSE wanted[l]]
    /\ End(r)
    /\ UNCHANGED <<status, change, pending>>

-------------------------------------------------------------------------------
(* updateLineItem and updateBulkOrder.                                     *)

BeginEdit(r, l, q) ==
    /\ status \notin Closed
    /\ Live(l)
    /\ Begin(r, [kind |-> "edit", line |-> l, qty |-> q, snap |-> line[l]])

CommitEdit(r) ==
    LET q == req[r] IN
    /\ q # NoRequest /\ q.kind = "edit"
    /\ Live(q.line) /\ Free(r, q.line)
    /\ EditLine(q.line, q.snap, q.qty)
    /\ End(r)
    /\ UNCHANGED <<status, drawn, wanted, covered, change, pending, lost>>

BeginStatus(r, to) ==
    /\ status \notin Closed
    /\ Begin(r, [kind |-> "status", to |-> to])

CommitStatus(r) ==
    /\ req[r] # NoRequest /\ req[r].kind = "status"
    /\ status' = req[r].to
    /\ End(r)
    /\ UNCHANGED <<line, drawn, wanted, covered, change, history>>

-------------------------------------------------------------------------------
(* proposeChange, approveChange, rejectChange and cancelBulkOrder.         *)

BeginPropose(r, e) ==
    /\ status = "ACTIVE"
    /\ Begin(r, [kind |-> "propose", edit |-> e])

CommitPropose(r, c) ==
    /\ req[r] # NoRequest /\ req[r].kind = "propose"
    /\ change[c] = NoChange
    /\ change' = [change EXCEPT ![c] = [status |-> "PENDING", edit |-> req[r].edit]]
    /\ End(r)
    /\ UNCHANGED <<status, line, drawn, wanted, covered, history>>

Pending(c) == change[c] # NoChange /\ change[c].status = "PENDING"

BeginApprove(r, c) ==
    /\ Pending(c)
    /\ Begin(r, [kind |-> "approve", change |-> c,
                 snap |-> IF change[c].edit.action = "add" THEN NotYet
                                                          ELSE line[change[c].edit.line]])

BeginReject(r, c) ==
    /\ Pending(c)
    /\ Begin(r, [kind |-> "reject", change |-> c])

Resolved(c, s) == [change[c] EXCEPT !.status = s]

\* An update of a line that was not there when the order was read is skipped.
Apply(r, e, snap) ==
    \/ e.action = "update" /\ snap \in Row
       /\ Live(e.line) /\ Free(r, e.line)
       /\ EditLine(e.line, snap, e.qty)
    \/ e.action = "update" /\ snap \notin Row
       /\ UNCHANGED <<line, mixed>>
    \/ e.action = "remove" /\ Live(e.line) /\ Free(r, e.line)
       /\ line' = [line EXCEPT ![e.line] = Removed]
       /\ UNCHANGED mixed
    \/ e.action = "add"
       /\ \E l \in Line : line[l] = NotYet /\ line' = [line EXCEPT ![l] = NewRow(e.qty)]
       /\ UNCHANGED mixed

CommitApprove(r) ==
    LET q == req[r] IN
    /\ q # NoRequest /\ q.kind = "approve"
    /\ Apply(r, change[q.change].edit, q.snap)
    /\ change' = [change EXCEPT ![q.change] = Resolved(q.change, "APPROVED")]
    /\ End(r)
    /\ UNCHANGED <<status, drawn, wanted, covered, pending, lost>>

CommitReject(r) ==
    LET q == req[r] IN
    /\ q # NoRequest /\ q.kind = "reject"
    /\ change' = [change EXCEPT ![q.change] = Resolved(q.change, "REJECTED")]
    /\ End(r)
    /\ UNCHANGED <<status, line, drawn, wanted, covered, history>>

BeginCancel(r) == status # "CANCELLED" /\ Begin(r, [kind |-> "cancel"])

\* The order is cancelled first; the open changes are rejected in a second statement.
CancelBulkOrder(r) ==
    /\ req[r] # NoRequest /\ req[r].kind = "cancel"
    /\ status' = "CANCELLED"
    /\ req' = [req EXCEPT ![r] = [kind |-> "cancelled"]]
    /\ UNCHANGED <<line, drawn, wanted, covered, change, history>>

RejectPending(r) ==
    /\ req[r] # NoRequest /\ req[r].kind = "cancelled"
    /\ change' = [c \in Change |-> IF Pending(c) THEN Resolved(c, "REJECTED") ELSE change[c]]
    /\ End(r)
    /\ UNCHANGED <<status, line, drawn, wanted, covered, history>>

-------------------------------------------------------------------------------

\* A request is refused after all, or dies: its open transaction is rolled back,
\* a drawdown row already inserted stays.
Fail(r) ==
    LET q == req[r]
        half == {l \in Line : q.kind = "drawdown" /\ q.step = "inserted" /\ q.amount[l] > 0}
    IN
    /\ q # NoRequest
    /\ End(r)
    /\ lost' = lost \cup half
    /\ UNCHANGED <<status, line, drawn, wanted, covered, change, pending, mixed>>

Draw(r) ==
    \/ \E a \in Amounts : BeginDrawdown(r, a) \/ BeginPo(r, a) \/ BeginCoverage(r, a)
    \/ InsertDrawdown(r) \/ FinishDrawdown(r)
    \/ \E l \in Line : ReadLine(r, l) \/ HoldLine(r, l)
    \/ Tally(r) \/ CommitPo(r)
    \/ CommitCoverage(r)

Modify(r) ==
    \/ \E l \in Line, q \in Corrected : BeginEdit(r, l, q)
    \/ CommitEdit(r)
    \/ \E s \in Status : BeginStatus(r, s)
    \/ CommitStatus(r)

Negotiate(r) ==
    \/ \E e \in Edits : BeginPropose(r, e)
    \/ \E c \in Change : CommitPropose(r, c) \/ BeginApprove(r, c) \/ BeginReject(r, c)
    \/ CommitApprove(r) \/ CommitReject(r)
    \/ BeginCancel(r) \/ CancelBulkOrder(r) \/ RejectPending(r)

Next == \E r \in Request : Draw(r) \/ Modify(r) \/ Negotiate(r) \/ Fail(r)

Spec == Init /\ [][Next]_vars

-------------------------------------------------------------------------------
(* Properties.                                                             *)

\* The drawdown rows account for what a line says was ordered: they cover it
\* whatever overlaps or dies, and they are it, save the drawdowns still to update
\* the line, unless drawdowns of the line overlapped or one was cut in half.
OrderedIsDrawn ==
    \A l \in Line : Live(l) =>
        /\ line[l].ordered <= drawn[l]
        /\ l \notin lost => line[l].ordered + pending[l] = drawn[l]

\* What was ordered and what remains make up a line's quantity, whatever
\* drawdowns overlap and wherever they die; only an edit of the quantity that
\* overlaps a drawdown of the same line can part them.
RowAddsUp ==
    \A l \in Line : Live(l) /\ l \notin mixed =>
        line[l].ordered + line[l].remaining = line[l].qty

\* Nothing the RFQ asked for is lost between a coverage and its lines, however
\* many coverages overlap: what is not left to quote for has been drawn.
CoverageLosesNothing ==
    \A l \in Line : covered[l] + wanted[l] >= Wanted[l]

===============================================================================
