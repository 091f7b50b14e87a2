---------------------------- MODULE BulkOrderProofs ----------------------------
(***************************************************************************)
(* That BulkOrder keeps its types, that drawdown rows account for what     *)
(* lines say was ordered, that the columns of a line add up, and that a    *)
(* coverage loses nothing, for any lines, quantities and requests.         *)
(*                                                                         *)
(* The four go together: what a request writes is reckoned from what it    *)
(* read, so the invariant says of every snapshot in flight what the        *)
(* properties say of the row, weakened to survive what others write since. *)
(***************************************************************************)
EXTENDS BulkOrder, TLAPS

Draws == {"drawdown", "po", "coverage"}

Adds(row) == row.ordered + row.remaining = row.qty

\* What a line keeps to: the parts of OrderedIsDrawn and RowAddsUp about it, and
\* that nothing is drawn from a line yet to be added.
LineOK(l) ==
    /\ Live(l) =>
        /\ line[l].ordered <= drawn[l]
        /\ l \notin lost => line[l].ordered + pending[l] = drawn[l]
        /\ l \notin mixed => Adds(line[l])
    /\ line[l] = NotYet => drawn[l] = 0 /\ pending[l] = 0

SnapOK(q, l) ==
    /\ q.snap[l] \in Row =>
        /\ q.snap[l].ordered <= drawn[l]
        /\ l \notin mixed => Adds(q.snap[l])
    /\ q.amount[l] > 0 /\ q.kind # "po" => q.snap[l] \in Row
    /\ q.amount[l] > 0 /\ q.step = "inserted" =>
        q.snap[l].ordered + q.amount[l] <= drawn[l]

\* The lines an order's transaction holds are there, and those it draws are held
\* once it is done with them.
HeldOK(q, l) ==
    q.kind = "po" =>
        /\ q.snap[l] # NotYet => q.snap[l] \in Row
        /\ l \in q.held => Live(l) /\ q.snap[l] \in Row
        /\ q.amount[l] > 0 /\ q.step # "begun" => l \in q.held
        /\ q.step # "inserted"

\* What a coverage read of the RFQ still covers it, with what was drawn since.
WantedOK(q, l) ==
    q.kind = "coverage" /\ q.amount[l] > 0 =>
        /\ q.amount[l] <= q.wanted[l]
        /\ covered[l] + q.wanted[l] >= Wanted[l]
        /\ q.step # "inserted"

RulingOK(q) ==
    /\ q.kind = "edit" => (q.line \notin mixed => Adds(q.snap))
    /\ q.kind = "reject" => change[q.change] # NoChange
    /\ q.kind = "approve" =>
        /\ change[q.change] # NoChange
        /\ /\ change[q.change].edit.action # "add"
           /\ q.snap \in Row
           /\ change[q.change].edit.line \notin mixed
           => Adds(q.snap)

RequestOK(q) ==
    /\ q.kind \in Draws => \A l \in Line : SnapOK(q, l) /\ HeldOK(q, l) /\ WantedOK(q, l)
    /\ RulingOK(q)

RequestsOK == \A r \in Request, q \in InFlight : req[r] = q => RequestOK(q)

Inv ==
    /\ TypeOK
    /\ \A l \in Line : LineOK(l)
    /\ CoverageLosesNothing
    /\ RequestsOK

-------------------------------------------------------------------------------
(* Kinds of requests, and what others may do to one.                       *)

LEMMA DrawingKind ==
    ASSUME NEW q \in InFlight, q.kind \in Draws
    PROVE  q \in Drawing
BY DEF InFlight, Draws

LEMMA EditKind ==
    ASSUME NEW q \in InFlight, q.kind = "edit"
    PROVE  q \in [kind : {"edit"}, line : Line, qty : Nat, snap : Row]
BY DEF InFlight, Drawing

LEMMA ApproveKind ==
    ASSUME NEW q \in InFlight, q.kind = "approve"
    PROVE  q \in [kind : {"approve"}, change : Change, snap : Row \cup {NotYet, Removed}]
BY DEF InFlight, Drawing

LEMMA OtherKinds ==
    ASSUME NEW q \in InFlight
    PROVE  /\ q.kind = "reject" => q.change \in Change
           /\ q.kind = "propose" => q.edit \in Edit
           /\ q.kind = "status" => q.to \in Status
BY DEF InFlight, Drawing

\* What no step takes back, and the lines no step of request r removes.
Grows ==
    /\ \A l \in Line : drawn'[l] >= drawn[l] /\ covered'[l] >= covered[l]
    /\ mixed \subseteq mixed'
    /\ \A c \in Change : change[c] # NoChange =>
        change'[c] # NoChange /\ change'[c].edit = change[c].edit

KeepsHeld(r) == \A l \in Line : Live(l) /\ ~Free(r, l) => Live(l)'

LEMMA DrawingKept ==
    ASSUME TypeOK, TypeOK', Grows, NEW q \in Drawing, NEW l \in Line,
           q.kind = "po" /\ l \in q.held /\ Live(l) => Live(l)',
           SnapOK(q, l), HeldOK(q, l), WantedOK(q, l)
    PROVE  SnapOK(q, l)' /\ HeldOK(q, l)' /\ WantedOK(q, l)'
<1>1. /\ drawn[l] \in Nat /\ drawn'[l] \in Nat /\ drawn'[l] >= drawn[l]
      /\ covered[l] \in Nat /\ covered'[l] \in Nat /\ covered'[l] >= covered[l]
      /\ mixed \subseteq mixed'
    BY DEF TypeOK, Grows
<1>2. /\ q.amount[l] \in Nat /\ q.wanted[l] \in Nat /\ Wanted[l] \in Nat
      /\ q.snap[l] \in Row => q.snap[l].ordered \in Nat
    BY WantedAssumption DEF Drawing, Row
<1>3. SnapOK(q, l)'
    <2>1. q.snap[l] \in Row =>
            q.snap[l].ordered <= drawn'[l] /\ (l \notin mixed' => Adds(q.snap[l]))
        BY <1>1, <1>2 DEF SnapOK
    <2>2. q.amount[l] > 0 /\ q.kind # "po" => q.snap[l] \in Row
        BY DEF SnapOK
    <2>3. q.amount[l] > 0 /\ q.step = "inserted" => q.snap[l] \in Row
        BY <2>2 DEF HeldOK
    <2>4. q.amount[l] > 0 /\ q.step = "inserted" =>
            q.snap[l].ordered + q.amount[l] <= drawn'[l]
        BY <1>1, <1>2, <2>3 DEF SnapOK
    <2> QED BY <2>1, <2>2, <2>4 DEF SnapOK, Adds
<1>4. HeldOK(q, l)'
    BY DEF HeldOK
<1>5. WantedOK(q, l)'
    BY <1>1, <1>2 DEF WantedOK
<1> QED BY <1>3, <1>4, <1>5

LEMMA RulingKept ==
    ASSUME TypeOK, TypeOK', Grows, NEW q \in InFlight, RulingOK(q)
    PROVE  RulingOK(q)'
<1>1. q.kind = "edit" => (q.line \notin mixed' => Adds(q.snap))
    BY DEF RulingOK, Grows
<1>2. q.kind = "reject" => change'[q.change] # NoChange
    BY OtherKinds DEF RulingOK, Grows
<1>3. ASSUME q.kind = "approve"
      PROVE  /\ change'[q.change] # NoChange
             /\ change'[q.change].edit = change[q.change].edit
    <2>1. q.change \in Change BY <1>3, ApproveKind
    <2> QED BY <1>3, <2>1 DEF RulingOK, Grows
<1>4. ASSUME q.kind = "approve", change'[q.change].edit.action # "add",
             q.snap \in Row, change'[q.change].edit.line \notin mixed'
      PROVE  Adds(q.snap)
    BY <1>3, <1>4 DEF RulingOK, Grows
<1> QED BY <1>1, <1>2, <1>3, <1>4 DEF RulingOK, Adds

\* A step of request r keeps the invariant of the others.
LEMMA OthersKept ==
    ASSUME Inv, TypeOK', Grows, NEW r \in Request, KeepsHeld(r),
           \A s \in Request \ {r} : req'[s] = req[s],
           \A q \in InFlight : req'[r] = q => RequestOK(q)'
    PROVE  RequestsOK'
<1> SUFFICES ASSUME NEW s \in Request, s # r, NEW q \in InFlight, req'[s] = q
             PROVE  RequestOK(q)'
    BY DEF RequestsOK
<1>1. req[s] = q /\ RequestOK(q)
    BY DEF Inv, RequestsOK
<1>2. RulingOK(q)'
    BY <1>1, RulingKept DEF Inv, RequestOK
<1>3. ASSUME q.kind \in Draws, NEW l \in Line
      PROVE  SnapOK(q, l)' /\ HeldOK(q, l)' /\ WantedOK(q, l)'
    <2>1. q \in Drawing BY <1>3, DrawingKind
    <2>2. q.kind = "po" /\ l \in q.held /\ Live(l) => Live(l)'
        <3> SUFFICES ASSUME q.kind = "po", l \in q.held, Live(l) PROVE Live(l)'
            OBVIOUS
        <3>1. ~Free(r, l) BY <1>1, NoRequestAssumption DEF Free
        <3> QED BY <3>1 DEF KeepsHeld
    <2>3. SnapOK(q, l) /\ HeldOK(q, l) /\ WantedOK(q, l)
        BY <1>1, <1>3 DEF RequestOK
    <2> QED BY <2>1, <2>2, <2>3, DrawingKept DEF Inv
<1>4. RequestOK(q)'
    BY <1>2, <1>3 DEF RequestOK
<1> QED BY <1>4

\* A step that only changes what request r holds.
LEMMA RequestOnly ==
    ASSUME Inv, NEW r \in Request, NEW p \in InFlight, RequestOK(p),
           req' = [req EXCEPT ![r] = p],
           UNCHANGED <<status, line, drawn, wanted, covered, change, history>>
    PROVE  Inv'
<1>1. TypeOK'
    BY DEF Inv, TypeOK, history
<1>2. Grows /\ KeepsHeld(r)
    BY DEF Inv, TypeOK, Grows, KeepsHeld, Live, history
<1>3. RequestOK(p)'
    BY DEF RequestOK, SnapOK, HeldOK, WantedOK, RulingOK, Live, Adds, history
<1>4. /\ \A s \in Request \ {r} : req'[s] = req[s]
      /\ req'[r] = p
    BY DEF Inv, TypeOK
<1>5. RequestsOK'
    BY <1>1, <1>2, <1>3, <1>4, OthersKept
<1>6. (\A l \in Line : LineOK(l)') /\ CoverageLosesNothing'
    BY DEF Inv, LineOK, Live, Adds, CoverageLosesNothing, history
<1> QED BY <1>1, <1>5, <1>6 DEF Inv

\* A step by which request r ends.
LEMMA Ended ==
    ASSUME Inv, NEW r \in Request, End(r), TypeOK', Grows, KeepsHeld(r),
           \A l \in Line : LineOK(l)', CoverageLosesNothing'
    PROVE  Inv'
<1>1. \A s \in Request \ {r} : req'[s] = req[s]
    BY DEF Inv, TypeOK, End
<1>2. \A q \in InFlight : req'[r] = q => RequestOK(q)'
    BY NoRequestAssumption DEF Inv, TypeOK, End
<1>3. RequestsOK'
    BY <1>1, <1>2, OthersKept
<1> QED BY <1>3 DEF Inv

\* A step by which request r ends and which changes no line, drawdown or RFQ.
LEMMA EndedQuietly ==
    ASSUME Inv, NEW r \in Request, End(r),
           UNCHANGED <<line, drawn, wanted, covered, history>>,
           status' \in Status, change' \in [Change -> ChangeRow \cup {NoChange}],
           \A c \in Change : change[c] # NoChange =>
                change'[c] # NoChange /\ change'[c].edit = change[c].edit
    PROVE  Inv'
<1>1. TypeOK'
    BY DEF Inv, TypeOK, End, history
<1>2. Grows /\ KeepsHeld(r)
    BY DEF Inv, TypeOK, Grows, KeepsHeld, Live, history
<1>3. (\A l \in Line : LineOK(l)') /\ CoverageLosesNothing'
    BY DEF Inv, LineOK, Live, Adds, CoverageLosesNothing, history
<1> QED BY <1>1, <1>2, <1>3, Ended

-------------------------------------------------------------------------------
(* The writes.                                                             *)

LEMMA DrawnRow ==
    ASSUME NEW row \in Row, NEW snap \in Row, NEW a \in Nat
    PROVE  /\ Drawn(row, snap, a) \in Row
           /\ Drawn(row, snap, a).ordered = snap.ordered + a
           /\ snap.qty = row.qty /\ Adds(snap) => Adds(Drawn(row, snap, a))
<1>1. /\ row.qty \in Nat /\ snap.qty \in Nat
      /\ snap.remaining \in Int /\ snap.ordered \in Nat
    BY DEF Row
<1>2. snap.remaining - a \in Int /\ snap.ordered + a \in Nat
    BY <1>1
<1>3. Drawn(row, snap, a) \in Row
    BY <1>1, <1>2 DEF Drawn, Row
<1> QED BY <1>1, <1>3 DEF Drawn, Adds

\* Drawing down adds what is drawn to what was read; the columns still add up
\* unless the quantity changed, and none is lost unless ordered did.
LEMMA DrawLinesFacts ==
    ASSUME TypeOK, NEW q \in Drawing, DrawLines(q),
           \A l \in Line : q.amount[l] > 0 => Live(l) /\ q.snap[l] \in Row
    PROVE  /\ line' \in [Line -> Row \cup {NotYet, Removed}]
           /\ lost' \subseteq Line /\ mixed' \subseteq Line
           /\ lost \subseteq lost' /\ mixed \subseteq mixed'
           /\ \A l \in Line : Live(l)' <=> Live(l)
           /\ \A l \in Line : q.amount[l] > 0 =>
                /\ line'[l].ordered = q.snap[l].ordered + q.amount[l]
                /\ l \notin lost' => q.snap[l].ordered = line[l].ordered
                /\ l \notin mixed' /\ Adds(q.snap[l]) => Adds(line'[l])
           /\ \A l \in Line : ~(q.amount[l] > 0) => line'[l] = line[l]
<1>1. \A l \in Line : q.amount[l] > 0 =>
        /\ line'[l] = Drawn(line[l], q.snap[l], q.amount[l])
        /\ l \in lost' <=> l \in lost \/ q.snap[l].ordered # line[l].ordered
        /\ l \in mixed' <=> l \in mixed \/ q.snap[l].qty # line[l].qty
    BY DEF DrawLines
<1>2. \A l \in Line : ~(q.amount[l] > 0) =>
        line'[l] = line[l] /\ (l \in lost' <=> l \in lost) /\ (l \in mixed' <=> l \in mixed)
    BY DEF DrawLines
<1>3. line' = [l \in Line |-> line'[l]]
    BY DEF DrawLines
<1>4. lost \subseteq lost' /\ mixed \subseteq mixed' /\ lost' \subseteq Line /\ mixed' \subseteq Line
    BY DEF DrawLines, TypeOK
<1>5. ASSUME NEW l \in Line, q.amount[l] > 0
      PROVE  /\ line'[l] \in Row
             /\ line'[l].ordered = q.snap[l].ordered + q.amount[l]
             /\ l \notin lost' => q.snap[l].ordered = line[l].ordered
             /\ l \notin mixed' /\ Adds(q.snap[l]) => Adds(line'[l])
    <2>1. /\ q.amount[l] \in Nat /\ q.snap[l] \in Row /\ line[l] \in Row
        BY <1>5 DEF Drawing, Live
    <2> QED BY <1>1, <1>5, <2>1, DrawnRow
<1>6. \A l \in Line : line'[l] \in Row \cup {NotYet, Removed} /\ (Live(l)' <=> Live(l))
    BY <1>2, <1>5 DEF TypeOK, Live
<1> QED BY <1>2, <1>3, <1>4, <1>5, <1>6

\* Correcting a quantity moves what remains with it; the columns still add up
\* unless ordered changed.
LEMMA EditLineFacts ==
    ASSUME TypeOK, NEW k \in Line, NEW snap \in Row, NEW n \in Nat, Live(k),
           EditLine(k, snap, n)
    PROVE  /\ line' \in [Line -> Row \cup {NotYet, Removed}]
           /\ mixed' \subseteq Line /\ mixed \subseteq mixed'
           /\ \A l \in Line : Live(l)' <=> Live(l)
           /\ line'[k].ordered = line[k].ordered
           /\ k \notin mixed' /\ Adds(snap) => Adds(line'[k])
           /\ \A l \in Line \ {k} : line'[l] = line[l]
<1>1. /\ line'[k] = [qty |-> n, remaining |-> snap.remaining + n - snap.qty,
                     ordered |-> line[k].ordered]
      /\ \A l \in Line \ {k} : line'[l] = line[l]
      /\ line' = [l \in Line |-> line'[l]]
    BY DEF EditLine, Edited, TypeOK
<1>2. /\ snap.remaining \in Int /\ snap.qty \in Nat /\ snap.ordered \in Nat
      /\ line[k].ordered \in Nat
    BY DEF Row, Live
<1>3. line'[k] \in Row
    BY <1>1, <1>2 DEF Row
<1>4. /\ mixed \subseteq mixed' /\ mixed' \subseteq Line
      /\ k \notin mixed' => snap.ordered = line[k].ordered
    BY DEF EditLine, TypeOK
<1>5. k \notin mixed' /\ Adds(snap) => Adds(line'[k])
    BY <1>1, <1>2, <1>4 DEF Adds
<1>6. \A l \in Line : line'[l] \in Row \cup {NotYet, Removed} /\ (Live(l)' <=> Live(l))
    BY <1>1, <1>3 DEF TypeOK, Live
<1> QED BY <1>1, <1>3, <1>4, <1>5, <1>6

\* So does what a line keeps to, when it is corrected.
LEMMA EditKeepsLines ==
    ASSUME Inv, NEW k \in Line, NEW snap \in Row, NEW n \in Nat, Live(k),
           EditLine(k, snap, n), k \notin mixed => Adds(snap),
           UNCHANGED <<drawn, lost, pending>>
    PROVE  \A l \in Line : LineOK(l)'
<1> SUFFICES ASSUME NEW l \in Line PROVE LineOK(l)'
    OBVIOUS
<1>1. LineOK(l) /\ TypeOK
    BY DEF Inv
<1>2. CASE l = k
    <2>1. /\ Live(l)' /\ line'[l] # NotYet /\ line'[l].ordered = line[l].ordered
          /\ l \notin mixed' /\ Adds(snap) => Adds(line'[l])
          /\ mixed \subseteq mixed'
        BY <1>1, <1>2, EditLineFacts, NoRowAssumption DEF Live
    <2> QED BY <1>1, <1>2, <2>1 DEF LineOK, Adds
<1>3. CASE l # k
    <2>1. line'[l] = line[l] /\ mixed \subseteq mixed'
        BY <1>1, <1>3, EditLineFacts
    <2> QED BY <1>1, <2>1 DEF LineOK, Live, Adds
<1> QED BY <1>2, <1>3

-------------------------------------------------------------------------------
(* Drawing.                                                                *)

LEMMA NewDrawingFacts ==
    ASSUME NEW kind \in Draws, NEW a \in [Line -> Nat], NEW w \in [Line -> Nat],
           NEW snap \in [Line -> Row \cup {NotYet, Removed}]
    PROVE  LET q == NewDrawing(kind, a, snap, w) IN
           /\ q \in Drawing /\ q \in InFlight
           /\ q.kind = kind /\ q.amount = a /\ q.held = {} /\ q.step = "begun"
           /\ \A l \in Line : a[l] > 0 => q.snap[l] = snap[l] /\ q.wanted[l] = w[l]
           /\ \A l \in Line : ~(a[l] > 0) => q.snap[l] = NotYet
<1>1. /\ Of(a, snap, NotYet) \in [Line -> Row \cup {NotYet, Removed}]
      /\ Of(a, w, 0) \in [Line -> Nat]
    BY DEF Of
<1>2. NewDrawing(kind, a, snap, w) \in Drawing
    BY <1>1 DEF NewDrawing, Drawing, Draws
<1> QED BY <1>2 DEF NewDrawing, Of, InFlight

LEMMA AmountsType ==
    ASSUME NEW a \in Amounts
    PROVE  a \in [Line -> Nat]
<1>1. a \in [Line -> Quantity \cup {0}]
    BY DEF Amounts
<1>2. Quantity \cup {0} \subseteq Nat
    <2>1. Quantity \subseteq Nat BY QuantityAssumption
    <2> QED BY <2>1
<1> QED BY <1>1, <1>2

LEMMA RowFacts ==
    ASSUME Inv, NEW l \in Line, Live(l)
    PROVE  /\ line[l] \in Row /\ line[l].ordered <= drawn[l]
           /\ l \notin mixed => Adds(line[l])
BY DEF Inv, LineOK, Live

LEMMA BeginDrawing ==
    ASSUME Inv, NEW r \in Request, NEW a \in Amounts,
           BeginDrawdown(r, a) \/ BeginPo(r, a) \/ BeginCoverage(r, a)
    PROVE  Inv'
<1>0. /\ a \in [Line -> Nat] /\ wanted \in [Line -> Nat] /\ covered \in [Line -> Nat]
      /\ line \in [Line -> Row \cup {NotYet, Removed}]
      /\ Nothing \in [Line -> Nat] /\ Unread \in [Line -> Row \cup {NotYet, Removed}]
    BY AmountsType DEF Inv, TypeOK, Nothing, Unread
<1>1. CASE BeginDrawdown(r, a)
    <2> DEFINE p == NewDrawing("drawdown", a, line, Nothing)
    <2>1. /\ p \in InFlight /\ p.kind = "drawdown" /\ p.amount = a /\ p.step = "begun"
          /\ \A l \in Line : a[l] > 0 => p.snap[l] = line[l]
          /\ \A l \in Line : ~(a[l] > 0) => p.snap[l] = NotYet
        BY <1>0, NewDrawingFacts DEF Draws
    <2>2. req' = [req EXCEPT ![r] = p]
          /\ UNCHANGED <<status, line, drawn, wanted, covered, change, history>>
        BY <1>1 DEF BeginDrawdown, Begin
    <2> HIDE DEF p
    <2>3. \A l \in Line : SnapOK(p, l)
        BY <1>1, <2>1, RowFacts, NoRowAssumption DEF BeginDrawdown, SnapOK, Live
    <2>4. RequestOK(p)
        BY <2>1, <2>3 DEF RequestOK, HeldOK, WantedOK, RulingOK
    <2> QED BY <2>1, <2>2, <2>4, RequestOnly
<1>2. CASE BeginPo(r, a)
    <2> DEFINE p == NewDrawing("po", a, Unread, Nothing)
    <2>1. /\ p \in InFlight /\ p.kind = "po" /\ p.amount = a /\ p.held = {}
          /\ p.step = "begun" /\ \A l \in Line : p.snap[l] = NotYet
        BY <1>0, NewDrawingFacts DEF Draws, Unread
    <2>2. req' = [req EXCEPT ![r] = p]
          /\ UNCHANGED <<status, line, drawn, wanted, covered, change, history>>
        BY <1>2 DEF BeginPo, Begin
    <2> HIDE DEF p
    <2>3. \A l \in Line : SnapOK(p, l)
        BY <2>1, NoRowAssumption DEF SnapOK
    <2>4. RequestOK(p)
        BY <2>1, <2>3 DEF RequestOK, HeldOK, WantedOK, RulingOK
    <2> QED BY <2>1, <2>2, <2>4, RequestOnly
<1>3. CASE BeginCoverage(r, a)
    <2> DEFINE p == NewDrawing("coverage", a, line, wanted)
    <2>1. /\ p \in InFlight /\ p.kind = "coverage" /\ p.amount = a /\ p.step = "begun"
          /\ \A l \in Line : a[l] > 0 => p.snap[l] = line[l] /\ p.wanted[l] = wanted[l]
          /\ \A l \in Line : ~(a[l] > 0) => p.snap[l] = NotYet
        BY <1>0, NewDrawingFacts DEF Draws
    <2>2. req' = [req EXCEPT ![r] = p]
          /\ UNCHANGED <<status, line, drawn, wanted, covered, change, history>>
        BY <1>3 DEF BeginCoverage, Begin
    <2> HIDE DEF p
    <2>3. \A l \in Line : SnapOK(p, l)
        BY <1>3, <2>1, RowFacts, NoRowAssumption DEF BeginCoverage, SnapOK, Live
    <2>4. \A l \in Line : WantedOK(p, l)
        BY <1>3, <2>1 DEF BeginCoverage, WantedOK, Inv, CoverageLosesNothing
    <2>5. RequestOK(p)
        BY <2>1, <2>3, <2>4 DEF RequestOK, HeldOK, RulingOK
    <2> QED BY <2>1, <2>2, <2>5, RequestOnly
<1> QED BY <1>1, <1>2, <1>3

LEMMA Current ==
    ASSUME Inv, NEW r \in Request, req[r] # NoRequest
    PROVE  /\ req[r] \in InFlight /\ RequestOK(req[r])
           /\ req[r].kind \in Draws => req[r] \in Drawing
BY DrawingKind DEF Inv, TypeOK, RequestsOK

\* What holds of a request that draws, at each line.
LEMMA CurrentDrawing ==
    ASSUME Inv, NEW r \in Request, req[r] # NoRequest, req[r].kind \in Draws
    PROVE  /\ req[r] \in Drawing
           /\ \A l \in Line : SnapOK(req[r], l) /\ HeldOK(req[r], l) /\ WantedOK(req[r], l)
           /\ RulingOK(req[r])
BY Current DEF RequestOK

LEMMA InsertKeeps ==
    ASSUME Inv, NEW r \in Request, InsertDrawdown(r)
    PROVE  Inv'
<1> DEFINE q == req[r]
<1>1. q # NoRequest /\ q.kind = "drawdown" /\ q.step = "begun"
    BY DEF InsertDrawdown
<1>2. /\ q \in Drawing /\ RulingOK(q)
      /\ \A l \in Line : SnapOK(q, l)
    BY <1>1, CurrentDrawing DEF Draws
<1> DEFINE p == [q EXCEPT !.step = "inserted"]
<1>3. /\ p \in Drawing /\ p \in InFlight /\ p.kind = "drawdown" /\ p.step = "inserted"
      /\ p.amount = q.amount /\ p.snap = q.snap
    BY <1>1, <1>2 DEF Drawing, InFlight
<1>4. /\ \A l \in Line : /\ drawn[l] \in Nat /\ pending[l] \in Int /\ q.amount[l] \in Nat
                         /\ drawn'[l] = drawn[l] + q.amount[l]
                         /\ pending'[l] = pending[l] + q.amount[l]
      /\ drawn' \in [Line -> Nat] /\ pending' \in [Line -> Int]
      /\ UNCHANGED <<status, line, wanted, covered, change, lost, mixed>>
      /\ req' = [req EXCEPT ![r] = p]
    BY <1>2 DEF InsertDrawdown, Inv, TypeOK, Drawing
<1>5. req'[r] = p /\ \A s \in Request \ {r} : req'[s] = req[s]
    BY <1>4 DEF Inv, TypeOK
<1> HIDE DEF p, q
<1>6. TypeOK'
    BY <1>3, <1>4 DEF Inv, TypeOK
<1>7. Grows /\ KeepsHeld(r)
    <2>1. \A l \in Line : drawn'[l] >= drawn[l] BY <1>4
    <2>2. \A l \in Line : covered'[l] >= covered[l] BY <1>4 DEF Inv, TypeOK
    <2> QED BY <1>4, <2>1, <2>2 DEF Grows, KeepsHeld, Live
<1>8. ASSUME NEW l \in Line PROVE LineOK(l)'
    <2>1. LineOK(l) /\ (Live(l) => line[l].ordered \in Nat)
          /\ (q.amount[l] > 0 => Live(l))
        BY DEF Inv, Live, Row, InsertDrawdown, q
    <2> QED BY NoRowAssumption,  <1>4, <2>1 DEF LineOK, Live, Adds
<1>9. CoverageLosesNothing'
    BY <1>4 DEF Inv, CoverageLosesNothing
<1>10. ASSUME NEW l \in Line, NEW x \in InFlight, x = p
       PROVE  SnapOK(x, l)'
    <2>1. SnapOK(q, l) /\ (q.snap[l] \in Row => q.snap[l].ordered \in Nat)
        BY <1>2 DEF Row
    <2>2. x.snap = q.snap /\ x.amount = q.amount /\ x.kind = "drawdown" /\ q.kind = "drawdown"
        BY <1>1, <1>3, <1>10
    <2> QED BY <1>4, <2>1, <2>2 DEF SnapOK, Adds
<1>11. \A x \in InFlight : req'[r] = x => RequestOK(x)'
    <2> SUFFICES ASSUME NEW x \in InFlight, x = p PROVE RequestOK(x)'
        BY <1>5
    <2>1. x.kind = "drawdown" BY <1>3
    <2>2. \A l \in Line : SnapOK(x, l)' BY <1>10
    <2> QED BY <2>1, <2>2 DEF RequestOK, HeldOK, WantedOK, RulingOK
<1>12. RequestsOK'
    BY <1>5, <1>6, <1>7, <1>11, OthersKept
<1> QED BY <1>6, <1>8, <1>9, <1>12 DEF Inv

LEMMA FinishKeeps ==
    ASSUME Inv, NEW r \in Request, FinishDrawdown(r)
    PROVE  Inv'
<1> DEFINE q == req[r]
<1>1. /\ q # NoRequest /\ q.kind = "drawdown" /\ q.step = "inserted"
      /\ \A l \in Line : q.amount[l] > 0 => Live(l)
      /\ DrawLines(q) /\ End(r)
      /\ UNCHANGED <<status, drawn, wanted, covered, change>>
    BY DEF FinishDrawdown
<1>2. /\ q \in Drawing /\ \A l \in Line : SnapOK(q, l)
    BY <1>1, CurrentDrawing DEF Draws
<1>3. /\ \A l \in Line : /\ drawn[l] \in Nat /\ pending[l] \in Int /\ q.amount[l] \in Nat
                         /\ pending'[l] = pending[l] - q.amount[l]
      /\ pending' \in [Line -> Int]
    BY <1>2 DEF FinishDrawdown, Inv, TypeOK, Drawing
<1>4. \A l \in Line : q.amount[l] > 0 =>
        /\ q.snap[l] \in Row
        /\ q.snap[l].ordered + q.amount[l] <= drawn[l]
        /\ l \notin mixed => Adds(q.snap[l])
    BY <1>1, <1>2 DEF SnapOK
<1> HIDE DEF q
<1>5. /\ line' \in [Line -> Row \cup {NotYet, Removed}]
      /\ lost' \subseteq Line /\ mixed' \subseteq Line
      /\ lost \subseteq lost' /\ mixed \subseteq mixed'
      /\ \A l \in Line : Live(l)' <=> Live(l)
      /\ \A l \in Line : q.amount[l] > 0 =>
            /\ line'[l].ordered = q.snap[l].ordered + q.amount[l]
            /\ l \notin lost' => q.snap[l].ordered = line[l].ordered
            /\ l \notin mixed' /\ Adds(q.snap[l]) => Adds(line'[l])
      /\ \A l \in Line : ~(q.amount[l] > 0) => line'[l] = line[l]
    BY <1>1, <1>2, <1>4, DrawLinesFacts DEF Inv
<1>6. TypeOK'
    BY <1>1, <1>3, <1>5 DEF Inv, TypeOK, End
<1>7. Grows /\ KeepsHeld(r)
    BY <1>1, <1>5 DEF Grows, KeepsHeld, Inv, TypeOK
<1>8. ASSUME NEW l \in Line PROVE LineOK(l)'
    <2>0. CASE ~Live(l)'
        <3>1. ~(q.amount[l] > 0) /\ LineOK(l) BY <1>1, <1>5, <2>0 DEF Inv
        <3>2. pending'[l] = pending[l] /\ drawn'[l] = drawn[l] /\ line'[l] = line[l]
            BY <1>1, <1>3, <1>5, <3>1
        <3> QED BY <2>0, <3>1, <3>2 DEF LineOK
    <2> SUFFICES ASSUME Live(l)' PROVE LineOK(l)'
        BY <2>0
    <2>1. LineOK(l) /\ Live(l) /\ line[l].ordered \in Nat
        BY <1>5 DEF Inv, Live, Row
    <2>4. line'[l] # NotYet BY NoRowAssumption DEF Live
    <2>2. CASE q.amount[l] > 0
        <3>1. q.snap[l].ordered \in Nat BY <1>4, <2>2 DEF Row
        <3>2. line'[l].ordered <= drawn'[l] BY <1>1, <1>4, <1>5, <2>2
        <3>3. l \notin lost' => line'[l].ordered + pending'[l] = drawn'[l]
            <4> SUFFICES ASSUME l \notin lost' PROVE line'[l].ordered + pending'[l] = drawn'[l]
                OBVIOUS
            <4>1. line'[l].ordered = line[l].ordered + q.amount[l] BY <1>5, <2>2
            <4>2. line[l].ordered + pending[l] = drawn[l] BY <1>5, <2>1 DEF LineOK
            <4> QED BY <1>1, <1>3, <2>1, <4>1, <4>2
        <3>4. l \notin mixed' => Adds(line'[l]) BY <1>4, <1>5, <2>2
        <3> QED BY <2>4, <3>2, <3>3, <3>4 DEF LineOK, Adds
    <2>3. CASE ~(q.amount[l] > 0)
        <3>1. pending'[l] = pending[l] BY <1>3, <2>3
        <3> QED BY <1>1, <1>5, <2>1, <2>3, <3>1 DEF LineOK, Adds
    <2> QED BY <2>2, <2>3
<1>9. CoverageLosesNothing'
    BY <1>1 DEF Inv, CoverageLosesNothing
<1> QED BY <1>1, <1>6, <1>7, <1>8, <1>9, Ended

LEMMA ReadKeeps ==
    ASSUME Inv, NEW r \in Request, NEW k \in Line, ReadLine(r, k)
    PROVE  Inv'
<1> DEFINE q == req[r]
<1>1. /\ q # NoRequest /\ q.kind = "po" /\ q.step = "begun"
      /\ q.amount[k] > 0 /\ q.snap[k] = NotYet /\ Live(k)
    BY DEF ReadLine
<1>2. /\ q \in Drawing /\ RulingOK(q)
      /\ \A l \in Line : SnapOK(q, l) /\ HeldOK(q, l) /\ WantedOK(q, l)
    BY <1>1, CurrentDrawing DEF Draws
<1> DEFINE p == [q EXCEPT !.snap = [q.snap EXCEPT ![k] = line[k]]]
<1>3. /\ p \in Drawing /\ p \in InFlight
      /\ p.kind = "po" /\ p.step = "begun" /\ p.held = q.held /\ p.amount = q.amount
      /\ p.snap[k] = line[k] /\ \A l \in Line \ {k} : p.snap[l] = q.snap[l]
    BY <1>1, <1>2 DEF Drawing, InFlight, Live
<1>4. /\ req' = [req EXCEPT ![r] = p]
      /\ UNCHANGED <<status, line, drawn, wanted, covered, change, history>>
    BY DEF ReadLine, Advance
<1> HIDE DEF p, q
<1>5. ASSUME NEW l \in Line
      PROVE  SnapOK(p, l) /\ HeldOK(p, l) /\ WantedOK(p, l)
    <2>1. CASE l = k
        BY <1>1, <1>2, <1>3, <2>1, RowFacts, NoRowAssumption
        DEF SnapOK, HeldOK, WantedOK, Live
    <2>2. CASE l # k
        BY <1>1, <1>2, <1>3, <2>2 DEF SnapOK, HeldOK, WantedOK
    <2> QED BY <2>1, <2>2
<1>6. RequestOK(p)
    BY <1>3, <1>5 DEF RequestOK, RulingOK
<1> QED BY <1>3, <1>4, <1>6, RequestOnly

LEMMA HoldKeeps ==
    ASSUME Inv, NEW r \in Request, NEW k \in Line, HoldLine(r, k)
    PROVE  Inv'
<1> DEFINE q == req[r]
<1>1. /\ q # NoRequest /\ q.kind = "po" /\ q.step = "begun"
      /\ q.snap[k] # NotYet /\ Live(k)
    BY DEF HoldLine
<1>2. /\ q \in Drawing /\ RulingOK(q)
      /\ \A l \in Line : SnapOK(q, l) /\ HeldOK(q, l) /\ WantedOK(q, l)
    BY <1>1, CurrentDrawing DEF Draws
<1> DEFINE p == [q EXCEPT !.held = q.held \cup {k}]
<1>3. /\ p \in Drawing /\ p \in InFlight
      /\ p.kind = "po" /\ p.step = "begun" /\ p.held = q.held \cup {k}
      /\ p.amount = q.amount /\ p.snap = q.snap
    BY <1>1, <1>2 DEF Drawing, InFlight
<1>4. /\ req' = [req EXCEPT ![r] = p]
      /\ UNCHANGED <<status, line, drawn, wanted, covered, change, history>>
    BY DEF HoldLine, Advance
<1> HIDE DEF p, q
<1>5. \A l \in Line : SnapOK(p, l) /\ HeldOK(p, l) /\ WantedOK(p, l)
    BY <1>1, <1>2, <1>3 DEF SnapOK, HeldOK, WantedOK
<1>6. RequestOK(p)
    BY <1>3, <1>5 DEF RequestOK, RulingOK
<1> QED BY <1>3, <1>4, <1>6, RequestOnly

LEMMA TallyKeeps ==
    ASSUME Inv, NEW r \in Request, Tally(r)
    PROVE  Inv'
<1> DEFINE q == req[r]
<1>1. /\ q # NoRequest /\ q.kind = "po" /\ q.step = "begun"
      /\ \A l \in Line : q.amount[l] > 0 => l \in q.held
    BY DEF Tally
<1>2. /\ q \in Drawing /\ RulingOK(q)
      /\ \A l \in Line : SnapOK(q, l) /\ HeldOK(q, l) /\ WantedOK(q, l)
    BY <1>1, CurrentDrawing DEF Draws
<1>3. PICK st \in {"completes", "stays"} :
        Advance(r, [q EXCEPT !.step = st])
    BY DEF Tally
<1> DEFINE p == [q EXCEPT !.step = st]
<1>4. /\ p \in Drawing /\ p \in InFlight
      /\ p.kind = "po" /\ p.step = st /\ p.held = q.held
      /\ p.amount = q.amount /\ p.snap = q.snap
    BY <1>1, <1>2 DEF Drawing, InFlight
<1>5. /\ req' = [req EXCEPT ![r] = p]
      /\ UNCHANGED <<status, line, drawn, wanted, covered, change, history>>
    BY <1>3 DEF Advance
<1> HIDE DEF p, q
<1>6. \A l \in Line : SnapOK(p, l) /\ HeldOK(p, l) /\ WantedOK(p, l)
    BY <1>1, <1>2, <1>4 DEF SnapOK, HeldOK, WantedOK
<1>7. RequestOK(p)
    BY <1>4, <1>6 DEF RequestOK, RulingOK
<1> QED BY <1>4, <1>5, <1>7, RequestOnly

\* What the lines keep to, when drawdown rows and lines are written together.
LEMMA DrawKeepsLines ==
    ASSUME Inv, NEW q \in Drawing, DrawLines(q), pending' = pending,
           drawn' = [l \in Line |-> drawn[l] + q.amount[l]],
           \A l \in Line : q.amount[l] > 0 => Live(l) /\ q.snap[l] \in Row,
           \A l \in Line : SnapOK(q, l)
    PROVE  /\ line' \in [Line -> Row \cup {NotYet, Removed}]
           /\ drawn' \in [Line -> Nat] /\ \A l \in Line : drawn'[l] >= drawn[l]
           /\ lost' \subseteq Line /\ mixed' \subseteq Line /\ mixed \subseteq mixed'
           /\ \A l \in Line : Live(l)' <=> Live(l)
           /\ \A l \in Line : LineOK(l)'
<1>1. /\ line' \in [Line -> Row \cup {NotYet, Removed}]
      /\ lost' \subseteq Line /\ mixed' \subseteq Line
      /\ lost \subseteq lost' /\ mixed \subseteq mixed'
      /\ \A l \in Line : Live(l)' <=> Live(l)
      /\ \A l \in Line : q.amount[l] > 0 =>
            /\ line'[l].ordered = q.snap[l].ordered + q.amount[l]
            /\ l \notin lost' => q.snap[l].ordered = line[l].ordered
            /\ l \notin mixed' /\ Adds(q.snap[l]) => Adds(line'[l])
      /\ \A l \in Line : ~(q.amount[l] > 0) => line'[l] = line[l]
    BY DrawLinesFacts DEF Inv
<1>2. \A l \in Line : /\ drawn[l] \in Nat /\ pending[l] \in Int /\ q.amount[l] \in Nat
                      /\ drawn'[l] = drawn[l] + q.amount[l]
    BY DEF Inv, TypeOK, Drawing
<1>3. drawn' \in [Line -> Nat] /\ \A l \in Line : drawn'[l] >= drawn[l]
    BY <1>2
<1>4. ASSUME NEW l \in Line PROVE LineOK(l)'
    <2>0. CASE ~Live(l)'
        <3>1. ~(q.amount[l] > 0) /\ LineOK(l) BY <1>1, <2>0 DEF Inv
        <3>2. pending'[l] = pending[l] /\ drawn'[l] = drawn[l] /\ line'[l] = line[l]
            BY <1>1, <1>2, <3>1
        <3> QED BY <2>0, <3>1, <3>2 DEF LineOK
    <2> SUFFICES ASSUME Live(l)' PROVE LineOK(l)'
        BY <2>0
    <2>1. LineOK(l) /\ Live(l) /\ line[l].ordered \in Nat
        BY <1>1 DEF Inv, Live, Row
    <2>4. line'[l] # NotYet BY NoRowAssumption DEF Live
    <2>2. CASE q.amount[l] > 0
        <3>1. /\ q.snap[l].ordered \in Nat /\ q.snap[l].ordered <= drawn[l]
              /\ l \notin mixed => Adds(q.snap[l])
            BY <2>2 DEF Row, SnapOK
        <3>2. line'[l].ordered <= drawn'[l] BY <1>1, <1>2, <2>2, <3>1
        <3>3. l \notin lost' => line'[l].ordered + pending'[l] = drawn'[l]
            <4> SUFFICES ASSUME l \notin lost' PROVE line'[l].ordered + pending'[l] = drawn'[l]
                OBVIOUS
            <4>1. line'[l].ordered = line[l].ordered + q.amount[l] BY <1>1, <2>2
            <4>2. line[l].ordered + pending[l] = drawn[l] BY <1>1, <2>1 DEF LineOK
            <4> QED BY <1>2, <2>1, <4>1, <4>2
        <3>4. l \notin mixed' => Adds(line'[l]) BY <1>1, <2>2, <3>1
        <3> QED BY <2>4, <3>2, <3>3, <3>4 DEF LineOK, Adds
    <2>3. CASE ~(q.amount[l] > 0)
        <3>1. drawn'[l] = drawn[l] BY <1>2, <2>3
        <3> QED BY <1>1, <2>1, <2>3, <3>1 DEF LineOK, Adds
    <2> QED BY <2>2, <2>3
<1> QED BY <1>1, <1>3, <1>4

LEMMA CommitPoKeeps ==
    ASSUME Inv, NEW r \in Request, CommitPo(r)
    PROVE  Inv'
<1> DEFINE q == req[r]
<1>1. /\ q # NoRequest /\ q.kind = "po" /\ q.step # "begun"
      /\ DrawLines(q) /\ End(r) /\ pending' = pending
      /\ drawn' = [l \in Line |-> drawn[l] + q.amount[l]]
      /\ status' \in {"COMPLETED", status}
      /\ UNCHANGED <<wanted, covered, change>>
    BY DEF CommitPo
<1>2. /\ q \in Drawing /\ \A l \in Line : SnapOK(q, l) /\ HeldOK(q, l)
    BY <1>1, CurrentDrawing DEF Draws
<1> HIDE DEF q
<1>3. \A l \in Line : q.amount[l] > 0 => Live(l) /\ q.snap[l] \in Row
    BY <1>1, <1>2 DEF HeldOK
<1>4. /\ line' \in [Line -> Row \cup {NotYet, Removed}]
      /\ drawn' \in [Line -> Nat] /\ \A l \in Line : drawn'[l] >= drawn[l]
      /\ lost' \subseteq Line /\ mixed' \subseteq Line /\ mixed \subseteq mixed'
      /\ \A l \in Line : Live(l)' <=> Live(l)
      /\ \A l \in Line : LineOK(l)'
    BY <1>1, <1>2, <1>3, DrawKeepsLines
<1>5. TypeOK'
    BY <1>1, <1>4 DEF Inv, TypeOK, End, Status
<1>6. Grows /\ KeepsHeld(r)
    BY <1>1, <1>4 DEF Grows, KeepsHeld, Inv, TypeOK
<1>7. CoverageLosesNothing'
    BY <1>1 DEF Inv, CoverageLosesNothing
<1> QED BY <1>1, <1>4, <1>5, <1>6, <1>7, Ended

LEMMA CommitCoverageKeeps ==
    ASSUME Inv, NEW r \in Request, CommitCoverage(r)
    PROVE  Inv'
<1> DEFINE q == req[r]
<1>1. /\ q # NoRequest /\ q.kind = "coverage"
      /\ \A l \in Line : q.amount[l] > 0 => Live(l)
      /\ DrawLines(q) /\ End(r)
      /\ drawn' = [l \in Line |-> drawn[l] + q.amount[l]]
      /\ UNCHANGED <<status, change, pending>>
    BY DEF CommitCoverage
<1>2. /\ q \in Drawing /\ \A l \in Line : SnapOK(q, l) /\ WantedOK(q, l)
    BY <1>1, CurrentDrawing DEF Draws
<1>3. \A l \in Line :
        /\ q.amount[l] \in Nat /\ q.wanted[l] \in Nat /\ Wanted[l] \in Nat
        /\ covered[l] \in Nat /\ wanted[l] \in Nat
        /\ covered'[l] = covered[l] + q.amount[l]
        /\ q.amount[l] > 0 => wanted'[l] = q.wanted[l] - q.amount[l]
        /\ ~(q.amount[l] > 0) => wanted'[l] = wanted[l]
    BY <1>2, WantedAssumption DEF CommitCoverage, Left, Inv, TypeOK, Drawing
<1>4. covered' = [l \in Line |-> covered'[l]] /\ wanted' = [l \in Line |-> wanted'[l]]
    BY DEF CommitCoverage
<1> HIDE DEF q
<1>5. \A l \in Line : q.amount[l] > 0 => Live(l) /\ q.snap[l] \in Row
    BY <1>1, <1>2 DEF SnapOK
<1>6. /\ line' \in [Line -> Row \cup {NotYet, Removed}]
      /\ drawn' \in [Line -> Nat] /\ \A l \in Line : drawn'[l] >= drawn[l]
      /\ lost' \subseteq Line /\ mixed' \subseteq Line /\ mixed \subseteq mixed'
      /\ \A l \in Line : Live(l)' <=> Live(l)
      /\ \A l \in Line : LineOK(l)'
    BY <1>1, <1>2, <1>5, DrawKeepsLines
<1>7. ASSUME NEW l \in Line
      PROVE  /\ covered'[l] \in Nat /\ wanted'[l] \in Nat /\ covered'[l] >= covered[l]
             /\ covered'[l] + wanted'[l] >= Wanted[l]
    <2>1. covered[l] + wanted[l] >= Wanted[l]
        BY DEF Inv, CoverageLosesNothing
    <2>2. CASE q.amount[l] > 0
        <3>1. q.amount[l] <= q.wanted[l] /\ covered[l] + q.wanted[l] >= Wanted[l]
            BY <1>1, <1>2, <2>2 DEF WantedOK
        <3> QED BY <1>3, <2>2, <3>1
    <2>3. CASE ~(q.amount[l] > 0)
        BY <1>3, <2>1, <2>3
    <2> QED BY <2>2, <2>3
<1>8. covered' \in [Line -> Nat] /\ wanted' \in [Line -> Nat]
    BY <1>4, <1>7
<1>9. TypeOK'
    BY <1>1, <1>6, <1>8 DEF Inv, TypeOK, End
<1>10. Grows /\ KeepsHeld(r)
    BY <1>1, <1>6, <1>7 DEF Grows, KeepsHeld
<1>11. CoverageLosesNothing'
    BY <1>7 DEF CoverageLosesNothing
<1> QED BY <1>1, <1>6, <1>9, <1>10, <1>11, Ended

-------------------------------------------------------------------------------
(* Editing and negotiating.                                                *)

LEMMA BeginOther ==
    ASSUME Inv, NEW r \in Request, NEW p \in InFlight, Begin(r, p),
           p.kind \notin Draws, RulingOK(p)
    PROVE  Inv'
BY RequestOnly DEF Begin, RequestOK

LEMMA ModifyKeeps ==
    ASSUME Inv, NEW r \in Request, Modify(r)
    PROVE  Inv'
<1>1. ASSUME NEW l \in Line, NEW n \in Corrected, BeginEdit(r, l, n) PROVE Inv'
    <2> DEFINE p == [kind |-> "edit", line |-> l, qty |-> n, snap |-> line[l]]
    <2>1. Live(l) /\ Begin(r, p) BY <1>1 DEF BeginEdit
    <2>2. n \in Nat BY QuantityAssumption
    <2>3. p \in InFlight BY <2>1, <2>2 DEF InFlight, Live
    <2>4. RulingOK(p) BY <2>1, RowFacts DEF RulingOK
    <2>5. p.kind \notin Draws BY DEF Draws
    <2> QED BY <2>1, <2>3, <2>4, <2>5, BeginOther
<1>2. CASE CommitEdit(r)
    <2> DEFINE q == req[r]
    <2>1. /\ q # NoRequest /\ q.kind = "edit" /\ Live(q.line)
          /\ EditLine(q.line, q.snap, q.qty) /\ End(r)
          /\ UNCHANGED <<status, drawn, wanted, covered, change, pending, lost>>
        BY <1>2 DEF CommitEdit
    <2>2. /\ q.line \in Line /\ q.snap \in Row /\ q.qty \in Nat
          /\ q.line \notin mixed => Adds(q.snap)
        BY <2>1, Current, EditKind DEF RequestOK, RulingOK
    <2> HIDE DEF q
    <2>3. /\ line' \in [Line -> Row \cup {NotYet, Removed}]
          /\ mixed' \subseteq Line /\ mixed \subseteq mixed'
          /\ \A l \in Line : Live(l)' <=> Live(l)
        BY <2>1, <2>2, EditLineFacts DEF Inv
    <2>4. \A l \in Line : LineOK(l)'
        BY <2>1, <2>2, EditKeepsLines
    <2>5. TypeOK'
        BY <2>1, <2>3 DEF Inv, TypeOK, End
    <2>6. Grows /\ KeepsHeld(r)
        BY <2>1, <2>3 DEF Grows, KeepsHeld, Inv, TypeOK
    <2>7. CoverageLosesNothing'
        BY <2>1 DEF Inv, CoverageLosesNothing
    <2> QED BY <2>1, <2>4, <2>5, <2>6, <2>7, Ended
<1>3. ASSUME NEW to \in Status, BeginStatus(r, to) PROVE Inv'
    <2> DEFINE p == [kind |-> "status", to |-> to]
    <2>1. Begin(r, p) BY <1>3 DEF BeginStatus
    <2>2. p \in InFlight BY DEF InFlight
    <2>3. p.kind \notin Draws /\ RulingOK(p) BY DEF Draws, RulingOK
    <2> QED BY <2>1, <2>2, <2>3, BeginOther
<1>4. CASE CommitStatus(r)
    <2>1. req[r] \in InFlight BY <1>4, Current DEF CommitStatus
    <2>2. status' \in Status BY <1>4, <2>1, OtherKinds DEF CommitStatus
    <2>3. change' = change /\ change \in [Change -> ChangeRow \cup {NoChange}]
        BY <1>4 DEF CommitStatus, Inv, TypeOK
    <2> QED BY <1>4, <2>2, <2>3, EndedQuietly DEF CommitStatus
<1> QED BY <1>1, <1>2, <1>3, <1>4 DEF Modify

LEMMA ResolvedFacts ==
    ASSUME TypeOK, NEW c \in Change, change[c] # NoChange, NEW s \in {"APPROVED", "REJECTED"}
    PROVE  /\ Resolved(c, s) \in ChangeRow /\ Resolved(c, s).edit = change[c].edit
           /\ Resolved(c, s) # NoChange
<1>1. change[c] \in ChangeRow BY DEF TypeOK
<1>2. Resolved(c, s) \in ChangeRow /\ Resolved(c, s).edit = change[c].edit
    BY <1>1 DEF Resolved, ChangeRow
<1> QED BY <1>2, NoChangeAssumption

LEMMA BeginNegotiating ==
    ASSUME Inv, NEW r \in Request
    PROVE  /\ \A e \in Edits : BeginPropose(r, e) => Inv'
           /\ \A c \in Change : BeginApprove(r, c) \/ BeginReject(r, c) => Inv'
           /\ BeginCancel(r) => Inv'
<1>1. ASSUME NEW e \in Edits, BeginPropose(r, e) PROVE Inv'
    <2> DEFINE p == [kind |-> "propose", edit |-> e]
    <2>1. Begin(r, p) BY <1>1 DEF BeginPropose
    <2>2. p \in InFlight BY EditsAssumption DEF InFlight
    <2>3. p.kind \notin Draws /\ RulingOK(p) BY DEF Draws, RulingOK
    <2> QED BY <2>1, <2>2, <2>3, BeginOther
<1>2. ASSUME NEW c \in Change, BeginApprove(r, c) PROVE Inv'
    <2> DEFINE e == change[c].edit
               sn == IF e.action = "add" THEN NotYet ELSE line[e.line]
               p == [kind |-> "approve", change |-> c, snap |-> sn]
    <2>1. Pending(c) /\ Begin(r, p) BY <1>2 DEF BeginApprove
    <2>2. change[c] # NoChange /\ change[c] \in ChangeRow
        BY <2>1 DEF Pending, Inv, TypeOK
    <2>3. e.action # "add" => e.line \in Line
        BY <2>2 DEF ChangeRow, Edit
    <2>4. sn \in Row \cup {NotYet, Removed}
        BY <2>3 DEF Inv, TypeOK
    <2>5. p \in InFlight BY <2>4 DEF InFlight
    <2>6. e.action # "add" /\ sn \in Row /\ e.line \notin mixed => Adds(sn)
        BY <2>3, RowFacts DEF Live
    <2>7. p.kind = "approve" /\ p.change = c /\ p.snap = sn OBVIOUS
    <2> HIDE DEF p, sn
    <2>8. p.kind \notin Draws /\ RulingOK(p)
        BY <2>2, <2>6, <2>7 DEF Draws, RulingOK
    <2> QED BY <2>1, <2>5, <2>8, BeginOther
<1>3. ASSUME NEW c \in Change, BeginReject(r, c) PROVE Inv'
    <2> DEFINE p == [kind |-> "reject", change |-> c]
    <2>1. Pending(c) /\ Begin(r, p) BY <1>3 DEF BeginReject
    <2>2. p \in InFlight BY DEF InFlight
    <2>3. p.kind \notin Draws /\ RulingOK(p) BY <2>1 DEF Draws, RulingOK, Pending
    <2> QED BY <2>1, <2>2, <2>3, BeginOther
<1>4. ASSUME BeginCancel(r) PROVE Inv'
    <2> DEFINE p == [kind |-> "cancel"]
    <2>1. Begin(r, p) BY <1>4 DEF BeginCancel
    <2>2. p \in InFlight BY DEF InFlight
    <2>3. p.kind \notin Draws /\ RulingOK(p) BY DEF Draws, RulingOK
    <2> QED BY <2>1, <2>2, <2>3, BeginOther
<1> QED BY <1>1, <1>2, <1>3, <1>4

LEMMA ApproveKeeps ==
    ASSUME Inv, NEW r \in Request, CommitApprove(r)
    PROVE  Inv'
<1> DEFINE q == req[r]
           c == q.change
           e == change[c].edit
<1>1. /\ q # NoRequest /\ q.kind = "approve" /\ End(r) /\ Apply(r, e, q.snap)
      /\ change' = [change EXCEPT ![c] = Resolved(c, "APPROVED")]
      /\ UNCHANGED <<status, drawn, wanted, covered, pending, lost>>
    BY DEF CommitApprove
<1>2. /\ c \in Change /\ q.snap \in Row \cup {NotYet, Removed}
      /\ change[c] # NoChange
      /\ e.action # "add" /\ q.snap \in Row /\ e.line \notin mixed => Adds(q.snap)
    BY <1>1, Current, ApproveKind DEF RequestOK, RulingOK
<1>3. /\ change[c] \in ChangeRow /\ e \in Edit
      /\ e.action \in {"update", "remove"} => e.line \in Line
      /\ e.qty \in Nat
    BY <1>2 DEF Inv, TypeOK, ChangeRow, Edit
<1>4. /\ change' \in [Change -> ChangeRow \cup {NoChange}]
      /\ \A d \in Change : change[d] # NoChange =>
            change'[d] # NoChange /\ change'[d].edit = change[d].edit
    BY <1>1, <1>2, ResolvedFacts DEF Inv, TypeOK
<1> HIDE DEF e, c, q
<1>5. /\ line' \in [Line -> Row \cup {NotYet, Removed}]
      /\ mixed' \subseteq Line /\ mixed \subseteq mixed'
      /\ KeepsHeld(r)
      /\ \A l \in Line : LineOK(l)'
    <2>1. CASE /\ e.action = "update" /\ q.snap \in Row /\ Live(e.line)
               /\ EditLine(e.line, q.snap, e.qty)
        <3>1. e.line \in Line /\ (e.line \notin mixed => Adds(q.snap))
            BY <1>2, <1>3, <2>1
        <3>2. /\ line' \in [Line -> Row \cup {NotYet, Removed}]
              /\ mixed' \subseteq Line /\ mixed \subseteq mixed'
              /\ \A l \in Line : Live(l)' <=> Live(l)
            BY <1>3, <2>1, <3>1, EditLineFacts DEF Inv
        <3>3. \A l \in Line : LineOK(l)'
            BY <1>1, <1>3, <2>1, <3>1, EditKeepsLines
        <3> QED BY <3>2, <3>3 DEF KeepsHeld
    <2>2. CASE UNCHANGED <<line, mixed>>
        BY <1>1, <2>2 DEF Inv, TypeOK, LineOK, KeepsHeld, Live, Adds
    <2>3. CASE /\ e.action = "remove" /\ Free(r, e.line)
               /\ line' = [line EXCEPT ![e.line] = Removed] /\ UNCHANGED mixed
        <3>1. /\ e.line \in Line /\ line'[e.line] = Removed
              /\ \A l \in Line \ {e.line} : line'[l] = line[l]
              /\ line' \in [Line -> Row \cup {NotYet, Removed}]
            BY <1>3, <2>3 DEF Inv, TypeOK
        <3>2. KeepsHeld(r)
            BY <2>3, <3>1 DEF KeepsHeld, Live
        <3>3. ASSUME NEW l \in Line PROVE LineOK(l)'
            <4>1. CASE l = e.line BY <3>1, <4>1, NoRowAssumption DEF LineOK, Live
            <4>2. CASE l # e.line
                BY <1>1, <2>3, <3>1, <4>2 DEF Inv, LineOK, Live, Adds
            <4> QED BY <4>1, <4>2
        <3> QED BY <2>3, <3>1, <3>2, <3>3 DEF Inv, TypeOK
    <2>4. CASE /\ \E l \in Line : line[l] = NotYet /\ line' = [line EXCEPT ![l] = NewRow(e.qty)]
               /\ UNCHANGED mixed
        <3>1. PICK k \in Line : line[k] = NotYet /\ line' = [line EXCEPT ![k] = NewRow(e.qty)]
            BY <2>4
        <3>2. NewRow(e.qty) \in Row /\ NewRow(e.qty).ordered = 0 /\ Adds(NewRow(e.qty))
            <4>1. e.qty \in Nat BY <1>3
            <4> QED BY <4>1 DEF NewRow, Row, Adds
        <3>3. /\ line'[k] = NewRow(e.qty) /\ \A l \in Line \ {k} : line'[l] = line[l]
              /\ line' \in [Line -> Row \cup {NotYet, Removed}]
            BY <3>1, <3>2 DEF Inv, TypeOK
        <3>4. KeepsHeld(r) BY <3>2, <3>3 DEF KeepsHeld, Live
        <3>5. ASSUME NEW l \in Line PROVE LineOK(l)'
            <4>1. CASE l = k
                \* Nothing was drawn from a line that was not there.
                BY <1>1, <2>4, <3>1, <3>2, <3>3, <4>1, NoRowAssumption DEF LineOK, Live, Inv
            <4>2. CASE l # k
                BY <1>1, <2>4, <3>3, <4>2 DEF Inv, LineOK, Live, Adds
            <4> QED BY <4>1, <4>2
        <3> QED BY <2>4, <3>3, <3>4, <3>5 DEF Inv, TypeOK
    <2> QED BY <1>1, <2>1, <2>2, <2>3, <2>4 DEF Apply
<1>6. TypeOK'
    BY <1>1, <1>4, <1>5 DEF Inv, TypeOK, End
<1>7. Grows
    BY <1>1, <1>4, <1>5 DEF Grows, Inv, TypeOK
<1>8. CoverageLosesNothing'
    BY <1>1 DEF Inv, CoverageLosesNothing
<1> QED BY <1>1, <1>5, <1>6, <1>7, <1>8, Ended

LEMMA NegotiateKeeps ==
    ASSUME Inv, NEW r \in Request, Negotiate(r)
    PROVE  Inv'
<1>1. ASSUME NEW c \in Change, CommitPropose(r, c) PROVE Inv'
    <2> DEFINE row == [status |-> "PENDING", edit |-> req[r].edit]
    <2>1. /\ req[r] # NoRequest /\ req[r].kind = "propose" /\ change[c] = NoChange
          /\ change' = [change EXCEPT ![c] = row] /\ End(r)
          /\ UNCHANGED <<status, line, drawn, wanted, covered, history>>
        BY <1>1 DEF CommitPropose
    <2>2. row \in ChangeRow BY <2>1, Current, OtherKinds DEF ChangeRow
    <2> HIDE DEF row
    <2>3. change' \in [Change -> ChangeRow \cup {NoChange}]
        BY <2>1, <2>2 DEF Inv, TypeOK
    <2>4. \A d \in Change : change[d] # NoChange => change'[d] = change[d]
        BY <2>1 DEF Inv, TypeOK
    <2>5. status' \in Status BY <2>1 DEF Inv, TypeOK
    <2> QED BY <2>1, <2>3, <2>4, <2>5, EndedQuietly
<1>2. CASE CommitReject(r)
    <2> DEFINE c == req[r].change
    <2>1. /\ req[r] # NoRequest /\ req[r].kind = "reject" /\ End(r)
          /\ change' = [change EXCEPT ![c] = Resolved(c, "REJECTED")]
          /\ UNCHANGED <<status, line, drawn, wanted, covered, history>>
        BY <1>2 DEF CommitReject
    <2>2. c \in Change /\ change[c] # NoChange
        BY <2>1, Current, OtherKinds DEF RequestOK, RulingOK
    <2> HIDE DEF c
    <2>3. /\ change' \in [Change -> ChangeRow \cup {NoChange}]
          /\ \A d \in Change : change[d] # NoChange =>
                change'[d] # NoChange /\ change'[d].edit = change[d].edit
        BY <2>1, <2>2, ResolvedFacts DEF Inv, TypeOK
    <2>4. status' \in Status BY <2>1 DEF Inv, TypeOK
    <2> QED BY <2>1, <2>3, <2>4, EndedQuietly
<1>3. CASE CancelBulkOrder(r)
    <2> DEFINE p == [kind |-> "cancelled"]
    <2>1. /\ req' = [req EXCEPT ![r] = p] /\ status' = "CANCELLED"
          /\ UNCHANGED <<line, drawn, wanted, covered, change, history>>
        BY <1>3 DEF CancelBulkOrder
    <2>2. p \in InFlight BY DEF InFlight
    <2>3. p.kind = "cancelled" OBVIOUS
    <2> HIDE DEF p
    <2>4. TypeOK' BY <2>1, <2>2 DEF Inv, TypeOK, Status, history
    <2>5. Grows /\ KeepsHeld(r)
        BY <2>1 DEF Inv, TypeOK, Grows, KeepsHeld, Live, history
    <2>6. (\A l \in Line : LineOK(l)') /\ CoverageLosesNothing'
        BY <2>1 DEF Inv, LineOK, Live, Adds, CoverageLosesNothing, history
    <2>7. req'[r] = p /\ \A s \in Request \ {r} : req'[s] = req[s]
        BY <2>1 DEF Inv, TypeOK
    <2>8. \A x \in InFlight : req'[r] = x => RequestOK(x)'
        BY <2>3, <2>7 DEF RequestOK, RulingOK, Draws
    <2>9. RequestsOK' BY <2>4, <2>5, <2>7, <2>8, OthersKept
    <2> QED BY <2>4, <2>6, <2>9 DEF Inv
<1>4. CASE RejectPending(r)
    <2>1. /\ End(r) /\ UNCHANGED <<status, line, drawn, wanted, covered, history>>
          /\ change' = [c \in Change |-> IF Pending(c) THEN Resolved(c, "REJECTED")
                                                       ELSE change[c]]
        BY <1>4 DEF RejectPending
    <2>2. ASSUME NEW c \in Change
          PROVE  /\ change'[c] \in ChangeRow \cup {NoChange}
                 /\ change[c] # NoChange =>
                        change'[c] # NoChange /\ change'[c].edit = change[c].edit
        <3>1. CASE Pending(c)
            BY <2>1, <3>1, ResolvedFacts DEF Pending, Inv
        <3>2. CASE ~Pending(c)
            BY <2>1, <3>2 DEF Inv, TypeOK
        <3> QED BY <3>1, <3>2
    <2>3. change' \in [Change -> ChangeRow \cup {NoChange}]
        BY <2>1, <2>2
    <2>4. status' \in Status BY <2>1 DEF Inv, TypeOK
    <2> QED BY <2>1, <2>2, <2>3, <2>4, EndedQuietly
<1> QED BY <1>1, <1>2, <1>3, <1>4, BeginNegotiating, ApproveKeeps DEF Negotiate

\* A request that dies half way through a drawdown leaves the line marked.
LEMMA FailKeeps ==
    ASSUME Inv, NEW r \in Request, Fail(r)
    PROVE  Inv'
<1>1. /\ End(r) /\ lost \subseteq lost' /\ lost' \subseteq Line
      /\ UNCHANGED <<status, line, drawn, wanted, covered, change, pending, mixed>>
    BY DEF Fail, Inv, TypeOK
<1>2. TypeOK' BY <1>1 DEF Inv, TypeOK, End
<1>3. Grows /\ KeepsHeld(r)
    BY <1>1 DEF Inv, TypeOK, Grows, KeepsHeld, Live
<1>4. (\A l \in Line : LineOK(l)') /\ CoverageLosesNothing'
    BY <1>1 DEF Inv, LineOK, Live, Adds, CoverageLosesNothing
<1> QED BY <1>1, <1>2, <1>3, <1>4, Ended

-------------------------------------------------------------------------------
(* The theorems.                                                           *)

LEMMA InitInv == Init => Inv
<1> SUFFICES ASSUME Init PROVE Inv
    OBVIOUS
<1>1. ASSUME NEW l \in Line
      PROVE  /\ line[l] \in Row \cup {NotYet}
             /\ line[l] \in Row => line[l].ordered = 0 /\ Adds(line[l])
    <2>1. AtFirst[l] \in Nat BY AtFirstAssumption
    <2>2. CASE AtFirst[l] = 0
        BY <2>2, NoRowAssumption DEF Init
    <2>3. CASE AtFirst[l] # 0
        <3>1. line[l] = NewRow(AtFirst[l]) BY <2>3 DEF Init
        <3> QED BY <2>1, <3>1 DEF NewRow, Row, Adds
    <2> QED BY <2>2, <2>3
<1>2. line = [l \in Line |-> line[l]]
    BY DEF Init
<1>3. TypeOK
    <2>1. line \in [Line -> Row \cup {NotYet, Removed}]
        BY <1>1, <1>2
    <2>2. wanted \in [Line -> Nat]
        BY WantedAssumption, Zenon DEF Init
    <2>3. /\ drawn \in [Line -> Nat] /\ covered \in [Line -> Nat]
          /\ pending \in [Line -> Int]
        BY DEF Init
    <2>4. change \in [Change -> ChangeRow \cup {NoChange}]
        BY DEF Init
    <2>5. req \in [Request -> InFlight \cup {NoRequest}]
        BY DEF Init
    <2>6. status \in Status /\ lost \subseteq Line /\ mixed \subseteq Line
        BY DEF Init, Status
    <2> QED BY <2>1, <2>2, <2>3, <2>4, <2>5, <2>6 DEF TypeOK
<1>4. ASSUME NEW l \in Line PROVE LineOK(l)
    <2>1. drawn[l] = 0 /\ pending[l] = 0 BY DEF Init
    <2> QED BY <1>1, <2>1 DEF LineOK, Live
<1>5. ASSUME NEW l \in Line PROVE covered[l] + wanted[l] >= Wanted[l]
    <2>1. covered[l] = 0 BY DEF Init
    <2>2. wanted[l] = Wanted[l] BY Zenon DEF Init
    <2>3. Wanted[l] \in Nat BY WantedAssumption
    <2> QED BY <2>1, <2>2, <2>3
<1>6. RequestsOK
    BY NoRequestAssumption DEF Init, RequestsOK
<1> QED BY <1>3, <1>4, <1>5, <1>6 DEF Inv, CoverageLosesNothing

LEMMA NextInv == Inv /\ [Next]_vars => Inv'
<1> SUFFICES ASSUME Inv, [Next]_vars PROVE Inv'
    OBVIOUS
<1>1. CASE UNCHANGED vars
    BY <1>1 DEF vars, Inv, TypeOK, LineOK, Live, Adds, CoverageLosesNothing, RequestsOK,
                RequestOK, SnapOK, HeldOK, WantedOK, RulingOK
<1>2. ASSUME NEW r \in Request, Draw(r) \/ Modify(r) \/ Negotiate(r) \/ Fail(r)
      PROVE  Inv'
    BY <1>2, BeginDrawing, InsertKeeps, FinishKeeps, ReadKeeps, HoldKeeps, TallyKeeps,
       CommitPoKeeps, CommitCoverageKeeps, ModifyKeeps, NegotiateKeeps, FailKeeps DEF Draw
<1> QED BY <1>1, <1>2 DEF Next

THEOREM Invariance == Spec => []Inv
BY InitInv, NextInv, PTL DEF Spec

\* Every variable keeps its type, however many requests are in flight: quantities
\* drawn stay natural numbers, what remains may not.
THEOREM TypeCorrect == Spec => []TypeOK
<1>1. Inv => TypeOK BY DEF Inv
<1> QED BY <1>1, Invariance, PTL

\* Whatever drawdowns, orders, coverages, edits and deaths overlap, drawdown rows
\* cover what a line says was ordered, and are it where none overlapped or died.
THEOREM OrderedAccounted == Spec => []OrderedIsDrawn
<1>1. Inv => OrderedIsDrawn BY DEF Inv, LineOK, OrderedIsDrawn
<1> QED BY <1>1, Invariance, PTL

\* Drawdowns that overlap or die never part the columns of a line: only an edit
\* that overlaps one does.
THEOREM ColumnsAgree == Spec => []RowAddsUp
<1>1. Inv => RowAddsUp BY DEF Inv, LineOK, RowAddsUp, Adds
<1> QED BY <1>1, Invariance, PTL

\* What an RFQ asked for is drawn or still asked for, under any overlap of
\* coverages: the shrinking of its lines loses nothing.
THEOREM NothingLost == Spec => []CoverageLosesNothing
<1>1. Inv => CoverageLosesNothing BY DEF Inv
<1> QED BY <1>1, Invariance, PTL

===============================================================================
