\* Two requests at a time, so that every two handlers overlap. Two lines: one there from the start, one
\* that a change request can add, each with one line of the RFQ that asks for the same material at most.
\* Quantities up to two, so that a line is drawn in parts; an edit of a line by hand sets Corrected. One
\* change request, with the three kinds of entry of Edits. MaxDrawn bounds what is drawn in all, per line.
CONSTANTS
    l1 = l1
    l2 = l2
    Line = {l1, l2}
    NotYet = NotYet
    Removed = Removed
    Change = {c1}
    NoChange = NoChange
    Request = {r1, r2}
    NoRequest = NoRequest
    Quantity = {1, 2}
    Corrected = {1}
    Edits <- MCEdits
    AtFirst <- MCAtFirst
    Wanted <- MCWanted
    MaxDrawn <- MCMaxDrawn
SPECIFICATION Spec
SYMMETRY Symmetry
INVARIANTS
    TypeOK
    OrderedIsDrawn
    RowAddsUp
    CoverageLosesNothing
\* MaxDrawn and the terminal statuses end the drawing.
CHECK_DEADLOCK FALSE
