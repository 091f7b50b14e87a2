\* Two lines, so that "every line" and "some line" differ; two reports and two requests, so that two
\* reviews, two receipts or one of each overlap.
CONSTANTS
    l1 = l1
    l2 = l2
    Line = {l1, l2}
    Ordered <- MCOrdered
    Catalogued = {l1}
    OwnPlace = {}
    Change <- MCChange
    Report = {d1, d2}
    NoReport = NoReport
    Content <- MCContent
    Request = {r1, r2}
    NoRequest = NoRequest
    MaxStock = 1
SPECIFICATION Spec
CONSTRAINTS LocationLost AloneWhenChanged
SYMMETRY Symmetry
INVARIANTS
    TypeOK
    StockFollows
    StatusTellsQuantities
    AppliedAsDecided
\* A complete or cancelled order takes no new report, and MaxStock ends the manual receipts.
CHECK_DEADLOCK FALSE
