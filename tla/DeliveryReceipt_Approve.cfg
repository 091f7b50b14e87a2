\* Two reviews of one report, each re-reading its status inside its own transaction.
CONSTANTS
    l1 = l1
    l2 = l2
    Line = {l1, l2}
    Ordered <- MCOrdered
    Catalogued = {l1}
    OwnPlace = {}
    Change = {}
    Report = {d1, d2}
    NoReport = NoReport
    Content <- MCContent
    Request = {r1, r2}
    NoRequest = NoRequest
    MaxStock = 1
SPECIFICATION Spec
CONSTRAINTS LocationLost AloneWhenChanged
SYMMETRY Symmetry
INVARIANT ApprovedOnce
CHECK_DEADLOCK FALSE
