\* Two requests for material and two HTTP requests at a time, so that both approvals of one request
\* and approvals of different ones overlap; three lines, so that one can be replaced; two documents,
\* for a request converted twice. It ends when every request has ended and all receipts have come.
CONSTANTS
    l1 = l1
    l2 = l2
    l3 = l3
    p1 = p1
    Mr = {m1, m2}
    NoMr = NoMr
    Line = {l1, l2, l3}
    NoLine = NoLine
    Place = {p1}
    NoPlace = NoPlace
    PlaceOf <- MCPlaceOf
    Asked <- MCAsked
    Doc = {d1, d2}
    NoDoc = NoDoc
    Request = {r1, r2}
    NoRequest = NoRequest
    MaxReceived = 2
SPECIFICATION Spec
SYMMETRY Symmetry
INVARIANTS
    TypeOK
    BalanceIsLedger
    OnHandCoversIssues
    IssuedAsAsked
    OneDocument
CHECK_DEADLOCK FALSE
