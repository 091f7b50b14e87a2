\* One order and two overlapping requests: staleness takes two. A second order lends its route to
\* the change requests and is left alone otherwise (SecondAtRest). The cap of OFFICER equals the
\* smaller total, so the boundary of the threshold test is reached.
CONSTANTS
    p1 = p1
    p2 = p2
    PO = {p1, p2}
    Request = {r1, r2}
    NoRequest = NoRequest
    Change = {c1}
    NoChange = NoChange
    Total = {1, 2}
    Role = {"ADMIN", "OFFICER", "FOREMAN"}
    SuperAdmin = "ADMIN"
    Threshold <- MCThreshold
SPECIFICATION Spec
CONSTRAINT SecondAtRest
SYMMETRY Symmetry
INVARIANTS
    TypeOK
    ReleasedWithinAuthority
    NoReleaseWithoutDecision
    RevisionCountsChanges
PROPERTIES
    ImplementsContract
\* An order at rest in a terminal status takes no further request.
CHECK_DEADLOCK FALSE
