\* Two quotes and a line of two, so that it can be split, granted twice and revised; two handlers,
\* so that awards overlap each other, decisions and revisions; a second request whose route a
\* decision may carry.
CONSTANTS
    f1 = f1
    f2 = f2
    Rfq = {f1, f2}
    Quote = {q1, q2}
    RfqOf <- MCRfqOf
    Request = {r1, r2}
    NoRequest = NoRequest
    Quantity = {0, 2}
    Requested = 2
    MaxRevisions = 1
SPECIFICATION Spec
CONSTRAINTS
    SecondAtRest
    FewRows
SYMMETRY Symmetry
INVARIANTS
    TypeOK
    ApprovedWithinOffer
    AwardedOnce
PROPERTIES
    DecisionIsKept
