\* Two vendors, so that one can be dropped and one invited; two links, so that a request sent twice
\* gives a vendor two; two quotes and two requests, so that submissions overlap each other and edits.
CONSTANTS
    Vendor = {v1, v2}
    Quote = {q1, q2}
    NoQuote = NoQuote
    Token = {t1, t2}
    NoToken = NoToken
    Request = {r1, r2}
    NoRequest = NoRequest
    MaxEdits = 1
SPECIFICATION Spec
SYMMETRY Symmetry
INVARIANTS
    TypeOK
    GuestLinkOnce
    RowsMatchRequest
    QuotesAreInvited
