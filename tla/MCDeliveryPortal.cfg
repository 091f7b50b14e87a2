\* Two pages of one link and two requests at a time, so that every two handlers of the one code row
\* overlap, and a submission given up on overlaps the next one. The limits are small enough to be reached: two active
\* codes of three, two misses, five calls with the link and four with a session (the code's are 3, 3,
\* 10 and 10). One file to upload. Two faults.
CONSTANTS
    p1 = p1
    p2 = p2
    r1 = r1
    r2 = r2
    d1 = d1
    Page = {p1, p2}
    Req = {r1, r2}
    File = {d1}
    MaxActive = 2
    MaxAttempts = 2
    LinkLimit = 5
    CallLimit = 4
    MaxCodes = 3
    MaxFaults = 2
SYMMETRY Tabs
SPECIFICATION PortalSpec
INVARIANTS PortalTypeOK CodeOpensOnce NewestCodesWork SubmittedHasReport
\* MaxCodes and the limits end every page.
CHECK_DEADLOCK FALSE
