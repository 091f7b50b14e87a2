\* The instance of MCDeliveryPortal.cfg without faults: the upload fails all the same.
CONSTANTS
    p1 = p1
    p2 = p2
    r1 = r1
    r2 = r2
    d1 = d1
    Page = {p1, p2}
    Req = {r1, r2}
    File = {d1}
    MaxActive = 2
    MaxAttempts = 2
    LinkLimit = 5
    CallLimit = 4
    MaxCodes = 3
    MaxFaults = 0

SPECIFICATION PortalSpec
INVARIANT UploadsAreAuthorised
CHECK_DEADLOCK FALSE
