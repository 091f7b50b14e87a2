\* One mail and two webhooks in flight: an event overlaps another or its own
\* repetition. Two attempts make one retry; two faults hit one event twice.
CONSTANTS
    m1 = m1
    h1 = h1
    h2 = h2
    Mail = {m1}
    Event <- MCEvent
    Hook = {h1, h2}
    NoRow = NoRow
    NoHook = NoHook
    MaxAttempts = 2
    MaxFaults = 2
SPECIFICATION FairSpec
INVARIANTS TypeOK OpensAreCounted StatusIsHighest
PROPERTIES EventIsLogged MailIsLogged
CHECK_DEADLOCK FALSE
