\* Two tabs; three requests allow a leader with a queued request beside a
\* refresh of the other tab; one end of the session or new sign-in.
CONSTANTS
    left = left
    right = right
    l1 = l1
    l2 = l2
    r1 = r1
    Tab = {left, right}
    Request = {l1, l2, r1}
    TabOf <- MCTabOf
    MaxChanges = 1
SPECIFICATION FairSpec
INVARIANTS TypeOK OneRefreshPerTab ExpiryIsInvisible ClosedStaysClosed
PROPERTY SettlesUnlessLate
CHECK_DEADLOCK FALSE
