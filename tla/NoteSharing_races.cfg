SPECIFICATION FairSpec
CONSTANTS
    u1 = u1 u2 = u2 p1 = p1 p2 = p2 p3 = p3
    Users = {u1, u2}
    Notes = {1, 2}
    OwnerOf <- FirstOwnsAll
    Calls <- FewCalls
    Requests = {p1, p2}
    Cleanup = Cleanup
    None = None
    Revisions = 2
CHECK_DEADLOCK FALSE
INVARIANTS IInv SharesAreKnown AllGathered
PROPERTIES WritesAreAllowed Answered
