SPECIFICATION Spec
CONSTANTS
    p1 = p1 p2 = p2 p3 = p3 s1 = s1 s2 = s2 l1 = l1
    Requests = {p1, p2, p3}
    Sessions = {s1, s2}
    Links = {l1}
    Account = Account
    Advisory = Advisory
    None = None
    MaxChanges = 2
    MaxRotations = 1
CHECK_DEADLOCK FALSE
SYMMETRY Symmetry
INVARIANTS AllSignedOut
