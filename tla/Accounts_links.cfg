\* Two requests at a time, two accounts, Google and one other provider.
SPECIFICATION Spec
CONSTANTS
    p1 = p1 p2 = p2 a3 = a3 a1 = a1 a2 = a2 google = google other = other
    Requests = {p1, p2}
    Addresses = {a1, a2, a3}
    Subjects = {google, other}
    Trusted = {google}
    None = None
    MaxUsers = 2
    MaxLinks = 3
SYMMETRY Symmetry
INVARIANTS OneLocal VerifiedIsProven NoTwins
CHECK_DEADLOCK FALSE
