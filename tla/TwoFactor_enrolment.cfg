\* Three requests, two sets of two codes, two secrets shown at a time.
SPECIFICATION Spec
CONSTANTS
    p1 = p1 p2 = p2 p3 = p3 n1 = n1 n2 = n2
    Requests = {p1, p2, p3}
    Numbers = {n1, n2}
    None = None
    MaxSecrets = 2
    MaxSets = 2
SYMMETRY Symmetry
INVARIANTS CodesMatch SecretIsProven SingleUse
