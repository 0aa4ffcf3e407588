SPECIFICATION Spec
CONSTANTS
    k1 = k1 k2 = k2 n1 = n1 n2 = n2 u1 = u1 h1 = h1 h2 = h2
    Keys = {k1, k2}
    Notes = {n1, n2}
    Users = {u1}
    Handlers = {h1, h2}
    Purger = purger
    NoteOf <- TwoNotes
    OwnerOf <- OneOwner
    Backend = "local"
    Faults = {"write", "storage", "commit", "doubt", "refresh", "crash"}
    MaxFaults = 2
    None = None
    InDoubt = InDoubt
INVARIANTS BytesSafe NeverConflicts TrackedInv
PROPERTIES KeepsContract NoLeak
