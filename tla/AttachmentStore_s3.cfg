SPECIFICATION FairSpec
CONSTANTS
    k1 = k1 k2 = k2 n1 = n1 n2 = n2 u1 = u1 h1 = h1 h2 = h2
    Keys = {k1}
    Notes = {n1}
    Users = {u1}
    Handlers = {h1, h2}
    Purger = purger
    NoteOf <- OneNote
    OwnerOf <- OneOwner
    Backend = "s3"
    Faults = {"write", "storage", "commit", "doubt", "refresh", "connection", "crash"}
    MaxFaults = 2
    None = None
    InDoubt = InDoubt
PROPERTIES LockIsEnough QuarantineDrains AttachmentReturns
