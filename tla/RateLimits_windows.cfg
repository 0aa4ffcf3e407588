SPECIFICATION Spec
CONSTANTS
    api = api upload = upload p1 = p1 p2 = p2 p3 = p3
    Buckets = {api, upload}
    Maximum <- SmallMaximum
    Window <- SmallWindow
    Plans <- UploadOrOther
    Requests = {p1, p2, p3}
    MaxSkew = 1
    None = None
    MaxClock = 4
SYMMETRY Symmetry
INVARIANTS IInv NeverOver
PROPERTIES RejectedWhenFull FailsOnlyBetweenWindows
