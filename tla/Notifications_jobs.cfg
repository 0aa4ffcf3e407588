SPECIFICATION FairSpec
CONSTANTS
    Notes = {n1}
    Owner = owner
    Instants = {2}
    Leads = {1}
    Horizon = 2
    Week = 1
    Runs = {r1, r2}
    MaxClock = 1
    MaxFaults = 1
    None = None
INVARIANTS IInv NoFreeDuplicate RecordedWasSent
PROPERTIES Delivered
