SPECIFICATION WorkspaceSpec
CONSTANTS
    all = all some = some
    Notes = {1, 2}
    Queries = {all, some}
    Found <- Matches
    PageSize = 1
    MaxRev = 1
    MaxFailures = 1
    Nothing = Nothing
INVARIANTS ShownBelongs DeletedIsGone UndoIsOffered ListSettles
PROPERTIES DraftIsKept
