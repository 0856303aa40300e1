\* Two writers and a listener on one job, at most one failing command.
CONSTANTS
    Jobs = {j1}
    Clients = {c1, c2, c3}
    Writers = {c1, c2}
    Results = {r1}
    Nil = Nil
    MaxFaults = 1
    MaxUnread = 2
SPECIFICATION RolesSpec
SYMMETRY WriterSymmetry
INVARIANTS
    
    ListenerUpToDate
    CompletedAtRestHasAnswer
    NoLeakedSubscription
    OnlyDeletionEndsUnfinishedJob
