\* A listener that misses the completion of its job.
CONSTANTS
    Jobs = {j1}
    Clients = {c1, c2}
    Writers = {c1}
    Results = {r1}
    Nil = Nil
    MaxFaults = 0
    MaxUnread = 2
SPECIFICATION RolesSpec

INVARIANTS
    FinishedJobWakesListener
