SPECIFICATION Spec
CONSTANTS
    r1 = r1
    r2 = r2
    w1 = w1
    w2 = w2
    Requests = {r1, r2}
    Workers = {w1, w2}
    NoRequest = NoRequest
    Price = 1
    MaxAttempts = 2
    MaxTries = 2
    Budgets <- MCBudgets
    FirstBudget <- Daily
    MaxConfigurations = 1
    Days = 2
    MaxFaults = 1
CHECK_DEADLOCK FALSE
SYMMETRY Symmetric
INVARIANTS BillsWithinBudget BooksBalance JobTellsRequest
PROPERTY KeepsPromise
