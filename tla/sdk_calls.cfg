CONSTANTS
    c1 = c1
    c2 = c2
    Calls = {c1, c2}
    Jobs <- MCJobs
    MaxRetries = 1
    Refusals = {409, 422}
    Overloads = {503}
    None = None
SPECIFICATION Spec
INVARIANTS
    TypeOK
    VerdictsAreTrue
    RefusalsAreFinal
    StaleSetsWereInDoubt
PROPERTIES
    AbortStopsTraffic
    RepeatsWereAskedFor
    RequestsEnd
    AbortsEnd
    ReturnsOnce
