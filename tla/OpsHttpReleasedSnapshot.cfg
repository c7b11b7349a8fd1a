\* One HTTP caller: create a snapshot, release it, read at it.  Ordinary
\* failures are 500s; the server rejects the released snapshot with 404.
CONSTANTS
    Protocol = "http"
    CallOps <- MCSnapOps
    Callers = {c1}
    Keys <- MCKeys1
    Vals <- MCVals
    Limits <- MCLimits
    MaxSnaps <- MCMaxSnaps
    MaxCalls <- MCMaxCalls3
    ErroredReadFound = {TRUE}
    HttpFailStatus = {500}
    SnapRejectStatus = {404}
SPECIFICATION Spec
INVARIANT ResultsMatchServer
CHECK_DEADLOCK FALSE
