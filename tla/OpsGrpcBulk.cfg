CONSTANTS
    Protocol = "grpc"
    CallOps <- MCBulkOps
    Callers = {c1, c2}
    Keys <- MCKeys2
    Vals <- MCVals1
    Limits <- MCLimits
    MaxSnaps <- MCMaxSnaps
    MaxCalls <- MCMaxCalls
    ErroredReadFound = {TRUE}
    HttpFailStatus = {500}
    SnapRejectStatus = {500}
SPECIFICATION Spec
INVARIANT ResultsMatchServer
CHECK_DEADLOCK FALSE
SYMMETRY MCCallerSymmetry
