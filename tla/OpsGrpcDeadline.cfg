CONSTANTS
    Protocol = "grpc"
    CallOps <- MCPointOps
    Callers = {c1}
    Keys <- MCKeys1
    Vals <- MCVals
    Limits <- MCLimits
    MaxSnaps <- MCMaxSnaps
    MaxCalls <- MCMaxCalls
    ErroredReadFound = {TRUE}
    HttpFailStatus = {500}
    SnapRejectStatus = {500}
SPECIFICATION Spec
INVARIANT DeadlineRaisesTimeoutError
CHECK_DEADLOCK FALSE
