CONSTANTS
    Protocol = "grpc"
    CallOps <- MCPointOps
    Callers = {c1, c2}
    Keys <- MCKeys1
    Vals <- MCVals
    Limits <- MCLimits
    MaxSnaps <- MCMaxSnaps
    MaxCalls <- MCMaxCalls
    ErroredReadFound = {FALSE}
    HttpFailStatus = {500}
    SnapRejectStatus = {500}
SPECIFICATION Spec
INVARIANT ResultsMatchServer
CHECK_DEADLOCK FALSE
