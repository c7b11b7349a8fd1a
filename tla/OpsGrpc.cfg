\* Point, snapshot and stats operations over gRPC with disconnect(), two threads.
CONSTANTS
    Protocol = "grpc"
    CallOps <- MCGrpcOps
    Callers = {c1, c2}
    Keys <- MCKeys1
    Vals <- MCVals1
    Limits <- MCLimits
    MaxSnaps <- MCMaxSnaps
    MaxCalls <- MCMaxCalls
    ErroredReadFound = {TRUE}
    HttpFailStatus = {500}
    SnapRejectStatus = {500}
SPECIFICATION Spec
INVARIANT TypeOK
INVARIANT ResultsMatchServer
PROPERTY CallsReturn
CHECK_DEADLOCK FALSE
