\* One gRPC caller that writes, disconnects and writes again.
CONSTANTS
    Protocol = "grpc"
    CallOps <- MCPutDisc
    Callers = {c1}
    Keys <- MCKeys1
    Vals <- MCVals
    Limits <- MCLimits
    MaxSnaps <- MCMaxSnaps
    MaxCalls <- MCMaxCalls
    ErroredReadFound = {TRUE}
    HttpFailStatus = {500}
    SnapRejectStatus = {500}
SPECIFICATION Spec
INVARIANT ErrorsInHierarchy
CHECK_DEADLOCK FALSE
