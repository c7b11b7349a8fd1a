\* put_async / get_async / delete_async over grpc on the 10-worker executor.
CONSTANTS
    Protocol = "grpc"
    MaxWorkers <- MCMaxWorkers
    MaxJobs <- MCMaxJobs
SPECIFICATION Spec
INVARIANT TypeOK
PROPERTY SubmittedCallsStart
CHECK_DEADLOCK FALSE
