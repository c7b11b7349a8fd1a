\* put_async / get_async / delete_async over http on the 10-worker executor.
CONSTANTS
    Protocol = "http"
    MaxWorkers <- MCMaxWorkers
    MaxJobs <- MCMaxJobs
SPECIFICATION Spec
PROPERTY SubmittedCallsStart
CHECK_DEADLOCK FALSE
