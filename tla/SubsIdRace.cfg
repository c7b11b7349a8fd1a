\* Two application threads subscribing and cancelling concurrently.
CONSTANTS
    Users = {u1, u2}
    MaxSubs <- MCMaxSubs
    MaxEvents <- MCMaxEvents
SPECIFICATION Spec
INVARIANT NoCallbackAfterCancel
