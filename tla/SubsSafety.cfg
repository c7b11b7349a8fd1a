\* One application thread, two subscriptions, two events per stream.
CONSTANTS
    Users = {u1}
    MaxSubs <- MCMaxSubs
    MaxEvents <- MCMaxEvents
SPECIFICATION Spec
INVARIANT TypeOK
INVARIANT NoCallbackAfterCancel
PROPERTY ChannelCloseEndsLoops
PROPERTY CancelledLoopExits
