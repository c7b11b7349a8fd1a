\* Does every disconnect() end every receive loop?
CONSTANTS
    Users = {u1}
    MaxSubs <- MCMaxSubs
    MaxEvents <- MCMaxEvents
SPECIFICATION Spec
PROPERTY DisconnectEndsLoops
