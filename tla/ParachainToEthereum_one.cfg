SPECIFICATION Spec

CONSTANTS
    Channel = {basic}
    Payload = {p, q}
    Relay = {r1}
    Interval = 2
    MaxMessagesPerCommit = 2
    MaxNonce = 3
    MaxParaBlock = 4
    MaxRelayBlock = 4
    MaxStops = 1

SYMMETRY Alike

INVARIANT
    CommittedOnce

PROPERTY
    DeliversInOrder

CHECK_DEADLOCK FALSE
