SPECIFICATION Spec

CONSTANTS
    Channel = {basic}
    Payload = {p, q}
    Relay = {r1, r2}
    Interval = 1
    MaxMessagesPerCommit = 1
    MaxNonce = 2
    MaxParaBlock = 4
    MaxRelayBlock = 4
    MaxStops = 0

SYMMETRY Alike

INVARIANT
    TypeOK

PROPERTY
    DeliversInOrder

CHECK_DEADLOCK FALSE
