SPECIFICATION Spec

CONSTANTS
    Channel = {basic, incentivized}
    Payload = {p, q}
    Relay = {r1}
    Interval = 1
    MaxMessagesPerCommit = 2
    MaxNonce = 2
    MaxParaBlock = 3
    MaxRelayBlock = 3
    MaxStops = 1

INVARIANT
    MissedAreRelayed

CHECK_DEADLOCK FALSE
