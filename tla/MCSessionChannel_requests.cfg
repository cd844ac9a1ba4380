\* Two requests, one of which ends the session, across two faults.
SPECIFICATION Spec
CONSTANTS
    Conns = {1, 2}
    stop = stop
    look = look
    Requests = {stop, look}
    Stops = {stop}
    MaxVersion = 1
    MaxFaults = 2
    None = None
INVARIANTS
    OwnAnswer
    NoLostWaiter
