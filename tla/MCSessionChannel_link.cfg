\* Two publications, one request that ends the session, and one fault.
SPECIFICATION FairSpec
CONSTANTS
    Conns = {1, 2}
    stop = stop
    look = look
    Requests = {stop}
    Stops = {stop}
    MaxVersion = 2
    MaxFaults = 1
    None = None
PROPERTIES
    RequestsReturn
    ShowsNewest
    EndedIsRemoved
