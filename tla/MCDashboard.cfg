SPECIFICATION MCSpec
CONSTANTS
    Ids = {1, 2}
    Services = {11, 12}
    Nobody = Nobody
    MaxChanges = 1
    MaxAsked = 1
INVARIANTS
    ShownIsSelected
PROPERTIES
    LogsArrive
