SPECIFICATION FairSpec
CONSTANTS
    Producers = {p1, p2}
    Consumers = {c1, c2}
    Values = {v1, v2}
    NoValue = NoValue
    NoThread = NoThread
    Capacity = 2
    Rounds = 2
INVARIANTS PlacesConserved
PROPERTIES IsBoundedBuffer Terminates
