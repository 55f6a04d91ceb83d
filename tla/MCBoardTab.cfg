SPECIFICATION LiveSpec
CONSTANTS
    A = A
    B = B
    k1 = k1
    k2 = k2
    k3 = k3
    c1 = c1
    c2 = c2
    link = link
    Boards = {A, B}
    Columns = {k1, k2, k3}
    Cards = {c1, c2}
    Links = {link}
    BoardOf <- mcBoardOf
    Ends <- mcEnds
    Starts <- mcStarts
    Capacity = 1
    MaxOps = 2
    MaxVisits = 2
    MaxFaults = 1
    Budget = 2
INVARIANT TypeOK
INVARIANT ShownIsStored
INVARIANT NoLinkOutlivesItsCard
PROPERTY Recovers
CHECK_DEADLOCK FALSE
