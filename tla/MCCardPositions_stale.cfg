SPECIFICATION Spec
CONSTANTS
    p1 = p1  p2 = p2  todo = todo  done = done
    Procs = {p1, p2}
    Columns = {todo, done}
    Cards = {1, 2, 3}
    Made = {1, 2, 3}
    Width = 7
    Gap = 4
    Layouts <- StartLayouts
    Orders <- StartOrders
    MaxRequests = 2
    MaxFaults = 0
INVARIANTS MovedAwayIsRemoved
CHECK_DEADLOCK FALSE
