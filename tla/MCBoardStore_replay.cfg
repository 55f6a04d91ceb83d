\* A board's delete beside the delete of one of its columns.
SPECIFICATION Spec
CONSTANTS
    home = home  elsewhere = elsewhere
    x = x  y = y  z = z
    a = a  b = b
    v1 = v1  v2 = v2
    p1 = p1  p2 = p2
    Boards = {home}
    Columns = {x}
    Cards = {a}
    BoardOf <- MCBoardOf
    Bodies = {v1}
    FirstCards <- MCFirstCards
    FirstColumns = {x}
    Procs = {p1, p2}
    NoOne = NoOne  NoRow = NoRow
    Ops = {"delete_column", "delete_board"}
    Attempts = 2
    MaxRequests = 2
    MaxDropped = 0
SYMMETRY HandlerSymmetry
INVARIANT ReplayFindsParents
CHECK_DEADLOCK FALSE
