\* A move beside a column's delete and its restore.
SPECIFICATION Spec
CONSTANTS
    home = home  elsewhere = elsewhere
    x = x  y = y  z = z
    a = a  b = b
    v1 = v1  v2 = v2
    p1 = p1  p2 = p2
    Boards = {home, elsewhere}
    Columns = {x, z}
    Cards = {a}
    BoardOf <- MCBoardOf
    Bodies = {v1}
    FirstCards <- MCFirstCards
    FirstColumns = {x, z}
    Procs = {p1, p2}
    NoOne = NoOne  NoRow = NoRow
    Ops = {"move", "delete_column", "restore"}
    Attempts = 2
    MaxRequests = 3
    MaxDropped = 0
SYMMETRY HandlerSymmetry
PROPERTY CardStaysOnBoard
CHECK_DEADLOCK FALSE
