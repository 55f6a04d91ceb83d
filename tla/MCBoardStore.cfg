\* Two handlers and any mix of three requests, one of them dropped half way;
\* no symmetry, for liveness.
SPECIFICATION FairSpec
CONSTANTS
    home = home  elsewhere = elsewhere
    x = x  y = y  z = z
    a = a  b = b
    v1 = v1  v2 = v2
    p1 = p1  p2 = p2
    Boards = {home}
    Columns = {x, y}
    Cards = {a, b}
    BoardOf <- MCBoardOf
    Bodies = {v1, v2}
    FirstCards <- MCFirstCards
    FirstColumns = {x}
    Procs = {p1, p2}
    NoOne = NoOne  NoRow = NoRow
    Ops = {"create_card", "create_column", "move", "update",
           "restore_content", "delete_card", "delete_column", "delete_board",
           "restore"}
    Attempts = 2
    MaxRequests = 3
    MaxDropped = 1
INVARIANTS TypeOK ParentHistoryExact CardDeletesRecorded
PROPERTIES SweptAsRecorded RequestsAnswered
CHECK_DEADLOCK FALSE
