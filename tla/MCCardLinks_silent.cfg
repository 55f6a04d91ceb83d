\* One create beside one delete_card on the same card.
SPECIFICATION Spec
CONSTANTS
    a = a  b = b  c = c  d = d
    home = home  elsewhere = elsewhere
    p1 = p1  p2 = p2
    Cards = {a, b}
    Boards = {home, elsewhere}
    Home <- MCHome
    Procs = {p1, p2}
    NoOne = NoOne
    Ops = {"create", "delete_card"}
    MaxRequests = 2
SYMMETRY HandlerSymmetry
VIEW LiveState
INVARIANT RemovedLinksRecorded
CHECK_DEADLOCK FALSE
