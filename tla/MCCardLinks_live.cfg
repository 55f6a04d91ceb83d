\* Two handlers, three requests, under fairness; no symmetry, no view.
SPECIFICATION FairSpec
CONSTANTS
    a = a  b = b  c = c  d = d
    home = home  elsewhere = elsewhere
    p1 = p1  p2 = p2
    Cards = {a, b, c}
    Boards = {home, elsewhere}
    Home <- MCHome
    Procs = {p1, p2}
    NoOne = NoOne
    Ops = {"create", "delete_link", "delete_card", "cascade", "restore"}
    MaxRequests = 3
PROPERTY RequestsAnswered
CHECK_DEADLOCK FALSE
