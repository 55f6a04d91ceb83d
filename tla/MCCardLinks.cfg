\* Two handlers and any mix of four requests on one board of three cards and one of one.
SPECIFICATION Spec
CONSTANTS
    a = a  b = b  c = c  d = d
    home = home  elsewhere = elsewhere
    p1 = p1  p2 = p2
    Cards = {a, b, c, d}
    Boards = {home, elsewhere}
    Home <- MCHome
    Procs = {p1, p2}
    NoOne = NoOne
    Ops = {"create", "delete_link", "delete_card", "cascade", "restore"}
    MaxRequests = 4
SYMMETRY HandlerSymmetry
VIEW LiveState
INVARIANTS TypeOK Acyclic CheckStaysValid
PROPERTIES ImplementsLinkGraph CascadeRecordsLinks
CHECK_DEADLOCK FALSE
