SPECIFICATION Spec
CONSTANTS
    Pids = {p1, p2}
    Nodes = {n1, n2}
    MaxBirths = 4
    Dead = Dead
    NoNode = NoNode
    NoId = NoId
SYMMETRY Symmetry
INVARIANTS TypeOK NothingUnowned OwnerNodeTrue  NothingLeft
PROPERTIES StrangersSurvive StopFrees
