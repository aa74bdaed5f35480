SPECIFICATION Spec
CONSTANTS
    Node = {a, b}
    Client = {c1, c2}
    Admin = {a1}
    OpId = {o1, o2}
    Wish = {w1, w2}
    Principal = {p1}
    Uid = {u1}
    None = None
    MaxCalls = 2
    MaxEdits = 1
SYMMETRY Symmetry
INVARIANTS RoutedOnce SuccessIsReal
CHECK_DEADLOCK FALSE
