CONSTANTS
    Tab = {a}
    Call = {c1, c2}
    Token = {n1, n2}
    None = None
SPECIFICATION Spec
SYMMETRY Symmetry
CHECK_DEADLOCK FALSE
PROPERTIES
    OneRefreshPerCall
