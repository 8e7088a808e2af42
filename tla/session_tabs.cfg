CONSTANTS
    Tab = {a, b}
    Call = {c1}
    Token = {n1, n2}
    None = None
SPECIFICATION Spec
SYMMETRY Symmetry
CHECK_DEADLOCK FALSE
INVARIANTS
    TypeOK
    SessionIsKept
    CookieWorks
