CONSTANTS
    Lines = {a, b}
    Ports = {p, q}
    MaxOutstanding = 2
    DeadlockThreshold = 2
    ReqTypes = {"LD", "ST", "RMW_Read", "RMW_Write", "ATOMIC"}
    NoCoales = {FALSE, TRUE}
    a = a
    b = b
    p = p
    q = q
SPECIFICATION Spec
CHECK_DEADLOCK FALSE
SYMMETRY Symmetry
INVARIANTS OneRubyRequestPerLine RetryWillCome
