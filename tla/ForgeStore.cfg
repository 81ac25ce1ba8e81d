\* One setup may be rotating while another process inspects or removes; two
\* of them already queue on the lock, and the third id allows a second
\* rotation over what a crash or a power loss left.
CONSTANTS
    Procs = {p1, p2}
    Ids = {i1, i2, i3}
    MaxLosses = 1
    NoProc = NoProc
    NoId = NoId
SPECIFICATION Spec
SYMMETRY Symmetry
INVARIANTS PairKept ReportsTrue
