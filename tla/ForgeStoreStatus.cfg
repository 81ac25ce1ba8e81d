\* No power loss: the processes alone separate a binding from its credential.
CONSTANTS
    Procs = {p1, p2}
    Ids = {i1, i2, i3}
    MaxLosses = 0
    NoProc = NoProc
    NoId = NoId
SPECIFICATION Spec
SYMMETRY Symmetry
INVARIANT BindingHasCredential
