\* The instance of ConfigStore.cfg; what an auto-save does to an import.
CONSTANTS
    p1 = p1
    p2 = p2
    net = net
    f1 = f1
    f2 = f2
    f3 = f3
    Procs = {p1, p2}
    Restrictions = {net}
    Grants = {g1, g2}
    Files = {f1, f2, f3}
    Text <- MCText
    NoProc = NoProc
    NoFile = NoFile
    NoGrants = NoGrants
SPECIFICATION Spec
SYMMETRY Symmetry
INVARIANT RestrictionsSurvive
