\* Two launches, one of which may import while the other saves or runs.  Three
\* files let a person replace a source while it is imported and replace that one
\* again, or leave one for a placeholder; with fewer nothing is ever put back.
CONSTANTS
    p1 = p1
    p2 = p2
    net = net
    f1 = f1
    f2 = f2
    f3 = f3
    Procs = {p1, p2}
    Restrictions = {net}
    Grants = {g1, g2}
    Files = {f1, f2, f3}
    Text <- MCText
    NoProc = NoProc
    NoFile = NoFile
    NoGrants = NoGrants
SPECIFICATION Spec
SYMMETRY Symmetry
INVARIANTS GrantsKept RemovedIsImported NothingLost
