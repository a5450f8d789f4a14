SPECIFICATION Spec
CONSTANTS
    cli = cli
    dashboard = dashboard
    r1 = r1
    r2 = r2
    v1 = v1
    v2 = v2
    Writers = {cli, dashboard}
    Readers = {r1}
    Values = {v1, v2}
    Inodes = {1, 2, 3, 4}
    Chunks = 2
    Blank = Blank
    Missing = Missing
INVARIANTS
    NeverTorn
