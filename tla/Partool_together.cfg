CONSTANTS
    p1 = p1
    p2 = p2
    p3 = p3
    Procs = {p1, p2, p3}
    Names = {"a"}
    Comments = {}
    Values = {1}
    Ops = {"create"}
    Space = 100
    MaxLine = 40
    Faults = {"write", "power"}
    Torn = Torn
    None = None
    Prefixed <- MCPrefixed
SPECIFICATION FairSpec
INVARIANT LockPerFile
INVARIANT NamesUnique
PROPERTY EveryCommandEnds
