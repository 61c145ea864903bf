CONSTANTS
    p1 = p1
    p2 = p2
    Procs = {p1, p2}
    Names = {"a"}
    Comments = {}
    Values = {1}
    Ops = {"create"}
    Space = 100
    MaxLine = 40
    Faults = {}
    Torn = Torn
    None = None
    Prefixed <- MCPrefixed
SPECIFICATION Spec
INVARIANT ReadIsPartition
