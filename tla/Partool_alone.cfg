CONSTANTS
    p1 = p1
    Procs = {p1}
    Names = {"a", "ab"}
    Comments = {}
    Values = {1, 2}
    Ops = {"crc", "empty", "load", "show", "new", "create", "update", "delete", "delprefix"}
    Space = 100
    MaxLine = 40
    Faults = {"copy", "lock", "power"}
    Torn = Torn
    None = None
    Prefixed <- MCPrefixed
SPECIFICATION Spec
INVARIANT TypeOK
INVARIANT AnswerIsTrue
PROPERTY IsStore
