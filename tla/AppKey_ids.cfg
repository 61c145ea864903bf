\* Two processes attach, load, look up, set and are killed in every order.
CONSTANTS
    Proc = {p1, p2}
    a = a  b = b
    Key = {a, b}
    Value = {0, 1}
    NoName = NoName
    Limit = 3  Past = 1
    Contents <- MCContents
    HdrSize = 1  KeySize = 2  OffsetMod = 5
SPECIFICATION Spec
INVARIANTS TypeOK WithinTable IdKeepsItsKey NamesUnique
PROPERTY LoadApplies
CONSTRAINT IdsWhileAlone
SYMMETRY ProcSymmetry
