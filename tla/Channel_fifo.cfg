CONSTANTS
    Msg = {m1, m2}
    NoMsg = null
    Limit = 4
    Pointer = TRUE
SPECIFICATION Spec
INVARIANTS TypeOK SlotsFilled
PROPERTY IsFifo
