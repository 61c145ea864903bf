\* Three rings of two slots: every second tick carries, every fourth to the
\* top, and the whole wheel wraps at 8 (2^32 in the code) and at 16.
CONSTANTS
    Timers = {ta, tb}
    Slots = 2  Rings = 3
    After = {1, 3}
    Change = {1, 3, 6}
    MaxTicks = 18
SPECIFICATION Spec
INVARIANTS TypeOK RingsCountTicks SlotInTime
PROPERTY FiresExactly
