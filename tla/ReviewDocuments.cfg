SPECIFICATION ReviewSpec
CONSTANTS
    s1 = s1
    s2 = s2
    Slots <- MCSlots
    PolicySettings <- MCSettings
    Forms <- MCForms
    Plans <- MCPlans
    MaxFaults = 1
SYMMETRY SlotSymmetry
INVARIANT ReadyIsComplete
INVARIANT PreviewIsHonest
INVARIANT RenderIsPaid
CHECK_DEADLOCK FALSE
