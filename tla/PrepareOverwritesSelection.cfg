SPECIFICATION ReviewSpec
CONSTANTS
    s1 = s1
    s2 = s2
    Slots <- MCSlots
    PolicySettings <- MCSettings
    Forms <- MCForms
    Plans <- MCPlans
    MaxFaults = 1
SYMMETRY SlotSymmetry
INVARIANT SelectionHolds
CHECK_DEADLOCK FALSE
