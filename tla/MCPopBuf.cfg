CONSTANTS
    Size = 6
    Lens <- MCLens
    WORD = 16
    SLOT_WORD = 8
SPECIFICATION BufSpec
INVARIANTS DataInside
PROPERTIES OneEndMoves SlotInside
