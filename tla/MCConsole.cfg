SPECIFICATION PrintSpec
CONSTANTS
    WordBits = 8
    FloatUnits = 20000
    Messages <- MCMessages
    Levels = {0, 3, 7}
    MaxPrints = 2
INVARIANTS
    LineAsPrinted
    NumbersSpell
PROPERTY PrintReturns
CHECK_DEADLOCK FALSE
