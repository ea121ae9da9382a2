SPECIFICATION Spec
CONSTANTS
    Blank = Blank
    Typed <- MCTyped
    OmesDefault = 99
    MaxInt = 50
    ApiConfigs <- MCApiConfigs
    NoForm = NoForm
    MaxEdits = 4
INVARIANTS
    TypeOK
    KnobsHonoured
    Dispatches
    PageAccepted
