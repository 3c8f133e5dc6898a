SPECIFICATION Spec
CONSTANTS
    Var <- MCVar
    Methods <- MCMethods
    LoopFuel = 8
    StepFuel = 8
INVARIANTS
    SinglePredecessor
    FlagsHandedOver
    CodeFits
    CallsChecked
    KeepsMeaning
    GraphIsBuilt
PROPERTY
    PassesEnd
