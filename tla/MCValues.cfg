SPECIFICATION Spec
CONSTANTS
    Nil = Nil
    LossyTimes <- MCLossyTimes
INVARIANTS
    ConversionRight
    PositionKept
    MomentKept
    CatalogsRight
CHECK_DEADLOCK FALSE
