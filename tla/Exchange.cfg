CONSTANTS
    a = a
    b = b
    c = c
    Sends = {a,b,c}
    SideOf <- Sides
    OrderType <- Types
    CloseOpposite <- Closing
    MaxOpen <- Limits
    MaxExposure = 1
    MaxTries = 2
    MaxFaults = 1
SPECIFICATION Spec
INVARIANTS ExcessNeedsStaleLooks RepeatsNeedFaults PositionIsProtected
CHECK_DEADLOCK FALSE
