CONSTANTS
    c1 = c1
    c2 = c2
    s1 = s1
    s2 = s2
    Unset = Unset
    None = None
    Requests = {r1,r2,r3}
    Crons = {c1,c2}
    Strategies = {s1,s2}
    CronAt <- TwoRuns
    Interval <- IntervalTwo
    MaxDaily <- CapOne
    Cooldown <- CooldownTwo
    ClassOf <- Divergence
    AssetOf <- Asset
    Threshold <- ConfidentOrAny
    Subscriptions <- Subscribers
    Params <- Defaults
    Grid <- Grids
    Top = 10
    PlanDaily = 2
    PlanMonthly = 2
    TicksPerDay = 2
    MaxTime = 3
    MaxFaults = 1
SPECIFICATION MCSpec
SYMMETRY RequestSymmetry
INVARIANTS CapMissesOnlyUncounted GapShortByDelayOnly EveryStrategyIsServed VerdictsMirror
CHECK_DEADLOCK FALSE
