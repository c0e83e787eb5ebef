CONSTANTS
    s1 = s1
    s2 = s2
    c1 = c1
    Signals = {s1, s2}
    Channels = {c1}
    Resolvers = {"cron", "request"}
    CronRuns = {"cron"}
    KeyOf <- SameKey
    SentTo <- Everywhere
    History = 60
    PriceLimit = 2
    MinBars = 50
SPECIFICATION FairSpec
PROPERTIES ExpiredSignalsAreResolved
CHECK_DEADLOCK FALSE
