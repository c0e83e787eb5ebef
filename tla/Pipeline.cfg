CONSTANTS
    Kinds = {"range", "latest"}
    Preferences = {"binance", "deribit", "kraken"}
    Timeframe = "1h"
    Histories <- MCHistories
    From = 1
    To = 4
    Limit = 3
    BatchSize = 2
    MaxPage = 3
    MinBars = 2
    MaxAttempts = 2
    TradeTypes = {"options", "spot", "futures"}
    Signals <- MCSignals
    Prices = {800, 801, 1001}
    Target = 25
    Stop = 20
    Premium = 2
    PositionSize = 10
    Holdings <- MCHoldings
    Grain = 1
    MaxBack = 1
    NoBar = NoBar
SPECIFICATION PipelineSpec
INVARIANTS TypeOKPipeline FrameIsComplete FallbackIsExhaustive
PROPERTIES ImplementsBook PipelineEnds
CHECK_DEADLOCK FALSE
