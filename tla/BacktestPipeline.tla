-------------------------- MODULE BacktestPipeline --------------------------
(***************************************************************************)
(* What a backtest job computes between claiming its row and storing the   *)
(* result (app/workers/run_backtest.py): the candles of the range are      *)
(* fetched, and the simulation runs over the frame.  MarketData and        *)
(* BacktestEngine are composed: the engine's bars are the fetched frame.   *)
(***************************************************************************)
EXTENDS MarketData, BacktestEngine

pipelineVars == <<fetchVars, engineVars>>

TypeOKPipeline == TypeOKFetch /\ TypeOKEngine

PipelineInit == FetchInit /\ EngineInit

\* The frame is handed to the simulation.
Hand ==
    /\ phase = "fetched"
    /\ StartSimulation(Cardinality(frame))
    /\ UNCHANGED fetchVars

PipelineNext ==
    \/ FetchNext /\ UNCHANGED engineVars
    \/ Hand
    \/ Simulate /\ UNCHANGED fetchVars

\* The worker runs the job's coroutine; the simulation is synchronous code.
PipelineSpec == PipelineInit /\ [][PipelineNext]_pipelineVars /\ WF_pipelineVars(PipelineNext)

-----------------------------------------------------------------------------

\* However the network behaves, the computation comes to an end: a summary, an exception
\* of the engine, a trade type that is refused, or a fetch that failed with every provider
\* (run_backtest.py then records the job as done or failed).  This needs holdings that go
\* forward: with a hold_bars of -1 the loop is at the same bar again after every trade.
PipelineEnds ==
    HoldsForward => <>(stage \in {"summary", "unsupported", "failed"} \/ phase = "raised")

\* The simulation is a walk of a position book over the frame: no bar traded twice, no two
\* positions at once, no trade beyond the last bar.  And the win rate, which counts the
\* trades with a positive pnl_pct, leaves out no profit that the four decimals of pnl_pct
\* can show and counts no trade without one; unless premium or position size are not what
\* they should be, these are the trades that made the capital grow.
ImplementsBook == Book!BookSpec

=============================================================================
