---------------------------- MODULE PositionBook ----------------------------
(***************************************************************************)
(* What a backtest promises of its trades: time goes over the bars once,   *)
(* from the first to the last; there is at most one open position; a       *)
(* position is entered at the bar time has reached and left at that bar or *)
(* a later one, and the next is entered after the bar the last was left    *)
(* at.  In the end the wins are counted: every position with a clear       *)
(* profit, and none without a profit.  With ordinary parameters it is the  *)
(* positions with a profit that make the capital grow.  If a position may  *)
(* be left before it was entered, it is still left at a bar that exists.   *)
(***************************************************************************)
EXTENDS Integers, FiniteSets

CONSTANTS NoBar,
          Ordinary      \* options cost a premium, spot positions have a size

VARIABLES forward,  \* positions are not left before they were entered
          last,     \* index of the last bar; -1 until the bars are there
          clock,    \* the bar looked at; last + 1 at the end
          open,     \* the entry bar of the open position, or NoBar
          closed,   \* the positions that were closed
          wins      \* the number of wins, when they have been counted

bookVars == <<forward, last, clock, open, closed, wins>>

BookInit ==
    /\ forward \in BOOLEAN
    /\ last = -1 /\ clock = 0 /\ open = NoBar /\ closed = {} /\ wins = 0

\* The bars arrive.
Receive ==
    /\ last = -1
    /\ last' \in Nat
    /\ UNCHANGED <<forward, clock, open, closed, wins>>

\* A bar passes with no trade begun or ended.
Pass ==
    /\ clock <= last
    /\ open # NoBar => clock < last
    /\ clock' = clock + 1
    /\ UNCHANGED <<forward, last, open, closed, wins>>

Enter ==
    /\ open = NoBar /\ clock <= last
    /\ open' = clock
    /\ UNCHANGED <<forward, last, clock, closed, wins>>

\* What may be said of a position: a profit too small to be clear is won or not.
Fair(profit, won, grew) ==
    /\ profit = "clear" => won
    /\ won => profit # "none"
    /\ Ordinary => (grew <=> profit # "none")

\* Left at the bar time has reached, or at a later one that exists.
Leave ==
    /\ open # NoBar
    /\ \E bar \in (IF forward THEN clock ELSE -(last + 1))..last,
          profit \in {"none", "trace", "clear"}, won \in BOOLEAN, grew \in BOOLEAN :
         /\ Fair(profit, won, grew)
         /\ closed' = closed \union {[entered |-> open, left |-> bar, profit |-> profit,
                                      won |-> won, grew |-> grew]}
         /\ clock' = bar + 1
    /\ open' = NoBar
    /\ UNCHANGED <<forward, last, wins>>

CountWins ==
    /\ clock > last /\ open = NoBar
    /\ wins' = Cardinality({p \in closed : p.won})
    /\ UNCHANGED <<forward, last, clock, open, closed>>

BookNext == Receive \/ Pass \/ Enter \/ Leave \/ CountWins

BookSpec == BookInit /\ [][BookNext]_bookVars

=============================================================================
