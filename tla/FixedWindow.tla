----------------------------- MODULE FixedWindow -----------------------------
(***************************************************************************)
(* What a fixed-window limiter promises: time is cut into windows of a     *)
(* bucket's length, and of the calls that belong to one window at most     *)
(* limit pass, each before the next window has ended.                      *)
(***************************************************************************)
EXTENDS Integers

CONSTANTS
    Buckets,
    Windows,    \* the windows there are: 0, 1, ...
    Limit,      \* [Buckets -> Nat]
    Length      \* [Buckets -> Nat \ {0}], in ticks

VARIABLES
    now,
    passed      \* [Buckets -> [Windows -> Nat]]: calls passed, by window

Init == now = 0 /\ passed = [b \in Buckets |-> [w \in Windows |-> 0]]

Tick == now' = now + 1 /\ UNCHANGED passed

Pass(b, w) ==
    /\ passed[b][w] < Limit[b]
    /\ w * Length[b] <= now /\ now < (w + 2) * Length[b]
    /\ passed' = [passed EXCEPT ![b][w] = @ + 1]
    /\ UNCHANGED now

Next == Tick \/ \E b \in Buckets, w \in Windows : Pass(b, w)

Spec == Init /\ [][Next]_<<now, passed>>

=============================================================================
