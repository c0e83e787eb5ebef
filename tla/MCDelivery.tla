----------------------------- MODULE MCDelivery -----------------------------
(* Small instances of Delivery for TLC: one signal whose deliveries share one *)
(* channel, with its retry limit unset or 1.                                  *)
EXTENDS Delivery, TLC

CONSTANTS s1, c1, d1, d2

OneSignal == [d \in Deliveries |-> s1]
OneChannel == [d \in Deliveries |-> c1]

RetriesUnset == [c \in Channels |-> Unset]
RetriesOne == [c \in Channels |-> 1]

JobSymmetry == Permutations(RetryJobs)
RowAndJobSymmetry == Permutations(RetryJobs) \union Permutations(Deliveries)
=============================================================================
