-------------------------- MODULE DeliveryLifecycle --------------------------
(***************************************************************************)
(* What a reader of the signal_deliveries table may rely on, with the jobs *)
(* that write it left out: the statuses a row goes through, one counted    *)
(* attempt per recorded move, and that "sent" is never recorded before the *)
(* channel has accepted a message of the row.  Several rows may move in    *)
(* one step, since a deliver_signal job commits all of its rows at once.   *)
(***************************************************************************)
EXTENDS Integers

CONSTANT Deliveries
VARIABLES row, acked

\* A retry is recorded whatever status the failure before it left, as the steps of
\* retry_delivery promise: a failed row may become sent, or retrying.  Nothing leaves
\* the dead-letter queue, and no row once sent or retried becomes failed again.  A
\* sent row may still end in the queue: mark_dlq accepts every other status.
Moves == {<<"pending", "sent">>, <<"pending", "failed">>, <<"pending", "retrying">>,
          <<"pending", "dlq">>, <<"failed", "sent">>, <<"failed", "retrying">>,
          <<"failed", "dlq">>, <<"retrying", "sent">>, <<"retrying", "retrying">>,
          <<"retrying", "dlq">>, <<"sent", "dlq">>}

Init ==
    /\ row = [d \in Deliveries |-> [status |-> "pending", attempts |-> 0]]
    /\ acked = [d \in Deliveries |-> 0]

Accept(d) ==
    /\ acked' = [acked EXCEPT ![d] = @ + 1]
    /\ UNCHANGED row

Moved(d) ==
    /\ <<row[d].status, row'[d].status>> \in Moves
    /\ row'[d].attempts = row[d].attempts + 1
    /\ row'[d].status = "sent" => acked[d] > 0

Record ==
    /\ \A d \in Deliveries : row'[d] = row[d] \/ Moved(d)
    /\ UNCHANGED acked

Remove(d) ==
    /\ row[d].status # "gone"
    /\ row' = [row EXCEPT ![d].status = "gone"]
    /\ UNCHANGED acked

Next == Record \/ \E d \in Deliveries : Accept(d) \/ Remove(d)

Spec == Init /\ [][Next]_<<row, acked>>
=============================================================================
