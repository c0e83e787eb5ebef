---------------------------- MODULE MCThrottling ----------------------------
(* A small instance of Throttling for TLC: four API requests of one key,      *)
(* limited to one in three ticks; two deliveries by one subscription, one in  *)
(* four ticks, to one channel, one in three ticks; one to that channel by a   *)
(* subscription with no limit but quiet hours over midnight, and one by a     *)
(* subscription with the same in a timezone there is not; and one that the    *)
(* channel filters out.                                                       *)
EXTENDS Throttling, TLC

CONSTANTS Api, Limited, Night, Lost, Filtered

MCRequests == Api \union Limited \union {Night, Lost, Filtered}
MCKind == [r \in MCRequests |-> IF r \in Api THEN "api" ELSE "delivery"]
MCGates == [r \in MCRequests |-> CASE r \in Api -> <<"key">>
                                   [] r \in Limited -> <<"hour", "minute">>
                                   [] OTHER -> <<"minute">>]

MCBuckets == {"key", "hour", "minute"}
MCLimit == [b \in MCBuckets |-> 1]
MCLength == [b \in MCBuckets |-> IF b = "hour" THEN 4 ELSE 3]

MCSignal == [r \in MCRequests |-> [strength |-> 3, type |-> "spot", long |-> TRUE]]
MCFilter == [r \in MCRequests |-> [enabled |-> TRUE, strength |-> 1, types |-> {"spot"},
                                  direction |-> IF r = Filtered THEN "short_only" ELSE "both"]]

MCZones == {"UTC"}
MCZoneNames == {"UTC", "nowhere"}

Two(h, m) == [hour |-> h, minute |-> m, digits |-> 2]
MCQuiet == [r \in MCRequests |->
               IF r \in {Night, Lost}
               THEN [start |-> Two(23, 30), end |-> Two(8, 15),
                     zone |-> IF r = Night THEN "UTC" ELSE "nowhere"]
               ELSE NoQuiet]

\* Ten past eight in the evening, and every three hours after: in the hours the quiet ones
\* begin and end, before the minute.
MCClockAt == [z \in MCZones |-> [t \in 0..6 |-> Two((20 + 3 * t) % 24, 10)]]

\* An API key and a channel have nothing in common.
MCWorkloads == {Api, Limited \union {Night}, {Night, Lost, Filtered}}

\* Requests of one kind differ in nothing.
MCSymmetry == Permutations(Api) \union Permutations(Limited)
=============================================================================
