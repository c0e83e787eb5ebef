----------------------------- MODULE MCTenancy -----------------------------
(* A small instance of Tenancy for TLC: two tenants, of which c1 pays, and    *)
(* three registrations, two for one email, all for one workspace name.  A     *)
(* behaviour has one of the workloads: together their states would multiply.  *)
EXTENDS Tenancy, TLC

MCNames == {"c1", "c2", "ann", "ann_1", "ann_2", "ann_3"}

MCEmails == {"owner1", "owner2", "ann@x", "ann@y"}

MCSignups == {"s1", "s2", "s3"}
MCEmailOf == [s \in MCSignups |-> IF s = "s3" THEN "ann@y" ELSE "ann@x"]
MCNamesOf == [s \in MCSignups |-> <<"ann", "ann_1", "ann_2", "ann_3">>]

MCKeyOps == {<<"rotate", "k1", 1>>, <<"rotate", "k1", 2>>, <<"revoke", "k1", 3>>}

MCOwnerOf == [c \in {"c1", "c2"} |-> IF c = "c1" THEN "owner1" ELSE "owner2"]

\* q1, q2 and q4 are for channels of c1, the last two of one name; q3 and q5 for strategies
\* of two tenants, of one name; q6 for a strategy of a tenant that may not be there yet.
MCCreates == {"q1", "q2", "q3", "q4", "q5", "q6"}
MCTenantOf == [r \in MCCreates |-> CASE r = "q5" -> "c2" [] r = "q6" -> "ann" [] OTHER -> "c1"]
MCResourceOf == [r \in MCCreates |-> IF r \in {"q1", "q2", "q4"} THEN "channels" ELSE "strategies"]
MCTypeOf == [r \in MCCreates |-> CASE r \in {"q1", "q4"} -> "webhook" [] r = "q2" -> "exchange" [] OTHER -> "adx"]
MCTitleOf == [r \in MCCreates |-> IF r = "q1" THEN "a" ELSE "b"]

Free == [strategies |-> 1, channels |-> 1, types |-> {"webhook", "adx"}, exchange |-> FALSE]
Pro == [strategies |-> Unlimited, channels |-> 2, types |-> Null, exchange |-> TRUE]

MCLimits == [free |-> Free, pro |-> Pro]
MCEdited == {Free, Pro}
MCOverrides == {[strategies |-> 0, channels |-> Null, types |-> {}, exchange |-> TRUE]}

MCWorkloads == {{"signups", "plans"}, {"keys"}, {"stripe", "plans"}, {"paddle"}, {"lemonsqueezy"},
                {"q1", "q2", "plans", "limits"}, {"q1", "q2", "q4"},
                {"q3", "q5", "plans", "limits"}, {"q6", "signups"}}

\* Webhook requests differ in nothing.
MCSymmetry == Permutations(Hooks)

\* Bound: in a life of MaxEvents events no admin makes a request and every event is
\* delivered in order; in others events and requests are fewer than MaxEvents - 1.
Bounded ==
    /\ admin' > 0 /\ events' # <<>> => admin' + Len(events') < MaxEvents - 1
    /\ (\E c \in Customers : surprises'[c] # {}) => Len(events') < MaxEvents - 1

MCSpec == Init /\ [][Next /\ Bounded]_vars
=============================================================================
