----------------------------- MODULE PlanLimits -----------------------------
(***************************************************************************)
(* What a tenant may do: the limits of its plan with the tenant's override *)
(* merged over them, and the checks made against them                      *)
(* (app/core/plan_limits.py).  No state: a plan and an override are        *)
(* functions from the fields to values, and a field that is Null in the    *)
(* override is inherited from the plan.                                    *)
(***************************************************************************)
EXTENDS Integers

CONSTANTS Null,         \* SQL NULL
          NoOverride    \* the tenant has no override row

Unlimited == -1

Resources == {"strategies", "channels"}

Fields == Resources \union {"types", "exchange"}

\* The override's value where it has one, the plan's otherwise.
Resolve(plan, override, field) ==
    IF override # NoOverride /\ override[field] # Null THEN override[field] ELSE plan[field]

EffectiveLimits(plan, override) == [f \in Fields |-> Resolve(plan, override, f)]

\* Mutant: a tenant at its limit may have one more.
HasRoomAtLimit(limits, resource, current) ==
    limits[resource] = Unlimited \/ current <= limits[resource]

\* check_capacity
HasRoom(limits, resource, current) ==
    limits[resource] = Unlimited \/ current < limits[resource]

\* check_channel_type and check_strategy_class: no list, or an empty one, allows everything.
AllowsType(limits, type) ==
    limits["types"] = Null \/ limits["types"] = {} \/ type \in limits["types"]

\* Exchange channels are a feature of the plan besides.
AllowsChannel(limits, type) ==
    AllowsType(limits, type) /\ (type = "exchange" => limits["exchange"])

=============================================================================
