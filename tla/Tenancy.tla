------------------------------ MODULE Tenancy ------------------------------
(***************************************************************************)
(* Tenants at work: requests that create strategies and channels within    *)
(* the limits of the tenant's plan (app/api/v1/strategies.py, channels.py  *)
(* and their services), while the provider's events and the admin API      *)
(* (app/api/v1/admin.py) change plans, limits and overrides, and while     *)
(* others register and rotate keys.                                        *)
(*                                                                         *)
(* A creating request reads the tenant, its plan and override, the count   *)
(* and the name with a query each, and inserts at the end.                 *)
(***************************************************************************)
EXTENDS Billing, PlanLimits

CONSTANTS
    Creates,        \* POST /strategies and POST /channels requests
    TenantOf,       \* [Creates -> Names]
    ResourceOf,     \* [Creates -> Resources]
    TypeOf,         \* [Creates -> strategy_class or channel_type]
    KnownTypes,     \* types the registry or the service knows
    TitleOf,        \* [Creates -> the name of the new row]
    Limits0,        \* [PlanKeys -> limits]: the seeded plans
    EditedLimits,   \* set of limits an admin may give a plan
    Overrides,      \* set of overrides an admin may set
    Workloads,      \* sets of actors, and of creating requests, at work in one behaviour
    MaxAdmin        \* bound: admin requests

ASSUME TenancyAssumption ==
    /\ TenantOf \in [Creates -> Names]
    /\ ResourceOf \in [Creates -> Resources]
    /\ Limits0 \in [PlanKeys -> EditedLimits]
    /\ \A l \in EditedLimits, x \in Resources : l[x] \in Int
    /\ \A o \in Overrides : /\ DOMAIN o = Fields
                           /\ \A x \in Resources : o[x] = Null \/ o[x] \in Int
    /\ IsFiniteSet(Creates)
    /\ MaxAdmin \in Nat

VARIABLES
    limits,         \* [PlanKeys -> the limits in the plan's row]
    override,       \* [Names -> the override's row, or NoOverride]
    rows,           \* strategies and channels, by the request that created each
    create,         \* [Creates -> where the request is, and what it has read]
    admin,          \* admin requests made
    peak,           \* [Names -> the limits at their highest so far]
    raced,          \* rows inserted on a count that was out of date
    work            \* the actors at work

quotaVars == <<limits, override, rows, create, admin, peak, raced, work>>

vars == <<plans, tenants, accountVars, billingVars, quotaVars>>

AllLimits == {EffectiveLimits(l, o) : l \in EditedLimits, o \in Overrides \union {NoOverride}}

ASSUME AbsentIsNoLimits == Absent \notin AllLimits

CreatePhase == {"start", "limits", "count", "name", "insert", "created", "unauthorized",
                "over", "conflict"}

CreateState == [phase: CreatePhase,
                plan: PlanKeys \union {Absent},
                limits: AllLimits \union {Absent},
                counted: SUBSET Creates]

Fresh == [phase |-> "start", plan |-> Absent, limits |-> Absent, counted |-> {}]

TypeOKQuota ==
    /\ limits \in [PlanKeys -> EditedLimits]
    /\ override \in [Names -> Overrides \union {NoOverride}]
    /\ rows \subseteq Creates
    /\ create \in [Creates -> CreateState]
    /\ admin \in 0..MaxAdmin
    /\ peak \in [Names -> [Resources -> Int]]
    /\ raced \subseteq Creates
    /\ work \in Workloads

TypeOK == TypeOKAccounts /\ TypeOKBilling /\ TypeOKQuota

-----------------------------------------------------------------------------

\* The limits a request of the tenant would find now.
CurrentLimits(n) == EffectiveLimits(limits[tenants[n].plan], override[n])

Higher(a, b) == IF Unlimited \in {a, b} THEN Unlimited ELSE IF a > b THEN a ELSE b

RowsOf(n, resource) == {r \in rows : TenantOf[r] = n /\ ResourceOf[r] = resource}

Init ==
    /\ plans = PlanKeys
    /\ tenants = [n \in Names |-> IF n \in Workspaces THEN NewTenant ELSE Absent]
    /\ users = [e \in Emails |-> IF \E n \in Workspaces : OwnerOf[n] = e
                               THEN CHOOSE n \in Workspaces : OwnerOf[n] = e ELSE Absent]
    /\ signup = [s \in Signups |-> [phase |-> "email", tries |-> 1]]
    /\ keys = [k \in Keys |-> [secret |-> 0, active |-> TRUE]]
    /\ keyOp = [o \in KeyOps |-> [phase |-> "load", row |-> [secret |-> 0, active |-> TRUE]]]
    /\ work \in Workloads
    /\ provider \in IF work \intersect PaymentProviders = {} THEN {"stripe"}
                    ELSE work \intersect PaymentProviders
    /\ BillingInit
    /\ limits = Limits0
    /\ override = [n \in Names |-> NoOverride]
    /\ rows = {}
    /\ create = [r \in Creates |-> Fresh]
    /\ admin = 0
    /\ peak = [n \in Names |-> [x \in Resources |-> Limits0["free"][x]]]
    /\ raced = {}

-----------------------------------------------------------------------------
\* Creating a strategy or a channel.

\* get_current_tenant: the tenant's row, or 401 when there is none.
Authenticate(r) ==
    /\ create[r].phase = "start"
    /\ create' = [create EXCEPT ![r] =
                     IF tenants[TenantOf[r]] = Absent THEN [@ EXCEPT !.phase = "unauthorized"]
                     ELSE [@ EXCEPT !.phase = "limits", !.plan = tenants[TenantOf[r]].plan]]
    /\ UNCHANGED <<limits, override, rows, admin, peak, raced, work>>

\* get_effective_limits for the plan the tenant had when it was loaded (it may be gone by
\* now), and the check of the class or type.
ReadLimits(r) ==
    LET n == TenantOf[r]
        found == EffectiveLimits(limits[create[r].plan], override[n])
        allowed == /\ create[r].plan \in plans
                   /\ IF ResourceOf[r] = "channels" THEN AllowsChannel(found, TypeOf[r])
                                                    ELSE AllowsType(found, TypeOf[r])
    IN  /\ create[r].phase = "limits"
        /\ create' = [create EXCEPT ![r] = IF allowed
                         THEN [@ EXCEPT !.phase = "count", !.limits = found]
                         ELSE [@ EXCEPT !.phase = "over"]]
        /\ peak' = IF allowed THEN [peak EXCEPT ![n] = [x \in Resources |-> Higher(@[x], found[x])]]
                              ELSE peak
        /\ UNCHANGED <<limits, override, rows, admin, raced, work>>

\* The tenant's rows are counted, inactive ones too, and held against the limit.
Count(r) ==
    LET mine == RowsOf(TenantOf[r], ResourceOf[r])
    IN  /\ create[r].phase = "count"
        /\ create' = [create EXCEPT ![r] =
              IF HasRoom(create[r].limits, ResourceOf[r], Cardinality(mine))
              THEN [@ EXCEPT !.phase = "name", !.counted = mine]
              ELSE [@ EXCEPT !.phase = "over"]]
        /\ UNCHANGED <<limits, override, rows, admin, peak, raced, work>>

\* The rows whose name the new one may not have: a strategy's name is looked up among all
\* tenants' strategies, a channel's among the tenant's own.
SameName(r) ==
    {q \in rows : /\ ResourceOf[q] = ResourceOf[r] /\ TitleOf[q] = TitleOf[r]
                  /\ ResourceOf[r] = "channels" => TenantOf[q] = TenantOf[r]}

\* The type must be a known one and the name free; with the name on two strategies the
\* query itself fails.
CheckName(r) ==
    /\ create[r].phase = "name"
    /\ create' = [create EXCEPT ![r].phase =
                     IF TypeOf[r] \in KnownTypes /\ SameName(r) = {} THEN "insert" ELSE "conflict"]
    /\ UNCHANGED <<limits, override, rows, admin, peak, raced, work>>

\* The unique constraint on (tenant_id, name) decides.
NameIsUnique(r) ==
    ~ \E q \in rows : ResourceOf[q] = ResourceOf[r] /\ TitleOf[q] = TitleOf[r] /\ TenantOf[q] = TenantOf[r]

InsertRow(r) ==
    /\ create[r].phase = "insert"
    /\ IF NameIsUnique(r)
       THEN /\ rows' = rows \union {r}
            /\ raced' = IF RowsOf(TenantOf[r], ResourceOf[r]) \subseteq create[r].counted
                        THEN raced ELSE raced \union {r}
            /\ create' = [create EXCEPT ![r].phase = "created"]
       ELSE /\ create' = [create EXCEPT ![r].phase = "conflict"]
            /\ UNCHANGED <<rows, raced>>
    /\ UNCHANGED <<limits, override, admin, peak, work>>

\* DELETE /channels/{id} deletes the row; DELETE /strategies/{id} only deactivates it, and
\* it counts as before.
DeleteChannel(r) ==
    /\ r \in rows /\ ResourceOf[r] = "channels"
    /\ rows' = rows \ {r}
    /\ raced' = raced \ {r}
    /\ UNCHANGED <<limits, override, create, admin, peak, work>>

CreateStep(r) ==
    \/ Authenticate(r) \/ ReadLimits(r) \/ Count(r) \/ CheckName(r) \/ InsertRow(r)
    \/ DeleteChannel(r)

-----------------------------------------------------------------------------
\* The admin API: one transaction each.

Administer == admin < MaxAdmin /\ admin' = admin + 1

\* PATCH /admin/tenants/{id}/plan; the foreign key refuses a plan that is not there.
ChangeTenantPlan(n, k) ==
    /\ Administer
    /\ tenants[n] # Absent /\ k \in plans
    /\ tenants' = [tenants EXCEPT ![n].plan = k]
    /\ surprises' = [c \in Customers |-> IF c = n THEN surprises[c] \union {"admin"} ELSE surprises[c]]
    /\ UNCHANGED <<plans, provider, sub, events, toDeliver, repeats, hook, applied,
                   limits, override, rows, create, peak, raced, work>>

\* PATCH /admin/plans/{key}
UpdatePlan(k, l) ==
    /\ Administer
    /\ k \in plans
    /\ limits' = [limits EXCEPT ![k] = l]
    /\ UNCHANGED <<plans, tenants, billingVars, override, rows, create, peak, raced, work>>

\* Mutant: a plan in use can be deleted.
PlanIsFreeToGoAlways(k) == k \in plans

\* tenants.plan_key restricts the deletion of a plan a tenant is on.
PlanIsFreeToGo(k) == k \in plans /\ \A n \in Names : tenants[n] # Absent => tenants[n].plan # k

\* DELETE /admin/plans/{key} and POST /admin/plans
DeletePlan(k) ==
    /\ Administer
    /\ PlanIsFreeToGo(k)
    /\ plans' = plans \ {k}
    /\ UNCHANGED <<tenants, billingVars, limits, override, rows, create, peak, raced, work>>

CreatePlan(k, l) ==
    /\ Administer
    /\ k \notin plans
    /\ plans' = plans \union {k}
    /\ limits' = [limits EXCEPT ![k] = l]
    /\ UNCHANGED <<tenants, billingVars, override, rows, create, peak, raced, work>>

\* POST and DELETE /admin/tenants/{id}/override
SetOverride(n, o) ==
    /\ Administer
    /\ tenants[n] # Absent
    /\ override' = [override EXCEPT ![n] = o]
    /\ UNCHANGED <<plans, tenants, billingVars, limits, rows, create, peak, raced, work>>

AdminOfPlans ==
    \/ \E n \in Names, k \in PlanKeys : ChangeTenantPlan(n, k)
    \/ \E k \in PlanKeys : DeletePlan(k) \/ \E l \in EditedLimits : CreatePlan(k, l)

AdminOfLimits ==
    \/ \E k \in PlanKeys, l \in EditedLimits : UpdatePlan(k, l)
    \/ \E n \in Names, o \in Overrides \union {NoOverride} : SetOverride(n, o)

-----------------------------------------------------------------------------

Next ==
    \/ "signups" \in work /\ SignupsNext /\ UNCHANGED <<billingVars, quotaVars>>
    \/ "keys" \in work /\ KeysNext /\ UNCHANGED <<billingVars, quotaVars>>
    \/ provider \in work /\ BillingNext /\ UNCHANGED <<plans, accountVars, quotaVars>>
    \/ (\E r \in Creates \intersect work : CreateStep(r))
          /\ UNCHANGED <<plans, tenants, accountVars, billingVars>>
    \/ "plans" \in work /\ AdminOfPlans /\ UNCHANGED accountVars
    \/ "limits" \in work /\ AdminOfLimits /\ UNCHANGED accountVars

Spec == Init /\ [][Next]_vars

-----------------------------------------------------------------------------

\* A tenant has more rows than any limit it was ever given only by as many as were inserted
\* while others of its requests were under way: requests made one after the other never
\* exceed the plan, whatever happens to the plan between them (and a limit below zero, which
\* the service takes as it comes, allows none).
QuotaExceededOnlyByRaces ==
    \A n \in Names, x \in Resources :
        LET unraced == RowsOf(n, x) \ raced
        IN  peak[n][x] # Unlimited => unraced = {} \/ Cardinality(unraced) <= peak[n][x]

\* Every tenant is on a plan that exists, whoever deletes plans and whatever an event or a
\* registration names: get_effective_limits never finds the plan missing for a tenant as
\* it stands.
PlansOfTenantsExist == \A n \in Names : tenants[n] # Absent => tenants[n].plan \in plans

=============================================================================
