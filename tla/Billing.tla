------------------------------ MODULE Billing ------------------------------
(***************************************************************************)
(* Subscriptions as the payment provider sees them, and the webhook that   *)
(* brings its events to a tenant's row (app/services/billing_service.py,   *)
(* app/api/v1/billing.py).                                                 *)
(*                                                                         *)
(* The provider sends each event at least once, in any order, and again    *)
(* when the webhook fails.  The handler keeps no record of the events it   *)
(* has seen: it changes the row by the event's kind.  Two webhooks may be  *)
(* handled at once, each on the row as it loaded it.                       *)
(***************************************************************************)
EXTENDS Accounts, PaymentAdapters

CONSTANTS
    Workspaces,     \* tenants there from the start
    OwnerOf,        \* [Workspaces -> Emails]
    Customers,      \* those whose provider_customer_id has been set by hand
    Hooks,          \* webhook requests handled at a time
    MaxEvents,      \* bound: events the provider emits
    MaxRepeats      \* bound: deliveries beyond the first

ASSUME BillingAssumption ==
    /\ Workspaces \subseteq Names /\ Customers \subseteq Workspaces
    /\ OwnerOf \in [Workspaces -> Emails]
    /\ \A m, n \in Workspaces : OwnerOf[m] = OwnerOf[n] => m = n
    /\ MaxEvents \in Nat \ {0} /\ MaxRepeats \in Nat
    \* The numbered names go on for ever: enough that one is always free.
    /\ \A s \in Signups :
          Cardinality({NamesOf[s][i] : i \in DOMAIN NamesOf[s]} \ Workspaces) > Cardinality(Signups)

VARIABLES
    provider,       \* the payment provider in the settings
    sub,            \* [Customers -> the subscription at the provider]
    events,         \* the events emitted, in order
    toDeliver,      \* indices of events not yet acknowledged
    repeats,        \* extra deliveries made
    hook,           \* [Hooks -> what the request is doing]
    applied,        \* [Customers -> index of the last event applied]
    surprises       \* [Customers -> what went otherwise than one event after the other]

billingVars == <<provider, sub, events, toDeliver, repeats, hook, applied, surprises>>

Price == PlanKeys \union {Absent}     \* a price stands for the plan it is for

Event == [customer: Customers,
          payload: [name: EventNames \union {UnknownName},
                    items: Price, lines: Price, variant: Price]]

Hook == [phase: {"idle", "write"}, index: Nat, plan: PlanKeys \union {Absent},
         row: TenantRow \union {Absent}]

IdleHook == [phase |-> "idle", index |-> 0, plan |-> Absent, row |-> Absent]

Surprises == {"order", "repeat", "overlap", "price", "admin"}

TypeOKBilling ==
    /\ provider \in PaymentProviders
    /\ sub \in [Customers -> [plan: PlanKeys, status: {"none", "active", "past_due", "cancelled"}]]
    /\ events \in Seq(Event)
    /\ toDeliver \subseteq DOMAIN events
    /\ repeats \in 0..MaxRepeats
    /\ hook \in [Hooks -> Hook]
    /\ applied \in [Customers -> 0..MaxEvents]
    /\ surprises \in [Customers -> SUBSET Surprises]

BillingInit ==
    /\ sub = [c \in Customers |-> [plan |-> "free", status |-> "none"]]
    /\ events = <<>>
    /\ toDeliver = {}
    /\ repeats = 0
    /\ hook = [h \in Hooks |-> IdleHook]
    /\ applied = [c \in Customers |-> 0]
    /\ surprises = [c \in Customers |-> {}]

-----------------------------------------------------------------------------
\* At the provider: what the customer or the bank does, and the event it emits.

\* One event of each of the types, under any of the names the provider has for it.
Emit(c, types, plan, status) ==
    /\ Len(events) + Len(types) <= MaxEvents
    /\ sub' = [sub EXCEPT ![c] = [plan |-> plan, status |-> status]]
    /\ \E names \in [DOMAIN types -> UNION {NamesOfType(provider, types[i]) : i \in DOMAIN types}] :
          /\ \A i \in DOMAIN types : names[i] \in NamesOfType(provider, types[i])
          /\ events' = events \o
                [i \in DOMAIN types |-> [customer |-> c, payload |->
                    Payload(provider, types[i], names[i], plan, Absent)]]
    /\ toDeliver' = toDeliver \union {Len(events) + i : i \in DOMAIN types}
    /\ UNCHANGED <<provider, repeats, hook, applied, surprises>>

\* An event of a kind the service does not know, about a subscription that stays as it is
\* (bound: one, the first).
Notice(c) ==
    /\ events = <<>>
    /\ events' = Append(events, [customer |-> c, payload |->
                    [name |-> UnknownName, items |-> Absent, lines |-> Absent, variant |-> Absent]])
    /\ toDeliver' = toDeliver \union {Len(events) + 1}
    /\ UNCHANGED <<provider, sub, repeats, hook, applied, surprises>>

Subscribe(c, k) ==
    sub[c].status \in {"none", "cancelled"} /\ k # "free" /\ k \in plans
        /\ Emit(c, <<"checkout", "created">>, k, "active")

Goes(c) == sub[c].status \in {"active", "past_due"}

\* An update, to another plan or of anything else; it pays no debt.
SwitchPlan(c, k) ==
    Goes(c) /\ k # "free" /\ k \in plans /\ Emit(c, <<"updated">>, k, sub[c].status)

PaymentFails(c) == Goes(c) /\ Emit(c, <<"failed">>, sub[c].plan, "past_due")

PaymentSucceeds(c) == Goes(c) /\ Emit(c, <<"succeeded">>, sub[c].plan, "active")

Cancel(c) == Goes(c) /\ Emit(c, <<"cancelled">>, "free", "cancelled")

Provider(c) ==
    \/ \E k \in PlanKeys : Subscribe(c, k) \/ SwitchPlan(c, k)
    \/ PaymentFails(c) \/ PaymentSucceeds(c) \/ Cancel(c) \/ Notice(c)

-----------------------------------------------------------------------------
\* POST /billing/webhook/{provider}.

\* Mutant: a cancelled tenant keeps its plan.
ChangesKeepingPlan(type, plan) ==
    CASE type \in {"checkout", "created", "updated"} ->
              IF plan # Absent THEN [status |-> "active", plan |-> plan] ELSE [status |-> "active"]
      [] type = "cancelled" -> [status |-> "cancelled"]
      [] type = "failed"    -> [status |-> "past_due"]
      [] type = "succeeded" -> [status |-> "active"]

\* The attributes an event sets; plan is what the price map makes of the event's price.
Changes(type, plan) ==
    CASE type \in {"checkout", "created", "updated"} ->
              IF plan # Absent THEN [status |-> "active", plan |-> plan] ELSE [status |-> "active"]
      [] type = "cancelled" -> [status |-> "cancelled", plan |-> "free"]
      [] type = "failed"    -> [status |-> "past_due"]
      [] type = "succeeded" -> [status |-> "active"]

\* build_plan_price_map: the plan of a price that is in the table.
PlanOfPrice(plan) == IF plan \in plans THEN plan ELSE Absent

\* The adapter parses the event, and the customer's tenant is loaded.
Receive(h, i) ==
    LET c == events[i].customer
        payload == events[i].payload
        price == PriceFound(provider, payload, Absent)
        plan == PlanOfPrice(price)
    IN  /\ hook[h].phase = "idle"
        /\ i \in toDeliver \/ repeats < MaxRepeats
        /\ i \notin {hook[g].index : g \in Hooks}
        /\ IsHandled(provider, payload)
        /\ hook' = [hook EXCEPT ![h] = [phase |-> "write", index |-> i, plan |-> plan,
                                        row |-> tenants[c]]]
        /\ repeats' = IF i \in toDeliver THEN repeats ELSE repeats + 1
        /\ surprises' = [surprises EXCEPT ![c] = @ \union
              {x \in Surprises : \/ x = "order" /\ \E j \in toDeliver : j < i /\ events[j].customer = c
                                 \/ x = "repeat" /\ i <= applied[c]
                                 \/ x = "overlap" /\ \E g \in Hooks : hook[g].phase = "write"
                                 \/ x = "price" /\ plan # price}]
        /\ UNCHANGED <<provider, sub, events, toDeliver, applied>>

\* parse_webhook returns None: the event is acknowledged and ignored.
Ignore(i) ==
    /\ i \in toDeliver
    /\ ~IsHandled(provider, events[i].payload)
    /\ toDeliver' = toDeliver \ {i}
    /\ UNCHANGED <<provider, sub, events, repeats, hook, applied, surprises>>

\* The row with the changes over it: an attribute is written if it differs from the row as
\* it was loaded.
Written(row, loaded, changes) ==
    [a \in DOMAIN row |-> IF a \in DOMAIN changes /\ changes[a] # loaded[a] THEN changes[a] ELSE row[a]]

\* The changes are written and the request commits; if the plan they name is not there the
\* request fails, and the provider will send the event again.
Apply(h) ==
    LET event == events[hook[h].index]
        c == event.customer
        row == Written(tenants[c], hook[h].row, Changes(TypeOfEvent(provider, event.payload), hook[h].plan))
    IN  /\ hook[h].phase = "write"
        /\ IF row.plan \in plans
           THEN /\ tenants' = [tenants EXCEPT ![c] = row]
                /\ toDeliver' = toDeliver \ {hook[h].index}
                /\ applied' = [applied EXCEPT ![c] = hook[h].index]
           ELSE UNCHANGED <<tenants, toDeliver, applied>>
        /\ hook' = [hook EXCEPT ![h] = IdleHook]
        /\ UNCHANGED <<provider, sub, events, repeats, surprises>>

Webhook(h) == (\E i \in DOMAIN events : (Receive(h, i) \/ Ignore(i)) /\ UNCHANGED tenants) \/ Apply(h)

BillingNext ==
    \/ (\E c \in Customers : Provider(c)) /\ UNCHANGED tenants
    \/ \E h \in Hooks : Webhook(h)

-----------------------------------------------------------------------------

\* The last of the customer's events that the service knows is an update.
UpdatedLast(c) ==
    LET Known(i) == events[i].customer = c /\ IsHandled(provider, events[i].payload)
    IN  \E i \in DOMAIN events : /\ Known(i) /\ TypeOfEvent(provider, events[i].payload) = "updated"
                              /\ \A j \in DOMAIN events : Known(j) => j <= i

\* Events that arrive one after the other, each once and in order, leave a tenant with the
\* plan its subscription has at the provider, and with the subscription's status but for an
\* update of one whose payment is due: handle_event takes every update for an active
\* subscription (billing_service.py:62-66), and the tenant is active until the next event.
\* With a late, repeated or overlapping event they need not.
InOrderEventsGiveProviderPlan ==
    \A c \in Customers :
        (/\ surprises[c] = {}
         /\ sub[c].status # "none"
         /\ \A i \in toDeliver : events[i].customer # c)
            => tenants[c] = [sub[c] EXCEPT !.status =
                                IF @ = "past_due" /\ UpdatedLast(c) THEN "active" ELSE @]

=============================================================================
