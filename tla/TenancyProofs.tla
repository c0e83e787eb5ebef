--------------------------- MODULE TenancyProofs ---------------------------
(***************************************************************************)
(* Theorems about Tenancy and the modules it is made of.                   *)
(***************************************************************************)
EXTENDS Tenancy, FiniteSetTheorems, SequenceTheorems, TLAPS

-----------------------------------------------------------------------------
\* The providers' tables.

\* Every adapter's table gives a name of an event one type, which the service knows.
LEMMA TablesAreFunctions ==
    ASSUME NEW p \in PaymentProviders, NEW e \in EventMap[p]
    PROVE  /\ e[1] \in EventNames /\ e[2] \in EventTypes /\ e[1] # UnknownName
           /\ \A d \in EventMap[p] : d[1] = e[1] => d = e
<1>1. PaymentProviders = {"stripe", "paddle", "lemonsqueezy"}
  BY DEF PaymentProviders, EventMap
<1>2. e[1] \in EventNames
  BY DEF EventNames
<1>3. CASE p = "stripe"
  <2>1. e \in StripeEvents /\ EventMap[p] = StripeEvents
    BY <1>3 DEF EventMap
  <2> QED
    BY <1>2, <2>1 DEF StripeEvents, EventTypes, UnknownName
<1>4. CASE p = "paddle"
  <2>1. e \in PaddleEvents /\ EventMap[p] = PaddleEvents
    BY <1>4 DEF EventMap
  <2> QED
    BY <1>2, <2>1 DEF PaddleEvents, EventTypes, UnknownName
<1>5. CASE p = "lemonsqueezy"
  <2>1. e \in LemonSqueezyEvents /\ EventMap[p] = LemonSqueezyEvents
    BY <1>5 DEF EventMap
  <2> QED
    BY <1>2, <2>1 DEF LemonSqueezyEvents, EventTypes, UnknownName
<1> QED
  BY <1>1, <1>3, <1>4, <1>5

\* An event is of one of the known types, and of the type it was sent as.
LEMMA TypesOfEvents ==
    ASSUME NEW p \in PaymentProviders, NEW payload
    PROVE  /\ IsHandled(p, payload) => TypeOfEvent(p, payload) \in EventTypes
           /\ \A type : payload.name \in NamesOfType(p, type)
                 => /\ IsHandled(p, payload) /\ TypeOfEvent(p, payload) = type
                    /\ payload.name \in EventNames
           /\ payload.name = UnknownName => ~IsHandled(p, payload)
<1>1. \A e \in EventMap[p] : /\ e[1] \in EventNames /\ e[2] \in EventTypes /\ e[1] # UnknownName
                             /\ \A d \in EventMap[p] : d[1] = e[1] => d = e
  BY TablesAreFunctions
<1>2. ASSUME IsHandled(p, payload)
      PROVE  \E e \in EventMap[p] : e[1] = payload.name /\ TypeOfEvent(p, payload) = e[2]
  BY <1>2 DEF IsHandled, TypeOfEvent
<1>3. ASSUME NEW type, payload.name \in NamesOfType(p, type)
      PROVE  \E e \in EventMap[p] : e[1] = payload.name /\ e[2] = type
  BY <1>3 DEF NamesOfType
<1> QED
  BY <1>1, <1>2, <1>3 DEF IsHandled

\* Where the price is: the adapter finds the one the provider put there, but none in a
\* checkout of Stripe or Lemon Squeezy.
LEMMA PricesAreFound ==
    ASSUME NEW p \in PaymentProviders, NEW type \in EventTypes, NEW name, NEW price, NEW none
    PROVE  PriceFound(p, Payload(p, type, name, price, none), none) =
               IF type = "checkout" /\ p # "paddle" THEN none ELSE price
<1>1. PaymentProviders = {"stripe", "paddle", "lemonsqueezy"}
  BY DEF PaymentProviders, EventMap
<1>2. CASE p = "stripe"
  BY <1>2 DEF PriceFound, StripePrice, Payload, EventTypes
<1>3. CASE p = "paddle"
  BY <1>3 DEF PriceFound, PaddlePrice, Payload, EventTypes
<1>4. CASE p = "lemonsqueezy"
  BY <1>4 DEF PriceFound, LemonSqueezyPrice, Payload, EventTypes
<1> QED
  BY <1>1, <1>2, <1>3, <1>4

-----------------------------------------------------------------------------
\* Who changes what: every step of Next seen from each of the three parts of the state.

LEMMA AccountSteps ==
    ASSUME [Next]_vars
    PROVE  \/ UNCHANGED <<plans, tenants, accountVars>>
           \/ \E s \in Signups : CheckEmail(s) \/ TryName(s) \/ Insert(s)
           \/ \E o \in KeyOps : LoadKey(o) \/ WriteKey(o)
           \/ (\E h \in Hooks : Apply(h)) /\ UNCHANGED <<plans, accountVars>>
           \/ (\E n \in Names, k \in PlanKeys : ChangeTenantPlan(n, k)) /\ UNCHANGED accountVars
           \/ /\ \E k \in PlanKeys : DeletePlan(k) \/ \E l \in EditedLimits : CreatePlan(k, l)
              /\ UNCHANGED accountVars
<1>1. CASE UNCHANGED vars
  BY <1>1 DEF vars
<1>2. CASE SignupsNext \/ KeysNext
  BY <1>2 DEF SignupsNext, KeysNext, Register
<1>3. CASE BillingNext /\ UNCHANGED <<plans, accountVars>>
  BY <1>3 DEF BillingNext, Webhook
<1>4. CASE AdminOfPlans /\ UNCHANGED accountVars
  BY <1>4 DEF AdminOfPlans
<1>5. CASE AdminOfLimits /\ UNCHANGED accountVars
  BY <1>5 DEF AdminOfLimits, UpdatePlan, SetOverride
<1>6. CASE UNCHANGED <<plans, tenants, accountVars>>
  BY <1>6
<1> QED
  BY <1>1, <1>2, <1>3, <1>4, <1>5, <1>6 DEF Next

LEMMA BillingSteps ==
    ASSUME [Next]_vars
    PROVE  \/ UNCHANGED billingVars
           \/ (\E c \in Customers : Provider(c)) /\ UNCHANGED tenants
           \/ /\ \E h \in Hooks : \E i \in DOMAIN events : Receive(h, i) \/ Ignore(i)
              /\ UNCHANGED tenants
           \/ \E h \in Hooks : Apply(h)
           \/ \E n \in Names, k \in PlanKeys : ChangeTenantPlan(n, k)
<1>1. CASE UNCHANGED vars
  BY <1>1 DEF vars
<1>2. CASE BillingNext
  BY <1>2 DEF BillingNext, Webhook
<1>3. CASE AdminOfPlans
  BY <1>3 DEF AdminOfPlans, DeletePlan, CreatePlan
<1>4. CASE AdminOfLimits
  BY <1>4 DEF AdminOfLimits, UpdatePlan, SetOverride
<1>5. CASE UNCHANGED billingVars
  BY <1>5
<1> QED
  BY <1>1, <1>2, <1>3, <1>4, <1>5 DEF Next

LEMMA QuotaSteps ==
    ASSUME [Next]_vars
    PROVE  \/ UNCHANGED quotaVars
           \/ \E r \in Creates : CreateStep(r)
           \/ /\ Administer
              /\ \/ \E n \in Names, k \in PlanKeys : ChangeTenantPlan(n, k)
                 \/ \E k \in PlanKeys : DeletePlan(k)
                 \/ \E k \in PlanKeys, l \in EditedLimits : CreatePlan(k, l) \/ UpdatePlan(k, l)
                 \/ \E n \in Names, o \in Overrides \union {NoOverride} : SetOverride(n, o)
<1>1. CASE UNCHANGED vars
  BY <1>1 DEF vars
<1>2. CASE AdminOfPlans
  BY <1>2 DEF AdminOfPlans, DeletePlan, CreatePlan, ChangeTenantPlan
<1>3. CASE AdminOfLimits
  BY <1>3 DEF AdminOfLimits, UpdatePlan, SetOverride
<1>4. CASE UNCHANGED quotaVars
  BY <1>4
<1>5. CASE \E r \in Creates : CreateStep(r)
  BY <1>5
<1> QED
  BY <1>1, <1>2, <1>3, <1>4, <1>5 DEF Next

-----------------------------------------------------------------------------
\* Type correctness.

\* The names a registration has found taken are taken, by tenants there from the start or by
\* registrations that have ended; so it never runs out of names.
NamesAreLeft ==
    /\ \A s \in Signups : signup[s].tries \in DOMAIN NamesOf[s]
    /\ \A s \in Signups : \A i \in DOMAIN NamesOf[s] :
          i < signup[s].tries => tenants[NamesOf[s][i]] # Absent
    /\ \A n \in Names \ Workspaces : tenants[n] # Absent
          => \E s \in Signups : signup[s].phase = "registered" /\ n = Candidate(s)

WorkspacesStand == \A n \in Workspaces : tenants[n] # Absent

\* A webhook about to write holds an event the adapter knows, and the customer's row.
HooksHoldEvents ==
    /\ Len(events) <= MaxEvents
    /\ \A h \in Hooks : hook[h].phase = "write"
          => /\ hook[h].index \in DOMAIN events
             /\ IsHandled(provider, events[hook[h].index].payload)
             /\ hook[h].row \in TenantRow

\* A creating request has read what the phase it is in builds on.
CreatesHaveRead ==
    \A r \in Creates : /\ create[r].phase = "limits" => create[r].plan \in PlanKeys
                       /\ create[r].phase \in {"count", "name", "insert"} => create[r].limits \in AllLimits

Typed == TypeOK /\ NamesAreLeft /\ WorkspacesStand /\ HooksHoldEvents /\ CreatesHaveRead

\* When the name a registration tries is taken there is another to try.
LEMMA ANameIsLeft ==
    ASSUME TypeOKAccounts, NamesAreLeft, NEW s \in Signups, tenants[Candidate(s)] # Absent
    PROVE  signup[s].tries + 1 \in DOMAIN NamesOf[s]
<1> DEFINE Named == {NamesOf[s][i] : i \in DOMAIN NamesOf[s]}
           F == [t \in Signups |-> Candidate(t)]
           Tried == {F[t] : t \in Signups}
<1>1. NamesOf[s] \in Seq(Names) /\ signup[s].tries \in 1..Len(NamesOf[s])
  BY AccountsAssumption DEF NamesAreLeft
<1>2. SUFFICES ASSUME signup[s].tries = Len(NamesOf[s])
               PROVE  FALSE
  BY <1>1
<1>3. \A n \in Named : n \in Names /\ tenants[n] # Absent
  <2>1. SUFFICES ASSUME NEW i \in DOMAIN NamesOf[s]
                 PROVE  NamesOf[s][i] \in Names /\ tenants[NamesOf[s][i]] # Absent
    OBVIOUS
  <2>2. NamesOf[s][i] \in Names /\ i \in 1..Len(NamesOf[s])
    BY <1>1
  <2>3. i < signup[s].tries => tenants[NamesOf[s][i]] # Absent
    BY DEF NamesAreLeft
  <2> QED
    BY <2>2, <2>3, <1>2 DEF Candidate
<1>4. Named \ Workspaces \in SUBSET Tried
  BY <1>3 DEF NamesAreLeft
<1>5. F \in Surjection(Signups, Tried)
  BY DEF Surjection
<1>6. IsFiniteSet(Signups) /\ IsFiniteSet(Tried) /\ Cardinality(Tried) <= Cardinality(Signups)
  BY <1>5, FS_Surjection, AccountsAssumption
<1>7. Cardinality(Named \ Workspaces) <= Cardinality(Tried) /\ IsFiniteSet(Named \ Workspaces)
  BY <1>4, <1>6, FS_Subset
<1>8. /\ Cardinality(Named \ Workspaces) \in Nat /\ Cardinality(Tried) \in Nat
      /\ Cardinality(Signups) \in Nat
  BY <1>6, <1>7, FS_CardinalityType
<1> QED
  BY <1>6, <1>7, <1>8, BillingAssumption

\* The first name is one.
LEMMA FirstName ==
    ASSUME NEW s \in Signups
    PROVE  1 \in DOMAIN NamesOf[s]
<1> DEFINE Named == {NamesOf[s][i] : i \in DOMAIN NamesOf[s]} \ Workspaces
<1>1. NamesOf[s] \in Seq(Names) /\ Cardinality(Named) > Cardinality(Signups)
  BY AccountsAssumption, BillingAssumption
<1>2. Cardinality(Signups) \in Nat
  BY AccountsAssumption, FS_CardinalityType
<1>3. SUFFICES ASSUME NamesOf[s] = <<>> PROVE FALSE
  BY <1>1
<1>4. Named = {}
  BY <1>3
<1> HIDE DEF Named
<1>5. Cardinality(Named) = 0
  BY <1>4, FS_EmptySet
<1> QED
  BY <1>1, <1>2, <1>5

-----------------------------------------------------------------------------
\* What an event makes of a row.

LEMMA ChangesAreTyped ==
    ASSUME NEW type \in EventTypes, NEW plan \in PlanKeys \union {Absent}, NEW a \in DOMAIN Changes(type, plan)
    PROVE  /\ a \in {"plan", "status"}
           /\ a = "plan" => Changes(type, plan)[a] \in PlanKeys
           /\ a = "status" => Changes(type, plan)[a] \in {"active", "past_due", "cancelled"}
<1>1. CASE type \in {"checkout", "created", "updated"}
  BY <1>1 DEF Changes
<1>2. CASE type = "cancelled"
  BY <1>2, AccountsAssumption DEF Changes
<1>3. CASE type = "failed"
  BY <1>3 DEF Changes
<1>4. CASE type = "succeeded"
  BY <1>4 DEF Changes
<1> QED
  BY <1>1, <1>2, <1>3, <1>4 DEF EventTypes

\* A row written over is a row.
LEMMA WrittenIsRow ==
    ASSUME NEW row \in TenantRow, NEW loaded, NEW type \in EventTypes,
           NEW plan \in PlanKeys \union {Absent}
    PROVE  Written(row, loaded, Changes(type, plan)) \in TenantRow
<1> DEFINE C == Changes(type, plan)
           W == Written(row, loaded, C)
<1>1. \A a \in DOMAIN C : /\ a = "plan" => C[a] \in PlanKeys
                          /\ a = "status" => C[a] \in {"active", "past_due", "cancelled"}
  BY ChangesAreTyped
<1> HIDE DEF C
<1>2. /\ DOMAIN row = {"plan", "status"} /\ row["plan"] \in PlanKeys
      /\ row["status"] \in {"active", "past_due", "cancelled"}
  BY DEF TenantRow
<1>3. W = [a \in {"plan", "status"} |-> IF a \in DOMAIN C /\ C[a] # loaded[a] THEN C[a] ELSE row[a]]
  BY <1>2 DEF Written
<1>4. W["plan"] \in PlanKeys /\ W["status"] \in {"active", "past_due", "cancelled"}
  BY <1>1, <1>2, <1>3
<1>5. W = [plan |-> W["plan"], status |-> W["status"]]
  BY <1>3
<1> QED
  BY <1>4, <1>5 DEF TenantRow, C

\* What a webhook that commits writes is a row.
LEMMA AppliedIsRow ==
    ASSUME Typed, NEW h \in Hooks, hook[h].phase = "write",
           NEW c \in Customers, c = events[hook[h].index].customer
    PROVE  /\ tenants[c] \in TenantRow
           /\ Written(tenants[c], hook[h].row,
                      Changes(TypeOfEvent(provider, events[hook[h].index].payload), hook[h].plan)) \in TenantRow
<1>1. tenants[c] \in TenantRow
  BY BillingAssumption DEF Typed, TypeOK, TypeOKAccounts, WorkspacesStand
<1>2. hook[h].plan \in PlanKeys \union {Absent}
  BY DEF Typed, TypeOK, TypeOKBilling, Hook
<1>3. TypeOfEvent(provider, events[hook[h].index].payload) \in EventTypes
  BY TypesOfEvents DEF Typed, TypeOK, TypeOKBilling, HooksHoldEvents
<1> QED
  BY <1>1, <1>2, <1>3, WrittenIsRow

\* Its event is of a customer.
LEMMA EventsAreOfCustomers ==
    ASSUME TypeOKBilling, NEW i \in DOMAIN events
    PROVE  events[i].customer \in Customers
<1>1. events[i] \in Event
  BY DEF TypeOKBilling
<1> QED
  BY <1>1 DEF Event

-----------------------------------------------------------------------------
\* A tenant that exists stays.

LEMMA TenantsStay ==
    ASSUME Typed, [Next]_vars
    PROVE  \A n \in Names : tenants[n] # Absent => tenants'[n] # Absent
<1> USE AbsentIsNoRow DEF Typed, TypeOK, TypeOKAccounts
<1>1. CASE UNCHANGED tenants
  BY <1>1
<1>2. ASSUME NEW s \in Signups, Insert(s)
      PROVE  \A n \in Names : tenants[n] # Absent => tenants'[n] # Absent
  BY <1>2 DEF Insert, MayInsert
<1>3. ASSUME NEW h \in Hooks, Apply(h)
      PROVE  \A n \in Names : tenants[n] # Absent => tenants'[n] # Absent
  <2>1. PICK c \in Customers : c = events[hook[h].index].customer
    BY <1>3, EventsAreOfCustomers DEF Apply, HooksHoldEvents
  <2>2. UNCHANGED tenants \/ \E row \in TenantRow : tenants' = [tenants EXCEPT ![c] = row]
    BY <1>3, <2>1, AppliedIsRow DEF Apply
  <2> QED
    BY <2>2
<1>4. ASSUME NEW n \in Names, NEW k \in PlanKeys, ChangeTenantPlan(n, k)
      PROVE  \A m \in Names : tenants[m] # Absent => tenants'[m] # Absent
  <2>1. tenants[n] \in TenantRow /\ tenants' = [tenants EXCEPT ![n].plan = k]
    BY <1>4 DEF ChangeTenantPlan
  <2>2. [tenants[n] EXCEPT !.plan = k] \in TenantRow
    BY <2>1 DEF TenantRow
  <2> QED
    BY <2>1, <2>2
<1>5. CASE \E s \in Signups : CheckEmail(s) \/ TryName(s) \/ Insert(s)
  BY <1>1, <1>2, <1>5 DEF CheckEmail, TryName
<1>6. CASE \E o \in KeyOps : LoadKey(o) \/ WriteKey(o)
  BY <1>1, <1>6 DEF LoadKey, WriteKey
<1>7. CASE \E k \in PlanKeys : DeletePlan(k) \/ \E l \in EditedLimits : CreatePlan(k, l)
  BY <1>1, <1>7 DEF DeletePlan, CreatePlan
<1> QED
  BY <1>1, <1>3, <1>4, <1>5, <1>6, <1>7, AccountSteps

-----------------------------------------------------------------------------
\* Each part of the type invariant is kept.

LEMMA AccountTypesKept ==
    ASSUME Typed, [Next]_vars
    PROVE  TypeOKAccounts'
<1> USE DEF Typed, TypeOK, TypeOKAccounts
<1>1. CASE UNCHANGED <<plans, tenants, accountVars>>
  BY <1>1 DEF accountVars
<1>2. ASSUME NEW s \in Signups, CheckEmail(s)
      PROVE  TypeOKAccounts'
  BY <1>2 DEF CheckEmail, SignupPhase
<1>3. ASSUME NEW s \in Signups, TryName(s)
      PROVE  TypeOKAccounts'
  BY <1>3 DEF TryName, SignupPhase
<1>4. ASSUME NEW s \in Signups, Insert(s)
      PROVE  TypeOKAccounts'
  <2>1. Candidate(s) \in Names
    BY AccountsAssumption DEF Candidate, NamesAreLeft
  <2>2. NewTenant \in TenantRow
    BY AccountsAssumption DEF NewTenant, TenantRow
  <2>3. tenants' \in [Names -> TenantRow \union {Absent}] /\ users' \in [Emails -> Names \union {Absent}]
    BY <1>4, <2>1, <2>2 DEF Insert
  <2>4. signup' \in [Signups -> [phase: SignupPhase, tries: Nat \ {0}]]
    BY <1>4 DEF Insert, SignupPhase
  <2> QED
    BY <1>4, <2>3, <2>4 DEF Insert
<1>5. ASSUME NEW o \in KeyOps, LoadKey(o)
      PROVE  TypeOKAccounts'
  <2>1. keys[o[2]] \in KeyRow
    BY AccountsAssumption
  <2>2. keyOp' \in [KeyOps -> [phase: {"load", "write", "done"}, row: KeyRow]]
    BY <1>5, <2>1 DEF LoadKey
  <2> QED
    BY <1>5, <2>2 DEF LoadKey
<1>6. ASSUME NEW o \in KeyOps, WriteKey(o)
      PROVE  TypeOKAccounts'
  <2>1. o[2] \in Keys /\ keys[o[2]] \in KeyRow /\ o[3] \in Nat
    BY AccountsAssumption
  <2>2. WrittenKey(o, keys[o[2]], keyOp[o].row) \in KeyRow
    BY <2>1 DEF WrittenKey, KeyRow, NewSecret
  <2>3. keys' \in [Keys -> KeyRow]
    BY <1>6, <2>1, <2>2 DEF WriteKey
  <2>4. keyOp' \in [KeyOps -> [phase: {"load", "write", "done"}, row: KeyRow]]
    BY <1>6 DEF WriteKey
  <2> QED
    BY <1>6, <2>3, <2>4 DEF WriteKey
<1>7. ASSUME NEW h \in Hooks, Apply(h), UNCHANGED <<plans, accountVars>>
      PROVE  TypeOKAccounts'
  <2>1. PICK c \in Customers : c = events[hook[h].index].customer
    BY <1>7, EventsAreOfCustomers DEF Apply, HooksHoldEvents
  <2>2. UNCHANGED tenants \/ \E row \in TenantRow : tenants' = [tenants EXCEPT ![c] = row]
    BY <1>7, <2>1, AppliedIsRow DEF Apply
  <2> QED
    BY <1>7, <2>2 DEF accountVars
<1>8. ASSUME NEW n \in Names, NEW k \in PlanKeys, ChangeTenantPlan(n, k), UNCHANGED accountVars
      PROVE  TypeOKAccounts'
  <2>1. tenants[n] \in TenantRow /\ tenants' = [tenants EXCEPT ![n].plan = k]
    BY <1>8 DEF ChangeTenantPlan
  <2>2. [tenants[n] EXCEPT !.plan = k] \in TenantRow
    BY <2>1 DEF TenantRow
  <2> QED
    BY <1>8, <2>1, <2>2 DEF ChangeTenantPlan, accountVars
<1>9. ASSUME NEW k \in PlanKeys, DeletePlan(k) \/ \E l \in EditedLimits : CreatePlan(k, l),
             UNCHANGED accountVars
      PROVE  TypeOKAccounts'
  BY <1>9 DEF DeletePlan, CreatePlan, accountVars
<1> QED
  BY <1>1, <1>2, <1>3, <1>4, <1>5, <1>6, <1>7, <1>8, <1>9, AccountSteps

LEMMA NamesKept ==
    ASSUME Typed, [Next]_vars
    PROVE  NamesAreLeft' /\ WorkspacesStand'
<1>0. \A n \in Names : tenants[n] # Absent => tenants'[n] # Absent
  BY TenantsStay
<1> USE DEF Typed, TypeOK
<1>1. WorkspacesStand'
  BY <1>0, BillingAssumption DEF WorkspacesStand
<1>2. \A s \in Signups : NamesOf[s] \in Seq(Names) /\ \A i \in DOMAIN NamesOf[s] : NamesOf[s][i] \in Names
  BY AccountsAssumption
<1>3. ASSUME UNCHANGED signup,
             \A n \in Names \ Workspaces : tenants[n] = Absent => tenants'[n] = Absent
      PROVE  NamesAreLeft'
  <2>1. \A s \in Signups : Candidate(s)' = Candidate(s)
    BY <1>3 DEF Candidate
  <2> QED
    BY <2>1, <1>0, <1>2, <1>3 DEF NamesAreLeft, Candidate
<1>4. CASE UNCHANGED <<plans, tenants, accountVars>>
  BY <1>1, <1>3, <1>4 DEF accountVars
<1>5. ASSUME NEW s \in Signups, CheckEmail(s)
      PROVE  NamesAreLeft'
  <2>1. \A t \in Signups : signup'[t].tries = signup[t].tries
                           /\ (signup[t].phase = "registered" => signup'[t].phase = "registered")
    BY <1>5 DEF CheckEmail, TypeOKAccounts
  <2> QED
    BY <1>5, <2>1 DEF CheckEmail, NamesAreLeft, Candidate
<1>6. ASSUME NEW s \in Signups, TryName(s)
      PROVE  NamesAreLeft'
  <2>1. UNCHANGED tenants
    BY <1>6 DEF TryName
  <2>2. \A t \in Signups : signup[t].phase = "registered" => signup'[t] = signup[t]
    BY <1>6 DEF TryName, TypeOKAccounts
  <2>3. \A t \in Signups \ {s} : signup'[t] = signup[t]
    BY <1>6 DEF TryName, TypeOKAccounts
  <2>4. CASE tenants[Candidate(s)] # Absent
    <3>1. signup'[s].tries = signup[s].tries + 1 /\ signup[s].tries \in Nat
      BY <1>6, <2>4 DEF TryName, TypeOKAccounts
    <3>2. signup'[s].tries \in DOMAIN NamesOf[s]
      BY <2>4, <3>1, ANameIsLeft
    <3>3. ASSUME NEW i \in DOMAIN NamesOf[s], i < signup'[s].tries
          PROVE  tenants[NamesOf[s][i]] # Absent
      <4>1. i \in Nat
        BY <1>2
      <4>2. i < signup[s].tries \/ i = signup[s].tries
        BY <3>1, <3>3, <4>1
      <4> QED
        BY <2>4, <4>2 DEF NamesAreLeft, Candidate
    <3> QED
      BY <2>1, <2>2, <2>3, <3>2, <3>3 DEF NamesAreLeft, Candidate
  <2>5. CASE tenants[Candidate(s)] = Absent
    <3>1. signup'[s].tries = signup[s].tries
      BY <1>6, <2>5 DEF TryName, TypeOKAccounts
    <3> QED
      BY <2>1, <2>2, <2>3, <3>1 DEF NamesAreLeft, Candidate
  <2> QED
    BY <2>4, <2>5
<1>7. ASSUME NEW s \in Signups, Insert(s)
      PROVE  NamesAreLeft'
  <2>1. \A t \in Signups : signup'[t].tries = signup[t].tries
                           /\ (signup[t].phase = "registered" => signup'[t].phase = "registered")
    BY <1>7 DEF Insert, TypeOKAccounts
  <2>2. \A n \in Names : tenants[n] = Absent /\ tenants'[n] # Absent
                            => n = Candidate(s) /\ signup'[s].phase = "registered"
    BY <1>7 DEF Insert, TypeOKAccounts
  <2>3. \A t \in Signups : Candidate(t)' = Candidate(t)
    BY <2>1 DEF Candidate
  <2> QED
    BY <1>0, <1>2, <2>3, <2>1, <2>2 DEF NamesAreLeft, Candidate
<1>8. CASE \E o \in KeyOps : LoadKey(o) \/ WriteKey(o)
  BY <1>1, <1>3, <1>8 DEF LoadKey, WriteKey
<1>9. ASSUME NEW h \in Hooks, Apply(h), UNCHANGED accountVars
      PROVE  NamesAreLeft'
  <2>1. events[hook[h].index].customer \in Workspaces
    BY <1>9, EventsAreOfCustomers, BillingAssumption DEF Apply, HooksHoldEvents
  <2> QED
    BY <1>3, <1>9, <2>1 DEF Apply, TypeOKAccounts, accountVars
<1>10. ASSUME NEW n \in Names, NEW k \in PlanKeys, ChangeTenantPlan(n, k), UNCHANGED accountVars
       PROVE  NamesAreLeft'
  BY <1>3, <1>10 DEF ChangeTenantPlan, TypeOKAccounts, accountVars
<1>11. ASSUME NEW k \in PlanKeys, DeletePlan(k) \/ \E l \in EditedLimits : CreatePlan(k, l),
              UNCHANGED accountVars
       PROVE  NamesAreLeft'
  BY <1>3, <1>11 DEF DeletePlan, CreatePlan, accountVars
<1> QED
  BY <1>1, <1>4, <1>5, <1>6, <1>7, <1>8, <1>9, <1>10, <1>11, AccountSteps

-----------------------------------------------------------------------------
\* What the provider does: one or two events about a customer, at the end, each of a type
\* the adapters know and with the price where it can be found; or a notice.

\* The event at i is of a type, and names a plan.
IsEvent(i, c, type, plan) ==
    /\ events[i].customer = c
    /\ IsHandled(provider, events[i].payload)
    /\ TypeOfEvent(provider, events[i].payload) = type
    /\ PriceFound(provider, events[i].payload, Absent) =
           IF type = "checkout" /\ provider # "paddle" THEN Absent ELSE plan

LEMMA EventsEmitted ==
    ASSUME TypeOKBilling, NEW c \in Customers, NEW types \in Seq(EventTypes), NEW plan \in PlanKeys,
           NEW status \in {"active", "past_due", "cancelled"}, Emit(c, types, plan, status)
    PROVE  /\ events' \in Seq(Event) /\ Len(events') = Len(events) + Len(types)
           /\ Len(events') <= MaxEvents
           /\ \A i \in DOMAIN events : events'[i] = events[i]
           /\ \A i \in 1..Len(types) : \A j : j = Len(events) + i => IsEvent(j, c, types[i], plan)'
           /\ toDeliver' = toDeliver \union {Len(events) + i : i \in 1..Len(types)}
           /\ sub' = [sub EXCEPT ![c] = [plan |-> plan, status |-> status]]
           /\ UNCHANGED <<provider, repeats, hook, applied, surprises>>
<1> DEFINE N == UNION {NamesOfType(provider, types[i]) : i \in DOMAIN types}
           Sent(names) == [i \in DOMAIN types |-> [customer |-> c, payload |->
                              Payload(provider, types[i], names[i], plan, Absent)]]
<1>1. events \in Seq(Event) /\ provider \in PaymentProviders
  BY DEF TypeOKBilling
<1>2. PICK names \in [DOMAIN types -> N] :
         /\ \A i \in DOMAIN types : names[i] \in NamesOfType(provider, types[i])
         /\ events' = events \o Sent(names)
  BY DEF Emit
<1>3. UNCHANGED <<provider, repeats, hook, applied, surprises>>
  BY DEF Emit
<1>4. DOMAIN types = 1..Len(types) /\ Len(types) \in Nat
  OBVIOUS
<1>5. ASSUME NEW i \in DOMAIN types
      PROVE  /\ Sent(names)[i] \in Event
             /\ Sent(names)[i].customer = c
             /\ IsHandled(provider, Sent(names)[i].payload)
             /\ TypeOfEvent(provider, Sent(names)[i].payload) = types[i]
             /\ PriceFound(provider, Sent(names)[i].payload, Absent) =
                   IF types[i] = "checkout" /\ provider # "paddle" THEN Absent ELSE plan
  <2> DEFINE payload == Payload(provider, types[i], names[i], plan, Absent)
  <2>1. Sent(names)[i] = [customer |-> c, payload |-> payload]
    OBVIOUS
  <2>2. payload.name = names[i] /\ names[i] \in NamesOfType(provider, types[i])
    BY <1>2 DEF Payload
  <2>3. /\ IsHandled(provider, payload) /\ TypeOfEvent(provider, payload) = types[i]
        /\ payload.name \in EventNames
    BY <1>1, <2>2, TypesOfEvents
  <2>4. PriceFound(provider, payload, Absent) =
           IF types[i] = "checkout" /\ provider # "paddle" THEN Absent ELSE plan
    BY <1>1, PricesAreFound
  <2>5. payload \in [name: EventNames \union {UnknownName}, items: Price, lines: Price, variant: Price]
    <3>1. \A x \in {"items", "lines", "variant"} : payload[x] \in Price
      BY DEF Payload, Price
    <3>2. payload = [name |-> payload.name, items |-> payload.items, lines |-> payload.lines,
                     variant |-> payload.variant]
      BY DEF Payload
    <3> QED
      BY <2>3, <3>1, <3>2
  <2> HIDE DEF payload
  <2>6. [customer |-> c, payload |-> payload] \in Event
    BY <2>5 DEF Event
  <2> QED
    BY <2>1, <2>3, <2>4, <2>6
<1> DEFINE New == Sent(names)
<1>6. New \in Seq(Event) /\ Len(New) = Len(types)
  <2>1. New \in [1..Len(types) -> Event]
    BY <1>4, <1>5
  <2> QED
    BY <1>4, <2>1
<1>7. events' = events \o New
  BY <1>2
<1>8. \A i \in 1..Len(types) : New[i] = Sent(names)[i]
  OBVIOUS
<1> HIDE DEF New
<1>9. events' \in Seq(Event) /\ Len(events') = Len(events) + Len(types)
  <2>1. /\ events \o New \in Seq(Event)
        /\ Len(events \o New) = Len(events) + Len(New)
    BY <1>1, <1>6, ConcatProperties
  <2> QED
    BY <1>6, <1>7, <2>1
<1>10. \A i \in DOMAIN events : events'[i] = events[i]
  BY <1>1, <1>6, <1>7
<1>11. \A i \in 1..Len(types) : events'[Len(events) + i] = New[i]
  BY <1>1, <1>6, <1>7
<1>12. \A i \in 1..Len(types) : \A j : j = Len(events) + i => IsEvent(j, c, types[i], plan)'
  <2> SUFFICES ASSUME NEW i \in 1..Len(types), NEW j, j = Len(events) + i
               PROVE  IsEvent(j, c, types[i], plan)'
    OBVIOUS
  <2>1. UNCHANGED provider /\ events'[j] = Sent(names)[i]
    BY <1>3, <1>8, <1>11
  <2> HIDE DEF Sent
  <2> QED
    BY <1>4, <1>5, <2>1 DEF IsEvent
<1> QED
  BY <1>3, <1>4, <1>9, <1>10, <1>12 DEF Emit

\* The types of the events of a step of the provider, and what they name.
LEMMA ProviderEmits ==
    ASSUME TypeOKBilling, NEW c \in Customers, Provider(c)
    PROVE  \/ Notice(c)
           \/ \E k \in PlanKeys : sub[c].status \in {"none", "cancelled"}
                                  /\ Emit(c, <<"checkout", "created">>, k, "active")
           \/ \E k \in PlanKeys, status \in {"active", "past_due"} :
                  sub[c].status = status /\ Emit(c, <<"updated">>, k, status)
           \/ Emit(c, <<"failed">>, sub[c].plan, "past_due")
           \/ Emit(c, <<"succeeded">>, sub[c].plan, "active")
           \/ Emit(c, <<"cancelled">>, "free", "cancelled")
BY DEF Provider, Goes, Subscribe, SwitchPlan, PaymentFails, PaymentSucceeds, Cancel

\* A notice is an event no adapter knows.
LEMMA NoticeSent ==
    ASSUME TypeOKBilling, NEW c \in Customers, Notice(c)
    PROVE  /\ events' \in Seq(Event) /\ Len(events) = 0 /\ Len(events') = 1
           /\ ~IsHandled(provider, events'[1].payload)
           /\ toDeliver' = toDeliver \union {1}
           /\ UNCHANGED <<provider, sub, repeats, hook, applied, surprises>>
<1> DEFINE P == [name |-> UnknownName, items |-> Absent, lines |-> Absent, variant |-> Absent]
           N == [customer |-> c, payload |-> P]
<1>1. N \in Event
  BY DEF Event, Price
<1>2. ~IsHandled(provider, N.payload)
  <2>1. N.payload.name = UnknownName
    OBVIOUS
  <2> QED
    BY <2>1, TypesOfEvents DEF TypeOKBilling
<1>3. events = <<>> /\ events' = Append(events, N) /\ toDeliver' = toDeliver \union {Len(events) + 1}
  BY DEF Notice
<1> HIDE DEF N
<1>4. events' \in Seq(Event) /\ Len(events) = 0 /\ Len(events') = 1 /\ events'[1] = N
  BY <1>1, <1>3
<1> QED
  BY <1>2, <1>3, <1>4 DEF Notice

\* After the provider's step there are more events, and nothing else has changed that a
\* webhook looks at.
LEMMA ProviderAppends ==
    ASSUME Typed, NEW c \in Customers, Provider(c)
    PROVE  /\ events' \in Seq(Event) /\ Len(events) <= Len(events') /\ Len(events') <= MaxEvents
           /\ \A i \in DOMAIN events : events'[i] = events[i]
           /\ toDeliver' \subseteq DOMAIN events'
           /\ sub' \in [Customers -> [plan: PlanKeys, status: {"none", "active", "past_due", "cancelled"}]]
           /\ UNCHANGED <<provider, repeats, hook, applied, surprises>>
<1> USE DEF Typed, TypeOK
<1>1. /\ events \in Seq(Event) /\ toDeliver \subseteq 1..Len(events) /\ sub[c].plan \in PlanKeys
      /\ sub \in [Customers -> [plan: PlanKeys, status: {"none", "active", "past_due", "cancelled"}]]
  BY DEF TypeOKBilling
<1>2. CASE Notice(c)
  <2>1. /\ events' \in Seq(Event) /\ Len(events) = 0 /\ Len(events') = 1
        /\ toDeliver' = toDeliver \union {1}
        /\ UNCHANGED <<provider, sub, repeats, hook, applied, surprises>>
    BY <1>2, NoticeSent
  <2>2. DOMAIN events = {} /\ DOMAIN events' = {1}
    BY <1>1, <2>1
  <2> QED
    BY <1>1, <2>1, <2>2, BillingAssumption
<1>3. ASSUME NEW types \in Seq(EventTypes), NEW plan \in PlanKeys,
             NEW status \in {"active", "past_due", "cancelled"}, Emit(c, types, plan, status)
      PROVE  /\ events' \in Seq(Event) /\ Len(events) <= Len(events') /\ Len(events') <= MaxEvents
             /\ \A i \in DOMAIN events : events'[i] = events[i]
             /\ toDeliver' \subseteq DOMAIN events'
             /\ sub' \in [Customers -> [plan: PlanKeys, status: {"none", "active", "past_due", "cancelled"}]]
             /\ UNCHANGED <<provider, repeats, hook, applied, surprises>>
  <2>1. /\ events' \in Seq(Event) /\ Len(events') = Len(events) + Len(types)
        /\ Len(events') <= MaxEvents
        /\ \A i \in DOMAIN events : events'[i] = events[i]
        /\ toDeliver' = toDeliver \union {Len(events) + i : i \in 1..Len(types)}
        /\ sub' = [sub EXCEPT ![c] = [plan |-> plan, status |-> status]]
        /\ UNCHANGED <<provider, repeats, hook, applied, surprises>>
    BY <1>3, EventsEmitted
  <2>2. Len(types) \in Nat /\ Len(events) \in Nat
    BY <1>1
  <2>3. DOMAIN events' = 1..(Len(events) + Len(types))
    BY <2>1
  <2>4. toDeliver' \subseteq DOMAIN events'
    <3>1. \A i \in 1..Len(types) : Len(events) + i \in 1..(Len(events) + Len(types))
      BY <2>2
    <3>2. 1..Len(events) \subseteq 1..(Len(events) + Len(types))
      BY <2>2
    <3>3. {Len(events) + i : i \in 1..Len(types)} \subseteq DOMAIN events'
      BY <2>3, <3>1
    <3>4. toDeliver \subseteq DOMAIN events'
      BY <1>1, <2>3, <3>2
    <3> QED
      BY <2>1, <3>3, <3>4
  <2> QED
    BY <1>1, <2>1, <2>2, <2>4
<1>4. /\ <<"checkout", "created">> \in Seq(EventTypes) /\ <<"updated">> \in Seq(EventTypes)
      /\ <<"failed">> \in Seq(EventTypes) /\ <<"succeeded">> \in Seq(EventTypes)
      /\ <<"cancelled">> \in Seq(EventTypes) /\ "free" \in PlanKeys
  BY AccountsAssumption DEF EventTypes
<1>5. \/ Notice(c)
      \/ \E types \in Seq(EventTypes), plan \in PlanKeys, status \in {"active", "past_due", "cancelled"} :
            Emit(c, types, plan, status)
  BY <1>1, <1>4, ProviderEmits
<1> QED
  BY <1>2, <1>3, <1>5

LEMMA BillingTypesKept ==
    ASSUME Typed, [Next]_vars
    PROVE  TypeOKBilling' /\ HooksHoldEvents'
<1> USE DEF Typed, TypeOK, TypeOKBilling, HooksHoldEvents
<1>0. Len(events) \in Nat /\ MaxEvents \in Nat
  BY BillingAssumption
<1>1. CASE UNCHANGED billingVars
  BY <1>1 DEF billingVars
<1>2. ASSUME NEW c \in Customers, Provider(c)
      PROVE  TypeOKBilling' /\ HooksHoldEvents'
  <2>1. /\ events' \in Seq(Event) /\ Len(events) <= Len(events') /\ Len(events') <= MaxEvents
        /\ \A i \in DOMAIN events : events'[i] = events[i]
        /\ toDeliver' \subseteq DOMAIN events'
        /\ sub' \in [Customers -> [plan: PlanKeys, status: {"none", "active", "past_due", "cancelled"}]]
        /\ UNCHANGED <<provider, repeats, hook, applied, surprises>>
    BY <1>2, ProviderAppends
  <2>2. DOMAIN events \subseteq DOMAIN events'
    BY <1>0, <2>1
  <2> QED
    BY <2>1, <2>2
<1>3. ASSUME NEW h \in Hooks, NEW i \in DOMAIN events, Receive(h, i), UNCHANGED tenants
      PROVE  TypeOKBilling' /\ HooksHoldEvents'
  <2> DEFINE c == events[i].customer
             plan == PlanOfPrice(PriceFound(provider, events[i].payload, Absent))
             row == [phase |-> "write", index |-> i, plan |-> plan, row |-> tenants[c]]
  <2>1. c \in Customers /\ i \in Nat
    BY EventsAreOfCustomers, <1>0
  <2>2. plan \in PlanKeys \union {Absent}
    BY DEF PlanOfPrice, TypeOKAccounts
  <2>3. tenants[c] \in TenantRow
    BY <2>1, BillingAssumption DEF TypeOKAccounts, WorkspacesStand
  <2>4. hook' = [hook EXCEPT ![h] = row] /\ IsHandled(provider, events[i].payload)
    BY <1>3 DEF Receive
  <2>5. row \in Hook
    BY <2>1, <2>2, <2>3 DEF Hook
  <2>6. repeats' \in 0..MaxRepeats
    BY <1>3, BillingAssumption DEF Receive
  <2>7. surprises' \in [Customers -> SUBSET Surprises]
    <3>1. PICK S \in SUBSET Surprises : surprises' = [surprises EXCEPT ![c] = @ \union S]
      BY <1>3 DEF Receive
    <3> QED
      BY <2>1, <3>1
  <2>8. UNCHANGED <<provider, sub, events, toDeliver, applied>>
    BY <1>3 DEF Receive
  <2>9. hook' \in [Hooks -> Hook]
    BY <2>4, <2>5
  <2>10. row.index = i /\ row.row = tenants[c]
    OBVIOUS
  <2> HIDE DEF row, c, plan
  <2> QED
    BY <2>3, <2>4, <2>6, <2>7, <2>8, <2>9, <2>10
<1>4. ASSUME NEW i \in DOMAIN events, Ignore(i)
      PROVE  TypeOKBilling' /\ HooksHoldEvents'
  BY <1>4 DEF Ignore
<1>5. ASSUME NEW h \in Hooks, Apply(h)
      PROVE  TypeOKBilling' /\ HooksHoldEvents'
  <2>1. IdleHook \in Hook /\ IdleHook.phase = "idle"
    BY DEF IdleHook, Hook
  <2>2. hook' = [hook EXCEPT ![h] = IdleHook] /\ UNCHANGED <<provider, sub, events, repeats, surprises>>
    BY <1>5 DEF Apply
  <2>3. hook[h].index \in DOMAIN events /\ events[hook[h].index].customer \in Customers
    BY <1>5, EventsAreOfCustomers DEF Apply
  <2>4. hook[h].index \in 0..MaxEvents
    BY <1>0, <2>3
  <2>5. toDeliver' \subseteq toDeliver /\ applied' \in [Customers -> 0..MaxEvents]
    BY <1>5, <2>3, <2>4 DEF Apply
  <2> QED
    BY <2>1, <2>2, <2>5
<1>6. ASSUME NEW n \in Names, NEW k \in PlanKeys, ChangeTenantPlan(n, k)
      PROVE  TypeOKBilling' /\ HooksHoldEvents'
  <2>1. surprises' \in [Customers -> SUBSET Surprises]
    BY <1>6 DEF ChangeTenantPlan, Surprises
  <2> QED
    BY <1>6, <2>1 DEF ChangeTenantPlan
<1> QED
  BY <1>1, <1>2, <1>3, <1>4, <1>5, <1>6, BillingSteps

-----------------------------------------------------------------------------
\* Limits.

\* A limit that can be computed is a number.
LEMMA LimitsAreNumbers ==
    ASSUME NEW l \in AllLimits, NEW x \in Resources
    PROVE  l[x] \in Int
<1>1. PICK p \in EditedLimits, o \in Overrides \union {NoOverride} : l = EffectiveLimits(p, o)
  BY DEF AllLimits
<1>2. x \in Fields /\ l[x] = Resolve(p, o, x)
  BY <1>1 DEF EffectiveLimits, Fields
<1>3. p[x] \in Int /\ (o \in Overrides => o[x] = Null \/ o[x] \in Int)
  BY TenancyAssumption
<1> QED
  BY <1>1, <1>2, <1>3 DEF Resolve

\* The higher of two limits is one of them, and no lower than either.
LEMMA HigherIsHigher ==
    ASSUME NEW a \in Int, NEW b \in Int
    PROVE  /\ Higher(a, b) \in Int
           /\ Higher(a, b) # Unlimited
                => /\ a # Unlimited /\ b # Unlimited
                   /\ a <= Higher(a, b) /\ b <= Higher(a, b)
BY DEF Higher, Unlimited

\* What ReadLimits finds.
LEMMA LimitsFound ==
    ASSUME Typed, NEW r \in Creates, create[r].phase = "limits"
    PROVE  EffectiveLimits(limits[create[r].plan], override[TenantOf[r]]) \in AllLimits
<1>1. limits[create[r].plan] \in EditedLimits
  BY DEF Typed, TypeOK, TypeOKQuota, CreatesHaveRead
<1>2. override[TenantOf[r]] \in Overrides \union {NoOverride}
  BY TenancyAssumption DEF Typed, TypeOK, TypeOKQuota
<1> QED
  BY <1>1, <1>2 DEF AllLimits

\* A creating request's step, as a change of its own record.
LEMMA CreateStepIsTyped ==
    ASSUME Typed, NEW r \in Creates, CreateStep(r)
    PROVE  /\ create' \in [Creates -> CreateState]
           /\ CreatesHaveRead'
<1> USE DEF Typed, TypeOK, TypeOKQuota, CreatesHaveRead
<1>1. create[r] \in CreateState /\ DOMAIN create = Creates
  OBVIOUS
<1>2. SUFFICES ASSUME NEW new \in CreateState, create' = [create EXCEPT ![r] = new],
                      new.phase = "limits" => new.plan \in PlanKeys,
                      new.phase \in {"count", "name", "insert"} => new.limits \in AllLimits
               PROVE  create' \in [Creates -> CreateState] /\ CreatesHaveRead'
  <2> SUFFICES \/ UNCHANGED create
               \/ \E new \in CreateState :
                     /\ create' = [create EXCEPT ![r] = new]
                     /\ new.phase = "limits" => new.plan \in PlanKeys
                     /\ new.phase \in {"count", "name", "insert"} => new.limits \in AllLimits
    BY <1>2
  <2>1. CASE Authenticate(r)
    <3>1. tenants[TenantOf[r]] \in TenantRow \union {Absent}
      BY TenancyAssumption DEF TypeOKAccounts
    <3>2. CASE tenants[TenantOf[r]] = Absent
      <4> DEFINE new == [create[r] EXCEPT !.phase = "unauthorized"]
      <4>1. new \in CreateState /\ new.phase = "unauthorized"
        BY <1>1 DEF CreateState, CreatePhase
      <4>2. create' = [create EXCEPT ![r] = new]
        BY <2>1, <3>2 DEF Authenticate
      <4> QED
        BY <4>1, <4>2
    <3>3. CASE tenants[TenantOf[r]] \in TenantRow
      <4> DEFINE new == [create[r] EXCEPT !.phase = "limits", !.plan = tenants[TenantOf[r]].plan]
      <4>1. tenants[TenantOf[r]].plan \in PlanKeys
        BY <3>3 DEF TenantRow
      <4>2. new \in CreateState /\ new.phase = "limits" /\ new.plan \in PlanKeys
        BY <1>1, <4>1 DEF CreateState, CreatePhase
      <4>3. create' = [create EXCEPT ![r] = new]
        BY <2>1, <3>3, AbsentIsNoRow DEF Authenticate
      <4> QED
        BY <4>2, <4>3
    <3> QED
      BY <3>1, <3>2, <3>3
  <2>2. CASE ReadLimits(r)
    <3> DEFINE found == EffectiveLimits(limits[create[r].plan], override[TenantOf[r]])
               in == [create[r] EXCEPT !.phase = "count", !.limits = found]
               out == [create[r] EXCEPT !.phase = "over"]
    <3>1. found \in AllLimits
      BY <2>2, LimitsFound DEF ReadLimits
    <3>2. create' = [create EXCEPT ![r] = in] \/ create' = [create EXCEPT ![r] = out]
      BY <2>2 DEF ReadLimits
    <3> HIDE DEF found
    <3>3. in \in CreateState /\ in.phase = "count" /\ in.limits \in AllLimits
      BY <1>1, <3>1 DEF CreateState, CreatePhase
    <3>4. out \in CreateState /\ out.phase = "over"
      BY <1>1 DEF CreateState, CreatePhase
    <3> QED
      BY <3>2, <3>3, <3>4
  <2>3. CASE Count(r)
    <3> DEFINE mine == RowsOf(TenantOf[r], ResourceOf[r])
               in == [create[r] EXCEPT !.phase = "name", !.counted = mine]
               out == [create[r] EXCEPT !.phase = "over"]
    <3>1. mine \subseteq Creates
      BY DEF RowsOf
    <3>2. create' = [create EXCEPT ![r] = in] \/ create' = [create EXCEPT ![r] = out]
      BY <2>3 DEF Count
    <3>3. create[r].limits \in AllLimits
      BY <2>3 DEF Count
    <3> HIDE DEF mine
    <3>4. in \in CreateState /\ in.phase = "name" /\ in.limits \in AllLimits
      BY <1>1, <3>1, <3>3 DEF CreateState, CreatePhase
    <3>5. out \in CreateState /\ out.phase = "over"
      BY <1>1 DEF CreateState, CreatePhase
    <3> QED
      BY <3>2, <3>4, <3>5
  <2>4. ASSUME NEW p \in {"insert", "created", "conflict"},
               create' = [create EXCEPT ![r].phase = p],
               create[r].phase \in {"name", "insert"}
        PROVE  \E new \in CreateState :
                  /\ create' = [create EXCEPT ![r] = new]
                  /\ new.phase = "limits" => new.plan \in PlanKeys
                  /\ new.phase \in {"count", "name", "insert"} => new.limits \in AllLimits
    <3> DEFINE new == [create[r] EXCEPT !.phase = p]
    <3>1. new \in CreateState /\ new.phase = p /\ new.limits = create[r].limits
      BY <1>1 DEF CreateState, CreatePhase
    <3>2. create' = [create EXCEPT ![r] = new]
      BY <2>4, <1>1
    <3> QED
      BY <2>4, <3>1, <3>2
  <2>5. CASE CheckName(r)
    BY <2>4, <2>5 DEF CheckName
  <2>6. CASE InsertRow(r)
    BY <2>4, <2>6 DEF InsertRow
  <2>7. CASE DeleteChannel(r)
    BY <2>7 DEF DeleteChannel
  <2> QED
    BY <2>1, <2>2, <2>3, <2>5, <2>6, <2>7 DEF CreateStep
<1> QED
  BY <1>2

LEMMA QuotaTypesKept ==
    ASSUME Typed, [Next]_vars
    PROVE  TypeOKQuota' /\ CreatesHaveRead'
<1> USE DEF Typed, TypeOK, TypeOKQuota
<1>1. CASE UNCHANGED quotaVars
  BY <1>1 DEF quotaVars, CreatesHaveRead
<1>2. ASSUME NEW r \in Creates, CreateStep(r)
      PROVE  TypeOKQuota' /\ CreatesHaveRead'
  <2>1. create' \in [Creates -> CreateState] /\ CreatesHaveRead'
    BY <1>2, CreateStepIsTyped
  <2>2. rows' \subseteq Creates /\ raced' \subseteq Creates
        /\ UNCHANGED <<limits, override, admin, work>>
    BY <1>2 DEF CreateStep, Authenticate, ReadLimits, Count, CheckName, InsertRow, DeleteChannel
  <2>3. peak' \in [Names -> [Resources -> Int]]
    <3>1. CASE ReadLimits(r)
      <4> DEFINE found == EffectiveLimits(limits[create[r].plan], override[TenantOf[r]])
                 higher == [x \in Resources |-> Higher(peak[TenantOf[r]][x], found[x])]
      <4>1. found \in AllLimits
        BY <3>1, LimitsFound DEF ReadLimits
      <4>2. peak' = [peak EXCEPT ![TenantOf[r]] = higher] \/ peak' = peak
        BY <3>1 DEF ReadLimits
      <4> HIDE DEF found
      <4>3. TenantOf[r] \in Names
        BY TenancyAssumption
      <4>4. higher \in [Resources -> Int]
        BY <4>1, <4>3, LimitsAreNumbers, HigherIsHigher
      <4> QED
        BY <4>2, <4>4
    <3>2. CASE ~ReadLimits(r)
      BY <1>2, <3>2 DEF CreateStep, Authenticate, Count, CheckName, InsertRow, DeleteChannel
    <3> QED
      BY <3>1, <3>2
  <2> QED
    BY <2>1, <2>2, <2>3
<1>3. ASSUME Administer,
             \/ \E n \in Names, k \in PlanKeys : ChangeTenantPlan(n, k)
             \/ \E k \in PlanKeys : DeletePlan(k)
             \/ \E k \in PlanKeys, l \in EditedLimits : CreatePlan(k, l) \/ UpdatePlan(k, l)
             \/ \E n \in Names, o \in Overrides \union {NoOverride} : SetOverride(n, o)
      PROVE  TypeOKQuota' /\ CreatesHaveRead'
  <2>1. admin' \in 0..MaxAdmin
    BY <1>3, TenancyAssumption DEF Administer
  <2>2. UNCHANGED <<rows, create, peak, raced, work>>
    BY <1>3 DEF ChangeTenantPlan, DeletePlan, CreatePlan, UpdatePlan, SetOverride
  <2>3. limits' \in [PlanKeys -> EditedLimits] /\ override' \in [Names -> Overrides \union {NoOverride}]
    BY <1>3 DEF ChangeTenantPlan, DeletePlan, CreatePlan, UpdatePlan, SetOverride
  <2> QED
    BY <2>1, <2>2, <2>3 DEF CreatesHaveRead
<1> QED
  BY <1>1, <1>2, <1>3, QuotaSteps

-----------------------------------------------------------------------------

LEMMA TypedAtFirst == Init => Typed
<1> SUFFICES ASSUME Init PROVE Typed
  OBVIOUS
<1> USE DEF Init
<1>1. NewTenant \in TenantRow /\ "free" \in PlanKeys
  BY AccountsAssumption DEF NewTenant, TenantRow
<1>2. TypeOKAccounts
  <2>1. tenants \in [Names -> TenantRow \union {Absent}]
    BY <1>1
  <2>2. users \in [Emails -> Names \union {Absent}]
    BY BillingAssumption
  <2>3. signup \in [Signups -> [phase: SignupPhase, tries: Nat \ {0}]]
    BY DEF SignupPhase
  <2>4. keys \in [Keys -> KeyRow] /\ keyOp \in [KeyOps -> [phase: {"load", "write", "done"}, row: KeyRow]]
    BY DEF KeyRow
  <2> QED
    BY <2>1, <2>2, <2>3, <2>4 DEF TypeOKAccounts
<1>3. NamesAreLeft
  <2>1. \A s \in Signups : signup[s].tries = 1
    OBVIOUS
  <2>2. \A s \in Signups : \A i \in DOMAIN NamesOf[s] : ~(i < 1)
    BY AccountsAssumption
  <2>3. \A n \in Names \ Workspaces : tenants[n] = Absent
    OBVIOUS
  <2> QED
    BY <2>1, <2>2, <2>3, FirstName DEF NamesAreLeft
<1>4. WorkspacesStand
  BY <1>1, BillingAssumption, AbsentIsNoRow DEF WorkspacesStand
<1>5. TypeOKBilling /\ HooksHoldEvents
  <2>1. events = <<>> /\ toDeliver = {} /\ repeats = 0
    BY DEF BillingInit
  <2>2. sub \in [Customers -> [plan: PlanKeys, status: {"none", "active", "past_due", "cancelled"}]]
    BY <1>1 DEF BillingInit
  <2>3. IdleHook \in Hook /\ IdleHook.phase = "idle"
    BY DEF IdleHook, Hook
  <2>4. hook \in [Hooks -> Hook] /\ \A h \in Hooks : hook[h].phase = "idle"
    BY <2>3 DEF BillingInit
  <2>5. applied \in [Customers -> 0..MaxEvents] /\ surprises \in [Customers -> SUBSET Surprises]
        /\ repeats \in 0..MaxRepeats
    BY BillingAssumption DEF BillingInit
  <2>6. provider \in PaymentProviders
    BY DEF PaymentProviders, EventMap
  <2>7. events \in Seq(Event) /\ Len(events) <= MaxEvents
    BY <2>1, BillingAssumption
  <2> QED
    BY <2>1, <2>2, <2>4, <2>5, <2>6, <2>7 DEF TypeOKBilling, HooksHoldEvents
<1>6. TypeOKQuota /\ CreatesHaveRead
  <2>1. Fresh \in CreateState /\ Fresh.phase = "start"
    BY DEF Fresh, CreateState, CreatePhase
  <2>2. \A x \in Resources : Limits0["free"][x] \in Int
    BY <1>1, TenancyAssumption
  <2> QED
    BY <2>1, <2>2, TenancyAssumption DEF TypeOKQuota, CreatesHaveRead
<1> QED
  BY <1>2, <1>3, <1>4, <1>5, <1>6 DEF Typed, TypeOK

LEMMA TypedInvariant == Spec => []Typed
<1>1. Typed /\ [Next]_vars => Typed'
  BY AccountTypesKept, NamesKept, BillingTypesKept, QuotaTypesKept DEF Typed, TypeOK
<1> QED
  BY <1>1, TypedAtFirst, PTL DEF Spec

\* Every variable of Tenancy, Billing and Accounts keeps its type.
THEOREM TypeCorrect == Spec => []TypeOK
<1>1. Typed => TypeOK
  BY DEF Typed
<1> QED
  BY <1>1, TypedInvariant, PTL

-----------------------------------------------------------------------------
\* Keys.

\* A revoked key stays revoked, whatever rotation was under way: what WriteKey writes never
\* turns an inactive key on.
THEOREM RevocationIsFinal == Spec => RevokedStaysRevoked
<1>1. Typed /\ [Next]_vars => [\A k \in Keys : ~keys[k].active => ~keys'[k].active]_keys
  <2> SUFFICES ASSUME Typed, [Next]_vars
               PROVE  UNCHANGED keys \/ \A k \in Keys : ~keys[k].active => ~keys'[k].active
    OBVIOUS
  <2>1. UNCHANGED keys \/ \E o \in KeyOps : WriteKey(o)
    BY AccountSteps DEF accountVars, CheckEmail, TryName, Insert, LoadKey
  <2>2. ASSUME NEW o \in KeyOps, WriteKey(o), NEW k \in Keys, ~keys[k].active
        PROVE  ~keys'[k].active
    <3>1. keys \in [Keys -> KeyRow]
      BY DEF Typed, TypeOK, TypeOKAccounts
    <3>2. ~WrittenKey(o, keys[k], keyOp[o].row).active
      BY <2>2 DEF WrittenKey
    <3>3. keys' = [keys EXCEPT ![o[2]] = WrittenKey(o, keys[o[2]], keyOp[o].row)]
      BY <2>2 DEF WriteKey
    <3>4. keys'[k] = keys[k] \/ keys'[k] = WrittenKey(o, keys[k], keyOp[o].row)
      BY <3>1, <3>3
    <3> QED
      BY <2>2, <3>2, <3>4
  <2> QED
    BY <2>1, <2>2
<1> QED
  BY <1>1, TypedInvariant, PTL DEF Spec, RevokedStaysRevoked

-----------------------------------------------------------------------------
\* Plans.

\* Every tenant is on a plan that exists: whoever writes a plan into a tenant's row writes
\* one that is there, and a plan a tenant is on cannot be deleted.
THEOREM PlansStay == Spec => []PlansOfTenantsExist
<1>1. Init => PlansOfTenantsExist
  BY AccountsAssumption DEF Init, PlansOfTenantsExist, NewTenant
<1>2. ASSUME Typed, PlansOfTenantsExist, [Next]_vars
      PROVE  PlansOfTenantsExist'
  <2> USE AbsentIsNoRow DEF PlansOfTenantsExist
  <2>0. tenants \in [Names -> TenantRow \union {Absent}]
    BY <1>2 DEF Typed, TypeOK, TypeOKAccounts
  <2>1. CASE UNCHANGED <<plans, tenants>>
    BY <1>2, <2>1
  <2>2. ASSUME NEW s \in Signups, Insert(s)
        PROVE  PlansOfTenantsExist'
    BY <1>2, <2>0, <2>2 DEF Insert, MayInsert, NewTenant
  <2>3. ASSUME NEW h \in Hooks, Apply(h), UNCHANGED plans
        PROVE  PlansOfTenantsExist'
    <3>1. \/ UNCHANGED tenants
          \/ \E c \in Customers : \E row : row.plan \in plans /\ tenants' = [tenants EXCEPT ![c] = row]
      <4>1. PICK c \in Customers : c = events[hook[h].index].customer
        BY <1>2, <2>3, EventsAreOfCustomers DEF Apply, HooksHoldEvents, Typed, TypeOK
      <4> QED
        BY <2>3, <4>1 DEF Apply
    <3> QED
      BY <1>2, <2>0, <2>3, <3>1
  <2>4. ASSUME NEW n \in Names, NEW k \in PlanKeys, ChangeTenantPlan(n, k)
        PROVE  PlansOfTenantsExist'
    <3>1. [tenants[n] EXCEPT !.plan = k].plan = k
      BY <2>0, <2>4 DEF ChangeTenantPlan, TenantRow
    <3> QED
      BY <1>2, <2>0, <2>4, <3>1 DEF ChangeTenantPlan
  <2>5. ASSUME NEW k \in PlanKeys, DeletePlan(k)
        PROVE  PlansOfTenantsExist'
    BY <1>2, <2>5 DEF DeletePlan, PlanIsFreeToGo
  <2>6. ASSUME NEW k \in PlanKeys, NEW l \in EditedLimits, CreatePlan(k, l)
        PROVE  PlansOfTenantsExist'
    BY <1>2, <2>6 DEF CreatePlan
  <2>7. CASE (\E s \in Signups : CheckEmail(s) \/ TryName(s)) \/ (\E o \in KeyOps : LoadKey(o) \/ WriteKey(o))
    BY <2>1, <2>7 DEF CheckEmail, TryName, LoadKey, WriteKey
  <2> QED
    BY <1>2, <2>1, <2>2, <2>3, <2>4, <2>5, <2>6, <2>7, AccountSteps
<1> QED
  BY <1>1, <1>2, TypedInvariant, PTL DEF Spec

-----------------------------------------------------------------------------
\* Accounts.

\* Users and tenants that exist are one to one, and a registration that ended well is a pair.
Owned ==
    /\ \A e \in Emails : users[e] # Absent => tenants[users[e]] # Absent
    /\ \A n \in Names : tenants[n] # Absent => \E e \in Emails : users[e] = n
    /\ \A d, e \in Emails : users[d] = users[e] /\ users[d] # Absent => d = e
    /\ \A s \in Signups : signup[s].phase = "registered" => users[EmailOf[s]] = Candidate(s)

LEMMA OwnedIsWhole ==
    ASSUME Owned
    PROVE  AccountsAreWhole
<1>1. ASSUME NEW n \in Names, tenants[n] # Absent
      PROVE  Cardinality({e \in Emails : users[e] = n}) = 1
  <2>1. PICK e \in Emails : users[e] = n
    BY <1>1 DEF Owned
  <2>2. {d \in Emails : users[d] = n} = {e}
    BY <2>1, AccountsAssumption DEF Owned
  <2> QED
    BY <2>2, FS_Singleton
<1> QED
  BY <1>1 DEF Owned, AccountsAreWhole

LEMMA OwnedAtFirst == Init => Owned
<1> SUFFICES ASSUME Init PROVE Owned
  OBVIOUS
<1>1. \A n \in Names : tenants[n] # Absent <=> n \in Workspaces
  BY AccountsAssumption, AbsentIsNoRow DEF Init, NewTenant, TenantRow
<1>2. \A e \in Emails : users[e] # Absent => users[e] \in Workspaces /\ OwnerOf[users[e]] = e
  <2> SUFFICES ASSUME NEW e \in Emails, users[e] # Absent
               PROVE  users[e] \in Workspaces /\ OwnerOf[users[e]] = e
    OBVIOUS
  <2>1. users[e] = IF \E n \in Workspaces : OwnerOf[n] = e
                   THEN CHOOSE n \in Workspaces : OwnerOf[n] = e ELSE Absent
    BY DEF Init
  <2>2. \E n \in Workspaces : OwnerOf[n] = e
    BY <2>1
  <2>3. users[e] = CHOOSE n \in Workspaces : OwnerOf[n] = e
    BY <2>1, <2>2
  <2> QED
    BY <2>2, <2>3
<1>3. \A n \in Workspaces : users[OwnerOf[n]] = n /\ OwnerOf[n] \in Emails /\ n \in Names
  <2> SUFFICES ASSUME NEW n \in Workspaces
               PROVE  users[OwnerOf[n]] = n /\ OwnerOf[n] \in Emails /\ n \in Names
    OBVIOUS
  <2>1. OwnerOf[n] \in Emails /\ n \in Names
    BY BillingAssumption
  <2>2. users[OwnerOf[n]] = IF \E m \in Workspaces : OwnerOf[m] = OwnerOf[n]
                            THEN CHOOSE m \in Workspaces : OwnerOf[m] = OwnerOf[n] ELSE Absent
    BY <2>1 DEF Init
  <2>3. users[OwnerOf[n]] \in Workspaces /\ OwnerOf[users[OwnerOf[n]]] = OwnerOf[n]
    BY <2>2
  <2> QED
    BY <2>1, <2>3, BillingAssumption
<1>4. \A s \in Signups : signup[s].phase # "registered"
  BY DEF Init
<1>5. \A e \in Emails : users[e] # Absent => tenants[users[e]] # Absent
  BY <1>1, <1>2, BillingAssumption
<1>6. \A n \in Names : tenants[n] # Absent => \E e \in Emails : users[e] = n
  BY <1>1, <1>3
<1>7. \A d, e \in Emails : users[d] = users[e] /\ users[d] # Absent => d = e
  BY <1>2
<1> QED
  BY <1>4, <1>5, <1>6, <1>7 DEF Owned

\* What happens to a row changes nothing about who owns it.
LEMMA OwnedKept ==
    ASSUME Typed, Owned, UNCHANGED <<users, signup>>,
           \A n \in Names : tenants[n] # Absent <=> tenants'[n] # Absent
    PROVE  Owned'
<1>1. \A s \in Signups : Candidate(s)' = Candidate(s)
  BY DEF Candidate
<1>2. users \in [Emails -> Names \union {Absent}]
  BY DEF Typed, TypeOK, TypeOKAccounts
<1> QED
  BY <1>1, <1>2 DEF Owned

\* A registration inserts a tenant nobody has for a user who has none.
LEMMA InsertKeepsOwned ==
    ASSUME Typed, Owned, NEW s \in Signups, Insert(s)
    PROVE  Owned'
<1>1. /\ tenants \in [Names -> TenantRow \union {Absent}] /\ users \in [Emails -> Names \union {Absent}]
      /\ signup \in [Signups -> [phase: SignupPhase, tries: Nat \ {0}]]
  BY DEF Typed, TypeOK, TypeOKAccounts
<1>2. Candidate(s) \in Names /\ EmailOf[s] \in Emails
  BY AccountsAssumption DEF Candidate, Typed, NamesAreLeft
<1>3. \A t \in Signups : Candidate(t)' = Candidate(t)
  BY <1>1 DEF Candidate, Insert
<1>4. \A t \in Signups \ {s} : signup'[t] = signup[t]
  BY <1>1 DEF Insert
<1>5. CASE MayInsert(s)
  <2>1. tenants' = [tenants EXCEPT ![Candidate(s)] = NewTenant] /\ NewTenant # Absent
    BY <1>5, AccountsAssumption, AbsentIsNoRow DEF Insert, NewTenant, TenantRow
  <2>2. users' = [users EXCEPT ![EmailOf[s]] = Candidate(s)]
    BY <1>5 DEF Insert, MayInsert
  <2>3. tenants[Candidate(s)] = Absent /\ users[EmailOf[s]] = Absent
    BY <1>5 DEF MayInsert
  <2>4. \A e \in Emails : users[e] # Candidate(s)
    BY <1>2, <2>3, AccountsAssumption DEF Owned
  <2>5. \A e \in Emails : users'[e] # Absent => tenants'[users'[e]] # Absent
    BY <1>1, <1>2, <2>1, <2>2 DEF Owned
  <2>6. \A n \in Names : tenants'[n] # Absent => \E e \in Emails : users'[e] = n
    BY <1>1, <1>2, <2>1, <2>2, <2>3, AccountsAssumption DEF Owned
  <2>7. \A d, e \in Emails : users'[d] = users'[e] /\ users'[d] # Absent => d = e
    BY <1>1, <1>2, <2>2, <2>4 DEF Owned
  <2>8. \A t \in Signups : signup'[t].phase = "registered" => users'[EmailOf[t]] = Candidate(t)'
    <3> SUFFICES ASSUME NEW t \in Signups, signup'[t].phase = "registered"
                 PROVE  users'[EmailOf[t]] = Candidate(t)
      BY <1>3
    <3>1. CASE t = s
      BY <1>1, <1>2, <2>2, <3>1
    <3>2. CASE t # s
      <4>1. users[EmailOf[t]] = Candidate(t) /\ Candidate(t) \in Names /\ EmailOf[t] \in Emails
        BY <1>4, <3>2, AccountsAssumption DEF Owned, Candidate, Typed, NamesAreLeft
      <4> QED
        BY <1>1, <2>2, <2>3, <4>1, AccountsAssumption
    <3> QED
      BY <3>1, <3>2
  <2> QED
    BY <2>5, <2>6, <2>7, <2>8 DEF Owned
<1>6. CASE ~MayInsert(s)
  <2>1. UNCHANGED <<tenants, users>> /\ signup'[s].phase = "failed"
    BY <1>1, <1>6 DEF Insert
  <2> QED
    BY <1>3, <1>4, <2>1 DEF Owned
<1> QED
  BY <1>5, <1>6

\* However registrations overlap, and whichever of them fails, every user has a tenant that
\* exists, every tenant exactly one owner, and a registration that succeeded is one of them.
THEOREM AccountsStayWhole == Spec => []AccountsAreWhole
<1>1. ASSUME Typed, Owned, [Next]_vars
      PROVE  Owned'
  <2>0. \A n \in Names : tenants[n] # Absent => tenants'[n] # Absent
    BY <1>1, TenantsStay
  <2>1. CASE UNCHANGED <<plans, tenants, accountVars>>
    BY <1>1, <2>1, OwnedKept DEF accountVars
  <2>2. ASSUME NEW s \in Signups, CheckEmail(s) \/ TryName(s)
        PROVE  Owned'
    <3>1. signup \in [Signups -> [phase: SignupPhase, tries: Nat \ {0}]]
      BY <1>1 DEF Typed, TypeOK, TypeOKAccounts
    <3>2. UNCHANGED <<tenants, users>>
      BY <2>2 DEF CheckEmail, TryName
    <3>3. \A t \in Signups : signup'[t].phase = "registered" => signup'[t] = signup[t]
      BY <2>2, <3>1 DEF CheckEmail, TryName
    <3> QED
      BY <1>1, <3>2, <3>3 DEF Owned, Candidate
  <2>3. CASE \E s \in Signups : Insert(s)
    BY <1>1, <2>3, InsertKeepsOwned
  <2>4. CASE \E o \in KeyOps : LoadKey(o) \/ WriteKey(o)
    BY <1>1, <2>4, OwnedKept DEF LoadKey, WriteKey
  <2>5. ASSUME NEW h \in Hooks, Apply(h), UNCHANGED accountVars
        PROVE  Owned'
    <3>1. PICK c \in Customers : c = events[hook[h].index].customer
      BY <1>1, <2>5, EventsAreOfCustomers DEF Apply, HooksHoldEvents, Typed, TypeOK
    <3>2. tenants[c] # Absent /\ c \in Names
      BY <1>1, BillingAssumption DEF Typed, WorkspacesStand
    <3>3. \A n \in Names \ {c} : tenants'[n] = tenants[n]
      BY <1>1, <2>5, <3>1 DEF Apply, Typed, TypeOK, TypeOKAccounts
    <3> QED
      BY <1>1, <2>0, <2>5, <3>2, <3>3, OwnedKept DEF accountVars
  <2>6. ASSUME NEW n \in Names, NEW k \in PlanKeys, ChangeTenantPlan(n, k), UNCHANGED accountVars
        PROVE  Owned'
    <3>1. tenants[n] # Absent /\ \A m \in Names \ {n} : tenants'[m] = tenants[m]
      BY <1>1, <2>6 DEF ChangeTenantPlan, Typed, TypeOK, TypeOKAccounts
    <3> QED
      BY <1>1, <2>0, <2>6, <3>1, OwnedKept DEF accountVars
  <2>7. ASSUME NEW k \in PlanKeys, DeletePlan(k) \/ \E l \in EditedLimits : CreatePlan(k, l),
               UNCHANGED accountVars
        PROVE  Owned'
    BY <1>1, <2>7, OwnedKept DEF DeletePlan, CreatePlan, accountVars
  <2> QED
    BY <1>1, <2>1, <2>2, <2>3, <2>4, <2>5, <2>6, <2>7, AccountSteps
<1> QED
  BY <1>1, OwnedAtFirst, OwnedIsWhole, TypedInvariant, PTL DEF Spec

-----------------------------------------------------------------------------
\* Quotas.

\* No limits a request has computed are above the tenant's peak, and a request past its
\* count had room for one more than it counted.
RoomWasFound ==
    /\ \A r \in Creates, x \in Resources :
          create[r].limits # Absent /\ peak[TenantOf[r]][x] # Unlimited
             => /\ create[r].limits[x] # Unlimited
                /\ create[r].limits[x] <= peak[TenantOf[r]][x]
    /\ \A r \in Creates : create[r].phase \in {"name", "insert"}
          => HasRoom(create[r].limits, ResourceOf[r], Cardinality(create[r].counted))

\* The peak only rises, and covers the limits just read.
LEMMA PeakRises ==
    ASSUME Typed, [Next]_vars
    PROVE  /\ \A n \in Names, x \in Resources : peak'[n][x] # Unlimited
                 => peak[n][x] # Unlimited /\ peak[n][x] <= peak'[n][x]
           /\ \A r \in Creates, x \in Resources :
                 (create'[r].limits # create[r].limits /\ peak'[TenantOf[r]][x] # Unlimited)
                    => /\ create'[r].limits[x] # Unlimited
                       /\ create'[r].limits[x] <= peak'[TenantOf[r]][x]
<1> USE DEF Typed, TypeOK, TypeOKQuota
<1>1. CASE UNCHANGED <<peak, create>>
  BY <1>1
<1>2. ASSUME NEW r \in Creates, CreateStep(r), ~ReadLimits(r)
      PROVE  UNCHANGED peak /\ \A q \in Creates : create'[q].limits = create[q].limits
  <2>1. UNCHANGED peak
    BY <1>2 DEF CreateStep, Authenticate, Count, CheckName, InsertRow, DeleteChannel
  <2>2. \A q \in Creates \ {r} : create'[q] = create[q]
    BY <1>2 DEF CreateStep, Authenticate, Count, CheckName, InsertRow, DeleteChannel
  <2>3. create'[r].limits = create[r].limits
    <3>1. create[r] \in CreateState
      OBVIOUS
    <3>2. CASE Authenticate(r)
      BY <3>1, <3>2 DEF Authenticate, CreateState
    <3>3. CASE Count(r)
      BY <3>1, <3>3 DEF Count, CreateState
    <3>4. CASE CheckName(r)
      BY <3>1, <3>4 DEF CheckName, CreateState
    <3>5. CASE InsertRow(r)
      BY <3>1, <3>5 DEF InsertRow, CreateState
    <3>6. CASE DeleteChannel(r)
      BY <3>6 DEF DeleteChannel
    <3> QED
      BY <1>2, <3>2, <3>3, <3>4, <3>5, <3>6 DEF CreateStep
  <2> QED
    BY <2>1, <2>2, <2>3
<1>3. ASSUME NEW r \in Creates, ReadLimits(r)
      PROVE  /\ \A n \in Names, x \in Resources : peak'[n][x] # Unlimited
                   => peak[n][x] # Unlimited /\ peak[n][x] <= peak'[n][x]
             /\ \A q \in Creates, x \in Resources :
                   (create'[q].limits # create[q].limits /\ peak'[TenantOf[q]][x] # Unlimited)
                      => /\ create'[q].limits[x] # Unlimited
                         /\ create'[q].limits[x] <= peak'[TenantOf[q]][x]
  <2> DEFINE found == EffectiveLimits(limits[create[r].plan], override[TenantOf[r]])
             higher == [x \in Resources |-> Higher(peak[TenantOf[r]][x], found[x])]
             in == [create[r] EXCEPT !.phase = "count", !.limits = found]
             out == [create[r] EXCEPT !.phase = "over"]
  <2>1. found \in AllLimits
    BY <1>3, LimitsFound DEF ReadLimits
  <2>2. \/ peak' = [peak EXCEPT ![TenantOf[r]] = higher] /\ create' = [create EXCEPT ![r] = in]
        \/ peak' = peak /\ create' = [create EXCEPT ![r] = out]
    BY <1>3 DEF ReadLimits
  <2> HIDE DEF found
  <2>3. TenantOf[r] \in Names
    BY TenancyAssumption
  <2>4. create[r] \in CreateState
    OBVIOUS
  <2>5. in.limits = found /\ out.limits = create[r].limits
    BY <2>4 DEF CreateState
  <2>6. \A x \in Resources : found[x] \in Int /\ peak[TenantOf[r]][x] \in Int
    BY <2>1, <2>3, LimitsAreNumbers
  <2>7. \A x \in Resources : higher[x] # Unlimited
           => /\ peak[TenantOf[r]][x] # Unlimited /\ found[x] # Unlimited
              /\ peak[TenantOf[r]][x] <= higher[x] /\ found[x] <= higher[x]
    BY <2>6, HigherIsHigher
  <2> HIDE DEF higher, in, out
  <2>8. CASE peak' = peak /\ create' = [create EXCEPT ![r] = out]
    BY <2>5, <2>8
  <2>9. CASE peak' = [peak EXCEPT ![TenantOf[r]] = higher] /\ create' = [create EXCEPT ![r] = in]
    <3>1. \A n \in Names : peak'[n] = IF n = TenantOf[r] THEN higher ELSE peak[n]
      BY <2>9
    <3>2. \A q \in Creates : create'[q] = IF q = r THEN in ELSE create[q]
      BY <2>9
    <3> QED
      BY <2>3, <2>5, <2>7, <3>1, <3>2
  <2> QED
    BY <2>2, <2>8, <2>9
<1>4. UNCHANGED <<peak, create>> \/ \E r \in Creates : CreateStep(r)
  BY QuotaSteps DEF quotaVars, ChangeTenantPlan, DeletePlan, CreatePlan, UpdatePlan, SetOverride
<1>5. \A n \in Names, x \in Resources : peak[n][x] \in Int
  OBVIOUS
<1> QED
  BY <1>1, <1>2, <1>3, <1>4, <1>5

LEMMA RoomKept ==
    ASSUME Typed, RoomWasFound, [Next]_vars
    PROVE  RoomWasFound'
<1> USE DEF Typed, TypeOK, TypeOKQuota
<1>1. ASSUME NEW r \in Creates, NEW x \in Resources,
             create'[r].limits # Absent, peak'[TenantOf[r]][x] # Unlimited
      PROVE  /\ create'[r].limits[x] # Unlimited
             /\ create'[r].limits[x] <= peak'[TenantOf[r]][x]
  <2>1. TenantOf[r] \in Names
    BY TenancyAssumption
  <2>2. CASE create'[r].limits # create[r].limits
    BY <1>1, <2>2, PeakRises
  <2>3. CASE create'[r].limits = create[r].limits
    <3>1. peak[TenantOf[r]][x] # Unlimited /\ peak[TenantOf[r]][x] <= peak'[TenantOf[r]][x]
      BY <1>1, <2>1, PeakRises
    <3>2. create[r].limits[x] # Unlimited /\ create[r].limits[x] <= peak[TenantOf[r]][x]
      BY <1>1, <2>3, <3>1 DEF RoomWasFound
    <3>3. create[r].limits \in AllLimits
      BY <1>1, <2>3 DEF CreateState
    <3>4. create[r].limits[x] \in Int
      BY <3>3, LimitsAreNumbers
    <3>5. peak[TenantOf[r]][x] \in Int /\ peak'[TenantOf[r]][x] \in Int
      BY <2>1, QuotaTypesKept
    <3> QED
      BY <2>3, <3>1, <3>2, <3>4, <3>5
  <2> QED
    BY <2>2, <2>3
<1>2. ASSUME NEW r \in Creates, create'[r].phase \in {"name", "insert"}
      PROVE  HasRoom(create'[r].limits, ResourceOf[r], Cardinality(create'[r].counted))
  <2>1. create[r] \in CreateState
    OBVIOUS
  <2>2. CASE create'[r] = create[r]
    BY <1>2, <2>2 DEF RoomWasFound
  <2>3. CASE CreateStep(r)
    <3>1. Count(r) \/ CheckName(r) \/ UNCHANGED create
      <4>0. /\ [create[r] EXCEPT !.phase = "unauthorized"].phase = "unauthorized"
            /\ \A k : [create[r] EXCEPT !.phase = "limits", !.plan = k].phase = "limits"
            /\ \A l : [create[r] EXCEPT !.phase = "count", !.limits = l].phase = "count"
            /\ [create[r] EXCEPT !.phase = "over"].phase = "over"
        BY <2>1 DEF CreateState
      <4>1. ASSUME Authenticate(r) PROVE FALSE
        <5>1. \/ create'[r] = [create[r] EXCEPT !.phase = "unauthorized"]
              \/ \E k : create'[r] = [create[r] EXCEPT !.phase = "limits", !.plan = k]
          BY <4>1 DEF Authenticate
        <5> QED
          BY <1>2, <4>0, <5>1
      <4>2. ASSUME ReadLimits(r) PROVE FALSE
        <5>1. \/ \E l : create'[r] = [create[r] EXCEPT !.phase = "count", !.limits = l]
              \/ create'[r] = [create[r] EXCEPT !.phase = "over"]
          BY <4>2 DEF ReadLimits
        <5> QED
          BY <1>2, <4>0, <5>1
      <4>3. ~InsertRow(r)
        BY <1>2, <2>1 DEF InsertRow, CreateState
      <4> QED
        BY <2>3, <4>1, <4>2, <4>3 DEF CreateStep, DeleteChannel
    <3>2. CASE Count(r)
      <4> DEFINE mine == RowsOf(TenantOf[r], ResourceOf[r])
      <4>1. /\ HasRoom(create[r].limits, ResourceOf[r], Cardinality(mine))
            /\ create' = [create EXCEPT ![r] = [create[r] EXCEPT !.phase = "name", !.counted = mine]]
        BY <1>2, <2>1, <3>2 DEF Count, CreateState
      <4> HIDE DEF mine
      <4>2. create'[r].limits = create[r].limits /\ create'[r].counted = mine
        BY <2>1, <4>1 DEF CreateState
      <4> QED
        BY <4>1, <4>2
    <3>3. CASE CheckName(r)
      <4>1. /\ create[r].phase = "name" /\ create'[r].limits = create[r].limits
            /\ create'[r].counted = create[r].counted
        BY <2>1, <3>3 DEF CheckName, CreateState
      <4> QED
        BY <4>1 DEF RoomWasFound
    <3> QED
      BY <2>2, <3>1, <3>2, <3>3
  <2>4. create'[r] = create[r] \/ CreateStep(r)
    <3>1. UNCHANGED create \/ \E q \in Creates : CreateStep(q)
      BY QuotaSteps DEF quotaVars, ChangeTenantPlan, DeletePlan, CreatePlan, UpdatePlan, SetOverride
    <3>2. \A q \in Creates : q # r /\ CreateStep(q) => create'[r] = create[r]
      BY DEF CreateStep, Authenticate, ReadLimits, Count, CheckName, InsertRow, DeleteChannel
    <3> QED
      BY <3>1, <3>2
  <2> QED
    BY <2>2, <2>3, <2>4
<1> QED
  BY <1>1, <1>2 DEF RoomWasFound

\* Fewer rows, or the same, under a peak no lower, are within it if they were.
LEMMA FewerAreWithin ==
    ASSUME NEW S, IsFiniteSet(S), NEW T \in SUBSET S, NEW p \in Int, NEW q \in Int, p <= q,
           S = {} \/ Cardinality(S) <= p
    PROVE  T = {} \/ Cardinality(T) <= q
<1>1. IsFiniteSet(T) /\ Cardinality(T) <= Cardinality(S)
  BY FS_Subset
<1>2. Cardinality(T) \in Nat /\ Cardinality(S) \in Nat
  BY <1>1, FS_CardinalityType
<1> QED
  BY <1>1, <1>2

\* A row inserted on a count that was not out of date is one more than were counted.
LEMMA InsertIsWithin ==
    ASSUME Typed, RoomWasFound, QuotaExceededOnlyByRaces, NEW r \in Creates, InsertRow(r),
           NEW n \in Names, NEW x \in Resources, peak[n][x] # Unlimited, UNCHANGED peak
    PROVE  RowsOf(n, x)' \ raced' = {} \/ Cardinality(RowsOf(n, x)' \ raced') <= peak[n][x]
<1> DEFINE Before == RowsOf(n, x) \ raced
           After == RowsOf(n, x)' \ raced'
           counted == create[r].counted
<1> USE DEF Typed, TypeOK, TypeOKQuota
<1>1. IsFiniteSet(Before) /\ IsFiniteSet(counted) /\ peak[n][x] \in Int
  <2>1. Before \in SUBSET Creates /\ counted \in SUBSET Creates
    BY DEF RowsOf, CreateState
  <2> QED
    BY <2>1, FS_Subset, TenancyAssumption
<1>2. Before = {} \/ Cardinality(Before) <= peak[n][x]
  BY DEF QuotaExceededOnlyByRaces
<1>3. CASE After \subseteq Before
  <2> HIDE DEF Before, After, Typed, TypeOK, TypeOKQuota
  <2>1. After \in SUBSET Before /\ peak[n][x] <= peak[n][x]
    BY <1>1, <1>3
  <2>2. After = {} \/ Cardinality(After) <= peak[n][x]
    BY <1>1, <1>2, <2>1, FewerAreWithin
  <2> QED
    BY <2>2 DEF After
<1>4. CASE ~(After \subseteq Before)
  <2>1. /\ NameIsUnique(r) /\ rows' = rows \union {r} /\ n = TenantOf[r] /\ x = ResourceOf[r]
        /\ RowsOf(n, x) \subseteq counted /\ raced' = raced
    BY <1>4 DEF InsertRow, RowsOf
  <2>2. After \in SUBSET (counted \union {r})
    BY <2>1 DEF RowsOf
  <2>3. HasRoom(create[r].limits, x, Cardinality(counted)) /\ create[r].limits \in AllLimits
    BY <2>1 DEF RoomWasFound, InsertRow, CreatesHaveRead
  <2>4. create[r].limits[x] # Unlimited /\ create[r].limits[x] <= peak[n][x]
    BY <2>1, <2>3, AbsentIsNoLimits DEF RoomWasFound
  <2>5. create[r].limits[x] \in Int
    BY <2>3, LimitsAreNumbers
  <2>6. Cardinality(counted) < create[r].limits[x]
    BY <2>3, <2>4 DEF HasRoom
  <2>7. /\ IsFiniteSet(counted \union {r}) /\ Cardinality(counted) \in Nat
        /\ Cardinality(counted \union {r}) <= Cardinality(counted) + 1
    <3> HIDE DEF counted
    <3>1. Cardinality(counted) \in Nat
      BY <1>1, FS_CardinalityType
    <3>2. /\ IsFiniteSet(counted \union {r})
          /\ Cardinality(counted \union {r}) = IF r \in counted THEN Cardinality(counted)
                                                              ELSE Cardinality(counted) + 1
      BY <1>1, FS_AddElement
    <3> DEFINE m == Cardinality(counted)
    <3> HIDE DEF m
    <3>3. m <= m + 1
      BY <3>1 DEF m
    <3>4. Cardinality(counted \union {r}) <= m + 1
      BY <3>2, <3>3, <3>1 DEF m
    <3> QED
      BY <3>1, <3>2, <3>4 DEF m
  <2>8. IsFiniteSet(After) /\ Cardinality(After) <= Cardinality(counted \union {r})
    BY <2>2, <2>7, FS_Subset
  <2>9. Cardinality(After) \in Nat /\ Cardinality(counted \union {r}) \in Nat
    BY <2>7, <2>8, FS_CardinalityType
  <2> DEFINE a == Cardinality(After)
             b == Cardinality(counted \union {r})
             m == Cardinality(counted)
             l == create[r].limits[x]
  <2>10. a \in Nat /\ b \in Nat /\ m \in Nat /\ a <= b /\ b <= m + 1 /\ m < l /\ l \in Int
         /\ l <= peak[n][x] /\ peak[n][x] \in Int
    BY <1>1, <2>4, <2>5, <2>6, <2>7, <2>8, <2>9
  <2> HIDE DEF a, b, m, l
  <2>11. a <= peak[n][x]
    BY <2>10
  <2> QED
    BY <2>11 DEF a
<1> QED
  BY <1>3, <1>4

\* A tenant has more rows than the highest limit it was ever given only by as many as were
\* inserted on a count that was out of date.
THEOREM QuotasHoldButForRaces == Spec => []QuotaExceededOnlyByRaces
<1>1. Init => RoomWasFound /\ QuotaExceededOnlyByRaces
  <2> SUFFICES ASSUME Init PROVE RoomWasFound /\ QuotaExceededOnlyByRaces
    OBVIOUS
  <2>1. \A r \in Creates : create[r].limits = Absent /\ create[r].phase = "start"
    BY DEF Init, Fresh
  <2>2. \A n, x : RowsOf(n, x) \ raced = {}
    BY DEF Init, RowsOf
  <2> QED
    BY <2>1, <2>2 DEF RoomWasFound, QuotaExceededOnlyByRaces
<1>2. ASSUME Typed, RoomWasFound, QuotaExceededOnlyByRaces, [Next]_vars
      PROVE  QuotaExceededOnlyByRaces'
  <2> SUFFICES ASSUME NEW n \in Names, NEW x \in Resources, peak'[n][x] # Unlimited
               PROVE  RowsOf(n, x)' \ raced' = {} \/ Cardinality(RowsOf(n, x)' \ raced') <= peak'[n][x]
    BY DEF QuotaExceededOnlyByRaces
  <2> DEFINE Before == RowsOf(n, x) \ raced
             After == RowsOf(n, x)' \ raced'
  <2>1. peak[n][x] # Unlimited /\ peak[n][x] <= peak'[n][x]
    BY <1>2, PeakRises
  <2>2. peak[n][x] \in Int /\ peak'[n][x] \in Int
    BY <1>2, QuotaTypesKept DEF Typed, TypeOK, TypeOKQuota
  <2>3. Before = {} \/ Cardinality(Before) <= peak[n][x]
    BY <1>2, <2>1 DEF QuotaExceededOnlyByRaces
  <2>4. IsFiniteSet(Before)
    <3>1. Before \in SUBSET Creates
      BY <1>2 DEF RowsOf, Typed, TypeOK, TypeOKQuota
    <3> QED
      BY <3>1, FS_Subset, TenancyAssumption
  <2>5. CASE After \subseteq Before
    BY <2>1, <2>2, <2>3, <2>4, <2>5, FewerAreWithin
  <2>6. ASSUME NEW r \in Creates, InsertRow(r)
        PROVE  After = {} \/ Cardinality(After) <= peak'[n][x]
    <3>1. UNCHANGED peak
      BY <2>6 DEF InsertRow
    <3> QED
      BY <1>2, <2>1, <2>6, <3>1, InsertIsWithin
  <2>7. ASSUME NEW r \in Creates, CreateStep(r), ~InsertRow(r)
        PROVE  After \subseteq Before
    BY <2>7 DEF CreateStep, Authenticate, ReadLimits, Count, CheckName, DeleteChannel, RowsOf
  <2>8. UNCHANGED <<rows, raced>> \/ \E r \in Creates : CreateStep(r)
    BY <1>2, QuotaSteps DEF quotaVars, ChangeTenantPlan, DeletePlan, CreatePlan, UpdatePlan, SetOverride
  <2>9. CASE UNCHANGED <<rows, raced>>
    BY <2>5, <2>9 DEF RowsOf
  <2> QED
    BY <2>5, <2>6, <2>7, <2>8, <2>9
<1> QED
  BY <1>1, <1>2, RoomKept, TypedInvariant, PTL DEF Spec

-----------------------------------------------------------------------------
\* Events in order.

\* What the event at i says about the row, and the customer's events that say something.
ChangesAt(i) == Changes(TypeOfEvent(provider, events[i].payload),
                        PriceFound(provider, events[i].payload, Absent))

EventsOf(c) == {i \in DOMAIN events : events[i].customer = c /\ IsHandled(provider, events[i].payload)}

PlanEventsOf(c) == {i \in EventsOf(c) : "plan" \in DOMAIN ChangesAt(i)}

\* i is the last of S up to n.
IsLast(S, n, i) == i \in S /\ i <= n /\ \A j \in S : j <= n => j <= i

\* The row has the status, and the plan, of the last of the customer's events up to n.
StatusIsOf(row, c, n) ==
    \/ \A i \in EventsOf(c) : ~(i <= n)
    \/ \E i : IsLast(EventsOf(c), n, i) /\ row.status = ChangesAt(i)["status"]

PlanIsOf(row, c, n) ==
    \/ (\A i \in PlanEventsOf(c) : ~(i <= n)) /\ row.plan = "free"
    \/ \E i : IsLast(PlanEventsOf(c), n, i) /\ row.plan = ChangesAt(i)["plan"]

\* The subscription's status goes with its last event: an update says active of one whose
\* payment is due.
IsUpdate(i) == TypeOfEvent(provider, events[i].payload) = "updated"

Matches(status, i) == status = ChangesAt(i)["status"] \/ (IsUpdate(i) /\ status = "past_due")

StatusMatches(c) ==
    \/ \A i \in EventsOf(c) : ~(i <= MaxEvents)
    \/ \E i : IsLast(EventsOf(c), MaxEvents, i) /\ Matches(sub[c].status, i)

\* The subscription is as the events say, all of them;
SaidAll(c) ==
    /\ StatusMatches(c) /\ PlanIsOf(sub[c], c, MaxEvents)
    /\ EventsOf(c) = {} => sub[c].status = "none"

\* ... and unless something went otherwise than in order, the tenant's row is as those
\* applied say, the rest are still to come, and the one a webhook holds is the next of them,
\* read whole and held over the row as it stands.
AppliedInOrder(c) ==
    surprises[c] = {} =>
        /\ StatusIsOf(tenants[c], c, applied[c]) /\ PlanIsOf(tenants[c], c, applied[c])
        /\ \A i \in EventsOf(c) : i \in toDeliver <=> applied[c] < i
        /\ \A h \in Hooks : hook[h].phase = "write" /\ events[hook[h].index].customer = c
              => /\ hook[h].index \in EventsOf(c) /\ applied[c] < hook[h].index
                 /\ \A j \in EventsOf(c) : j < hook[h].index => j <= applied[c]
                 /\ hook[h].plan = PriceFound(provider, events[hook[h].index].payload, Absent)
                 /\ hook[h].row = tenants[c]
                 /\ \A g \in Hooks : hook[g].phase = "write" /\ events[hook[g].index].customer = c => g = h

Ordered == \A c \in Customers : applied[c] <= Len(events) /\ SaidAll(c) /\ AppliedInOrder(c)

\* Every event sets the status; these set the plan.
LEMMA WhatChanges ==
    ASSUME NEW type \in EventTypes, NEW plan
    PROVE  /\ "status" \in DOMAIN Changes(type, plan)
           /\ DOMAIN Changes(type, plan) \subseteq {"status", "plan"}
           /\ type = "failed" => Changes(type, plan) = [status |-> "past_due"]
           /\ type = "succeeded" => Changes(type, plan) = [status |-> "active"]
           /\ type = "cancelled" => Changes(type, plan) = [status |-> "cancelled", plan |-> "free"]
           /\ type \in {"checkout", "created", "updated"} /\ plan # Absent
                 => Changes(type, plan) = [status |-> "active", plan |-> plan]
<1>1. CASE type \in {"checkout", "created", "updated"}
  BY <1>1 DEF Changes
<1>2. CASE type = "cancelled"
  BY <1>2 DEF Changes
<1>3. CASE type = "failed"
  BY <1>3 DEF Changes
<1>4. CASE type = "succeeded"
  BY <1>4 DEF Changes
<1> QED
  BY <1>1, <1>2, <1>3, <1>4 DEF EventTypes

\* When all there is has been applied in order, the row is the subscription.
LEMMA OrderedIsEnough ==
    ASSUME Typed, Ordered
    PROVE  InOrderEventsGiveProviderPlan
<1> SUFFICES ASSUME NEW c \in Customers, surprises[c] = {}, sub[c].status # "none",
                    \A i \in toDeliver : events[i].customer # c
             PROVE  tenants[c] = [sub[c] EXCEPT !.status =
                                     IF @ = "past_due" /\ UpdatedLast(c) THEN "active" ELSE @]
  BY DEF InOrderEventsGiveProviderPlan
<1>1. /\ tenants[c] \in TenantRow
      /\ sub[c] \in [plan: PlanKeys, status: {"none", "active", "past_due", "cancelled"}]
  BY BillingAssumption DEF Typed, TypeOK, TypeOKAccounts, TypeOKBilling, WorkspacesStand
<1>2. \A i \in EventsOf(c) : i \in Nat /\ i <= MaxEvents
  <2>1. events \in Seq(Event) /\ Len(events) <= MaxEvents /\ MaxEvents \in Nat
    BY BillingAssumption DEF Typed, TypeOK, TypeOKBilling, HooksHoldEvents
  <2> QED
    BY <2>1 DEF EventsOf
<1>3. applied[c] \in Nat
  BY BillingAssumption DEF Typed, TypeOK, TypeOKBilling
<1>4. \A i \in EventsOf(c) : i <= applied[c]
  BY <1>2, <1>3 DEF Ordered, AppliedInOrder, EventsOf
<1>5. PICK i \in EventsOf(c) : IsLast(EventsOf(c), MaxEvents, i) /\ Matches(sub[c].status, i)
  BY <1>2 DEF Ordered, SaidAll, StatusMatches, IsLast
<1>6. PICK j \in EventsOf(c) : IsLast(EventsOf(c), applied[c], j) /\ tenants[c].status = ChangesAt(j)["status"]
  BY <1>4, <1>5 DEF Ordered, AppliedInOrder, StatusIsOf, IsLast
<1>7. i = j
  BY <1>2, <1>4, <1>5, <1>6 DEF IsLast
<1>8. tenants[c].plan = sub[c].plan
  <2>1. PlanEventsOf(c) \subseteq EventsOf(c)
    BY DEF PlanEventsOf
  <2>2. PlanIsOf(sub[c], c, MaxEvents) /\ PlanIsOf(tenants[c], c, applied[c])
    BY DEF Ordered, SaidAll, AppliedInOrder
  <2>3. CASE PlanEventsOf(c) = {}
    BY <2>2, <2>3 DEF PlanIsOf, IsLast
  <2>4. CASE PlanEventsOf(c) # {}
    <3>1. PICK k \in PlanEventsOf(c) : IsLast(PlanEventsOf(c), MaxEvents, k) /\ sub[c].plan = ChangesAt(k)["plan"]
      BY <1>2, <2>1, <2>2, <2>4 DEF PlanIsOf, IsLast
    <3>2. PICK l \in PlanEventsOf(c) : IsLast(PlanEventsOf(c), applied[c], l) /\ tenants[c].plan = ChangesAt(l)["plan"]
      BY <1>4, <2>1, <2>2, <2>4 DEF PlanIsOf, IsLast
    <3>3. k = l
      BY <1>2, <1>4, <2>1, <3>1, <3>2 DEF IsLast
    <3> QED
      BY <3>1, <3>2, <3>3
  <2> QED
    BY <2>3, <2>4
<1>9. tenants[c].status = IF sub[c].status = "past_due" /\ UpdatedLast(c) THEN "active" ELSE sub[c].status
  <2>1. UpdatedLast(c) <=> IsUpdate(i)
    BY <1>2, <1>5 DEF UpdatedLast, IsUpdate, EventsOf, IsLast
  <2>2. IsUpdate(i) => ChangesAt(i)["status"] = "active"
    BY DEF IsUpdate, ChangesAt, Changes
  <2> QED
    BY <1>5, <1>6, <1>7, <2>1, <2>2 DEF Matches
<1> QED
  BY <1>1, <1>8, <1>9 DEF TenantRow

\* Appended events change nothing about those that were there.
LEMMA OldEventsKept ==
    ASSUME Typed, NEW c, UNCHANGED provider, events' \in Seq(Event), Len(events) <= Len(events'),
           \A i \in DOMAIN events : events'[i] = events[i]
    PROVE  /\ DOMAIN events \subseteq DOMAIN events'
           /\ \A i \in DOMAIN events : /\ ChangesAt(i)' = ChangesAt(i)
                                       /\ i \in EventsOf(c)' <=> i \in EventsOf(c)
                                       /\ i \in PlanEventsOf(c)' <=> i \in PlanEventsOf(c)
           /\ EventsOf(c) \subseteq DOMAIN events /\ EventsOf(c)' \subseteq DOMAIN events'
           /\ PlanEventsOf(c) \subseteq EventsOf(c) /\ PlanEventsOf(c)' \subseteq EventsOf(c)'
<1>1. events \in Seq(Event) /\ DOMAIN events = 1..Len(events) /\ DOMAIN events' = 1..Len(events')
      /\ Len(events) \in Nat /\ Len(events') \in Nat
  BY DEF Typed, TypeOK, TypeOKBilling
<1>2. DOMAIN events \subseteq DOMAIN events'
  BY <1>1
<1>3. \A i \in DOMAIN events : ChangesAt(i)' = ChangesAt(i)
  BY DEF ChangesAt
<1>4. \A i \in DOMAIN events : i \in EventsOf(c)' <=> i \in EventsOf(c)
  BY <1>2 DEF EventsOf
<1> QED
  BY <1>2, <1>3, <1>4 DEF EventsOf, PlanEventsOf

\* Events that come later change nothing about those applied, nor about a webhook that holds
\* one of those there.
LEMMA AppendKeepsApplied ==
    ASSUME Typed, NEW c \in Customers, applied[c] <= Len(events), AppliedInOrder(c),
           events' \in Seq(Event), Len(events) <= Len(events'),
           \A i \in DOMAIN events : events'[i] = events[i],
           \A i \in DOMAIN events : i \in toDeliver' <=> i \in toDeliver,
           \A i \in EventsOf(c)' : i \notin DOMAIN events => i \in toDeliver',
           UNCHANGED <<provider, tenants, hook, applied, surprises>>
    PROVE  AppliedInOrder(c)'
<1> DEFINE n == applied[c]
<1>1. /\ DOMAIN events \subseteq DOMAIN events'
      /\ \A i \in DOMAIN events : /\ ChangesAt(i)' = ChangesAt(i)
                                  /\ i \in EventsOf(c)' <=> i \in EventsOf(c)
                                  /\ i \in PlanEventsOf(c)' <=> i \in PlanEventsOf(c)
      /\ EventsOf(c) \subseteq DOMAIN events /\ EventsOf(c)' \subseteq DOMAIN events'
      /\ PlanEventsOf(c) \subseteq EventsOf(c) /\ PlanEventsOf(c)' \subseteq EventsOf(c)'
  BY OldEventsKept
<1>2. /\ DOMAIN events = 1..Len(events) /\ DOMAIN events' = 1..Len(events')
      /\ Len(events) \in Nat /\ n \in Nat
  BY BillingAssumption DEF Typed, TypeOK, TypeOKBilling
<1>3. \A i \in DOMAIN events' : i <= n => i \in DOMAIN events
  BY <1>2
<1>4. \A i \in DOMAIN events' : i \notin DOMAIN events => n < i
  BY <1>2
<1>5. SUFFICES ASSUME surprises[c] = {}
               PROVE  /\ StatusIsOf(tenants[c], c, applied[c])' /\ PlanIsOf(tenants[c], c, applied[c])'
                      /\ \A i \in EventsOf(c)' : i \in toDeliver' <=> n < i
                      /\ \A h \in Hooks : hook[h].phase = "write" /\ events'[hook[h].index].customer = c
                            => /\ hook[h].index \in EventsOf(c)' /\ n < hook[h].index
                               /\ \A j \in EventsOf(c)' : j < hook[h].index => j <= n
                               /\ hook[h].plan = PriceFound(provider, events'[hook[h].index].payload, Absent)
                               /\ hook[h].row = tenants[c]
                               /\ \A g \in Hooks : hook[g].phase = "write" /\ events'[hook[g].index].customer = c
                                     => g = h
  BY DEF AppliedInOrder
<1>6. StatusIsOf(tenants[c], c, applied[c])'
  <2>1. \A i : IsLast(EventsOf(c), n, i) => IsLast(EventsOf(c), n, i)'
    BY <1>1, <1>3 DEF IsLast
  <2>2. \A i : IsLast(EventsOf(c), n, i) => i \in DOMAIN events
    BY <1>1 DEF IsLast
  <2> QED
    BY <1>1, <1>3, <1>5, <2>1, <2>2 DEF StatusIsOf, AppliedInOrder
<1>7. PlanIsOf(tenants[c], c, applied[c])'
  <2>1. \A i : IsLast(PlanEventsOf(c), n, i) => IsLast(PlanEventsOf(c), n, i)'
    BY <1>1, <1>3 DEF IsLast
  <2>2. \A i : IsLast(PlanEventsOf(c), n, i) => i \in DOMAIN events
    BY <1>1 DEF IsLast
  <2> QED
    BY <1>1, <1>3, <1>5, <2>1, <2>2 DEF PlanIsOf, AppliedInOrder
<1>8. \A i \in EventsOf(c)' : i \in toDeliver' <=> n < i
  BY <1>1, <1>4, <1>5 DEF AppliedInOrder
<1>9. \A h \in Hooks : hook[h].phase = "write" => hook[h].index \in DOMAIN events
  BY DEF Typed, HooksHoldEvents
<1>10. ASSUME NEW h \in Hooks, hook[h].phase = "write", events'[hook[h].index].customer = c
       PROVE  /\ hook[h].index \in EventsOf(c)' /\ n < hook[h].index
              /\ \A j \in EventsOf(c)' : j < hook[h].index => j <= n
              /\ hook[h].plan = PriceFound(provider, events'[hook[h].index].payload, Absent)
              /\ hook[h].row = tenants[c]
              /\ \A g \in Hooks : hook[g].phase = "write" /\ events'[hook[g].index].customer = c => g = h
  <2>1. hook[h].index \in DOMAIN events /\ events'[hook[h].index] = events[hook[h].index]
    BY <1>9, <1>10
  <2>2. \A j \in DOMAIN events' : j < hook[h].index => j \in DOMAIN events
    BY <1>2, <2>1
  <2> QED
    BY <1>1, <1>5, <1>9, <1>10, <2>1, <2>2 DEF AppliedInOrder
<1> QED
  BY <1>6, <1>7, <1>8, <1>10

\* The type of the last event of an emission, and the status it leaves.
Says == {<<"created", "active">>, <<"updated", "active">>, <<"updated", "past_due">>,
         <<"succeeded", "active">>, <<"failed", "past_due">>, <<"cancelled", "cancelled">>}

\* With the events it emits the subscription stays as its events say.
LEMMA EmitSays ==
    ASSUME Typed, NEW c \in Customers, SaidAll(c), NEW types \in Seq(EventTypes), NEW plan \in PlanKeys,
           NEW status \in {"active", "past_due", "cancelled"}, Emit(c, types, plan, status),
           NEW last, Len(types) > 0, last = types[Len(types)],
           <<last, status>> \in Says,
           last = "cancelled" => plan = "free",
           last \in {"failed", "succeeded"} => Len(types) = 1 /\ plan = sub[c].plan
    PROVE  SaidAll(c)'
<1> DEFINE N == Len(events) + Len(types)
<1>1. /\ events' \in Seq(Event) /\ Len(events') = N
      /\ Len(events') <= MaxEvents
      /\ \A i \in DOMAIN events : events'[i] = events[i]
      /\ \A i \in 1..Len(types) : \A j : j = Len(events) + i => IsEvent(j, c, types[i], plan)'
      /\ sub' = [sub EXCEPT ![c] = [plan |-> plan, status |-> status]]
      /\ UNCHANGED provider
  <2>1. TypeOKBilling
    BY DEF Typed, TypeOK
  <2> QED
    BY <2>1, EventsEmitted, SMTT(60)
<1>2. /\ Len(events) \in Nat /\ Len(types) \in Nat /\ MaxEvents \in Nat
      /\ DOMAIN events = 1..Len(events) /\ DOMAIN events' = 1..N
  BY <1>1, BillingAssumption DEF Typed, TypeOK, TypeOKBilling
<1>3. /\ \A i \in DOMAIN events : /\ ChangesAt(i)' = ChangesAt(i)
                                  /\ i \in EventsOf(c)' <=> i \in EventsOf(c)
                                  /\ i \in PlanEventsOf(c)' <=> i \in PlanEventsOf(c)
      /\ EventsOf(c) \subseteq DOMAIN events /\ EventsOf(c)' \subseteq DOMAIN events'
      /\ PlanEventsOf(c) \subseteq EventsOf(c) /\ PlanEventsOf(c)' \subseteq EventsOf(c)'
  <2>1. Len(events) <= Len(events')
    BY <1>1, <1>2
  <2> QED
    BY <1>1, <2>1, OldEventsKept
<1>4. PICK e : e = N
  OBVIOUS
<1>5. e \in 1..N /\ e \in DOMAIN events' /\ e <= MaxEvents /\ \A i \in DOMAIN events' : i <= e
  BY <1>1, <1>2, <1>4
<1>6. IsEvent(e, c, last, plan)'
  BY <1>1, <1>2, <1>4
<1>7. ChangesAt(e)' = Changes(last, plan)
  BY <1>6 DEF IsEvent, ChangesAt, Says
<1>8. e \in EventsOf(c)'
  BY <1>5, <1>6 DEF IsEvent, EventsOf
<1>9. IsLast(EventsOf(c), MaxEvents, e)'
  BY <1>3, <1>5, <1>8 DEF IsLast
<1>10. /\ plan # Absent /\ last \in EventTypes
       /\ last \in {"created", "updated", "cancelled", "failed", "succeeded"}
  BY AccountsAssumption DEF EventTypes, Says
<1>11. sub'[c].status = status /\ sub'[c].plan = plan
  BY <1>1 DEF Typed, TypeOK, TypeOKBilling
<1>12. Matches(status, e)'
  <2>1. status = ChangesAt(e)'["status"] \/ (last = "updated" /\ status = "past_due")
    BY <1>7, <1>10, WhatChanges DEF Says
  <2> QED
    BY <1>6, <2>1 DEF Matches, IsUpdate, IsEvent
<1>13. StatusMatches(c)'
  BY <1>9, <1>11, <1>12 DEF StatusMatches
<1>14. PlanIsOf(sub[c], c, MaxEvents)'
  <2>1. CASE last \in {"created", "updated", "cancelled"}
    <3>1. "plan" \in DOMAIN ChangesAt(e)' /\ ChangesAt(e)'["plan"] = plan
      BY <1>7, <1>10, <2>1, WhatChanges
    <3>2. IsLast(PlanEventsOf(c), MaxEvents, e)'
      BY <1>3, <1>5, <1>8, <3>1 DEF IsLast, PlanEventsOf
    <3> QED
      BY <1>11, <3>1, <3>2 DEF PlanIsOf
  <2>2. CASE last \in {"failed", "succeeded"}
    <3>1. e \notin PlanEventsOf(c)'
      BY <1>7, <1>10, <2>2, WhatChanges DEF PlanEventsOf
    <3>2. \A i \in DOMAIN events' : i \in DOMAIN events \/ i = e
      BY <1>2, <1>4, <2>2
    <3>3. \A i : i \in PlanEventsOf(c)' <=> i \in PlanEventsOf(c)
      BY <1>3, <3>1, <3>2
    <3>4. \A i : IsLast(PlanEventsOf(c), MaxEvents, i) => IsLast(PlanEventsOf(c), MaxEvents, i)'
                                                          /\ i \in DOMAIN events
      BY <1>3, <3>3 DEF IsLast
    <3>5. sub'[c].plan = sub[c].plan
      BY <1>11, <2>2
    <3> QED
      BY <1>3, <3>3, <3>4, <3>5 DEF PlanIsOf, SaidAll
  <2> QED
    BY <1>10, <2>1, <2>2
<1> QED
  BY <1>8, <1>13, <1>14 DEF SaidAll

\* Events of another say nothing about the customer.
LEMMA OthersSayNothing ==
    ASSUME Typed, NEW c \in Customers, SaidAll(c), UNCHANGED provider, events' \in Seq(Event),
           Len(events) <= Len(events'), \A i \in DOMAIN events : events'[i] = events[i],
           EventsOf(c)' \subseteq DOMAIN events, sub'[c] = sub[c]
    PROVE  SaidAll(c)'
<1>1. /\ \A i \in DOMAIN events : /\ ChangesAt(i)' = ChangesAt(i)
                                  /\ i \in EventsOf(c)' <=> i \in EventsOf(c)
                                  /\ i \in PlanEventsOf(c)' <=> i \in PlanEventsOf(c)
      /\ EventsOf(c) \subseteq DOMAIN events
      /\ PlanEventsOf(c) \subseteq EventsOf(c) /\ PlanEventsOf(c)' \subseteq EventsOf(c)'
  BY OldEventsKept
<1>2. \A i : (i \in EventsOf(c)' <=> i \in EventsOf(c)) /\ (i \in PlanEventsOf(c)' <=> i \in PlanEventsOf(c))
  BY <1>1
<1>3. \A i : IsLast(EventsOf(c), MaxEvents, i) => IsLast(EventsOf(c), MaxEvents, i)' /\ i \in DOMAIN events
  BY <1>1, <1>2 DEF IsLast
<1>4. \A i : IsLast(PlanEventsOf(c), MaxEvents, i)
                => IsLast(PlanEventsOf(c), MaxEvents, i)' /\ i \in DOMAIN events
  BY <1>1, <1>2 DEF IsLast
<1>5. StatusMatches(c)'
  BY <1>1, <1>2, <1>3 DEF StatusMatches, Matches, IsUpdate, SaidAll
<1>6. PlanIsOf(sub[c], c, MaxEvents)'
  BY <1>1, <1>2, <1>4 DEF PlanIsOf, SaidAll
<1> QED
  BY <1>2, <1>5, <1>6 DEF SaidAll

LEMMA EmitKeepsOrder ==
    ASSUME Typed, Ordered, NEW d \in Customers, NEW types \in Seq(EventTypes), NEW plan \in PlanKeys,
           NEW status \in {"active", "past_due", "cancelled"}, Emit(d, types, plan, status),
           UNCHANGED tenants, SaidAll(d)'
    PROVE  Ordered'
<1>1. /\ events' \in Seq(Event) /\ Len(events') = Len(events) + Len(types)
      /\ \A i \in DOMAIN events : events'[i] = events[i]
      /\ \A i \in 1..Len(types) : \A j : j = Len(events) + i => IsEvent(j, d, types[i], plan)'
      /\ toDeliver' = toDeliver \union {Len(events) + i : i \in 1..Len(types)}
      /\ sub' = [sub EXCEPT ![d] = [plan |-> plan, status |-> status]]
      /\ UNCHANGED <<provider, hook, applied, surprises>>
  BY EventsEmitted DEF Typed, TypeOK
<1>2. /\ Len(events) \in Nat /\ Len(types) \in Nat /\ Len(events) <= Len(events')
      /\ DOMAIN events = 1..Len(events) /\ DOMAIN events' = 1..Len(events')
  BY <1>1 DEF Typed, TypeOK, TypeOKBilling
<1>3. \A i \in DOMAIN events' : i \notin DOMAIN events => \E k \in 1..Len(types) : i = Len(events) + k
  <2> SUFFICES ASSUME NEW i \in DOMAIN events', i \notin DOMAIN events
               PROVE  \E k \in 1..Len(types) : i = Len(events) + k
    OBVIOUS
  <2>1. i \in Nat /\ i - Len(events) \in 1..Len(types) /\ i = Len(events) + (i - Len(events))
    BY <1>1, <1>2
  <2> QED
    BY <2>1
<1>4. \A i \in DOMAIN events : i \in toDeliver' <=> i \in toDeliver
  <2>1. \A i \in DOMAIN events : \A k \in 1..Len(types) : i # Len(events) + k
    BY <1>2
  <2> QED
    BY <1>1, <2>1
<1>5. \A i \in DOMAIN events' : i \notin DOMAIN events => i \in toDeliver' /\ events'[i].customer = d
  BY <1>1, <1>3 DEF IsEvent
<1>6. ASSUME NEW c \in Customers
      PROVE  applied'[c] <= Len(events') /\ AppliedInOrder(c)'
  <2>1. applied[c] <= Len(events) /\ AppliedInOrder(c)
    BY DEF Ordered
  <2>2. EventsOf(c)' \subseteq DOMAIN events'
    BY DEF EventsOf
  <2>3. AppliedInOrder(c)'
    BY <1>1, <1>2, <1>4, <1>5, <2>1, <2>2, AppendKeepsApplied
  <2>4. applied[c] \in Nat
    BY BillingAssumption DEF Typed, TypeOK, TypeOKBilling
  <2> QED
    BY <1>1, <1>2, <2>1, <2>3, <2>4
<1>7. ASSUME NEW c \in Customers, c # d
      PROVE  SaidAll(c)'
  <2>1. EventsOf(c)' \subseteq DOMAIN events
    BY <1>5, <1>7 DEF EventsOf
  <2>2. sub'[c] = sub[c]
    BY <1>1, <1>7 DEF Typed, TypeOK, TypeOKBilling
  <2> QED
    BY <1>1, <1>2, <2>1, <2>2, OthersSayNothing DEF Ordered
<1> QED
  BY <1>6, <1>7 DEF Ordered

LEMMA EmissionKeepsOrder ==
    ASSUME Typed, Ordered, NEW d \in Customers, UNCHANGED tenants,
           NEW types \in Seq(EventTypes), NEW plan \in PlanKeys,
           NEW status \in {"active", "past_due", "cancelled"}, NEW last, Emit(d, types, plan, status),
           Len(types) > 0, last = types[Len(types)], <<last, status>> \in Says,
           last = "cancelled" => plan = "free",
           last \in {"failed", "succeeded"} => Len(types) = 1 /\ plan = sub[d].plan
    PROVE  Ordered'
<1>1. SaidAll(d)'
  BY EmitSays DEF Ordered
<1> QED
  BY <1>1, EmitKeepsOrder

LEMMA ProviderKeepsOrder ==
    ASSUME Typed, Ordered, NEW d \in Customers, Provider(d), UNCHANGED tenants
    PROVE  Ordered'
<1>1. CASE Notice(d)
  <2>1. /\ events' \in Seq(Event) /\ Len(events) = 0 /\ Len(events') = 1
        /\ ~IsHandled(provider, events'[1].payload)
        /\ UNCHANGED <<provider, sub, hook, applied, surprises>>
    BY <1>1, NoticeSent DEF Typed, TypeOK
  <2>2. DOMAIN events = {} /\ DOMAIN events' = {1} /\ Len(events) <= Len(events')
    BY <2>1 DEF Typed, TypeOK, TypeOKBilling
  <2>3. ASSUME NEW c \in Customers
        PROVE  applied'[c] <= Len(events') /\ SaidAll(c)' /\ AppliedInOrder(c)'
    <3>1. EventsOf(c)' = {}
      BY <2>1, <2>2 DEF EventsOf
    <3>2. SaidAll(c)'
      BY <2>1, <2>2, <3>1, OthersSayNothing DEF Ordered
    <3>3. AppliedInOrder(c)'
      BY <2>1, <2>2, <3>1, AppendKeepsApplied DEF Ordered
    <3>4. applied[c] <= Len(events) /\ applied[c] \in Nat
      BY BillingAssumption DEF Ordered, Typed, TypeOK, TypeOKBilling
    <3> QED
      BY <2>1, <3>2, <3>3, <3>4
  <2> QED
    BY <2>3 DEF Ordered
<1>2. sub[d].plan \in PlanKeys /\ "free" \in PlanKeys
  BY AccountsAssumption DEF Typed, TypeOK, TypeOKBilling
<1>3. ASSUME NEW k \in PlanKeys, Emit(d, <<"checkout", "created">>, k, "active")
      PROVE  Ordered'
  <2> DEFINE types == <<"checkout", "created">>
  <2>1. /\ types \in Seq(EventTypes) /\ Len(types) = 2 /\ Len(types) > 0
        /\ types[Len(types)] = "created"
    BY DEF EventTypes
  <2>2. Emit(d, types, k, "active")
    BY <1>3
  <2>3. <<"created", "active">> \in Says /\ "active" \in {"active", "past_due", "cancelled"}
    BY DEF Says
  <2> HIDE DEF types
  <2> QED
    BY <1>2, <1>3, <2>1, <2>2, <2>3, EmissionKeepsOrder
<1>4. ASSUME NEW k \in PlanKeys, NEW status \in {"active", "past_due"}, Emit(d, <<"updated">>, k, status)
      PROVE  Ordered'
  <2> DEFINE types == <<"updated">>
  <2>1. /\ types \in Seq(EventTypes) /\ Len(types) = 1 /\ Len(types) > 0
        /\ types[Len(types)] = "updated"
    BY DEF EventTypes
  <2>2. Emit(d, types, k, status)
    BY <1>4
  <2>3. <<"updated", status>> \in Says /\ status \in {"active", "past_due", "cancelled"}
    BY DEF Says
  <2> HIDE DEF types
  <2> QED
    BY <1>2, <1>4, <2>1, <2>2, <2>3, EmissionKeepsOrder
<1>5. ASSUME Emit(d, <<"failed">>, sub[d].plan, "past_due")
      PROVE  Ordered'
  <2> DEFINE types == <<"failed">>
  <2>1. /\ types \in Seq(EventTypes) /\ Len(types) = 1 /\ Len(types) > 0
        /\ types[Len(types)] = "failed"
    BY DEF EventTypes
  <2>2. Emit(d, types, sub[d].plan, "past_due")
    BY <1>5
  <2>3. <<"failed", "past_due">> \in Says /\ "past_due" \in {"active", "past_due", "cancelled"}
    BY DEF Says
  <2> HIDE DEF types
  <2> QED
    BY <1>2, <1>5, <2>1, <2>2, <2>3, EmissionKeepsOrder
<1>6. ASSUME Emit(d, <<"succeeded">>, sub[d].plan, "active")
      PROVE  Ordered'
  <2> DEFINE types == <<"succeeded">>
  <2>1. /\ types \in Seq(EventTypes) /\ Len(types) = 1 /\ Len(types) > 0
        /\ types[Len(types)] = "succeeded"
    BY DEF EventTypes
  <2>2. Emit(d, types, sub[d].plan, "active")
    BY <1>6
  <2>3. <<"succeeded", "active">> \in Says /\ "active" \in {"active", "past_due", "cancelled"}
    BY DEF Says
  <2> HIDE DEF types
  <2> QED
    BY <1>2, <1>6, <2>1, <2>2, <2>3, EmissionKeepsOrder
<1>7. ASSUME Emit(d, <<"cancelled">>, "free", "cancelled")
      PROVE  Ordered'
  <2> DEFINE types == <<"cancelled">>
  <2>1. /\ types \in Seq(EventTypes) /\ Len(types) = 1 /\ Len(types) > 0
        /\ types[Len(types)] = "cancelled"
    BY DEF EventTypes
  <2>2. Emit(d, types, "free", "cancelled")
    BY <1>7
  <2>3. <<"cancelled", "cancelled">> \in Says /\ "cancelled" \in {"active", "past_due", "cancelled"}
    BY DEF Says
  <2> HIDE DEF types
  <2> QED
    BY <1>2, <1>7, <2>1, <2>2, <2>3, EmissionKeepsOrder
<1> QED
  BY <1>1, <1>2, <1>3, <1>4, <1>5, <1>6, <1>7, ProviderEmits DEF Typed, TypeOK

LEMMA SameEvents ==
    ASSUME UNCHANGED <<provider, events>>, NEW c
    PROVE  /\ EventsOf(c)' = EventsOf(c) /\ PlanEventsOf(c)' = PlanEventsOf(c)
           /\ \A i : ChangesAt(i)' = ChangesAt(i)
<1>1. \A i : ChangesAt(i)' = ChangesAt(i)
  BY DEF ChangesAt
<1>2. EventsOf(c)' = EventsOf(c)
  BY DEF EventsOf
<1> QED
  BY <1>1, <1>2 DEF PlanEventsOf

LEMMA SaidStays ==
    ASSUME UNCHANGED <<provider, events, sub>>, NEW c, SaidAll(c)
    PROVE  SaidAll(c)'
BY SameEvents DEF SaidAll, StatusMatches, Matches, IsUpdate, PlanIsOf, IsLast

LEMMA RowSaysTheSame ==
    ASSUME UNCHANGED <<provider, events>>, NEW c, tenants'[c] = tenants[c], applied'[c] = applied[c],
           StatusIsOf(tenants[c], c, applied[c]), PlanIsOf(tenants[c], c, applied[c])
    PROVE  StatusIsOf(tenants[c], c, applied[c])' /\ PlanIsOf(tenants[c], c, applied[c])'
BY SameEvents DEF StatusIsOf, PlanIsOf, IsLast

\* A step that is not about the customer, or only ends a webhook, keeps its order.
LEMMA ElsewhereKeepsApplied ==
    ASSUME NEW c \in Customers, AppliedInOrder(c), UNCHANGED <<provider, events>>,
           tenants'[c] = tenants[c], applied'[c] = applied[c], surprises'[c] = surprises[c],
           \A i \in EventsOf(c) : i \in toDeliver' <=> i \in toDeliver,
           \A h \in Hooks : hook'[h].phase = "write" /\ events[hook'[h].index].customer = c
                => hook'[h] = hook[h]
    PROVE  AppliedInOrder(c)'
<1>1. EventsOf(c)' = EventsOf(c)
  BY SameEvents
<1>2. SUFFICES ASSUME surprises[c] = {}
               PROVE  AppliedInOrder(c)'
  BY DEF AppliedInOrder
<1>3. StatusIsOf(tenants[c], c, applied[c])' /\ PlanIsOf(tenants[c], c, applied[c])'
  BY <1>2, RowSaysTheSame DEF AppliedInOrder
<1>4. \A i \in EventsOf(c) : i \in toDeliver' <=> applied'[c] < i
  BY <1>2 DEF AppliedInOrder
<1>5. ASSUME NEW h \in Hooks, hook'[h].phase = "write", events'[hook'[h].index].customer = c
      PROVE  /\ hook'[h].index \in EventsOf(c) /\ applied'[c] < hook'[h].index
             /\ \A j \in EventsOf(c) : j < hook'[h].index => j <= applied'[c]
             /\ hook'[h].plan = PriceFound(provider', events'[hook'[h].index].payload, Absent)
             /\ hook'[h].row = tenants'[c]
             /\ \A g \in Hooks : hook'[g].phase = "write" /\ events'[hook'[g].index].customer = c => g = h
  BY <1>2, <1>5 DEF AppliedInOrder
<1> QED
  BY <1>1, <1>3, <1>4, <1>5 DEF AppliedInOrder

\* Received in order, an event is the next one, and the row is read whole.
LEMMA ReceiveKeepsOrder ==
    ASSUME Typed, Ordered, NEW h \in Hooks, NEW i \in DOMAIN events, Receive(h, i), UNCHANGED tenants
    PROVE  Ordered'
<1>0. PICK d \in Customers : d = events[i].customer
  BY EventsAreOfCustomers DEF Typed, TypeOK
<1> DEFINE price == PriceFound(provider, events[i].payload, Absent)
           New == [phase |-> "write", index |-> i, plan |-> PlanOfPrice(price), row |-> tenants[d]]
           Surprise == {x \in Surprises :
                           \/ x = "order" /\ \E j \in toDeliver : j < i /\ events[j].customer = d
                           \/ x = "repeat" /\ i <= applied[d]
                           \/ x = "overlap" /\ \E g \in Hooks : hook[g].phase = "write"
                           \/ x = "price" /\ PlanOfPrice(price) # price}
<1>1. /\ hook[h].phase = "idle" /\ IsHandled(provider, events[i].payload)
      /\ hook' = [hook EXCEPT ![h] = New]
      /\ surprises' = [surprises EXCEPT ![d] = @ \union Surprise]
      /\ UNCHANGED <<provider, sub, events, toDeliver, applied>>
  BY <1>0 DEF Receive
<1>2. /\ hook \in [Hooks -> Hook] /\ surprises \in [Customers -> SUBSET Surprises]
      /\ i \in EventsOf(d) /\ i \in Nat
      /\ \A c \in Customers : applied[c] \in Nat
      /\ \A c : \A j \in EventsOf(c) : j \in Nat
  BY <1>0, <1>1, BillingAssumption DEF Typed, TypeOK, TypeOKBilling, EventsOf
<1>3. \A c \in Customers : SaidAll(c)' /\ applied'[c] <= Len(events')
  BY <1>1, SaidStays DEF Ordered
<1>4. \A g \in Hooks : hook'[g] = IF g = h THEN New ELSE hook[g]
  BY <1>1, <1>2
<1>5. New.phase = "write" /\ New.index = i /\ New.plan = PlanOfPrice(price) /\ New.row = tenants[d]
  OBVIOUS
<1>6. surprises'[d] = surprises[d] \union Surprise
  BY <1>1, <1>2
<1> HIDE DEF New
<1>7. ASSUME NEW c \in Customers, c # d
      PROVE  AppliedInOrder(c)'
  <2>1. surprises'[c] = surprises[c]
    BY <1>1, <1>2, <1>7
  <2>2. \A g \in Hooks : hook'[g].phase = "write" /\ events[hook'[g].index].customer = c
           => hook'[g] = hook[g]
    BY <1>0, <1>4, <1>5, <1>7
  <2> QED
    BY <1>1, <2>1, <2>2, ElsewhereKeepsApplied DEF Ordered
<1>8. AppliedInOrder(d)'
  <2>1. SUFFICES ASSUME surprises[d] = {}, Surprise = {}
                 PROVE  AppliedInOrder(d)'
    BY <1>6 DEF AppliedInOrder
  <2>2. /\ ~ \E j \in toDeliver : j < i /\ events[j].customer = d
        /\ ~(i <= applied[d])
        /\ ~ \E g \in Hooks : hook[g].phase = "write"
        /\ PlanOfPrice(price) = price
    <3>1. \A x \in {"order", "repeat", "overlap", "price"} : x \in Surprises /\ x \notin Surprise
      BY <2>1 DEF Surprises
    <3> QED
      BY <3>1
  <2>3. applied[d] < i
    BY <1>2, <2>2
  <2>4. \A j \in EventsOf(d) : j \in toDeliver <=> applied[d] < j
    BY <2>1 DEF Ordered, AppliedInOrder
  <2>5. \A j \in EventsOf(d) : j < i => j <= applied[d]
    <3>1. \A j \in EventsOf(d) : j < i => j \notin toDeliver
      BY <2>2 DEF EventsOf
    <3> QED
      BY <1>2, <2>4, <3>1
  <2>6. \A g \in Hooks : hook'[g].phase = "write" => g = h
    BY <1>4, <2>2
  <2>7. hook'[h] = New
    BY <1>4
  <2>8. StatusIsOf(tenants[d], d, applied[d])' /\ PlanIsOf(tenants[d], d, applied[d])'
    BY <1>1, <2>1, RowSaysTheSame DEF Ordered, AppliedInOrder
  <2>9. EventsOf(d)' = EventsOf(d)
    BY <1>1, SameEvents
  <2>10. ASSUME NEW g \in Hooks, hook'[g].phase = "write", events'[hook'[g].index].customer = d
         PROVE  /\ hook'[g].index \in EventsOf(d) /\ applied'[d] < hook'[g].index
                /\ \A j \in EventsOf(d) : j < hook'[g].index => j <= applied'[d]
                /\ hook'[g].plan = PriceFound(provider', events'[hook'[g].index].payload, Absent)
                /\ hook'[g].row = tenants'[d]
                /\ \A k \in Hooks : hook'[k].phase = "write" /\ events'[hook'[k].index].customer = d => k = g
    <3>1. g = h /\ hook'[g] = New
      BY <2>6, <2>7, <2>10
    <3> QED
      BY <1>1, <1>2, <1>5, <2>2, <2>3, <2>5, <2>6, <3>1
  <2> QED
    BY <1>1, <2>4, <2>8, <2>9, <2>10 DEF AppliedInOrder
<1> QED
  BY <1>3, <1>7, <1>8 DEF Ordered

LEMMA IgnoreKeepsOrder ==
    ASSUME Typed, Ordered, NEW i \in DOMAIN events, Ignore(i), UNCHANGED tenants
    PROVE  Ordered'
<1>1. /\ ~IsHandled(provider, events[i].payload) /\ toDeliver' = toDeliver \ {i}
      /\ UNCHANGED <<provider, sub, events, repeats, hook, applied, surprises>>
  BY DEF Ignore
<1>2. ASSUME NEW c \in Customers
      PROVE  applied'[c] <= Len(events') /\ SaidAll(c)' /\ AppliedInOrder(c)'
  <2>1. SaidAll(c)'
    BY <1>1, SaidStays DEF Ordered
  <2>2. \A j \in EventsOf(c) : j \in toDeliver' <=> j \in toDeliver
    BY <1>1 DEF EventsOf
  <2>3. AppliedInOrder(c)'
    BY <1>1, <2>2, ElsewhereKeepsApplied DEF Ordered
  <2> QED
    BY <1>1, <2>1, <2>3 DEF Ordered
<1> QED
  BY <1>2 DEF Ordered

\* Written over the row as it was loaded and still is, the changes are what it then says.
LEMMA WrittenOverItself ==
    ASSUME NEW row \in TenantRow, NEW type \in EventTypes, NEW plan
    PROVE  LET new == Written(row, row, Changes(type, plan))
           IN  /\ new.status = Changes(type, plan)["status"]
               /\ "plan" \in DOMAIN Changes(type, plan) => new.plan = Changes(type, plan)["plan"]
               /\ "plan" \notin DOMAIN Changes(type, plan) => new.plan = row.plan
<1> DEFINE C == Changes(type, plan)
           W == Written(row, row, C)
<1>1. "status" \in DOMAIN C
  BY WhatChanges
<1> HIDE DEF C
<1>2. DOMAIN row = {"plan", "status"}
  BY DEF TenantRow
<1>3. W = [a \in {"plan", "status"} |-> IF a \in DOMAIN C /\ C[a] # row[a] THEN C[a] ELSE row[a]]
  BY <1>2 DEF Written
<1>4. /\ W["status"] = C["status"]
      /\ W["plan"] = IF "plan" \in DOMAIN C THEN C["plan"] ELSE row["plan"]
  BY <1>1, <1>3
<1> QED
  BY <1>4 DEF C

\* Applied in order, the event is the last the row is made of.
LEMMA ApplyKeepsOrder ==
    ASSUME Typed, Ordered, NEW h \in Hooks, Apply(h)
    PROVE  Ordered'
<1>0. PICK i : i = hook[h].index
  OBVIOUS
<1>1. i \in DOMAIN events /\ IsHandled(provider, events[i].payload) /\ hook[h].phase = "write"
  BY <1>0 DEF Apply, Typed, HooksHoldEvents
<1>2. PICK d \in Customers : d = events[i].customer
  BY <1>1, EventsAreOfCustomers DEF Typed, TypeOK
<1> DEFINE C == Changes(TypeOfEvent(provider, events[i].payload), hook[h].plan)
           new == Written(tenants[d], hook[h].row, C)
<1>3. /\ hook' = [hook EXCEPT ![h] = IdleHook]
      /\ UNCHANGED <<provider, sub, events, repeats, surprises>>
      /\ \/ UNCHANGED <<tenants, toDeliver, applied>>
         \/ /\ tenants' = [tenants EXCEPT ![d] = new]
            /\ toDeliver' = toDeliver \ {i}
            /\ applied' = [applied EXCEPT ![d] = i]
  BY <1>0, <1>2 DEF Apply
<1>4. /\ \A g \in Hooks : hook'[g] = IF g = h THEN IdleHook ELSE hook[g]
      /\ IdleHook.phase = "idle"
  BY <1>3 DEF Typed, TypeOK, TypeOKBilling, IdleHook
<1>5. /\ tenants \in [Names -> TenantRow \union {Absent}] /\ d \in Names /\ tenants[d] \in TenantRow
      /\ applied \in [Customers -> 0..MaxEvents] /\ i \in Nat /\ i <= Len(events)
      /\ \A c \in Customers : applied[c] \in Nat
      /\ TypeOfEvent(provider, events[i].payload) \in EventTypes
      /\ \A c : \A j \in EventsOf(c) : j \in Nat
  BY <1>1, TypesOfEvents, BillingAssumption
     DEF Typed, TypeOK, TypeOKAccounts, TypeOKBilling, WorkspacesStand, EventsOf
<1> HIDE DEF C, new
<1>6. \A c \in Customers : SaidAll(c)'
  BY <1>3, SaidStays DEF Ordered
<1>7. \A c \in Customers : applied'[c] <= Len(events')
  BY <1>3, <1>5 DEF Ordered
<1>8. i \in EventsOf(d) /\ \A c \in Customers \ {d} : i \notin EventsOf(c)
  BY <1>1, <1>2 DEF EventsOf
<1>9. ASSUME NEW c \in Customers, c # d \/ UNCHANGED <<tenants, toDeliver, applied>>
      PROVE  AppliedInOrder(c)'
  <2>1. tenants'[c] = tenants[c] /\ applied'[c] = applied[c] /\ surprises'[c] = surprises[c]
    BY <1>3, <1>5, <1>9, BillingAssumption
  <2>2. \A j \in EventsOf(c) : j \in toDeliver' <=> j \in toDeliver
    BY <1>3, <1>8, <1>9
  <2>3. \A g \in Hooks : hook'[g].phase = "write" /\ events[hook'[g].index].customer = c
            => hook'[g] = hook[g]
    BY <1>4
  <2> QED
    BY <1>3, <2>1, <2>2, <2>3, ElsewhereKeepsApplied DEF Ordered
<1>10. ASSUME tenants' = [tenants EXCEPT ![d] = new], toDeliver' = toDeliver \ {i},
              applied' = [applied EXCEPT ![d] = i]
       PROVE  AppliedInOrder(d)'
  <2>1. SUFFICES ASSUME surprises[d] = {}
                 PROVE  AppliedInOrder(d)'
    BY <1>3 DEF AppliedInOrder
  <2>2. /\ applied[d] < i /\ \A j \in EventsOf(d) : j < i => j <= applied[d]
        /\ hook[h].plan = PriceFound(provider, events[i].payload, Absent)
        /\ hook[h].row = tenants[d]
        /\ \A g \in Hooks : hook[g].phase = "write" /\ events[hook[g].index].customer = d => g = h
        /\ \A j \in EventsOf(d) : j \in toDeliver <=> applied[d] < j
        /\ PlanIsOf(tenants[d], d, applied[d])
    BY <1>0, <1>1, <1>2, <2>1 DEF Ordered, AppliedInOrder
  <2>3. tenants'[d] = new /\ applied'[d] = i
    BY <1>5, <1>10
  <2>4. C = ChangesAt(i) /\ new = Written(tenants[d], tenants[d], ChangesAt(i))
    BY <2>2 DEF C, new, ChangesAt
  <2>5. /\ new.status = ChangesAt(i)["status"]
        /\ "plan" \in DOMAIN ChangesAt(i) => new.plan = ChangesAt(i)["plan"]
        /\ "plan" \notin DOMAIN ChangesAt(i) => new.plan = tenants[d].plan
    BY <1>5, <2>4, WrittenOverItself DEF ChangesAt
  <2>6. /\ EventsOf(d)' = EventsOf(d) /\ PlanEventsOf(d)' = PlanEventsOf(d)
        /\ \A j : ChangesAt(j)' = ChangesAt(j)
    BY <1>3, SameEvents
  <2>7. \A S : i \in S => IsLast(S, i, i)
    BY <1>5 DEF IsLast
  <2>8. StatusIsOf(tenants[d], d, applied[d])'
    BY <1>8, <2>3, <2>5, <2>6, <2>7 DEF StatusIsOf
  <2>9. PlanIsOf(tenants[d], d, applied[d])'
    <3>1. CASE i \in PlanEventsOf(d)
      <4>1. new.plan = ChangesAt(i)["plan"]
        BY <2>5, <3>1 DEF PlanEventsOf
      <4> QED
        BY <2>3, <2>6, <2>7, <3>1, <4>1 DEF PlanIsOf
    <3>2. CASE i \notin PlanEventsOf(d)
      <4>1. new.plan = tenants[d].plan
        BY <1>8, <2>5, <3>2 DEF PlanEventsOf
      <4>2. \A j \in PlanEventsOf(d) : j \in Nat /\ (j <= i <=> j <= applied[d])
        <5>1. \A j \in PlanEventsOf(d) : j \in EventsOf(d) /\ j \in Nat /\ j # i
          BY <1>5, <3>2 DEF PlanEventsOf
        <5> QED
          BY <1>5, <2>2, <5>1
      <4>3. \A j : IsLast(PlanEventsOf(d), applied[d], j) => IsLast(PlanEventsOf(d), i, j)
        BY <4>2 DEF IsLast
      <4> QED
        BY <2>2, <2>3, <2>6, <4>1, <4>2, <4>3 DEF PlanIsOf
    <3> QED
      BY <3>1, <3>2
  <2>10. \A j \in EventsOf(d) : j \in toDeliver' <=> i < j
    <3> SUFFICES ASSUME NEW j \in EventsOf(d)
                 PROVE  j \in toDeliver' <=> i < j
      OBVIOUS
    <3>1. j \in Nat /\ applied[d] \in Nat /\ i \in Nat
      BY <1>5
    <3>2. j \in toDeliver' <=> applied[d] < j /\ j # i
      BY <1>10, <2>2
    <3>3. applied[d] < i /\ (j < i => j <= applied[d])
      BY <2>2
    <3> QED
      BY <3>1, <3>2, <3>3
  <2>11. \A g \in Hooks : ~(hook'[g].phase = "write" /\ events'[hook'[g].index].customer = d)
    BY <1>3, <1>4, <2>2
  <2> QED
    BY <2>3, <2>6, <2>8, <2>9, <2>10, <2>11 DEF AppliedInOrder
<1> QED
  BY <1>3, <1>6, <1>7, <1>9, <1>10 DEF Ordered

\* A plan an admin gives a tenant is a surprise to that one, and nothing to the others.
LEMMA AdminKeepsOrder ==
    ASSUME Typed, Ordered, NEW n \in Names, NEW k \in PlanKeys, ChangeTenantPlan(n, k)
    PROVE  Ordered'
<1>1. UNCHANGED <<provider, sub, events, toDeliver, hook, applied>>
  BY DEF ChangeTenantPlan
<1>2. ASSUME NEW c \in Customers
      PROVE  applied'[c] <= Len(events') /\ SaidAll(c)'
  BY <1>1, <1>2, SaidStays DEF Ordered
<1>3. ASSUME NEW c \in Customers, c = n
      PROVE  AppliedInOrder(c)'
  <2>1. surprises'[c] # {}
    BY <1>3 DEF ChangeTenantPlan
  <2> QED
    BY <2>1 DEF AppliedInOrder
<1>4. ASSUME NEW c \in Customers, c # n
      PROVE  AppliedInOrder(c)'
  <2>1. surprises'[c] = surprises[c]
    BY <1>4 DEF ChangeTenantPlan
  <2>2. tenants'[c] = tenants[c]
    BY <1>4, BillingAssumption DEF ChangeTenantPlan, Typed, TypeOK, TypeOKAccounts
  <2>3. AppliedInOrder(c)
    BY DEF Ordered
  <2> QED
    BY <1>1, <2>1, <2>2, <2>3, ElsewhereKeepsApplied
<1> QED
  BY <1>2, <1>3, <1>4 DEF Ordered

\* Where the customers' rows stay and nothing happens at the provider, so does their order.
LEMMA StillKeepsOrder ==
    ASSUME Ordered, UNCHANGED billingVars, \A c \in Customers : tenants'[c] = tenants[c]
    PROVE  Ordered'
<1>1. UNCHANGED <<provider, sub, events, toDeliver, hook, applied, surprises>>
  BY DEF billingVars
<1>2. ASSUME NEW c \in Customers
      PROVE  applied'[c] <= Len(events') /\ SaidAll(c)' /\ AppliedInOrder(c)'
  <2>1. applied[c] <= Len(events) /\ SaidAll(c) /\ AppliedInOrder(c)
    BY DEF Ordered
  <2>2. SaidAll(c)'
    BY <1>1, <2>1, SaidStays
  <2>3. AppliedInOrder(c)'
    BY <1>1, <1>2, <2>1, ElsewhereKeepsApplied
  <2> QED
    BY <1>1, <2>1, <2>2, <2>3
<1> QED
  BY <1>2 DEF Ordered

\* A registration makes a row of its own.
LEMMA RegistrationsLeaveCustomers ==
    ASSUME Typed, NEW s \in Signups, CheckEmail(s) \/ TryName(s) \/ Insert(s)
    PROVE  \A c \in Customers : tenants'[c] = tenants[c]
<1>1. CASE CheckEmail(s) \/ TryName(s)
  BY <1>1 DEF CheckEmail, TryName
<1>2. CASE Insert(s)
  <2>1. \A c \in Customers : c \in Names /\ tenants[c] # Absent
    BY BillingAssumption DEF Typed, WorkspacesStand
  <2>2. CASE MayInsert(s)
    <3>1. tenants' = [tenants EXCEPT ![Candidate(s)] = NewTenant] /\ tenants[Candidate(s)] = Absent
      BY <1>2, <2>2 DEF Insert, MayInsert
    <3> QED
      BY <2>1, <3>1 DEF Typed, TypeOK, TypeOKAccounts
  <2>3. CASE ~MayInsert(s)
    BY <1>2, <2>3 DEF Insert
  <2> QED
    BY <2>2, <2>3
<1> QED
  BY <1>1, <1>2

LEMMA OrderedAtFirst == Init => Ordered
<1> SUFFICES ASSUME Init, NEW c \in Customers
             PROVE  applied[c] <= Len(events) /\ SaidAll(c) /\ AppliedInOrder(c)
  BY DEF Ordered
<1>1. /\ events = <<>> /\ applied[c] = 0
      /\ sub[c] = [plan |-> "free", status |-> "none"]
      /\ \A h \in Hooks : hook[h].phase = "idle"
  BY DEF Init, BillingInit, IdleHook
<1>2. tenants[c].plan = "free"
  BY BillingAssumption DEF Init, NewTenant
<1>3. EventsOf(c) = {} /\ PlanEventsOf(c) = {}
  BY <1>1 DEF EventsOf, PlanEventsOf
<1> QED
  BY <1>1, <1>2, <1>3 DEF SaidAll, AppliedInOrder, StatusMatches, StatusIsOf, PlanIsOf

\* Events that arrive one after the other, each once and in order, leave a tenant with the
\* plan its subscription has, and with its status unless the last is an update while a payment
\* is due, whoever registers and whatever an admin does to the others: the provider's events
\* say what the subscription is, and the row says what the events applied to it do.
THEOREM EventsInOrderAreFollowed == Spec => []InOrderEventsGiveProviderPlan
<1>1. ASSUME Typed, Ordered, [Next]_vars
      PROVE  Ordered'
  <2>1. CASE UNCHANGED billingVars
    <3>1. CASE UNCHANGED tenants
      BY <1>1, <2>1, <3>1, StillKeepsOrder
    <3>2. CASE \E s \in Signups : CheckEmail(s) \/ TryName(s) \/ Insert(s)
      BY <1>1, <2>1, <3>2, RegistrationsLeaveCustomers, StillKeepsOrder
    <3>3. CASE \E o \in KeyOps : LoadKey(o) \/ WriteKey(o)
      BY <3>1, <3>3 DEF LoadKey, WriteKey
    <3>4. CASE \E h \in Hooks : Apply(h)
      BY <1>1, <3>4, ApplyKeepsOrder
    <3>5. CASE \E n \in Names, k \in PlanKeys : ChangeTenantPlan(n, k)
      BY <1>1, <3>5, AdminKeepsOrder
    <3>6. CASE \E k \in PlanKeys : DeletePlan(k) \/ \E l \in EditedLimits : CreatePlan(k, l)
      BY <3>1, <3>6 DEF DeletePlan, CreatePlan
    <3> QED
      BY <1>1, <3>1, <3>2, <3>3, <3>4, <3>5, <3>6, AccountSteps
  <2>2. CASE (\E c \in Customers : Provider(c)) /\ UNCHANGED tenants
    BY <1>1, <2>2, ProviderKeepsOrder
  <2>3. ASSUME NEW h \in Hooks, NEW i \in DOMAIN events, Receive(h, i) \/ Ignore(i), UNCHANGED tenants
        PROVE  Ordered'
    BY <1>1, <2>3, ReceiveKeepsOrder, IgnoreKeepsOrder
  <2>4. CASE \E h \in Hooks : Apply(h)
    BY <1>1, <2>4, ApplyKeepsOrder
  <2>5. CASE \E n \in Names, k \in PlanKeys : ChangeTenantPlan(n, k)
    BY <1>1, <2>5, AdminKeepsOrder
  <2> QED
    BY <1>1, <2>1, <2>2, <2>3, <2>4, <2>5, BillingSteps
<1> QED
  BY <1>1, OrderedAtFirst, OrderedIsEnough, TypedInvariant, PTL DEF Spec

=============================================================================
