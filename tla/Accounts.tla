------------------------------ MODULE Accounts ------------------------------
(***************************************************************************)
(* Tenants, their owners and their API keys: registration                  *)
(* (app/services/auth_service.py), and rotating and revoking a key         *)
(* (app/services/api_key_service.py).                                      *)
(*                                                                         *)
(* Every request is one transaction; its reads see what is committed, and  *)
(* others commit between them.  An insert waits for a rival with the same  *)
(* unique value to commit or roll back, so it is decided at the commit.    *)
(* Passwords and tokens are not modelled: a token only names its tenant.   *)
(***************************************************************************)
EXTENDS Integers, Sequences, FiniteSets

CONSTANTS
    Names, Emails,
    PlanKeys,
    Signups,        \* POST /auth/register requests
    EmailOf,        \* [Signups -> Emails]
    NamesOf,        \* [Signups -> Seq(Names)]: the workspace name and its numbered variants
    Keys,           \* API keys
    KeyOps,         \* admin requests about keys, <<"rotate" or "revoke", key, number>>
    Absent

ASSUME AccountsAssumption ==
    /\ "free" \in PlanKeys
    /\ EmailOf \in [Signups -> Emails]
    /\ IsFiniteSet(Signups) /\ NamesOf \in [Signups -> Seq(Names)]
    /\ \A o \in KeyOps : o[1] \in {"rotate", "revoke"} /\ o[2] \in Keys /\ o[3] \in Nat
    /\ Absent \notin Names \union PlanKeys

VARIABLES
    plans,          \* keys of the rows of plans
    tenants,        \* [Names -> the tenant's row, or Absent]
    users,          \* [Emails -> the name of the user's tenant, or Absent]
    signup,         \* [Signups -> where the request is]
    keys,           \* [Keys -> the key's row]
    keyOp           \* [KeyOps -> where the request is, and the row it loaded]

accountVars == <<users, signup, keys, keyOp>>

TenantRow == [plan: PlanKeys, status: {"active", "past_due", "cancelled"}]

ASSUME AbsentIsNoRow == Absent \notin TenantRow

\* Mutant: a new tenant starts with a status nothing else knows.
NewTenantTrialing == [plan |-> "free", status |-> "trialing"]

NewTenant == [plan |-> "free", status |-> "active"]

SignupPhase == {"email", "name", "insert", "registered", "refused", "failed"}

KeyRow == [secret: Nat, active: BOOLEAN]

TypeOKAccounts ==
    /\ plans \subseteq PlanKeys
    /\ tenants \in [Names -> TenantRow \union {Absent}]
    /\ users \in [Emails -> Names \union {Absent}]
    /\ signup \in [Signups -> [phase: SignupPhase, tries: Nat \ {0}]]
    /\ keys \in [Keys -> KeyRow]
    /\ keyOp \in [KeyOps -> [phase: {"load", "write", "done"}, row: KeyRow]]

-----------------------------------------------------------------------------
\* POST /auth/register.

Candidate(s) == NamesOf[s][signup[s].tries]

\* An account with the email is refused.
CheckEmail(s) ==
    /\ signup[s].phase = "email"
    /\ signup' = [signup EXCEPT ![s].phase = IF users[EmailOf[s]] # Absent THEN "refused" ELSE "name"]
    /\ UNCHANGED <<plans, tenants, users, keys, keyOp>>

\* The first name nobody has: the email's prefix, then with a number.
TryName(s) ==
    /\ signup[s].phase = "name"
    /\ signup' = IF tenants[Candidate(s)] # Absent THEN [signup EXCEPT ![s].tries = @ + 1]
                                                   ELSE [signup EXCEPT ![s].phase = "insert"]
    /\ UNCHANGED <<plans, tenants, users, keys, keyOp>>

\* Mutant: each insert is a transaction of its own.
MayInsertApart(s) == tenants[Candidate(s)] = Absent /\ "free" \in plans

\* The unique name and email, and the foreign key to the plan.
MayInsert(s) ==
    /\ tenants[Candidate(s)] = Absent
    /\ users[EmailOf[s]] = Absent
    /\ "free" \in plans

\* Tenant and owner are inserted in one transaction; an IntegrityError undoes both.
Insert(s) ==
    /\ signup[s].phase = "insert"
    /\ IF MayInsert(s)
       THEN /\ tenants' = [tenants EXCEPT ![Candidate(s)] = NewTenant]
            /\ users' = [users EXCEPT ![EmailOf[s]] = IF @ = Absent THEN Candidate(s) ELSE @]
            /\ signup' = [signup EXCEPT ![s].phase = "registered"]
       ELSE /\ signup' = [signup EXCEPT ![s].phase = "failed"]
            /\ UNCHANGED <<tenants, users>>
    /\ UNCHANGED <<plans, keys, keyOp>>

Register(s) == CheckEmail(s) \/ TryName(s) \/ Insert(s)

-----------------------------------------------------------------------------
\* POST /admin/api-keys/{id}/rotate and DELETE /admin/api-keys/{id}.

\* The row is loaded.
LoadKey(o) ==
    /\ keyOp[o].phase = "load"
    /\ keyOp' = [keyOp EXCEPT ![o] = [phase |-> "write", row |-> keys[o[2]]]]
    /\ UNCHANGED <<plans, tenants, users, signup, keys>>

\* Secrets are numbered by the request that made them.
NewSecret(o) == o[3]

\* Mutant: the whole row is written, as it was loaded.
WrittenKeyWhole(o, row, loaded) ==
    IF o[1] = "rotate" THEN [secret |-> NewSecret(o), active |-> loaded.active]
                       ELSE [secret |-> loaded.secret, active |-> FALSE]

\* Only the attributes that were changed are written over the row.
WrittenKey(o, row, loaded) ==
    IF o[1] = "rotate" THEN [secret |-> NewSecret(o), active |-> row.active]
                       ELSE [secret |-> row.secret, active |-> FALSE]

WriteKey(o) ==
    /\ keyOp[o].phase = "write"
    /\ keys' = [keys EXCEPT ![o[2]] = WrittenKey(o, @, keyOp[o].row)]
    /\ keyOp' = [keyOp EXCEPT ![o].phase = "done"]
    /\ UNCHANGED <<plans, tenants, users, signup>>

\* authenticate: the row with this hash, active.
KeyIsGood(k, secret) == keys[k].secret = secret /\ keys[k].active

SignupsNext == \E s \in Signups : Register(s)

KeysNext == \E o \in KeyOps : LoadKey(o) \/ WriteKey(o)

-----------------------------------------------------------------------------

\* However registrations overlap, and whichever of them fails, an account is whole: every
\* user has a tenant that exists, every tenant has exactly one owner, and a registration
\* that reported success is one of them.  (The tenants there from the start have theirs: the
\* one the migration makes for the rows of before is given its owner by scripts/seed_owner.py.)
AccountsAreWhole ==
    /\ \A e \in Emails : users[e] # Absent => tenants[users[e]] # Absent
    /\ \A n \in Names : tenants[n] # Absent => Cardinality({e \in Emails : users[e] = n}) = 1
    /\ \A s \in Signups : signup[s].phase = "registered" => users[EmailOf[s]] = Candidate(s)

\* A revoked key stays revoked, whatever rotation was under way.
RevokedStaysRevoked == [][\A k \in Keys : ~keys[k].active => ~keys'[k].active]_keys

=============================================================================
