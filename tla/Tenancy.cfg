CONSTANTS
    Absent = Absent
    Null = Null
    NoOverride = NoOverride
    Names <- MCNames
    Emails <- MCEmails
    PlanKeys = {"free", "pro"}
    Signups <- MCSignups
    EmailOf <- MCEmailOf
    NamesOf <- MCNamesOf
    Keys = {"k1"}
    KeyOps <- MCKeyOps
    Workspaces = {"c1", "c2"}
    Customers = {"c1"}
    OwnerOf <- MCOwnerOf
    Hooks = {h1, h2}
    MaxEvents = 6
    MaxRepeats = 1
    Creates <- MCCreates
    TenantOf <- MCTenantOf
    ResourceOf <- MCResourceOf
    TypeOf <- MCTypeOf
    KnownTypes = {"webhook", "exchange", "adx"}
    TitleOf <- MCTitleOf
    Limits0 <- MCLimits
    EditedLimits <- MCEdited
    Overrides <- MCOverrides
    Workloads <- MCWorkloads
    MaxAdmin = 2
SYMMETRY MCSymmetry
SPECIFICATION MCSpec
INVARIANTS TypeOK AccountsAreWhole InOrderEventsGiveProviderPlan QuotaExceededOnlyByRaces PlansOfTenantsExist
PROPERTIES RevokedStaysRevoked
CHECK_DEADLOCK FALSE
