CONSTANTS
    s1 = s1  s2 = s2  s3 = s3  g1 = g1  r1 = r1
    w1 = w1  claude = claude
    Sessions = {s1, s2, s3}
    Grants = {g1}
    Revokes = {r1}
    Workspaces = {w1}
    Providers = {claude}
    GlobalLimit = 2
    ProviderLimit = 1
    MaxCrashes = 1
    DiskFaults = FALSE
    ReapTimeouts = FALSE
    PayloadFaults = FALSE
    None = None
    WorkspaceOf <- MixedWorkspaces
    ProviderOf <- AllClaude
    GrantFor <- GrantW1
    RevokeOf <- RevokeW1
SPECIFICATION Spec
SYMMETRY Symmetry
INVARIANTS
    OneSessionPerWorkspace
    RevokedIsQuiet
    RevocationIsDurable
    LimiterExact
    NoLeakedLease
PROPERTIES
    StartsOnlyWhereTrusted
CHECK_DEADLOCK FALSE
