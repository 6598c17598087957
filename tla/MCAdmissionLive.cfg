CONSTANTS
    s1 = s1  s2 = s2  s3 = s3  g1 = g1  r1 = r1
    w1 = w1  claude = claude
    Sessions = {s1}
    Grants = {g1}
    Revokes = {r1}
    Workspaces = {w1}
    Providers = {claude}
    GlobalLimit = 2
    ProviderLimit = 2
    MaxCrashes = 1
    DiskFaults = TRUE
    ReapTimeouts = TRUE
    PayloadFaults = TRUE
    None = None
    WorkspaceOf <- OneWorkspace
    ProviderOf <- AllClaude
    GrantFor <- GrantW1
    RevokeOf <- RevokeW1
SPECIFICATION FairSpec
INVARIANTS
    TrustIsAudited
PROPERTIES
    RevocationCompletes
    RequestsAreAnswered
CHECK_DEADLOCK FALSE
