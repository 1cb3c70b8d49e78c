SPECIFICATION FairSpec
CONSTANTS
    r1 = r1
    r2 = r2
    p1 = p1
    p2 = p2
    Requests = {r1, r2}
    Policies <- MCPolicies
    PolicyOf <- MCPolicyOf
    DbConfigured = TRUE
    MaxBoots = 2
CHECK_DEADLOCK FALSE
INVARIANTS
    StrictWriteThrough
    EvidenceBacked
PROPERTIES
    QuietOnceDegraded
    WholeUnlessDegraded
    ImplementsService
    RequestsSettle
    DegradeCompletes
