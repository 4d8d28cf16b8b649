SPECIFICATION Spec
CONSTANTS
    Ips <- MCIps
    Sentinels <- MCSentinels
    MinMatches = 2
    MinConfirmed = 1
    MaxDestinations = 2
    Isps = {"p1", "p2"}
    AnyIsp = "any"
    Retries = 2
    Payloads <- MCPayloads
    Policies <- MCPolicies
INVARIANTS TypeOK RejectedWithNewToken ReportsNeverUnblock BlockNamesDestinations
PROPERTIES CallIsHandledAsAsked CallEnds
CHECK_DEADLOCK FALSE
