\* Every pair of policies, pumps apart or not, two cuts or deadlines and two messages each way.
SPECIFICATION FairSpec
CONSTANTS
    Policies <- MCPolicies
    MaxCuts = 2
    MaxApps = 2
INVARIANT ProvenAndSealed
INVARIANT SessionsStand
INVARIANT OneReceive
PROPERTY Settles
CHECK_DEADLOCK FALSE
