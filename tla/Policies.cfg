\* Three policies of each kind of action, of which all may match, on one port;
\* firewall and database that fail for a while, a clock that is set back.
\* A silent bridge may do whatever a reporting one may.
SPECIFICATION FairSpec
CONSTANTS
    Ports <- OnePort
    Apps <- TheApps
    Snapshots <- TheSnapshots
    Rules <- ThreeRules
    Cooldown = 2
    MaxPolicies = 3
    MaxSteps = 1
    Bridges = {"none", "silent"}
    Faults = TRUE
INVARIANTS
    TypeOK
    TrailIsTrue
PROPERTIES
    MatchingPolicyActs
