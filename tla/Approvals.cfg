\* Two dashboards behind one address, two calls, a policy that asks once.
SPECIFICATION Spec
CONSTANTS
    alice = alice
    bob = bob
    Senders <- TwoSenders
    Addresses <- OneAddress
    AddressOf <- SameAddress
    Pids <- TwoPids
    Statuses <- TheStatuses
    MaxClicks = 2
    MaxPolicyTickets = 1
    MaxRequests = 2
    Window = 2
SYMMETRY Symmetry
INVARIANTS
    TypeOK
    OneTicketPerCall
    TrailTellsDecision
    AdmittedPerWindow
