\* Two clients against an owner; identities wrap; two things go wrong.
SPECIFICATION Spec
CONSTANTS
    Clients = {c1, c2}
    Range = 6
    MaxFaults = 2
INVARIANTS
    TypeOK
    ReceiptProves
PROPERTIES
    PostSetClientsPreserved
    EventuallyActive
