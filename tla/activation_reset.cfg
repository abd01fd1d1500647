\* The zone is set back after an activation, and the next one stops half way.
SPECIFICATION Spec
CONSTANTS
    Clients = {c1}
    Range = 8
    MaxFaults = 2
PROPERTY AdmittedAmongDrained
