\* An instance that installs its CA, and one process of every other command.
SPECIFICATION Spec
CONSTANTS
    p1 = p1  p2 = p2  a = a  b = b
    Cut = Cut  None = None
    Proc = {p1, p2}
    Authority = {a, b}
    Scenario <- Scenarios
    MaxFaults = 1
SYMMETRY Symmetry
INVARIANTS TypeOK ServedIsTrusted NoOrphanedProxy ServedIsUsed
PROPERTIES UninstallIsComplete
\* The bound on the key pairs may stop a process that has to generate one.
CHECK_DEADLOCK FALSE
