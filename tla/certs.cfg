\* Two processes, three pairs, two handshakes each.
SPECIFICATION Spec
CONSTANTS
    p1 = p1  p2 = p2  a = a  b = b  c = c  g1 = g1  g2 = g2
    Cut = Cut  None = None
    Proc = {p1, p2}
    Authority = {a, b, c}
    Handshake = {g1, g2}
    Validity = 1
    SweepEvery = 1
    MaxNow = 3
SYMMETRY Symmetry
INVARIANTS TypeOK SigningKeyMatches LeafVerifies
PROPERTIES PairIsKept LeafServedInTime
