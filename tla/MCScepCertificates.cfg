CONSTANTS
    Certs = {c1, c2}
    MaxSetSize = 2
    NoMessage = NoMessage
SYMMETRY MCSymmetry
SPECIFICATION Spec
INVARIANTS
    TypeOK
    DegenerateShape
