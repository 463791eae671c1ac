SPECIFICATION Spec
CONSTANTS
    Planes = {p1, p2}
    NoPlane = NoPlane
    MaxMoves = 2
SYMMETRY Symmetry
INVARIANT FlyingIsTracked
