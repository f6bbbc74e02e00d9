SPECIFICATION Spec
CONSTANTS
    Proc = {p1, p2}
    NoProc = NoProc
    Buf = {c1, c2, c3}
    NoBuf = NoBuf
    Block = {k1, k2, k3, k4}
    NoBlock = NoBlock
    Val = {v1, v2}
    MaxPinned = 1
    ReadErrors = FALSE
SYMMETRY BcacheSymmetry

    
PROPERTIES
    IsBlockStore
