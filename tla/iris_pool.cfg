\* Three goroutines; memory for as many messages.
SPECIFICATION Spec
CONSTANTS
    h1 = h1
    h2 = h2
    h3 = h3
    o1 = o1
    o2 = o2
    o3 = o3
    Handlers = {h1, h2, h3}
    Messages = {o1, o2, o3}
    Blank = Blank
SYMMETRY PoolSymmetry
INVARIANTS
    TypeOK
    OneOwner
    PooledBlank
    WireCarriesOwnFeatures
