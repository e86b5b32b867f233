CONSTANTS
    Keys = {k1, k2, k3, k4}
    Vals = {v1, v2}
    Capacity = 3

SPECIFICATION Spec
INVARIANT MapMatchesDeque
PROPERTY ImplementsRecencyCache
