SPECIFICATION ObjSpec
CONSTANTS
    Cores = {c1, c2}
    MaxOpeners = 1
INVARIANT RemoveRetried
