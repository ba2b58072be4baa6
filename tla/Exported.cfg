SPECIFICATION AllSpec
CONSTANTS
    Cores = {c1, c2}
    MaxOpeners = 1
    Bios = {b1, b2}
    Ways = {"pass through"}
    Deferral = FALSE
    SlowDisk = FALSE
    Failures = FALSE
INVARIANTS ObjectsConsistent CommandsRestore EmptyOnStop
PROPERTIES CommandsFinish AllServed
