SPECIFICATION Spec
CONSTANTS
    b1 = b1
    b2 = b2
    Bios <- MCBios
    Ways <- PassThroughOnly
    Deferral = TRUE
    SlowDisk = FALSE
    Failures = FALSE
SYMMETRY Symmetry
INVARIANT EmptyOnStop
