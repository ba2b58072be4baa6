SPECIFICATION Spec
CONSTANTS
    b1 = b1
    b2 = b2
    Bios <- MCBios
    Ways <- DefaultOnly
    Deferral = FALSE
    SlowDisk = FALSE
    Failures = FALSE
SYMMETRY Symmetry
INVARIANT NoStaleRead
