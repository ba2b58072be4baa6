SPECIFICATION Spec
CONSTANTS
    b1 = b1
    b2 = b2
    Bios <- MCBios
    Ways <- FlushWays
    Deferral = TRUE
    SlowDisk = TRUE
    Failures = TRUE
SYMMETRY Symmetry
INVARIANTS FlushedOnCore LastWriteKept ReadsCurrent
