SPECIFICATION Spec
CONSTANTS
    Cmds = {"detach"}
    Program <- DetachAlone
INVARIANT DetachFinishes
