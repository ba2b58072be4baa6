SPECIFICATION SomeSpec
CONSTANTS
    Cmds = {"mode", "attach", "detach", "stop", "update", "query"}
    Program <- Commands
INVARIANTS
    NoFault
    NothingLeaks
PROPERTY SuccessIsReal
