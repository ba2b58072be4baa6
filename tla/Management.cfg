SPECIFICATION Spec
CONSTANTS
    Users = {u1, u2}
    Ids = {0, 1}
    AnyId = 9
    Setters = {u1, u2}
    Cores = {"c1"}
    Modes = {0, 1}
    Values = {1}
SYMMETRY Symmetry
INVARIANTS DumpExact LoadExact RulesExact ClassifiesRight IdsExact SettingsKept ListExact
CHECK_DEADLOCK FALSE
