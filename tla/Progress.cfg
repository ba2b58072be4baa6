SPECIFICATION AllSpec
CONSTANTS
    N = 2
    MaxRefs = 2
    MaxCounter = 2
    MaxFreeze = 2
    MaxFiring = 2
    MaxPush = 2
    MaxKick = 2
    Stoppers = {s1, s2}
INVARIANTS RefsAccounted ZeroedMeansNoRefs ThreadsSafe LifecycleSafe
PROPERTIES CallbackAtZero ImplementsGate CallbackFires ThreadsServe EndsClean AllEnd
CHECK_DEADLOCK FALSE
