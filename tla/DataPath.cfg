SPECIFICATION Spec
CONSTANTS
    MaxParts = 3
    MaxBios = 1
    Users = {o1, o2, o3}
    Paths = {"sda", "sda-by-id", "sdb"}
    DeviceOf <- MCDeviceOf
    Structs = {"d1", "d2", "d3"}
INVARIANTS EndsExact AnswersRight PoolsExact DisksExact
PROPERTY ImplementsStream
CHECK_DEADLOCK FALSE
