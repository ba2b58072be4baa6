SPECIFICATION Spec
CONSTANTS
    Caches <- MCCaches
    Cores <- MCCores
    CacheOf <- MCCacheOf
    DiskOf <- MCDiskOf
    ExpObj <- MCExpObj
    Lazy = {"k2"}
INVARIANTS ReportTrue InitExact SettleStopTrue ScrapeExact SafeExact
PROPERTIES CommandReturns AllComeUp
CHECK_DEADLOCK FALSE
