SPECIFICATION MCSpec
CONSTANTS
    CALL_ACTIVE_NOTIFICATION_INTERVAL = 1
    DEVICE_ACTIVE_NOTIFICATION_INTERVAL = 2
    DEVICE_INACTIVE_NOTIFICATION_INTERVAL = 3
    ChargerTypes = {"None", "Wall"}
    MaxBatterySignals = 2
    MaxPosted = 1
    MaxModeSignals = 1
    MaxRequestTimers = 2
    IndicatorGroups <- RelatedKinds
    SecondsPerMinute = 4
    MaxSeconds = 16
    MaxWindows = 3
    MaxXEvents = 2
    MaxDays = 1
    MaxUnlocks = 1
    BusIds = {1}
    BusVersions = {0, 1}
    SinkAddresses = {a1}
    MaxBusCalls = 3
    EventTypes = {"sms", "mail"}
    Versions = {"v1", "v2"}
    MaxStoredEventTypes = 1
INVARIANT UserKnowsBattery
INVARIANT DialogInPlace
 
INVARIANT IndicatorsTellTheContext
INVARIANT LimitedServiceStays
INVARIANT ClockIsRight
 
INVARIANT NothingLeftBehind
 
INVARIANT StoreFollowsFiles
CHECK_DEADLOCK FALSE
