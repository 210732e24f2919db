SPECIFICATION Spec
CONSTANTS
    RelayMode = "timed"
    MaxWaitQueueSize = 3
    MaxNotificationId = 2
    MaxGroupId = 1
    MaxUserId = 1
    MaxPosted = 0
    MaxTime = 1
    EventTypes <- OneEventType
    NoEventType = NoEventType
    et1 = et1
    EventTypeSettings <- AnySettings
    AddParams <- PlainOrTyped
    UpdateParams <- Nothing
    MayCrash = TRUE
    TornFiles = {"notifications"}
    SinkRegistration = "never"
INVARIANT TypeOK
 
 
INVARIANT UserIdsNeverReissued
