SPECIFICATION Spec
CONSTANTS
    RelayMode = "timed"
    MaxWaitQueueSize = 1
    MaxNotificationId = 3
    MaxGroupId = 1
    MaxUserId = 0
    MaxPosted = 1
    MaxTime = 2
    EventTypes <- Nothing
    NoEventType = NoEventType
    et1 = et1
    EventTypeSettings <- Nothing
    AddParams <- OnlyApplication
    UpdateParams <- KeepAsIs
    MayCrash = FALSE
    TornFiles <- Nothing
    SinkRegistration = "quiet"
INVARIANT WaitQueueConsistent
 
 
 
