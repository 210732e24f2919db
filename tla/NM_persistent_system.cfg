SPECIFICATION Spec
CONSTANTS
    RelayMode = "timed"
    MaxWaitQueueSize = 3
    MaxNotificationId = 3
    MaxGroupId = 0
    MaxUserId = 0
    MaxPosted = 0
    MaxTime = 1
    EventTypes <- OneEventType
    NoEventType = NoEventType
    et1 = et1
    EventTypeSettings <- AnySettings
    AddParams <- PlainOrTyped
    UpdateParams <- Nothing
    MayCrash = FALSE
    TornFiles <- Nothing
    SinkRegistration = "never"
INVARIANT SystemNotPersistent
