SPECIFICATION FairSpec
CONSTANTS
    RelayMode = "timed"
    MaxWaitQueueSize = 3
    MaxNotificationId = 3
    MaxGroupId = 0
    MaxUserId = 0
    MaxPosted = 0
    MaxTime = 1
    EventTypes <- Nothing
    NoEventType = NoEventType
    et1 = et1
    EventTypeSettings <- Nothing
    AddParams <- BothClasses
    UpdateParams <- Nothing
    MayCrash = FALSE
    TornFiles <- Nothing
    SinkRegistration = "never"
INVARIANT NobodyForgottenOrOvertaken
 
PROPERTY SystemNeverStarves
PROPERTY ApplicationStarvesOnlyBehindSystem
 
