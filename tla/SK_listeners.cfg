SPECIFICATION ListenersSpec
CONSTANTS
    NotificationIds <- MCNotificationIds
    GroupIds <- MCGroupIds
    Contents <- MCContents
    MaxCount = 2
    MaxIds <- MCMaxIds
    MaxBanners = 2
    MaxClicks = 1
    MaxMissed = 2
    MaxLockSignals = 2
    Watched = {"area", "indicator", "feedback", "missed"}
INVARIANT AreaFollowsNotifications
INVARIANT IconFollowsNotifications
 
INVARIANT MissedEventsShown
CHECK_DEADLOCK FALSE
