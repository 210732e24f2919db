SPECIFICATION FairSpec
CONSTANTS
    MaxNotificationId = 2
    PreviewKeys = {"true", "false"}
    Updates = "known"
    Kinds = {"system", "application", "textless"}
INVARIANT SinkConsistent
INVARIANT BannersServed
INVARIANT SystemNotLeaked
PROPERTY AnnouncedSystemRemoved
