SPECIFICATION Spec
CONSTANTS
    MaxNotificationId = 3
    PreviewKeys = {"true"}
    Updates = "any"
    Kinds = {"system", "application"}
INVARIANT SystemNotLeaked
