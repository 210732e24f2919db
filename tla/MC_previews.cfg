SPECIFICATION Spec
CONSTANTS
    MaxNotificationId = 1
    PreviewKeys = {"unset"}
    Updates = "never"
    Kinds = {"application"}
INVARIANT PreviewsFollowConditions
