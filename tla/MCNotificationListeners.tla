---------------------- MODULE MCNotificationListeners ----------------------
(* Instances of NotificationListeners for TLC.                             *)
EXTENDS NotificationListeners

MCNotificationIds == 1..3
MCGroupIds == 1..2
MCMaxIds ==
    [area |-> [notifications |-> 2, groups |-> 1],
     indicator |-> [notifications |-> 3, groups |-> 2],
     feedback |-> [notifications |-> 3, groups |-> 0],
     missed |-> [notifications |-> 2, groups |-> 0]]

Content(type, priority, icon, removable, plays, missed) ==
    [type |-> type, priority |-> priority, icon |-> icon, removable |-> removable,
     feedback |-> plays, missed |-> missed]

MCContents ==
    {Content("application", 0, "mail", TRUE, TRUE, "NotifyEmail"),
     Content("application", 1, "call", FALSE, FALSE, "NotifyCall"),
     Content("system", 1, "battery", TRUE, TRUE, "battery")}

=============================================================================
