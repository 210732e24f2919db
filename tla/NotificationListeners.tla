----------------------- MODULE NotificationListeners -----------------------
(***************************************************************************)
(* The listeners of the notification manager in lockstep, as sysuid.cpp    *)
(* and the views connect them: each signal is heard by all of them.  They  *)
(* do not know each other; a behaviour watches one of them, "watched",     *)
(* while the others are not there.                                         *)
(***************************************************************************)
EXTENDS NotificationArea, NotificationIndicator, FeedbackSink, MissedEvents

CONSTANTS
    Watched,    \* the listeners to watch
    MaxIds      \* listener -> bound on the ids of notifications and of groups

VARIABLE watched

listenerVars == <<managerVars, areaVars, indicator, feedbackVars, missedVars, watched>>

Listeners == {"area", "indicator", "feedback", "missed"}

ASSUME WatchedAssumption == Watched \subseteq Listeners

AreaWatched ==
    /\ watched = "area"
    /\ ManagerStep(AreaListens) \/ AreaActs
    /\ UNCHANGED <<indicator, feedbackVars, missedVars>>

IndicatorWatched ==
    /\ watched = "indicator"
    /\ ManagerStep(IndicatorListens)
    /\ UNCHANGED <<areaVars, feedbackVars, missedVars>>

(* These two hear nothing of groups.                                       *)
FeedbackWatched ==
    /\ watched = "feedback"
    /\ NotificationStep(FeedbackListens) \/ FeedbackActs
    /\ UNCHANGED <<areaVars, indicator, missedVars>>

MissedWatched ==
    /\ watched = "missed"
    /\ NotificationStep(MissedListens) \/ MissedActs
    /\ UNCHANGED <<areaVars, indicator, feedbackVars>>

ListenersInit ==
    /\ watched \in Watched
    /\ SignalsInit /\ AreaInit /\ IndicatorInit /\ FeedbackInit /\ MissedInit
    /\ watched # "missed" => ~touchLock.locked
    /\ watched \in {"feedback", "missed"} => managedGroups = <<>>

WithinBounds ==
    /\ DOMAIN managed \subseteq 1..MaxIds[watched].notifications
    /\ DOMAIN managedGroups \subseteq 1..MaxIds[watched].groups

ListenersNext ==
    /\ AreaWatched \/ IndicatorWatched \/ FeedbackWatched \/ MissedWatched
    /\ UNCHANGED watched
    /\ WithinBounds'

ListenersSpec == ListenersInit /\ [][ListenersNext]_listenerVars

-----------------------------------------------------------------------------
\* The properties of the listeners that hear every signal of the manager are
\* about those that are watched (sysuid.cpp:84-91).
IconFollowsNotifications == watched = "indicator" => IconOfMostImportant
FeedbackFollowsNotifications == watched = "feedback" => FeedbackEndsWithItsNotification

=============================================================================
