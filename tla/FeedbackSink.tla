---------------------------- MODULE FeedbackSink ----------------------------
(***************************************************************************)
(* The sink that plays the feedback of notifications                       *)
(* (systemui/notifications/ngfnotificationsink.cpp, ngfadapter.cpp) and    *)
(* what keeps it from that: application events are disabled while a video  *)
(* is recorded (Sysuid::applyUseMode).                                     *)
(***************************************************************************)
EXTENDS NotificationSignals, SequencesExt

VARIABLES
    feedback,   \* the members of NGFNotificationSink
    playing,    \* NGF: the events that were not stopped
    useMode     \* the context property, and whether its change was signalled

feedbackVars == <<feedback, playing, useMode>>

(* NGF numbers its events from 1.                                          *)
EventIds == 1..(Cardinality(NotificationIds) + 2)

CanAddNotification(content) == feedback.appEventsEnabled \/ content.type = "system"

(* A broken variant, with a plausible bug, stands before what it varies.   *)
PlaysAgain(s) ==
    /\ s.signal = "notificationUpdated"
    /\ CanAddNotification(s.content)
    /\ s.content.feedback

(* addNotification up to NGFAdapter::play.                                 *)
Plays(s) ==
    /\ s.signal = "notificationUpdated"
    /\ CanAddNotification(s.content)
    /\ s.id \notin DOMAIN feedback.idToEventId
    /\ s.content.feedback

Stops(s) == s.signal = "notificationRemoved" /\ s.id \in DOMAIN feedback.idToEventId

(* Of a step's signals only the first can be an update.                    *)
StoppedIds(signals) == {s.id : s \in {t \in Range(signals) : Stops(t)}}

(* An event that cannot be played has the number 0 and is forgotten.       *)
FeedbackListens(signals) ==
    /\ \E played \in {0, LowestFree(EventIds, playing)} :
       LET heard == {s \in Range(signals) : Plays(s)}
           kept == Without(feedback.idToEventId, StoppedIds(signals))
       IN  IF heard = {} \/ played = 0
           THEN /\ feedback' = [feedback EXCEPT !.idToEventId = kept]
                /\ playing' = playing \ {feedback.idToEventId[id] : id \in StoppedIds(signals)}
           ELSE \E s \in heard :
                /\ feedback' = [feedback EXCEPT !.idToEventId = With(kept, s.id, played)]
                /\ playing' = (playing \ {feedback.idToEventId[id] : id \in StoppedIds(signals)}) \cup {played}
    /\ UNCHANGED useMode

CameraChanges ==
    /\ useMode' = [value |-> IF useMode.value = "videorecording" THEN "other" ELSE "videorecording",
                   changed |-> TRUE]
    /\ UNCHANGED <<managerVars, feedback, playing>>

ApplyUseMode ==
    /\ useMode.changed
    /\ useMode' = [useMode EXCEPT !.changed = FALSE]
    /\ feedback' = [feedback EXCEPT !.appEventsEnabled = useMode.value # "videorecording"]
    /\ UNCHANGED <<managerVars, playing>>

FeedbackInit ==
    /\ feedback = [appEventsEnabled |-> TRUE, idToEventId |-> <<>>]
    /\ playing = {}
    /\ useMode = [value |-> "other", changed |-> FALSE]

FeedbackActs == CameraChanges \/ ApplyUseMode

-----------------------------------------------------------------------------
\* What plays belongs to one managed notification that was signalled, so that its
\* removal stops it: an update starts no second event, and neither do ids that are
\* issued again nor application events that are disabled while their notification
\* plays leave one behind (ngfnotificationsink.cpp:40-61).
FeedbackEndsWithItsNotification ==
    /\ playing = Range(feedback.idToEventId)
    /\ IsInjective(feedback.idToEventId)
    /\ \A id \in DOMAIN feedback.idToEventId :
           id \in DOMAIN managed /\ managed[id].relayed = "yes"

=============================================================================
