----------------------------- MODULE MissedEvents -----------------------------
(***************************************************************************)
(* The events that were missed while the screen was locked                 *)
(* (extensions/screenlock): the sink that sorts notifications into types   *)
(* (unlocknotificationsink.cpp), the singleton that counts them            *)
(* (unlockmissedevents.cpp) and the widget of the lock screen that shows   *)
(* the counts and the most recent event (unlocknotifications.cpp).         *)
(*                                                                         *)
(* The sink hears of the lock from MCE, some time after it changed.  A     *)
(* change of the theme replaces the view of the lock screen and with it    *)
(* the sink and the widget; the singleton stays.                           *)
(***************************************************************************)
EXTENDS NotificationSignals, SequencesExt

CONSTANTS
    MaxMissed,          \* bound on the events that are counted per type
    MaxLockSignals      \* bound on the lock signals that were not delivered

ASSUME MissedAssumption == MaxMissed \in Nat /\ MaxLockSignals \in Nat \ {0}

VARIABLES
    touchLock,      \* MCE: the lock, and the states it has still to signal
    missedEvents,   \* the members of UnlockMissedEvents
    lockSink,       \* m_enabled of UnlockNotificationSink
    lockWidget,     \* the members of UnlockNotifications
    orientation     \* of the scene manager

missedVars == <<touchLock, missedEvents, lockSink, lockWidget, orientation>>

Types == {"NotifyEmail", "NotifySms", "NotifyCall", "NotifyMessage", "NotifyOther"}
NotifyLast == "NotifyLast"
Urgent == {"NotifySms", "NotifyCall"}

(* What is laid out: of a type, or of the most recent event.               *)
Icon(t) == [item |-> "icon", of |-> t]
Label(t) == [item |-> "label", of |-> t]
Pair(t) == <<Icon(t), Label(t)>>
LastIcon == Icon(NotifyLast)
LastSubject == Label(NotifyLast)

(* What the constructor lays out: the most recent event is in the row of   *)
(* the other events, since the orientation is landscape at first.          *)
NewWidget ==
    [visible |-> FALSE,         \* notificationArea of the view
     mostRecentVisible |-> FALSE,
     lastType |-> NotifyLast,   \* by the image of m_last_icon
     lastText |-> 0,            \* the count it tells, 0 for nothing
     labels |-> <<>>,           \* the counts that m_labels show
     row |-> Pair(NotifyLast)]   \* m_icon_layout

NoEvents == [counts |-> [t \in Types |-> 0], lastType |-> NotifyLast]

(* removeItem: what is not laid out cannot be taken out.                   *)
ItemOut(row, item) ==
    IF item \in Range(row) THEN RemoveAt(row, CHOOSE i \in DOMAIN row : row[i] = item) ELSE row

Out(row, t) == ItemOut(ItemOut(row, Icon(t)), Label(t))

(* The labels and icons of all types are deleted; the items of the most    *)
(* recent event, which come and go together, are left.                     *)
OnlyMostRecent(row) == IF LastIcon \in Range(row) THEN Pair(NotifyLast) ELSE <<>>

(* An index past the end puts the items at the end.                        *)
InsertedAt(row, index, items) ==
    LET i == IF index > Len(row) THEN Len(row) ELSE index
    IN  SubSeq(row, 1, i) \o items \o SubSeq(row, i + 1, Len(row))

-----------------------------------------------------------------------------
(* UnlockNotifications.                                                    *)

OrientationChanged(w, towards) ==
    LET others == Out(w.row, NotifyLast)
    IN  IF towards = "landscape"
        THEN [w EXCEPT !.row = Pair(NotifyLast) \o others, !.mostRecentVisible = FALSE]
        ELSE [w EXCEPT !.row = others, !.mostRecentVisible = TRUE]

(* An sms or a call stays on top of other, newer events.                   *)
MostRecentShown(w, events) ==
    IF w.lastType \in Urgent /\ events.lastType \notin Urgent THEN w
    ELSE [w EXCEPT !.lastType = events.lastType, !.lastText = events.counts[events.lastType]]

Cleared(w) ==
    [w EXCEPT !.visible = FALSE, !.labels = <<>>, !.lastType = NotifyLast, !.lastText = 0,
              !.row = OnlyMostRecent(@)]

(* updateContents; whether an item is visible depends on what is around it *)
(* as well, which the code calls lying.                                    *)
UpdatedKeepsOldLabel(w, events, seen) ==
    LET t == events.lastType
        shown == MostRecentShown(OrientationChanged([w EXCEPT !.visible = TRUE], orientation), events)
        index == IF ~seen /\ shown.row # <<>> THEN 2 ELSE 0
    IN  IF t = NotifyLast THEN Cleared(w)
        ELSE IF t \in DOMAIN w.labels THEN shown
        ELSE [shown EXCEPT !.labels = With(@, t, events.counts[t]),
                           !.row = InsertedAt(@, index, Pair(t))]

Updated(w, events, seen) ==
    LET t == events.lastType
        shown == MostRecentShown(OrientationChanged([w EXCEPT !.visible = TRUE], orientation), events)
        others == IF t \in DOMAIN w.labels THEN Out(shown.row, t) ELSE shown.row
        index == IF ~seen /\ others # <<>> THEN 2 ELSE 0
    IN  IF t = NotifyLast THEN Cleared(w)
        ELSE [shown EXCEPT !.labels = With(@, t, events.counts[t]),
                           !.row = InsertedAt(others, index, Pair(t))]

(* The singleton says that it was updated.                                 *)
EventsBecome(events) ==
    /\ missedEvents' = events
    /\ \E seen \in {FALSE, orientation = "portrait"} : lockWidget' = Updated(lockWidget, events, seen)

-----------------------------------------------------------------------------
(* UnlockMissedEvents::clearAll.                                           *)
ClearAll ==
    IF missedEvents.lastType = NotifyLast THEN UNCHANGED <<missedEvents, lockWidget>>
    ELSE EventsBecome(NoEvents)

(* setLockedState.                                                         *)
SetLockedState(isLocked) ==
    IF isLocked = lockSink THEN UNCHANGED <<missedEvents, lockSink, lockWidget>>
    ELSE lockSink' = isLocked /\ ClearAll

(* canAddNotification: the battery has event types of its own.             *)
CanMiss(s) ==
    /\ s.signal = "notificationUpdated"
    /\ lockSink
    /\ s.content.missed \in Types

(* addNotification; an update counts like a new one, removals do not.      *)
MissedListens(signals) ==
    /\ LET missed == {s \in Range(signals) : CanMiss(s)}
       IN  IF missed = {} THEN UNCHANGED <<missedEvents, lockWidget>>
           ELSE \E s \in missed :
                /\ missedEvents.counts[s.content.missed] < MaxMissed
                /\ EventsBecome([missedEvents EXCEPT !.counts[s.content.missed] = @ + 1,
                                                     !.lastType = s.content.missed])
    /\ UNCHANGED <<touchLock, lockSink, orientation>>

-----------------------------------------------------------------------------
TouchLockChanges ==
    /\ Len(touchLock.signals) < MaxLockSignals
    /\ touchLock' = [locked |-> ~touchLock.locked,
                     signals |-> Append(touchLock.signals, ~touchLock.locked)]
    /\ UNCHANGED <<managerVars, missedEvents, lockSink, lockWidget, orientation>>

LocksChanged ==
    /\ touchLock.signals # <<>>
    /\ touchLock' = [touchLock EXCEPT !.signals = Tail(@)]
    /\ SetLockedState(Head(touchLock.signals))
    /\ UNCHANGED <<managerVars, orientation>>

(* The device is turned; orientationChangeEvent.                           *)
Turn ==
    /\ orientation' = IF orientation = "landscape" THEN "portrait" ELSE "landscape"
    /\ lockWidget' = OrientationChanged(lockWidget, orientation')
    /\ UNCHANGED <<managerVars, touchLock, missedEvents, lockSink>>

ReplaceView ==
    /\ lockSink' = FALSE
    /\ lockWidget' = NewWidget
    /\ UNCHANGED <<managerVars, touchLock, missedEvents, orientation>>

MissedInit ==
    /\ \E locked \in BOOLEAN : touchLock = [locked |-> locked, signals |-> <<>>]
    /\ missedEvents = NoEvents
    /\ lockSink = FALSE
    /\ lockWidget = NewWidget
    /\ orientation = "landscape"

MissedActs == TouchLockChanges \/ LocksChanged \/ Turn \/ ReplaceView

-----------------------------------------------------------------------------
\* Whatever turned the device and whenever the lock changed or the view was
\* replaced: each label tells how many events of its type were counted, is in the
\* row once together with its icon, and nothing else is; an sms or a call that is
\* labelled is not covered by an event of another type; and a locked screen starts
\* and an unlocked one ends without any event
\* (unlocknotificationsink.cpp:75-84, unlocknotifications.cpp:184-313).
MissedEventsShown ==
    /\ \A t \in DOMAIN lockWidget.labels : lockWidget.labels[t] = missedEvents.counts[t]
    /\ IsInjective(lockWidget.row)
    /\ Range(lockWidget.row) \ {LastIcon, LastSubject} =
           UNION {Range(Pair(t)) : t \in DOMAIN lockWidget.labels}
    /\ DOMAIN lockWidget.labels \cap Urgent # {} => lockWidget.lastType \in Urgent
    /\ lockWidget.visible <=> lockWidget.labels # <<>>
    /\ lockWidget.visible => lockSink

=============================================================================
