------------------------ MODULE NotificationManager ------------------------
(***************************************************************************)
(* The notification manager of the system UI daemon                        *)
(* (systemui/notifications/notificationmanager.cpp), with the part of its  *)
(* sinks that can call back into it.                                       *)
(*                                                                         *)
(* The daemon has one thread.  Its signals are direct connections: an      *)
(* emission calls every connected slot, in connection order, before the    *)
(* emitting function goes on, and a slot may call the manager again.  The  *)
(* variable `stack' is that nesting: the sequence of what is still to be   *)
(* executed, innermost first.  An action either runs the frame on top of   *)
(* the stack or, when the stack is empty, takes the next event of the      *)
(* event loop: a client's call, a posted call, a timer, a sink's event.    *)
(***************************************************************************)
EXTENDS Naturals, Sequences, FiniteSets, Functions, SequencesExt

CONSTANTS
    RelayMode,          \* "immediate", "timed", "manual": relayInterval =, >, < 0
    MaxWaitQueueSize,   \* maxWaitQueueSize
    MaxNotificationId,  \* bound on the identifiers the smallest-unused search tries
    MaxGroupId,         \* the same bound for the groups
    MaxUserId,          \* bound on the counter of notification user IDs
    MaxPosted,          \* bound on the posted removals awaiting the event loop
    MaxTime,            \* the latest timestamp a client or the clock can supply
    EventTypes,         \* names of event type files
    NoEventType,        \* the notification names no event type
    EventTypeSettings,  \* what an event type file can be made to say
    AddParams,          \* the parameters clients add notifications with
    UpdateParams,       \* the parameters clients update notifications with
    MayCrash,           \* the daemon can die and be started again
    TornFiles,          \* the files it can die half way through writing
    SinkRegistration    \* a D-Bus sink registers "never", when nothing waits ("quiet") or "any" time

Unset == "unset"        \* a parameter that is not in the parameter map
Class == {"system", "application", Unset}
Flag == {"true", "false", Unset}
EventTypeRef == EventTypes \cup {NoEventType}
NotificationId == 1 .. MaxNotificationId
GroupId == 1 .. MaxGroupId
GroupRef == 0 .. MaxGroupId         \* 0: the notification is in no group
Times == 1 .. MaxTime               \* 0: no timestamp

Params == [class : Class, persistent : Flag, eventType : EventTypeRef]
Settings == [class : Class, persistent : Flag]
Notification ==
    [id : NotificationId, group : GroupRef, type : {"system", "application"},
     class : Class, persistent : Flag, eventType : EventTypeRef, timestamp : Times]
Group == [timestamp : Times \cup {0}, eventType : EventTypeRef]

\* notificationUpdated() reaches the sinks in this order (notificationmanager.cpp:70,
\* then sysuid.cpp:79-91); "ngf" plays sounds, "indicator" is the status area.
SinkOrder == <<"dbus", "compositor", "ngf", "indicator">>
Sinks == {"dbus", "compositor", "ngf", "indicator"}
GroupSinks == {"dbus", "indicator"}

ASSUME ConstantsAssumption ==
    /\ RelayMode \in {"immediate", "timed", "manual"}
    /\ MaxWaitQueueSize \in Nat
    /\ MaxNotificationId \in Nat
    /\ MaxGroupId \in Nat
    /\ MaxUserId \in Nat
    /\ MaxPosted \in Nat
    /\ MaxTime \in Nat
    /\ NoEventType \notin EventTypes
    /\ EventTypeSettings \subseteq Settings
    /\ AddParams \subseteq Params
    /\ UpdateParams \subseteq Params
    /\ MayCrash \in BOOLEAN
    /\ TornFiles \subseteq {"notifications", "state"}
    /\ SinkRegistration \in {"never", "quiet", "any"}

VARIABLES
    notificationContainer,      \* id -> Notification, a partial function
    groupContainer,             \* id -> Group, a partial function
    waitQueue,                  \* copies of notifications waiting for their turn
    notificationInProgress,
    notificationIdInProgress,
    timerActive,                \* waitQueueTimer is running
    lastUsedNotificationUserId,
    eventTypes,                 \* what the event type store answers
    dbusRegistered,             \* a D-Bus sink is registered
    told,                       \* sink -> (id -> the notification last signalled to it)
    toldGroups,                 \* group sink -> ids of the groups signalled to it
    posted,                     \* queued calls: frames the event loop will run
    stack,                      \* frames still to run, innermost first
    running,                    \* the daemon is up
    disk,                       \* notifications.data and state.data
    openFile,                   \* the file the last step was writing
    bootFile,                   \* /tmp/sysuid_boot exists
    issuedUserId                \* the highest user ID a client was ever given

relayVars == <<notificationInProgress, notificationIdInProgress, timerActive>>
sinkVars == <<told, toldGroups, dbusRegistered>>
diskVars == <<disk, openFile>>
processVars == <<running, bootFile, issuedUserId>>
vars == <<notificationContainer, groupContainer, waitQueue, relayVars,
          lastUsedNotificationUserId, eventTypes, sinkVars, posted, stack,
          diskVars, processVars>>

-----------------------------------------------------------------------------
(* Keyed stores.                                                           *)

Empty == [x \in {} |-> x]
Insert(f, k, v) == [x \in DOMAIN f \cup {k} |-> IF x = k THEN v ELSE f[x]]
Without(f, k) == Restrict(f, DOMAIN f \ {k})

(* The smallest identifier of S that is not in use                         *)
(* (nextAvailableNotificationID, nextAvailableGroupID).                    *)
Smallest(S) == CHOOSE i \in S : \A j \in S : i <= j
FreeNotificationIds == NotificationId \ DOMAIN notificationContainer
FreeGroupIds == GroupId \ DOMAIN groupContainer

(* NotificationParameters::update: a parameter that is given replaces the  *)
(* old value, the others stay.                                             *)
Override(old, new) == IF new = Unset THEN old ELSE new
UpdateParameters(n, p) ==
    [n EXCEPT !.class = Override(@, p.class),
              !.persistent = Override(@, p.persistent),
              !.eventType = IF p.eventType = NoEventType THEN @ ELSE p.eventType]

EventTypeParameters(et) ==
    IF et = NoEventType THEN [class |-> Unset, persistent |-> Unset]
    ELSE eventTypes[et]

(* appendEventTypeParameters: what the event type says wins.               *)
AppendEventTypeParameters(p) ==
    [p EXCEPT !.class = Override(@, EventTypeParameters(p.eventType).class),
              !.persistent = Override(@, EventTypeParameters(p.eventType).persistent)]

DetermineType(p) == IF p.class = "system" THEN "system" ELSE "application"

IsPersistent(p) ==
    IF p.persistent # Unset THEN p.persistent = "true"
    ELSE EventTypeParameters(p.eventType).persistent # "false"

WaitQueueIndices(id) == {i \in DOMAIN waitQueue : waitQueue[i].id = id}

(* Broken variants of a definition, each with a plausible bug, stand before *)
(* it; their names end in how they are broken.                             *)
InsertPositionAtFront(n) == 1

(* insertPosition: a system notification goes in front of the first entry  *)
(* that is not one, any other goes to the end.                             *)
InsertPosition(n) ==
    LET others == {i \in DOMAIN waitQueue : waitQueue[i].class # "system"}
    IN IF n.class # "system" \/ others = {} THEN Len(waitQueue) + 1
       ELSE Smallest(others)

Members(g) ==
    {id \in DOMAIN notificationContainer : notificationContainer[id].group = g}

LatestTimestamp(g) ==
    LET times == {0} \cup {notificationContainer[id].timestamp : id \in Members(g)}
    IN CHOOSE t \in times : \A u \in times : t >= u

-----------------------------------------------------------------------------
(* Frames: the calls and continuations the stack and the event queue hold. *)

UpdatedFrames(n) ==         \* emit notificationUpdated(n)
    [i \in 1 .. Len(SinkOrder) |-> [op |-> "updated", sink |-> SinkOrder[i], note |-> n]]
SubmittedFrame(id) == [op |-> "submitted", id |-> id]
UpdateTailFrame(id) == [op |-> "updateTail", id |-> id]
RemoveFrame(id) == [op |-> "remove", id |-> id]
RemoveEachFrame(ids) == [op |-> "removeEach", ids |-> ids]
UpdateEachFrame(ids) == [op |-> "updateEach", ids |-> ids]
RemoveGroupFrame(g) == [op |-> "removeGroup", group |-> g]
GroupGoneFrame(g) == [op |-> "groupGone", group |-> g]
RemoveGroupsFrame(gs) == [op |-> "removeGroups", groups |-> gs]
UpdateGroupsFrame(gs) == [op |-> "updateGroups", groups |-> gs]
PruneFrame == [op |-> "prune"]
TimestampFramesUnguarded(g) == <<[op |-> "timestamp", group |-> g]>>
TimestampFramesForgotten(g) == <<>>
TimestampFrames(g) ==       \* updateGroupTimestampFromNotifications(g)
    IF g = 0 THEN <<>> ELSE <<[op |-> "timestamp", group |-> g]>>

Frame ==
    [op : {"updated"}, sink : Sinks, note : Notification]
        \cup [op : {"submitted", "updateTail", "remove"}, id : NotificationId]
        \cup [op : {"removeEach", "updateEach"}, ids : SUBSET NotificationId]
        \cup [op : {"removeGroup", "groupGone", "timestamp"}, group : GroupId]
        \cup [op : {"removeGroups", "updateGroups"}, groups : SUBSET GroupId]
        \cup [op : {"prune"}]

Idle == running /\ stack = <<>>
Top(op) == running /\ stack # <<>> /\ Head(stack).op = op

-----------------------------------------------------------------------------
(* The two data files.  A write truncates the file and fills it again; the *)
(* file is remembered until the next step, so that a crash can spoil it.   *)

Writing(file) == IF file \in TornFiles THEN file ELSE "none"

SaveNotificationsUnlessEmpty ==
    /\ disk' = IF DOMAIN notificationContainer' = {} THEN disk
               ELSE [disk EXCEPT !.notifications = notificationContainer']
    /\ openFile' = Writing("notifications")

SaveNotifications ==
    /\ disk' = [disk EXCEPT !.notifications = notificationContainer']
    /\ openFile' = Writing("notifications")

SaveStateDataWithoutUserId ==
    /\ disk' = [disk EXCEPT !.groups = groupContainer']
    /\ openFile' = Writing("state")

SaveStateData ==
    /\ disk' = [disk EXCEPT !.groups = groupContainer',
                            !.userId = lastUsedNotificationUserId']
    /\ openFile' = Writing("state")

NoSave == disk' = disk /\ openFile' = "none"

(* What a crash can leave on the disk: all of the file being written, or   *)
(* any part of it.                                                         *)
SpoiledDisks ==
    {disk}
    \cup (IF openFile = "notifications"
          THEN {[disk EXCEPT !.notifications = Restrict(@, S)] :
                    S \in SUBSET DOMAIN disk.notifications}
          ELSE {})
    \cup (IF openFile = "state"
          THEN {[disk EXCEPT !.groups = Restrict(@, S)] : S \in SUBSET DOMAIN disk.groups}
               \cup {[disk EXCEPT !.groups = Empty, !.userId = 0]}
          ELSE {})

-----------------------------------------------------------------------------
(* What the manager's functions do up to the next point at which somebody  *)
(* else runs; `rest' is what the caller does afterwards.                   *)

(* submitNotification, with nothing in progress: the sinks are told first; *)
(* the notification counts as in progress only when they have returned.    *)
Emit(n, rest) == stack' = UpdatedFrames(n) \o <<SubmittedFrame(n.id)>> \o rest

EnqueueOneTooFew(n) ==
    IF Len(waitQueue) + 1 < MaxWaitQueueSize
    THEN InsertAt(waitQueue, InsertPosition(n), n)
    ELSE waitQueue

(* submitNotification, with a notification in progress: the new one waits  *)
(* or, when the queue is full, is dropped.                                 *)
Enqueue(n) ==
    IF Len(waitQueue) < MaxWaitQueueSize
    THEN InsertAt(waitQueue, InsertPosition(n), n)
    ELSE waitQueue

Submit(n, rest) ==
    /\ IF notificationInProgress
       THEN waitQueue' = Enqueue(n) /\ stack' = rest
       ELSE UNCHANGED waitQueue /\ Emit(n, rest)
    /\ UNCHANGED relayVars

RelayWithTimerRunning(rest) ==
    /\ notificationInProgress' = FALSE
    /\ UNCHANGED <<notificationIdInProgress, timerActive>>
    /\ IF waitQueue = <<>>
       THEN UNCHANGED waitQueue /\ stack' = rest
       ELSE waitQueue' = Tail(waitQueue) /\ Emit(Head(waitQueue), rest)

(* relayNextNotification, with the timer expired or stopped.               *)
Relay(rest) ==
    /\ notificationInProgress' = FALSE
    /\ timerActive' = FALSE
    /\ UNCHANGED notificationIdInProgress
    /\ IF waitQueue = <<>>
       THEN UNCHANGED waitQueue /\ stack' = rest
       ELSE waitQueue' = Tail(waitQueue) /\ Emit(Head(waitQueue), rest)

TellRemovedUnconnected(id) ==
    told' = [s \in Sinks |-> IF s = "indicator" THEN told[s] ELSE Without(told[s], id)]
TellRemoved(id) == told' = [s \in Sinks |-> Without(told[s], id)]
TakeFromWaitQueue(id) == RemoveAt(waitQueue, Smallest(WaitQueueIndices(id)))

(* removeNotification(uint).                                               *)
RemoveNotification(id, rest) ==
    IF id \notin DOMAIN notificationContainer
    THEN /\ stack' = rest
         /\ NoSave
         /\ UNCHANGED <<notificationContainer, waitQueue, relayVars, told>>
    ELSE LET after == TimestampFrames(notificationContainer[id].group) \o rest IN
         /\ notificationContainer' = Without(notificationContainer, id)
         /\ SaveNotifications
         /\ \/ /\ WaitQueueIndices(id) # {}         \* no sink has to know
               /\ waitQueue' = TakeFromWaitQueue(id)
               /\ stack' = after
               /\ UNCHANGED <<relayVars, told>>
            \/ /\ WaitQueueIndices(id) = {}
               /\ TellRemoved(id)
               /\ IF notificationInProgress /\ id = notificationIdInProgress
                  THEN Relay(after)
                  ELSE stack' = after /\ UNCHANGED <<waitQueue, relayVars>>

(* updateNotification(user, id, p) with timestamp t.                       *)
Updated(n, p, t) == [UpdateParameters(n, p) EXCEPT !.timestamp = t]

UpdateWaitingNot(id, p, t) == waitQueue

UpdateWaiting(id, p, t) ==
    [i \in DOMAIN waitQueue |->
        IF i \in WaitQueueIndices(id) THEN Updated(waitQueue[i], p, t) ELSE waitQueue[i]]

UpdateNotification(id, p, t, rest) ==
    LET n == Updated(notificationContainer[id], p, t) IN
    /\ notificationContainer' = [notificationContainer EXCEPT ![id] = n]
    /\ SaveNotifications
    /\ waitQueue' = UpdateWaiting(id, p, t)
    /\ stack' = IF WaitQueueIndices(id) # {}
                THEN TimestampFrames(n.group) \o rest
                ELSE UpdatedFrames(n) \o <<UpdateTailFrame(id)>> \o rest

(* Who hears groupUpdated and groupRemoved; none of them calls back, and   *)
(* groupRemoved is not connected to the status indicator (sysuid.cpp:91).  *)
TellGroups(gs) ==
    toldGroups' = [s \in GroupSinks |->
        IF s = "dbus" /\ ~dbusRegistered THEN toldGroups[s] ELSE toldGroups[s] \cup gs]
TellGroupRemoved(g) == toldGroups' = [toldGroups EXCEPT !["dbus"] = @ \ {g}]

-----------------------------------------------------------------------------
(* Frames being run.                                                       *)

(* notificationUpdated reaches one sink.  The D-Bus sink skips system      *)
(* notifications.  The compositor sink may ask at once, before the sinks   *)
(* after it are told, for the removal of system notifications it has been  *)
(* told of: of this one when its preview is disabled, of those still       *)
(* queued when the display is off                                          *)
(* (mcompositornotificationsink.cpp:95-107, 371-384).                      *)
HeardByNoBanner(s, n) == s \in {"ngf", "indicator"}
HeardBy(s, n) == s # "dbus" \/ (dbusRegistered /\ n.type # "system")

SystemIds(f) == {id \in DOMAIN f : f[id].type = "system"}

DeliverUpdated ==
    /\ Top("updated")
    /\ LET s == Head(stack).sink
           n == Head(stack).note
       IN /\ told' = IF HeardBy(s, n) THEN [told EXCEPT ![s] = Insert(@, n.id, n)] ELSE told
          /\ \/ stack' = Tail(stack)
             \/ \E ids \in SUBSET SystemIds(told'["compositor"]) \ {{}} :
                    /\ s = "compositor"
                    /\ stack' = <<RemoveEachFrame(ids)>> \o Tail(stack)
    /\ NoSave
    /\ UNCHANGED <<notificationContainer, groupContainer, waitQueue, relayVars,
                   lastUsedNotificationUserId, eventTypes, toldGroups,
                   dbusRegistered, posted, processVars>>

FinishSubmitWithoutTimer ==
    /\ Top("submitted")
    /\ notificationInProgress' = TRUE
    /\ notificationIdInProgress' = Head(stack).id
    /\ timerActive' = FALSE
    /\ stack' = Tail(stack)
    /\ NoSave
    /\ UNCHANGED <<notificationContainer, groupContainer, waitQueue,
                   lastUsedNotificationUserId, eventTypes, sinkVars, posted,
                   processVars>>

(* The rest of submitNotification.                                         *)
FinishSubmit ==
    /\ Top("submitted")
    /\ IF RelayMode = "immediate"
       THEN UNCHANGED relayVars
       ELSE /\ notificationInProgress' = TRUE
            /\ notificationIdInProgress' = Head(stack).id
            /\ timerActive' = (RelayMode = "timed")
    /\ stack' = Tail(stack)
    /\ NoSave
    /\ UNCHANGED <<notificationContainer, groupContainer, waitQueue,
                   lastUsedNotificationUserId, eventTypes, sinkVars, posted,
                   processVars>>

(* The rest of updateNotification.  It reads the group through an iterator *)
(* taken before the sinks were called; when they had the notification      *)
(* removed the entry is freed memory and any group may come out of it.     *)
FinishUpdate ==
    /\ Top("updateTail")
    /\ LET id == Head(stack).id IN
       \E g \in IF id \in DOMAIN notificationContainer
                THEN {notificationContainer[id].group} ELSE GroupRef :
           stack' = TimestampFrames(g) \o Tail(stack)
    /\ NoSave
    /\ UNCHANGED <<notificationContainer, groupContainer, waitQueue, relayVars,
                   lastUsedNotificationUserId, eventTypes, sinkVars, posted,
                   processVars>>

RunRemove ==
    /\ Top("remove")
    /\ RemoveNotification(Head(stack).id, Tail(stack))
    /\ UNCHANGED <<groupContainer, lastUsedNotificationUserId, eventTypes,
                   toldGroups, dbusRegistered, posted, processVars>>

(* One turn of a loop that removes notifications, over a copy of the       *)
(* container taken when the loop began and in the order of a hash.         *)
RunRemoveEach ==
    /\ Top("removeEach")
    /\ LET ids == Head(stack).ids IN
       \/ /\ ids = {}
          /\ stack' = Tail(stack)
          /\ NoSave
          /\ UNCHANGED <<notificationContainer, waitQueue, relayVars, told>>
       \/ \E id \in ids :
            RemoveNotification(id, <<RemoveEachFrame(ids \ {id})>> \o Tail(stack))
    /\ UNCHANGED <<groupContainer, lastUsedNotificationUserId, eventTypes,
                   toldGroups, dbusRegistered, posted, processVars>>

(* One turn of the first loop of updateNotificationsAndGroupsWithEventType. *)
UpdateEach ==
    /\ Top("updateEach")
    /\ LET ids == Head(stack).ids IN
       \/ /\ ids = {}
          /\ stack' = Tail(stack)
          /\ NoSave
          /\ UNCHANGED <<notificationContainer, waitQueue>>
       \/ \E id \in ids :
            LET rest == <<UpdateEachFrame(ids \ {id})>> \o Tail(stack) IN
            IF id \in DOMAIN notificationContainer
            THEN LET n == notificationContainer[id] IN
                 UpdateNotification(id, AppendEventTypeParameters(n), n.timestamp, rest)
            ELSE /\ stack' = rest
                 /\ NoSave
                 /\ UNCHANGED <<notificationContainer, waitQueue>>
    /\ UNCHANGED <<groupContainer, relayVars, lastUsedNotificationUserId,
                   eventTypes, sinkVars, posted, processVars>>

(* updateGroupTimestampFromNotifications, down to the updateGroup it ends  *)
(* in when the latest timestamp is not the group's.                        *)
UpdateGroupTimestamp ==
    /\ Top("timestamp")
    /\ LET g == Head(stack).group IN
       IF g \in DOMAIN groupContainer /\ groupContainer[g].timestamp # LatestTimestamp(g)
       THEN /\ groupContainer' = [groupContainer EXCEPT ![g].timestamp = LatestTimestamp(g)]
            /\ UNCHANGED lastUsedNotificationUserId
            /\ SaveStateData
            /\ TellGroups({g})
       ELSE NoSave /\ UNCHANGED <<groupContainer, lastUsedNotificationUserId, toldGroups>>
    /\ stack' = Tail(stack)
    /\ UNCHANGED <<notificationContainer, waitQueue, relayVars, eventTypes, told,
                   dbusRegistered, posted, processVars>>

DoRemoveGroupSavesFirst ==
    /\ Top("removeGroup")
    /\ LET g == Head(stack).group IN
       /\ groupContainer' = Without(groupContainer, g)
       /\ stack' = IF g \in DOMAIN groupContainer
                   THEN <<RemoveEachFrame(Members(g)), GroupGoneFrame(g)>> \o Tail(stack)
                   ELSE Tail(stack)
    /\ UNCHANGED lastUsedNotificationUserId
    /\ SaveStateData
    /\ UNCHANGED <<notificationContainer, waitQueue, relayVars, eventTypes, sinkVars,
                   posted, processVars>>

(* doRemoveGroup: the group leaves the container first, then each of its   *)
(* notifications, then the state is saved and the sinks are told.          *)
DoRemoveGroup ==
    /\ Top("removeGroup")
    /\ LET g == Head(stack).group IN
       IF g \in DOMAIN groupContainer
       THEN /\ groupContainer' = Without(groupContainer, g)
            /\ stack' = <<RemoveEachFrame(Members(g)), GroupGoneFrame(g)>> \o Tail(stack)
       ELSE UNCHANGED groupContainer /\ stack' = Tail(stack)
    /\ NoSave
    /\ UNCHANGED <<notificationContainer, waitQueue, relayVars,
                   lastUsedNotificationUserId, eventTypes, sinkVars, posted,
                   processVars>>

FinishRemoveGroup ==
    /\ Top("groupGone")
    /\ stack' = Tail(stack)
    /\ TellGroupRemoved(Head(stack).group)
    /\ UNCHANGED <<groupContainer, lastUsedNotificationUserId>>
    /\ SaveStateData
    /\ UNCHANGED <<notificationContainer, waitQueue, relayVars, eventTypes, told,
                   dbusRegistered, posted, processVars>>

RemoveGroups ==
    /\ Top("removeGroups")
    /\ LET gs == Head(stack).groups IN
       \/ gs = {} /\ stack' = Tail(stack)
       \/ \E g \in gs :
            stack' = <<RemoveGroupFrame(g), RemoveGroupsFrame(gs \ {g})>> \o Tail(stack)
    /\ NoSave
    /\ UNCHANGED <<notificationContainer, groupContainer, waitQueue, relayVars,
                   lastUsedNotificationUserId, eventTypes, sinkVars, posted,
                   processVars>>

(* The second loop of updateNotificationsAndGroupsWithEventType: the       *)
(* groups' event type parameters are not part of the model, so that all    *)
(* that remains of updateGroup is that the state is saved and signalled.   *)
UpdateGroups ==
    /\ Top("updateGroups")
    /\ stack' = Tail(stack)
    /\ UNCHANGED <<groupContainer, lastUsedNotificationUserId>>
    /\ LET gs == Head(stack).groups \cap DOMAIN groupContainer IN
       IF gs = {} THEN NoSave /\ UNCHANGED toldGroups ELSE SaveStateData /\ TellGroups(gs)
    /\ UNCHANGED <<notificationContainer, waitQueue, relayVars, eventTypes, told,
                   dbusRegistered, posted, processVars>>

(* initializeStore's saveNotifications, after restoreData.                 *)
Prune ==
    /\ Top("prune")
    /\ stack' = Tail(stack)
    /\ UNCHANGED notificationContainer
    /\ SaveNotifications
    /\ UNCHANGED <<groupContainer, waitQueue, relayVars, lastUsedNotificationUserId,
                   eventTypes, sinkVars, posted, processVars>>

RunFrame ==
    \/ DeliverUpdated \/ FinishSubmit \/ FinishUpdate \/ RunRemove \/ RunRemoveEach
    \/ UpdateEach \/ UpdateGroupTimestamp \/ DoRemoveGroup \/ FinishRemoveGroup
    \/ RemoveGroups \/ UpdateGroups \/ Prune

-----------------------------------------------------------------------------
(* Events of the event loop.                                               *)

AddNotification(p, g, t) ==
    /\ Idle
    /\ g = 0 \/ g \in DOMAIN groupContainer
    /\ FreeNotificationIds # {}
    /\ LET full == AppendEventTypeParameters(p)
           type == DetermineType(full)
           n == [id |-> Smallest(FreeNotificationIds),
                 group |-> g,
                 type |-> type,
                 class |-> full.class,
                 persistent |-> IF type = "system" THEN "false" ELSE full.persistent,
                 eventType |-> p.eventType,
                 timestamp |-> t]
       IN /\ notificationContainer' = Insert(notificationContainer, n.id, n)
          /\ SaveNotifications
          /\ Submit(n, TimestampFrames(g))
    /\ UNCHANGED <<groupContainer, lastUsedNotificationUserId, eventTypes,
                   sinkVars, posted, processVars>>

ClientUpdatesNotification(id, p, t) ==
    /\ Idle
    /\ id \in DOMAIN notificationContainer
    /\ UpdateNotification(id, p, t, <<>>)
    /\ UNCHANGED <<groupContainer, relayVars, lastUsedNotificationUserId,
                   eventTypes, sinkVars, posted, processVars>>

(* removeNotification(user, id) and removeGroup(user, g) only post the     *)
(* removal and answer true.                                                *)
Post(frame) ==
    /\ Idle
    /\ Len(posted) < MaxPosted
    /\ posted' = Append(posted, frame)
    /\ NoSave
    /\ UNCHANGED <<notificationContainer, groupContainer, waitQueue, relayVars,
                   lastUsedNotificationUserId, eventTypes, sinkVars, stack,
                   processVars>>

ClientRemovesNotification(id) ==
    id \in DOMAIN notificationContainer /\ Post(RemoveFrame(id))

ClientRemovesGroup(g) ==
    g \in DOMAIN groupContainer /\ Post(RemoveGroupFrame(g))

(* An event that only starts a call.                                       *)
Call(frames) ==
    /\ Idle
    /\ stack' = frames
    /\ NoSave
    /\ UNCHANGED <<notificationContainer, groupContainer, waitQueue, relayVars,
                   lastUsedNotificationUserId, sinkVars, processVars>>

DeliverPosted ==
    /\ posted # <<>>
    /\ Call(<<Head(posted)>>)
    /\ posted' = Tail(posted)
    /\ UNCHANGED eventTypes

(* A sink asks for a removal out of an event of its own: the user taps a   *)
(* notification, a banner has been on the screen, a group is cleared.  The *)
(* notification areas inside the daemon hear what the indicator hears.     *)
SinkRemovesNotification(s, id) ==
    /\ id \in DOMAIN told[s]
    /\ Call(<<RemoveFrame(id)>>)
    /\ UNCHANGED <<posted, eventTypes>>

BannerDone(id) ==
    /\ id \in SystemIds(told["compositor"])
    /\ SinkRemovesNotification("compositor", id)

SinkClearsGroup(s, g) ==
    /\ g \in toldGroups[s]
    /\ Call(<<RemoveEachFrame(Members(g))>>)
    /\ UNCHANGED <<posted, eventTypes>>

(* The relay timer expires; in manual mode a derived class relays.         *)
RelayNextNotification ==
    /\ Idle
    /\ timerActive \/ RelayMode = "manual"
    /\ Relay(<<>>)
    /\ NoSave
    /\ UNCHANGED <<notificationContainer, groupContainer, lastUsedNotificationUserId,
                   eventTypes, sinkVars, posted, processVars>>

AddGroup(et) ==
    /\ Idle
    /\ FreeGroupIds # {}
    /\ LET g == Smallest(FreeGroupIds) IN
       /\ groupContainer' = Insert(groupContainer, g, [timestamp |-> 0, eventType |-> et])
       /\ TellGroups({g})
    /\ UNCHANGED lastUsedNotificationUserId
    /\ SaveStateData
    /\ UNCHANGED <<notificationContainer, waitQueue, relayVars, eventTypes, told,
                   dbusRegistered, posted, stack, processVars>>

UpdateGroup(g, et) ==
    /\ Idle
    /\ g \in DOMAIN groupContainer
    /\ groupContainer' =
        [groupContainer EXCEPT ![g].eventType = IF et = NoEventType THEN @ ELSE et]
    /\ TellGroups({g})
    /\ UNCHANGED lastUsedNotificationUserId
    /\ SaveStateData
    /\ UNCHANGED <<notificationContainer, waitQueue, relayVars, eventTypes, told,
                   dbusRegistered, posted, stack, processVars>>

NotificationUserId ==
    /\ Idle
    /\ lastUsedNotificationUserId < MaxUserId
    /\ lastUsedNotificationUserId' = lastUsedNotificationUserId + 1
    /\ issuedUserId' = IF lastUsedNotificationUserId' > issuedUserId
                       THEN lastUsedNotificationUserId' ELSE issuedUserId
    /\ UNCHANGED groupContainer
    /\ SaveStateData
    /\ UNCHANGED <<notificationContainer, waitQueue, relayVars, eventTypes, sinkVars,
                   posted, stack, running, bootFile>>

(* The event type store reports a changed or a deleted file.               *)
OfEventType(f, et) == {k \in DOMAIN f : f[k].eventType = et}

EventTypeModified(et, settings) ==
    /\ eventTypes' = [eventTypes EXCEPT ![et] = settings]
    /\ Call(<<UpdateEachFrame(OfEventType(notificationContainer, et)),
              UpdateGroupsFrame(OfEventType(groupContainer, et))>>)
    /\ UNCHANGED posted

EventTypeUninstalled(et) ==
    /\ eventTypes' = [eventTypes EXCEPT ![et] = [class |-> Unset, persistent |-> Unset]]
    /\ Call(<<RemoveEachFrame(OfEventType(notificationContainer, et)),
              RemoveGroupsFrame(OfEventType(groupContainer, et))>>)
    /\ UNCHANGED posted

(* The file changes while the daemon is down: nobody is there to notice.   *)
EventTypeChangesUnseen(et, settings) ==
    /\ ~running
    /\ eventTypes' = [eventTypes EXCEPT ![et] = settings]
    /\ NoSave
    /\ UNCHANGED <<notificationContainer, groupContainer, waitQueue, relayVars,
                   lastUsedNotificationUserId, sinkVars, posted, stack, processVars>>

(* A process registers its sink and is sent everything there is, or leaves. *)
RegisterSink ==
    /\ Idle
    /\ \/ SinkRegistration = "any"
       \/ SinkRegistration = "quiet" /\ waitQueue = <<>>
    /\ dbusRegistered' = TRUE
    /\ LET sent == {id \in DOMAIN notificationContainer :
                        notificationContainer[id].type # "system"}
       IN told' = [told EXCEPT !["dbus"] =
            [id \in DOMAIN @ \cup sent |->
                IF id \in sent THEN notificationContainer[id] ELSE @[id]]]
    /\ toldGroups' = [toldGroups EXCEPT !["dbus"] = @ \cup DOMAIN groupContainer]
    /\ NoSave
    /\ UNCHANGED <<notificationContainer, groupContainer, waitQueue, relayVars,
                   lastUsedNotificationUserId, eventTypes, posted, stack, processVars>>

UnregisterSink ==
    /\ Idle
    /\ dbusRegistered
    /\ dbusRegistered' = FALSE
    /\ told' = [told EXCEPT !["dbus"] = Empty]
    /\ toldGroups' = [toldGroups EXCEPT !["dbus"] = {}]
    /\ NoSave
    /\ UNCHANGED <<notificationContainer, groupContainer, waitQueue, relayVars,
                   lastUsedNotificationUserId, eventTypes, posted, stack, processVars>>

-----------------------------------------------------------------------------
(* The life of the process.                                                *)

(* The constructor and initializeStore.  restoreState and                  *)
(* restoreNotifications only read; their signals reach the status          *)
(* indicator alone, which does not call back.  isSubsequentStart creates   *)
(* the boot file before anything is pruned from the disk.                  *)
Start ==
    /\ ~running
    /\ running' = TRUE
    /\ bootFile' = TRUE
    /\ groupContainer' = disk.groups
    /\ lastUsedNotificationUserId' = disk.userId
    /\ notificationContainer' =
        [id \in {i \in DOMAIN disk.notifications :
                    bootFile \/ IsPersistent(disk.notifications[i])} |->
            AppendEventTypeParameters(disk.notifications[id])]
    /\ told' = [told EXCEPT !["indicator"] = notificationContainer']
    /\ toldGroups' = [toldGroups EXCEPT !["indicator"] = DOMAIN groupContainer']
    /\ stack' = <<PruneFrame>>
    /\ NoSave
    /\ UNCHANGED <<waitQueue, relayVars, eventTypes, dbusRegistered, posted, issuedUserId>>

(* The daemon dies, wherever it is; only the files are left.               *)
Crash ==
    /\ MayCrash
    /\ running
    /\ running' = FALSE
    /\ disk' \in SpoiledDisks
    /\ openFile' = "none"
    /\ notificationContainer' = Empty
    /\ groupContainer' = Empty
    /\ waitQueue' = <<>>
    /\ notificationInProgress' = FALSE
    /\ notificationIdInProgress' = 0
    /\ timerActive' = FALSE
    /\ lastUsedNotificationUserId' = 0
    /\ dbusRegistered' = FALSE
    /\ told' = [s \in Sinks |-> Empty]
    /\ toldGroups' = [s \in GroupSinks |-> {}]
    /\ posted' = <<>>
    /\ stack' = <<>>
    /\ UNCHANGED <<eventTypes, bootFile, issuedUserId>>

(* The device reboots: the temporary directory is emptied.                 *)
Reboot ==
    /\ ~running
    /\ bootFile
    /\ bootFile' = FALSE
    /\ NoSave
    /\ UNCHANGED <<notificationContainer, groupContainer, waitQueue, relayVars,
                   lastUsedNotificationUserId, eventTypes, sinkVars, posted, stack,
                   running, issuedUserId>>

Init ==
    /\ notificationContainer = Empty
    /\ groupContainer = Empty
    /\ waitQueue = <<>>
    /\ notificationInProgress = FALSE
    /\ notificationIdInProgress = 0
    /\ timerActive = FALSE
    /\ lastUsedNotificationUserId = 0
    /\ eventTypes \in [EventTypes -> EventTypeSettings]
    /\ dbusRegistered = FALSE
    /\ told = [s \in Sinks |-> Empty]
    /\ toldGroups = [s \in GroupSinks |-> {}]
    /\ posted = <<>>
    /\ stack = <<>>
    /\ running = FALSE
    /\ disk = [notifications |-> Empty, groups |-> Empty, userId |-> 0]
    /\ openFile = "none"
    /\ bootFile = FALSE
    /\ issuedUserId = 0

Next ==
    \/ RunFrame
    \/ \E p \in AddParams, g \in GroupRef, t \in Times : AddNotification(p, g, t)
    \/ \E id \in NotificationId, p \in UpdateParams, t \in Times :
            ClientUpdatesNotification(id, p, t)
    \/ \E id \in NotificationId : ClientRemovesNotification(id)
    \/ \E g \in GroupId : ClientRemovesGroup(g)
    \/ DeliverPosted
    \/ \E s \in GroupSinks, id \in NotificationId : SinkRemovesNotification(s, id)
    \/ \E id \in NotificationId : BannerDone(id)
    \/ \E s \in GroupSinks, g \in GroupId : SinkClearsGroup(s, g)
    \/ RelayNextNotification
    \/ \E et \in EventTypeRef : AddGroup(et)
    \/ \E g \in GroupId, et \in EventTypeRef : UpdateGroup(g, et)
    \/ NotificationUserId
    \/ \E et \in EventTypes, settings \in EventTypeSettings : EventTypeModified(et, settings)
    \/ \E et \in EventTypes : EventTypeUninstalled(et)
    \/ \E et \in EventTypes, settings \in EventTypeSettings :
            EventTypeChangesUnseen(et, settings)
    \/ RegisterSink
    \/ UnregisterSink
    \/ Start
    \/ Crash
    \/ Reboot

Spec == Init /\ [][Next]_vars

-----------------------------------------------------------------------------
(* Properties.                                                             *)

IsStore(f, K, V) == DOMAIN f \subseteq K /\ \A k \in DOMAIN f : f[k] \in V

StoresOK ==
    /\ IsStore(notificationContainer, NotificationId, Notification)
    /\ IsStore(groupContainer, GroupId, Group)
    /\ eventTypes \in [EventTypes -> Settings]

RelayOK ==
    /\ waitQueue \in Seq(Notification)
    /\ notificationInProgress \in BOOLEAN
    /\ notificationIdInProgress \in 0 .. MaxNotificationId
    /\ timerActive \in BOOLEAN

SinksOK ==
    /\ dbusRegistered \in BOOLEAN
    /\ DOMAIN told = Sinks
    /\ \A s \in Sinks : IsStore(told[s], NotificationId, Notification)
    /\ toldGroups \in [GroupSinks -> SUBSET GroupId]

CallsOK ==
    /\ posted \in Seq(Frame)
    /\ stack \in Seq(Frame)

DiskOK ==
    /\ disk = [notifications |-> disk.notifications, groups |-> disk.groups,
               userId |-> disk.userId]
    /\ IsStore(disk.notifications, NotificationId, Notification)
    /\ IsStore(disk.groups, GroupId, Group)
    /\ disk.userId \in 0 .. MaxUserId
    /\ openFile \in {"none", "notifications", "state"}

ProcessOK ==
    /\ lastUsedNotificationUserId \in 0 .. MaxUserId
    /\ running \in BOOLEAN
    /\ bootFile \in BOOLEAN
    /\ issuedUserId \in 0 .. MaxUserId

\* Every variable holds a value of its C++ type, within the bounds.
TypeOK == StoresOK /\ RelayOK /\ SinksOK /\ CallsOK /\ DiskOK /\ ProcessOK

WaitingIds == {waitQueue[i].id : i \in DOMAIN waitQueue}

\* The wait queue never outgrows its limit, holds each notification once, and
\* each of its copies is the notification the container holds: updates and
\* removals reach both (notificationmanager.cpp:309-312, 344-346).
WaitQueueConsistent ==
    /\ Len(waitQueue) <= MaxWaitQueueSize
    /\ \A i, j \in DOMAIN waitQueue : waitQueue[i].id = waitQueue[j].id => i = j
    /\ \A i \in DOMAIN waitQueue :
            /\ waitQueue[i].id \in DOMAIN notificationContainer
            /\ notificationContainer[waitQueue[i].id] = waitQueue[i]

Pending(op) == \E i \in DOMAIN stack : stack[i].op = op
EmissionPending == Pending("submitted")

\* Nothing waits without somebody to relay it: a notification is in progress,
\* or about to be once its emission returns; and in timed mode the timer runs
\* exactly while one is in progress, whatever the sinks did in between
\* (notificationmanager.cpp:351-357, 531-596).
RelayScheduled ==
    /\ waitQueue # <<>> => notificationInProgress \/ EmissionPending
    /\ timerActive = (notificationInProgress /\ RelayMode = "timed")

Queue == INSTANCE NotificationQueue WITH queue <- waitQueue, Capacity <- MaxWaitQueueSize

\* The wait queue is one of what NotificationQueue promises: whatever sinks, clients
\* and the timer do, in whatever nesting of calls, nobody is overtaken by one of
\* its own class, nobody loses his place or takes another's, and at each step one
\* arrives or one leaves (notificationmanager.cpp:344-346, 531-596).
QueueImplemented == Queue!Spec

\* Between events, what a sink was last told of an application notification is
\* what the container holds: no sink keeps one that was removed or that it has
\* seen in an older state, and none was told of one that still waits.
SinksConsistent ==
    Idle => \A s \in Sinks : \A id \in DOMAIN told[s] :
        told[s][id].type = "application" =>
            /\ id \in DOMAIN notificationContainer \ WaitingIds
            /\ told[s][id] = notificationContainer[id]

\* As long as the queue cannot overflow, between events every notification in
\* the container either still waits or has been signalled to the sinks connected
\* since the start (submitNotification, relayNextNotification).  The one in
\* progress need not be in the container any more: removed from inside its own
\* emission it is in progress all the same, and all the others wait.
NoneForgotten ==
    Idle /\ MaxNotificationId <= MaxWaitQueueSize =>
        DOMAIN notificationContainer \subseteq WaitingIds \cup DOMAIN told["indicator"]

\* System notifications wait in front of all others.
SystemFirst ==
    \A i, j \in DOMAIN waitQueue :
        i < j /\ waitQueue[j].class = "system" => waitQueue[i].class = "system"

\* Whoever is not signalled at once waits his turn, behind none of a lower class
\* (notificationmanager.cpp:559-596).
NobodyForgottenOrOvertaken == SystemFirst /\ NoneForgotten

\* Between events a group's timestamp is the latest of its notifications'.
GroupTimestampsLatest ==
    Idle => \A g \in DOMAIN groupContainer :
        groupContainer[g].timestamp = LatestTimestamp(g)

\* Between events the disk holds what the memory holds.
DiskMatchesMemory ==
    Idle => disk = [notifications |-> notificationContainer, groups |-> groupContainer,
                    userId |-> lastUsedNotificationUserId]

\* Whenever the daemon dies, no notification is left on the disk whose group is
\* not (doRemoveGroup saves the notifications' removal before the group's)
\* (with one group: a nested removal that touches another group saves the
\* state earlier).
DiskNoOrphans ==
    \A id \in DOMAIN disk.notifications :
        disk.notifications[id].group \in {0} \cup DOMAIN disk.groups

\* A user ID given to one client is never given to another, across restarts.
UserIdsNeverReissued == running => lastUsedNotificationUserId >= issuedUserId

\* Between events, a registered D-Bus sink knows exactly the groups there are.
DBusSinkKnowsGroups ==
    Idle /\ dbusRegistered => toldGroups["dbus"] = DOMAIN groupContainer

\* Through removals of groups and of their notifications, nested in each other, what
\* is known of the groups is right, in the manager and in a registered sink
\* (notificationmanager.cpp:431-444, 680-707).
GroupsConsistent == GroupTimestampsLatest /\ DBusSinkKnowsGroups

-----------------------------------------------------------------------------
(* What the documentation says and the code does not do.                   *)

\* "If queue size is exceeded all incoming notifications are silently dropped"
\* (notifications.dox:25): what is dropped does not stay in the container.
DroppedIsGone ==
    Idle => DOMAIN notificationContainer \subseteq WaitingIds \cup DOMAIN told["indicator"]

\* "Consider all system notifications not to be persistent"
\* (notificationmanager.cpp:276).
SystemNotPersistent ==
    \A id \in SystemIds(notificationContainer) : ~IsPersistent(notificationContainer[id])

-----------------------------------------------------------------------------
(* Fairness.  A call that has begun runs to its end; the event loop serves *)
(* an expired timer and a posted call sooner or later however many other   *)
(* events arrive, and a banner's own timer ends its time on the screen.    *)
Fairness ==
    /\ WF_vars(RunFrame)
    /\ WF_vars(Start)
    /\ SF_vars(RelayNextNotification)
    /\ SF_vars(DeliverPosted)
    /\ \A id \in NotificationId : SF_vars(BannerDone(id))

FairSpec == Spec /\ Fairness

Waits(id, class) == \E i \in WaitQueueIndices(id) : waitQueue[i].class = class

\* A waiting system notification is always relayed or removed in the end.
SystemNeverStarves ==
    \A id \in NotificationId : Waits(id, "system") ~> ~Waits(id, "system")

\* A waiting application notification too, unless system notifications keep
\* coming in front of it for ever.
ApplicationStarvesOnlyBehindSystem ==
    \A id \in NotificationId :
        \/ Waits(id, "application") ~> ~Waits(id, "application")
        \/ []<>(\E i \in NotificationId : Waits(i, "system"))

\* A system notification never stays: it is shown, or refused by the sink that
\* would show it, and its removal requested (mcompositornotificationsink.cpp:103,
\* 222).
SystemEventuallyRemoved ==
    \A id \in NotificationId :
        id \in SystemIds(notificationContainer)
            ~> id \notin SystemIds(notificationContainer)

=============================================================================
