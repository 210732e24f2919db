------------------------ MODULE NotificationSignals ------------------------
(***************************************************************************)
(* The notification manager as those see it who listen to its signals      *)
(* (connected in systemui/sysuid.cpp, notificationarea.cpp and             *)
(* lockscreenwithpadlockview.cpp).  NotificationManager models the manager *)
(* itself; here it only has what its signals are about.  While a           *)
(* notification waits to be relayed its changes and its removal are        *)
(* signalled to nobody; one that found no place in the queue was never     *)
(* signalled, but what happens to it later is.  All connections are        *)
(* direct: what is signalled in a step is heard within that step, so each  *)
(* operation takes what its listeners do with the signals it emits.        *)
(***************************************************************************)
EXTENDS QtLists, Functions

CONSTANTS
    NotificationIds,    \* 1..n: ids are reused, the lowest first
    GroupIds,           \* 1..n, too
    Contents            \* what the listeners look at in the parameters

ASSUME SignalsAssumption ==
    /\ IsFiniteSet(NotificationIds) /\ NotificationIds = 1..Cardinality(NotificationIds)
    /\ IsFiniteSet(GroupIds) /\ GroupIds = 1..Cardinality(GroupIds)
    /\ 1 \in NotificationIds /\ 1 \in GroupIds

ASSUME PrioritiesAssumption == \A content \in Contents : content.priority \in Int

VARIABLES
    managed,        \* the notification container: id -> notification
    managedGroups   \* the group container: id -> content

managerVars == <<managed, managedGroups>>

NoGroup == 0

(* A function that has one more element, or fewer.                         *)
With(f, key, value) == [k \in DOMAIN f \cup {key} |-> IF k = key THEN value ELSE f[k]]
Without(f, keys) == Restrict(f, DOMAIN f \ keys)

NotificationUpdated(id, n) ==
    [signal |-> "notificationUpdated", id |-> id, group |-> n.group, content |-> n.content]
NotificationRestored(id, n) == [NotificationUpdated(id, n) EXCEPT !.signal = "notificationRestored"]
NotificationRemoved(id) == [signal |-> "notificationRemoved", id |-> id]
GroupUpdated(id, content) == [signal |-> "groupUpdated", id |-> id, content |-> content]
GroupRemoved(id) == [signal |-> "groupRemoved", id |-> id]

LowestFree(ids, used) ==
    CHOOSE id \in ids \ used : \A other \in ids \ used : id <= other

(* A listener after it has heard the signals, one after the other.         *)
AfterAll(Hears(_, _), listener, signals) ==
    LET after[i \in 0..Len(signals)] ==
            IF i = 0 THEN listener ELSE Hears(after[i - 1], signals[i])
    IN  after[Len(signals)]

RelayedApplications ==
    {id \in DOMAIN managed : managed[id].relayed = "yes" /\ managed[id].content.type = "application"}

-----------------------------------------------------------------------------
(* addNotification with submitNotification.                                *)
ManagerAdds(group, content, Hear(_)) ==
    /\ NotificationIds # DOMAIN managed
    /\ group \in DOMAIN managedGroups \cup {NoGroup}
    /\ \E relayed \in {"yes", "waits", "dropped"} :
       LET id == LowestFree(NotificationIds, DOMAIN managed)
           n == [group |-> group, content |-> content, relayed |-> relayed]
       IN  /\ managed' = With(managed, id, n)
           /\ Hear(IF relayed = "yes" THEN <<NotificationUpdated(id, n)>> ELSE <<>>)
    /\ UNCHANGED managedGroups

(* relayNextNotification.                                                  *)
ManagerRelays(id, Hear(_)) ==
    /\ managed[id].relayed = "waits"
    /\ managed' = [managed EXCEPT ![id].relayed = "yes"]
    /\ Hear(<<NotificationUpdated(id, managed[id])>>)
    /\ UNCHANGED managedGroups

(* updateNotification.                                                     *)
ManagerUpdates(id, content, Hear(_)) ==
    /\ content.type = managed[id].content.type
    /\ LET n == [managed[id] EXCEPT !.content = content,
                                    !.relayed = IF @ = "waits" THEN "waits" ELSE "yes"]
       IN  /\ managed' = [managed EXCEPT ![id] = n]
           /\ Hear(IF n.relayed = "waits" THEN <<>> ELSE <<NotificationUpdated(id, n)>>)
    /\ UNCHANGED managedGroups

(* removeNotification.                                                     *)
RemovalSignals(ids) ==
    LET heard == {id \in ids : managed[id].relayed # "waits"}
    IN  [i \in 1..Cardinality(heard) |-> NotificationRemoved(Nth(heard, i))]

ManagerRemoves(ids, Hear(_)) ==
    /\ managed' = Without(managed, ids)
    /\ Hear(RemovalSignals(ids))
    /\ UNCHANGED managedGroups

(* addGroup, updateGroup.                                                  *)
ManagerUpdatesGroup(group, content, Hear(_)) ==
    /\ group \in DOMAIN managedGroups \cup
          (IF GroupIds = DOMAIN managedGroups THEN {}
           ELSE {LowestFree(GroupIds, DOMAIN managedGroups)})
    /\ content.type = "application"
    /\ managedGroups' = With(managedGroups, group, content)
    /\ Hear(<<GroupUpdated(group, content)>>)
    /\ UNCHANGED managed

(* doRemoveGroup: the notifications of the group go first.                 *)
MembersOf(group) == {id \in DOMAIN managed : managed[id].group = group}

ManagerRemovesGroup(group, Hear(_)) ==
    /\ managedGroups' = Without(managedGroups, {group})
    /\ managed' = Without(managed, MembersOf(group))
    /\ Hear(Append(RemovalSignals(MembersOf(group)), GroupRemoved(group)))

NotificationStep(Hear(_)) ==
    \/ \E group \in GroupIds \cup {NoGroup}, content \in Contents : ManagerAdds(group, content, Hear)
    \/ \E id \in DOMAIN managed :
           \/ ManagerRelays(id, Hear)
           \/ \E content \in Contents : ManagerUpdates(id, content, Hear)
           \/ ManagerRemoves({id}, Hear)

GroupStep(Hear(_)) ==
    \/ \E group \in GroupIds, content \in Contents : ManagerUpdatesGroup(group, content, Hear)
    \/ \E group \in DOMAIN managedGroups : ManagerRemovesGroup(group, Hear)

ManagerStep(Hear(_)) == NotificationStep(Hear) \/ GroupStep(Hear)

(* initializeStore: what was persistent is restored, the groups first.     *)
RestoredSignals ==
    [i \in 1..Cardinality(DOMAIN managedGroups) |-> GroupUpdated(i, managedGroups[i])]
    \o [i \in 1..Cardinality(DOMAIN managed) |-> NotificationRestored(i, managed[i])]

SignalsInit ==
    \/ managed = <<>> /\ managedGroups = <<>>
    \/ \E content \in {c \in Contents : c.type = "application"}, group \in {NoGroup, 1} :
           /\ managed = With(<<>>, 1, [group |-> group, content |-> content, relayed |-> "yes"])
           /\ managedGroups = IF group = NoGroup THEN <<>> ELSE With(<<>>, 1, content)

=============================================================================
