------------------------ MODULE NotificationIndicator ------------------------
(***************************************************************************)
(* The sink that chooses the notification icon of the status area          *)
(* (systemui/notifications/notificationstatusindicatorsink.cpp): that of   *)
(* the most important notification or group, the most recent of several.   *)
(* sysuid.cpp does not connect it to the removal of groups.                *)
(***************************************************************************)
EXTENDS NotificationSignals, SequencesExt

VARIABLE indicator  \* the members of NotificationStatusIndicatorSink

ForNotification(id) == [of |-> "notification", id |-> id]
ForGroup(group) == [of |-> "group", id |-> group]
NoIcon == "no icon"

NewIndicatorSink ==
    [groupForNotification |-> <<>>,
     notificationsForGroup |-> <<>>,
     dataFor |-> <<>>,      \* dataForNotification and dataForGroup
     datas |-> <<>>,        \* of these, what is shown, the most recent first
     iconId |-> NoIcon]

Data(content) == [icon |-> content.icon, priority |-> content.priority]

Datas(n) == [i \in DOMAIN n.datas |-> n.dataFor[n.datas[i]]]

MostImportant(datas) ==
    LET shown == {i \in DOMAIN datas : datas[i].priority >= 0}
        best == CHOOSE i \in shown : \A j \in shown :
                    \/ datas[i].priority > datas[j].priority
                    \/ datas[i].priority = datas[j].priority /\ i <= j
    IN  IF shown = {} THEN NoIcon ELSE datas[best].icon

CheckMostImportantNotification(n) == [n EXCEPT !.iconId = MostImportant(Datas(n))]

(* Data that is shown comes, changes or goes.                              *)
Prepended(n, key) ==
    CheckMostImportantNotification([n EXCEPT !.datas = <<key>> \o @])

UpdateDataUnchecked(n, key, content) ==
    IF key \notin DOMAIN n.dataFor THEN n ELSE [n EXCEPT !.dataFor[key] = Data(content)]

UpdateData(n, key, content) ==
    IF key \notin DOMAIN n.dataFor THEN n
    ELSE CheckMostImportantNotification([n EXCEPT !.dataFor[key] = Data(content)])

TakenFromDatas(n, key) ==
    IF key \notin DOMAIN n.dataFor THEN n
    ELSE CheckMostImportantNotification([n EXCEPT !.datas = Removed(@, key)])

AddToIndicatorGroup(n, id, group) ==
    LET members == (IF group \in DOMAIN n.notificationsForGroup
                    THEN n.notificationsForGroup[group] ELSE {}) \cup {id}
        known == [n EXCEPT !.notificationsForGroup = With(@, group, members)]
    IN  IF ForGroup(group) \in DOMAIN n.dataFor /\ Cardinality(members) = 1
        THEN Prepended(known, ForGroup(group)) ELSE known

AddStandaloneNotification(n, id, content) ==
    Prepended([n EXCEPT !.dataFor = With(@, ForNotification(id), Data(content))],
              ForNotification(id))

IndicatorAdds(n, id, group, content) ==
    LET updated == UpdateData(n, ForNotification(id), content)
        known == [updated EXCEPT !.groupForNotification = With(@, id, group)]
    IN  CASE content.type # "application" -> n
          [] content.type = "application" /\ id \in DOMAIN n.groupForNotification -> updated
          [] content.type = "application" /\ id \notin DOMAIN n.groupForNotification ->
                IF group > 0 THEN AddToIndicatorGroup(known, id, group)
                ELSE AddStandaloneNotification(known, id, content)

RemoveFromIndicatorGroup(n, id, group) ==
    LET left == [n EXCEPT !.notificationsForGroup[group] = @ \ {id}]
    IN  IF left.notificationsForGroup[group] = {} THEN TakenFromDatas(left, ForGroup(group)) ELSE left

RemoveStandaloneNotification(n, id) ==
    [TakenFromDatas(n, ForNotification(id)) EXCEPT !.dataFor = Without(@, {ForNotification(id)})]

IndicatorRemoves(n, id) ==
    LET known == id \in DOMAIN n.groupForNotification
        group == n.groupForNotification[id]
    IN  [(IF known /\ group \in DOMAIN n.notificationsForGroup
          THEN RemoveFromIndicatorGroup(n, id, group)
          ELSE RemoveStandaloneNotification(n, id)) EXCEPT !.groupForNotification = Without(@, {id})]

IndicatorAddsGroup(n, group, content) ==
    LET updated == UpdateData(n, ForGroup(group), content)
    IN  IF group \in DOMAIN n.notificationsForGroup THEN updated
        ELSE [updated EXCEPT !.notificationsForGroup = With(@, group, {}),
                             !.dataFor = With(@, ForGroup(group), Data(content))]

(* The connections of Sysuid::Sysuid.                                      *)
IndicatorHears(n, s) ==
    CASE s.signal \in {"notificationUpdated", "notificationRestored"} ->
            IndicatorAdds(n, s.id, s.group, s.content)
      [] s.signal = "notificationRemoved" -> IndicatorRemoves(n, s.id)
      [] s.signal = "groupUpdated" -> IndicatorAddsGroup(n, s.id, s.content)
      [] s.signal = "groupRemoved" -> n

IndicatorInit == indicator = AfterAll(IndicatorHears, NewIndicatorSink, RestoredSignals)
IndicatorListens(signals) == indicator' = AfterAll(IndicatorHears, indicator, signals)

-----------------------------------------------------------------------------
\* The icon is of the highest priority there is: what counts are the application
\* notifications that were signalled and are in no group, and the groups of the
\* others with the latest parameters of the group, although the sink never hears
\* that a group is removed and its id is issued again; what has a negative priority
\* has no icon (notificationstatusindicatorsink.cpp:40-209).
IconOfMostImportant ==
    LET contents ==
            {IF managed[id].group = NoGroup THEN managed[id].content
             ELSE managedGroups[managed[id].group] : id \in RelayedApplications}
        shown == {content \in contents : content.priority >= 0}
    IN  IF shown = {} THEN indicator.iconId = NoIcon
        ELSE \E content \in shown :
                /\ content.icon = indicator.iconId
                /\ \A other \in shown : other.priority <= content.priority

=============================================================================
