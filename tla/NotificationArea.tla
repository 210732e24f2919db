--------------------------- MODULE NotificationArea ---------------------------
(***************************************************************************)
(* The notification area of the status menu                                *)
(* (systemui/statusindicatormenu/notificationarea.cpp and its view) and    *)
(* the sink that keeps its banners                                         *)
(* (systemui/notifications/notificationareasink.cpp on top of              *)
(* widgetnotificationsink.cpp).                                            *)
(*                                                                         *)
(* A banner is known by its owner: a notification that is in no group, or  *)
(* a group.  The banner of a group is on display as long as its count of   *)
(* notifications says so.  A banner that the model of the area holds was   *)
(* laid out and has a parent item; the view lays out at once.              *)
(***************************************************************************)
EXTENDS NotificationSignals, SequencesExt

CONSTANTS
    MaxBanners,     \* the style of the view: how many banners it lays out
    MaxClicks,      \* bound on the clicks that were not handled yet
    MaxCount        \* bound on the count of a group

ASSUME AreaAssumption == {MaxBanners, MaxClicks, MaxCount} \subseteq Nat \ {0}

VARIABLES
    area,       \* the members of NotificationAreaSink and the model of the area
    clicks      \* banners that were clicked; the connection is queued

areaVars == <<area, clicks>>

ABanner(id) == [owner |-> "notification", id |-> id]
AGroupBanner(group) == [owner |-> "group", id |-> group]

(* What a banner shows: WidgetNotificationSink::createInfoBanner and       *)
(* updateNotification give it its texts, image and action.                 *)
InfoBanner(content) == [content |-> content, parented |-> FALSE]
NULL == [content |-> "no banner"]

NoArea == [created |-> FALSE, banners |-> <<>>]

NewArea ==
    [created |-> TRUE,
     notificationIdToMBanner |-> <<>>,
     notificationGroupParameters |-> <<>>,
     groupIdToMBanner |-> <<>>,
     notificationCountOfGroup |-> <<>>,
     notificationIdToGroupId |-> <<>>,
     banners |-> <<>>]

Count(a, group) ==
    IF group \in DOMAIN a.notificationCountOfGroup THEN a.notificationCountOfGroup[group] ELSE 0

BannerOf(a, group) ==
    IF group \in DOMAIN a.groupIdToMBanner THEN a.groupIdToMBanner[group] ELSE NULL

(* The slots of NotificationArea: its model.                               *)
MoveNotificationToTop(a, banner) ==
    IF a.banners = <<>> THEN a
    ELSE [a EXCEPT !.banners = <<banner>> \o Removed(@, banner)]

AddToModel(a, banner) == [a EXCEPT !.banners = <<banner>> \o @]

RemoveFromModel(a, banner) == [a EXCEPT !.banners = RemovedOne(@, banner)]

-----------------------------------------------------------------------------
(* NotificationAreaSink.                                                   *)

AddGroup(a, group, content) ==
    [a EXCEPT
        !.groupIdToMBanner = With(@, group,
            IF BannerOf(a, group) = NULL THEN InfoBanner(content)
            ELSE [BannerOf(a, group) EXCEPT !.content = content]),
        !.notificationGroupParameters = With(@, group, content)]

DeleteGroupFromNotificationCountOfGroup(a, group) ==
    [a EXCEPT
        !.notificationCountOfGroup = Without(@, {group}),
        !.notificationIdToGroupId =
            Without(@, {id \in DOMAIN @ : a.notificationIdToGroupId[id] = group})]

TakenOut(a, group) ==
    IF BannerOf(a, group) # NULL /\ BannerOf(a, group).parented
    THEN RemoveFromModel(a, AGroupBanner(group)) ELSE a

RemoveGroup(a, group) ==
    LET gone == DeleteGroupFromNotificationCountOfGroup(
                    [TakenOut(a, group) EXCEPT !.groupIdToMBanner = Without(@, {group})], group)
    IN  [(IF group \in DOMAIN a.groupIdToMBanner THEN gone ELSE a) EXCEPT
            !.notificationGroupParameters = Without(@, {group})]

RemoveGroupBanner(a, group) ==
    IF BannerOf(a, group) # NULL /\ BannerOf(a, group).parented
    THEN DeleteGroupFromNotificationCountOfGroup(
             [TakenOut(a, group) EXCEPT !.groupIdToMBanner[group] = NULL], group)
    ELSE a

IncreaseCountKeepsOne(a, id, group) ==
    [a EXCEPT !.notificationCountOfGroup = With(@, group, 1),
              !.notificationIdToGroupId = With(@, id, group)]

IncreaseNotificationCountOfGroup(a, id, group) ==
    [a EXCEPT !.notificationCountOfGroup = With(@, group, Count(a, group) + 1),
              !.notificationIdToGroupId = With(@, id, group)]

DecreaseNotificationCountOfGroup(a, group) ==
    [a EXCEPT !.notificationCountOfGroup =
        With(@, group, IF Count(a, group) > 0 THEN Count(a, group) - 1 ELSE 0)]

(* The banner of a group that lost its last notification is made anew.     *)
CreateGroupBanner(a, group) ==
    IF a.groupIdToMBanner[group] # NULL THEN a
    ELSE [a EXCEPT !.groupIdToMBanner[group] = InfoBanner(a.notificationGroupParameters[group])]

AddNotificationToGroup(a, id, group) ==
    IF group \notin DOMAIN a.groupIdToMBanner THEN a
    ELSE LET b == CreateGroupBanner(a, group)
             shown == IF b.groupIdToMBanner[group].parented
                      THEN MoveNotificationToTop(b, AGroupBanner(group))
                      ELSE AddToModel([b EXCEPT !.groupIdToMBanner[group].parented = TRUE],
                                      AGroupBanner(group))
         IN  IncreaseNotificationCountOfGroup(shown, id, group)

AddStandAloneNotification(a, id, content) ==
    LET known == id \in DOMAIN a.notificationIdToMBanner
        b == [a EXCEPT !.notificationIdToMBanner =
                           With(@, id, [InfoBanner(content) EXCEPT !.parented = TRUE])]
    IN  IF known THEN b ELSE AddToModel(b, ABanner(id))

AddNotification(a, id, group, content) ==
    CASE content.type # "application" -> a
      [] content.type = "application" /\ group > 0 -> AddNotificationToGroup(a, id, group)
      [] content.type = "application" /\ group = 0 -> AddStandAloneNotification(a, id, content)

(* The notification may be known by its banner and, since ids are reused,  *)
(* in a group as well.                                                     *)
RemoveNotification(a, id) ==
    LET standAlone == IF id \notin DOMAIN a.notificationIdToMBanner THEN a
                      ELSE RemoveFromModel([a EXCEPT !.notificationIdToMBanner = Without(@, {id})],
                                           ABanner(id))
        group == a.notificationIdToGroupId[id]
        counted == DecreaseNotificationCountOfGroup(standAlone, group)
        removed == IF Count(counted, group) = 0 THEN RemoveGroupBanner(counted, group) ELSE counted
    IN  IF id \notin DOMAIN a.notificationIdToGroupId THEN standAlone
        ELSE [removed EXCEPT !.notificationIdToGroupId = Without(@, {id})]

(* NotificationArea::setNotificationManagerInterface connects everything.  *)
AreaHears(a, s) ==
    CASE ~a.created -> a
      [] a.created /\ s.signal \in {"notificationUpdated", "notificationRestored"} ->
            AddNotification(a, s.id, s.group, s.content)
      [] a.created /\ s.signal = "notificationRemoved" -> RemoveNotification(a, s.id)
      [] a.created /\ s.signal = "groupUpdated" -> AddGroup(a, s.id, s.content)
      [] a.created /\ s.signal = "groupRemoved" -> RemoveGroup(a, s.id)

(* What there is, heard as if it were signalled: what waits, too.          *)
UpdateCurrentNotifications(a, groupOrder, order) ==
    AfterAll(AreaHears, a,
             [i \in DOMAIN groupOrder |-> GroupUpdated(groupOrder[i], managedGroups[groupOrder[i]])]
             \o [i \in DOMAIN order |-> NotificationUpdated(order[i], managed[order[i]])])

-----------------------------------------------------------------------------
(* NotificationAreaView::updateLayout.                                     *)

LaidOut(a) == SubSeq(a.banners, 1, IF Len(a.banners) > MaxBanners THEN MaxBanners ELSE Len(a.banners))
UserRemovable(a, banner) ==
    IF banner.owner = "group" THEN a.groupIdToMBanner[banner.id].content.removable
    ELSE a.notificationIdToMBanner[banner.id].content.removable

ClearButtonVisible(a) == \E banner \in Range(LaidOut(a)) : UserRemovable(a, banner)

(* What is requested of the manager for a banner.                          *)
Requested(banner) ==
    IF banner.owner = "notification" THEN {banner.id} \cap DOMAIN managed ELSE MembersOf(banner.id)

-----------------------------------------------------------------------------
(* The dropdown view of the menu creates its area and deletes it.          *)
CreateArea ==
    /\ ~area.created
    /\ \E groupOrder \in SetToSeqs(DOMAIN managedGroups), order \in SetToSeqs(DOMAIN managed) :
           area' = UpdateCurrentNotifications(NewArea, groupOrder, order)
    /\ UNCHANGED <<managerVars, clicks>>

DeleteArea ==
    /\ area.created
    /\ area' = NoArea
    /\ clicks' = {}
    /\ UNCHANGED managerVars

ClickBanner(banner) ==
    /\ Cardinality(clicks) < MaxClicks
    /\ clicks' = clicks \cup {banner}
    /\ UNCHANGED <<managerVars, area>>

(* A deleted banner is no sender any more.                                 *)
AreaListensFor(handled, signals) ==
    /\ area' = AfterAll(AreaHears, area, signals)
    /\ area'.created => \A group \in GroupIds : Count(area', group) <= MaxCount
    /\ clicks' = {banner \in clicks \ handled : Contains(area'.banners, banner)}

AreaListens(signals) == AreaListensFor({}, signals)

(* infoBannerClicked: the manager removes at once what is asked for.       *)
InfoBannerClicked(banner) ==
    ManagerRemoves(IF UserRemovable(area, banner) THEN Requested(banner) ELSE {},
                   LAMBDA signals : AreaListensFor({banner}, signals))

(* The clear button.                                                       *)
RemoveAllRemovableBanners ==
    /\ area.created /\ ClearButtonVisible(area)
    /\ ManagerRemoves(UNION {Requested(b) : b \in {c \in Range(area.banners) : UserRemovable(area, c)}},
                      AreaListens)

AreaInit == area = NoArea /\ clicks = {}

AreaActs ==
    \/ CreateArea
    \/ DeleteArea
    \/ \E banner \in Range(LaidOut(area)) : ClickBanner(banner)
    \/ \E banner \in clicks : InfoBannerClicked(banner)
    \/ RemoveAllRemovableBanners

-----------------------------------------------------------------------------
(* Properties.                                                             *)

\* A banner that is laid out belongs to a notification or a group that the sink
\* still has it for and is laid out once; a banner that has a parent is laid out;
\* and no notification is counted in a group whose banner was deleted, which
\* would be dereferenced (notificationareasink.cpp:105-191, 248-259).
BannersBelong ==
    area.created =>
        LET parented(banners) == {k \in DOMAIN banners : banners[k] # NULL /\ banners[k].parented}
        IN  /\ IsInjective(area.banners)
            /\ Range(area.banners) =
                   {ABanner(id) : id \in parented(area.notificationIdToMBanner)} \cup
                   {AGroupBanner(group) : group \in parented(area.groupIdToMBanner)}
            /\ \A id \in DOMAIN area.notificationIdToGroupId :
                   BannerOf(area, area.notificationIdToGroupId[id]) # NULL

\* The area misses nothing: each application notification that was signalled has
\* its banner, or that of its group, with its latest content, although ids are
\* issued again and the removal of what waits is signalled to nobody
\* (notificationareasink.cpp:150-219).
AreaMissesNothing ==
    area.created =>
        \A id \in RelayedApplications :
            IF managed[id].group = NoGroup
            THEN /\ Contains(area.banners, ABanner(id))
                 /\ area.notificationIdToMBanner[id].content = managed[id].content
            ELSE /\ Contains(area.banners, AGroupBanner(managed[id].group))
                 /\ area.groupIdToMBanner[managed[id].group].content =
                        managedGroups[managed[id].group]

\* The area shows what there is, in banners that exist, each once.
AreaFollowsNotifications == BannersBelong /\ AreaMissesNothing

=============================================================================
