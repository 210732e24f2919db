-------------------- MODULE MCompositorNotificationSink --------------------
(***************************************************************************)
(* The banners of the system UI                                            *)
(* (systemui/notifications/mcompositornotificationsink.cpp): a queue of    *)
(* banners, the one on the screen, its timer, the window they appear in,   *)
(* and the conditions under which previews are disabled.                   *)
(*                                                                         *)
(* The notification manager is the environment, reduced to what the sink   *)
(* sees of it: notifications that exist, some of which wait, and the one   *)
(* in progress.  A removal the sink requests comes back as                 *)
(* removeNotification before the request returns, and may relay the next   *)
(* notification into the sink while the sink is in the middle of           *)
(* something.  `stack' is that nesting, innermost call first.              *)
(***************************************************************************)
EXTENDS Functions, QtLists

CONSTANTS
    MaxNotificationId,  \* bound on the identifiers in use at a time
    PreviewKeys,        \* values of the GConf key: "true", "false", "unset"
    Updates,            \* clients update notifications "never", only those "known" to the sink, "any"
    Kinds               \* the notifications clients add

NotificationId == 1 .. MaxNotificationId
Banner == 1 .. (MaxNotificationId + 2)      \* addresses of banners on the heap
NoBanner == 0
AllKinds == {"system", "application", "textless"}   \* textless: nothing to show

ASSUME ConstantsAssumption ==
    /\ MaxNotificationId \in Nat
    /\ PreviewKeys \subseteq {"true", "false", "unset"} /\ PreviewKeys # {}
    /\ Updates \in {"never", "known", "any"}
    /\ Kinds \subseteq AllKinds

VARIABLES
    live,               \* manager: id -> kind of the notifications there are
    waiting,            \* manager: ids of those that were not announced yet
    progress,           \* manager: id of the one in progress, or 0
    notificationIds,
    idToBanner,         \* a partial function from ids to addresses
    bannerQueue,
    currentBanner,
    phase,              \* of the current banner: "shown", "disappearing", "disappeared"
    bannerTimer,        \* it is running
    heap,               \* address -> kind of the banner, for those not deleted
    window,             \* "none" (not created), "hidden", "visible"
    onDisplay,          \* the window is on the display, as far as it has heard
    allPreviewsDisabled,
    touchScreenLockActive,
    displayOff,
    previewKey,
    stack

managerVars == <<live, waiting, progress>>
bannerVars == <<notificationIds, idToBanner, bannerQueue, heap>>
screenVars == <<currentBanner, phase, bannerTimer, window, onDisplay>>
lockVars == <<touchScreenLockActive, displayOff, previewKey, allPreviewsDisabled>>
vars == <<managerVars, bannerVars, screenVars, lockVars, stack>>

-----------------------------------------------------------------------------
Empty == [x \in {} |-> x]
Insert(f, k, v) == [x \in DOMAIN f \cup {k} |-> IF x = k THEN v ELSE f[x]]
Without(f, k) == Restrict(f, DOMAIN f \ {k})
Smallest(S) == CHOOSE i \in S : \A j \in S : i <= j

(* Frames of the stack.                                                    *)
UpdatedFrame(id) == [op |-> "updated", id |-> id]           \* addNotification(id)
SubmittedFrame(id) == [op |-> "submitted", id |-> id]       \* then it is in progress
RemoveFrame(id) == [op |-> "remove", id |-> id]             \* removal requested
ShowFrame(id, kind) == [op |-> "show", id |-> id, kind |-> kind]    \* end of addNotification
ClearFrame(banners) == [op |-> "clear", banners |-> banners]        \* removeBannersFromQueue
DeleteFrame(b) == [op |-> "delete", banner |-> b]
CurrentDoneFrame == [op |-> "currentDone"]                  \* end of currentBannerDone

Frame ==
    [op : {"updated", "submitted", "remove"}, id : NotificationId]
        \cup [op : {"show"}, id : NotificationId, kind : AllKinds]
        \cup [op : {"clear"}, banners : Seq(Banner)]
        \cup [op : {"delete"}, banner : Banner]
        \cup [op : {"currentDone"}]

Idle == stack = <<>>
Top(op) == stack # <<>> /\ Head(stack).op = op

-----------------------------------------------------------------------------
(* The manager's side of the conversation.                                 *)

Relay(rest) ==
    \/ /\ waiting = {}
       /\ stack' = rest
       /\ UNCHANGED waiting
    \/ \E id \in waiting :
        /\ waiting' = waiting \ {id}
        /\ stack' = <<UpdatedFrame(id), SubmittedFrame(id)>> \o rest

DisappearCurrent == phase' = IF phase = "shown" THEN "disappearing" ELSE phase

(* Broken variants, each with a plausible bug, stand before what they vary. *)
RemoveBannerEvenIfShown(id) ==
    /\ idToBanner' = Without(idToBanner, id)
    /\ IF id \notin DOMAIN idToBanner
       THEN UNCHANGED <<bannerQueue, heap, bannerTimer, phase>>
       ELSE /\ bannerQueue' = Removed(bannerQueue, idToBanner[id])
            /\ heap' = Without(heap, idToBanner[id])
            /\ UNCHANGED <<bannerTimer, phase>>

(* A banner on the screen is made to disappear, one in the queue deleted.  *)
RemoveBanner(id) ==
    /\ idToBanner' = Without(idToBanner, id)
    /\ IF id \notin DOMAIN idToBanner
       THEN UNCHANGED <<bannerQueue, heap, bannerTimer, phase>>
       ELSE IF idToBanner[id] = currentBanner
            THEN bannerTimer' = FALSE /\ DisappearCurrent /\ UNCHANGED <<bannerQueue, heap>>
            ELSE /\ bannerQueue' = Removed(bannerQueue, idToBanner[id])
                 /\ heap' = Without(heap, idToBanner[id])
                 /\ UNCHANGED <<bannerTimer, phase>>

(* removeNotification of the sink.                                         *)
RemoveFromSink(id) == notificationIds' = notificationIds \ {id} /\ RemoveBanner(id)

RunRemove ==
    /\ Top("remove")
    /\ LET id == Head(stack).id
           rest == Tail(stack)
       IN IF id \notin DOMAIN live
          THEN stack' = rest /\ UNCHANGED <<managerVars, bannerVars, bannerTimer, phase>>
          ELSE /\ live' = Without(live, id)
               /\ IF id \in waiting
                  THEN /\ waiting' = waiting \ {id}
                       /\ stack' = rest
                       /\ UNCHANGED <<progress, bannerVars, bannerTimer, phase>>
                  ELSE /\ RemoveFromSink(id)
                       /\ IF progress = id
                          THEN progress' = 0 /\ Relay(rest)
                          ELSE stack' = rest /\ UNCHANGED <<progress, waiting>>
    /\ UNCHANGED <<currentBanner, window, onDisplay, lockVars>>

FinishSubmit ==
    /\ Top("submitted")
    /\ progress' = Head(stack).id
    /\ stack' = Tail(stack)
    /\ UNCHANGED <<live, waiting, bannerVars, screenVars, lockVars>>

ClientAdds(kind) ==
    /\ Idle
    /\ NotificationId \ DOMAIN live # {}
    /\ LET id == Smallest(NotificationId \ DOMAIN live) IN
       /\ live' = Insert(live, id, kind)
       /\ IF progress = 0
          THEN stack' = <<UpdatedFrame(id), SubmittedFrame(id)>> /\ UNCHANGED waiting
          ELSE waiting' = waiting \cup {id} /\ UNCHANGED stack
    /\ UNCHANGED <<progress, bannerVars, screenVars, lockVars>>

ClientUpdates(id) ==
    /\ Idle
    /\ id \in DOMAIN live \ waiting
    /\ \/ Updates = "any"
       \/ Updates = "known" /\ id \in notificationIds
    /\ stack' = <<UpdatedFrame(id)>>
    /\ UNCHANGED <<managerVars, bannerVars, screenVars, lockVars>>

ClientRemoves(id) ==
    /\ Idle
    /\ id \in DOMAIN live
    /\ stack' = <<RemoveFrame(id)>>
    /\ UNCHANGED <<managerVars, bannerVars, screenVars, lockVars>>

RelayTimer ==
    /\ Idle
    /\ progress # 0
    /\ progress' = 0
    /\ Relay(<<>>)
    /\ UNCHANGED <<live, bannerVars, screenVars, lockVars>>

-----------------------------------------------------------------------------
(* The sink.                                                               *)

PreviewDisabled(kind, appsDisabled, systemDisabled) ==
    \/ allPreviewsDisabled
    \/ IF kind = "application" THEN appsDisabled ELSE systemDisabled

CanAdd(kind, appEventsEnabled) == kind # "textless" /\ (appEventsEnabled \/ kind # "application")

RejectSilently(id, kind, rest) == rest

(* What becomes of a notification without a preview: a system notification *)
(* counts as shown.                                                        *)
Reject(id, kind, rest) ==
    IF kind = "application" THEN rest ELSE <<RemoveFrame(id)>> \o rest

(* addNotification, up to the creation of the banner.  Three inputs are    *)
(* set elsewhere at any time and only read here: whether application       *)
(* notifications are accepted (not during video recording), whether they   *)
(* get previews (not while the screen is locked or the status menu open,   *)
(* nor if the current application's window says so), and whether that      *)
(* window lets system notifications have theirs.  The update of a banner   *)
(* changes its texts, which are not modelled.                              *)
AddNotification ==
    /\ Top("updated")
    /\ \E appEventsEnabled, appsDisabled, systemDisabled \in BOOLEAN :
        LET id == Head(stack).id
            rest == Tail(stack)
            kind == live[id]
        IN stack' =
            IF ~CanAdd(kind, appEventsEnabled) THEN rest
            ELSE IF PreviewDisabled(kind, appsDisabled, systemDisabled)
            THEN Reject(id, kind, rest)
            ELSE IF id \in notificationIds THEN rest
            ELSE IF window # "none" /\ displayOff
            THEN <<ClearFrame(bannerQueue), ShowFrame(id, kind)>> \o rest
            ELSE <<ShowFrame(id, kind)>> \o rest
    /\ UNCHANGED <<managerVars, bannerVars, screenVars, lockVars>>

(* addOldestBannerToWindow, with q the queue, when there is no current     *)
(* banner.                                                                 *)
AddOldest(q) ==
    IF q # <<>>
    THEN /\ currentBanner' = Head(q)
         /\ bannerQueue' = Tail(q)
         /\ phase' = "shown"
         /\ bannerTimer' = TRUE
         /\ window' = IF window = "none" THEN "none" ELSE "visible"
    ELSE /\ currentBanner' = NoBanner
         /\ bannerQueue' = q
         /\ phase' = "disappeared"
         /\ window' = IF window = "none" THEN "none" ELSE "hidden"
         /\ UNCHANGED bannerTimer

(* The banner is put into the queue; the window is shown if it was not.    *)
EnqueueWaitingForDisplay(b) ==
    /\ bannerQueue' = Append(bannerQueue, b)
    /\ window' = "visible"
    /\ UNCHANGED <<currentBanner, phase, bannerTimer>>

(* A window that has been hidden may still count as being on the display;  *)
(* then nothing will tell that it entered.                                 *)
Enqueue(b) ==
    IF window # "visible" /\ onDisplay /\ currentBanner = NoBanner
    THEN AddOldest(Append(bannerQueue, b))
    ELSE /\ bannerQueue' = Append(bannerQueue, b)
         /\ window' = "visible"
         /\ UNCHANGED <<currentBanner, phase, bannerTimer>>

(* The rest of addNotification.                                            *)
ShowBanner ==
    /\ Top("show")
    /\ LET id == Head(stack).id
           b == Smallest(Banner \ DOMAIN heap)
       IN /\ notificationIds' = notificationIds \cup {id}
          /\ heap' = Insert(heap, b, Head(stack).kind)
          /\ idToBanner' = Insert(idToBanner, id, b)
          /\ Enqueue(b)
    /\ stack' = Tail(stack)
    /\ UNCHANGED <<managerVars, onDisplay, lockVars>>

BannerDoneWithoutRequest(b, rest) ==
    /\ stack' = rest
    /\ idToBanner' = Restrict(idToBanner, {id \in DOMAIN idToBanner : idToBanner[id] # b})

(* bannerDone: the banner is forgotten and, if it was a system             *)
(* notification's, the notification's removal requested.                   *)
BannerDone(b, rest) ==
    LET ids == {id \in DOMAIN idToBanner : idToBanner[id] = b} IN
    IF ids = {}
    THEN stack' = rest /\ UNCHANGED idToBanner
    ELSE \E id \in ids :
            /\ idToBanner' = Without(idToBanner, id)
            /\ stack' = IF b \in DOMAIN heap /\ heap[b] = "system"
                        THEN <<RemoveFrame(id)>> \o rest ELSE rest

(* One turn of the loop of removeBannersFromQueue, over a copy of the      *)
(* queue; after the last the queue is cleared and the current banner, if   *)
(* it is not on its way out already, disappears at once.                   *)
ClearQueue ==
    /\ Top("clear")
    /\ LET banners == Head(stack).banners
           rest == Tail(stack)
       IN \/ /\ banners # <<>>
             /\ BannerDone(Head(banners),
                           <<DeleteFrame(Head(banners)), ClearFrame(Tail(banners))>> \o rest)
             /\ UNCHANGED <<bannerQueue, phase>>
          \/ /\ banners = <<>>
             /\ bannerQueue' = <<>>
             /\ \/ /\ phase # "disappeared"
                   /\ BannerDone(currentBanner, <<CurrentDoneFrame>> \o rest)
                   /\ phase' = "disappeared"
                \/ /\ phase # "shown"
                   /\ stack' = rest
                   /\ UNCHANGED <<idToBanner, phase>>
    /\ UNCHANGED <<managerVars, notificationIds, heap, currentBanner, bannerTimer,
                   window, onDisplay, lockVars>>

DeleteBanner ==
    /\ Top("delete")
    /\ heap' = Without(heap, Head(stack).banner)
    /\ stack' = Tail(stack)
    /\ UNCHANGED <<managerVars, notificationIds, idToBanner, bannerQueue, screenVars, lockVars>>

(* The banner has disappeared: currentBannerDone, first half.              *)
BannerDisappeared ==
    /\ Idle
    /\ phase = "disappearing"
    /\ phase' = "disappeared"
    /\ BannerDone(currentBanner, <<CurrentDoneFrame>>)
    /\ UNCHANGED <<managerVars, notificationIds, bannerQueue, heap, currentBanner,
                   bannerTimer, window, onDisplay, lockVars>>

(* Its second half; the scene window destroys itself.                      *)
FinishCurrentDone ==
    /\ Top("currentDone")
    /\ heap' = Without(heap, currentBanner)
    /\ AddOldest(bannerQueue)
    /\ stack' = Tail(stack)
    /\ UNCHANGED <<managerVars, notificationIds, idToBanner, onDisplay, lockVars>>

(* disappearCurrentBanner, on the timeout.                                 *)
BannerTimeout ==
    /\ Idle
    /\ bannerTimer
    /\ bannerTimer' = FALSE
    /\ DisappearCurrent
    /\ UNCHANGED <<managerVars, bannerVars, currentBanner, window, onDisplay, lockVars, stack>>

(* The user taps the banner: it goes, and its notification is removed if   *)
(* the user may remove it (infoBannerClicked).                             *)
BannerTapped ==
    /\ Idle
    /\ phase = "shown"
    /\ DisappearCurrent
    /\ \/ UNCHANGED stack
       \/ \E id \in DOMAIN idToBanner :
            idToBanner[id] = currentBanner /\ stack' = <<RemoveFrame(id)>>
    /\ UNCHANGED <<managerVars, bannerVars, currentBanner, bannerTimer, window, onDisplay,
                   lockVars>>

DisplayEntered ==
    /\ Idle
    /\ window = "visible"
    /\ ~onDisplay
    /\ onDisplay' = TRUE
    /\ IF currentBanner = NoBanner
       THEN AddOldest(bannerQueue)
       ELSE UNCHANGED <<bannerQueue, currentBanner, phase, bannerTimer, window>>
    /\ UNCHANGED <<managerVars, notificationIds, idToBanner, heap, lockVars, stack>>

(* The window learns late that it was hidden, or that it is covered.       *)
DisplayExited ==
    /\ Idle
    /\ onDisplay
    /\ onDisplay' = FALSE
    /\ UNCHANGED <<managerVars, bannerVars, currentBanner, phase, bannerTimer, window,
                   lockVars, stack>>

-----------------------------------------------------------------------------
(* Conditions that disable previews.                                       *)

(* changeNotificationPreviewMode: without a Boolean in the key, what was   *)
(* disabled stays disabled.                                                *)
ChangePreviewMode ==
    allPreviewsDisabled' =
        \/ IF previewKey' \in {"true", "false"}
           THEN previewKey' = "false" ELSE allPreviewsDisabled
        \/ touchScreenLockActive' /\ displayOff'

TouchScreenLockChanges ==
    /\ Idle
    /\ touchScreenLockActive' = ~touchScreenLockActive
    /\ UNCHANGED <<displayOff, previewKey>>
    /\ ChangePreviewMode
    /\ UNCHANGED <<managerVars, bannerVars, screenVars, stack>>

DisplayStateChanges ==
    /\ Idle
    /\ displayOff' = ~displayOff
    /\ UNCHANGED <<touchScreenLockActive, previewKey>>
    /\ ChangePreviewMode
    /\ UNCHANGED <<managerVars, bannerVars, screenVars, stack>>

PreviewKeyChanges ==
    /\ Idle
    /\ previewKey' \in PreviewKeys \ {previewKey}
    /\ UNCHANGED <<touchScreenLockActive, displayOff>>
    /\ ChangePreviewMode
    /\ UNCHANGED <<managerVars, bannerVars, screenVars, stack>>

-----------------------------------------------------------------------------
Init ==
    /\ live = Empty
    /\ waiting = {}
    /\ progress = 0
    /\ notificationIds = {}
    /\ idToBanner = Empty
    /\ bannerQueue = <<>>
    /\ currentBanner = NoBanner
    /\ phase = "disappeared"
    /\ bannerTimer = FALSE
    /\ heap = Empty
    /\ window = "none"
    /\ onDisplay = FALSE
    /\ touchScreenLockActive = FALSE
    /\ displayOff = FALSE
    /\ previewKey \in PreviewKeys
    /\ allPreviewsDisabled = (previewKey = "false")
    /\ stack = <<>>

RunFrame ==
    \/ RunRemove \/ FinishSubmit \/ AddNotification \/ ShowBanner \/ ClearQueue
    \/ DeleteBanner \/ FinishCurrentDone

Next ==
    \/ RunFrame
    \/ \E kind \in Kinds : ClientAdds(kind)
    \/ \E id \in NotificationId : ClientUpdates(id) \/ ClientRemoves(id)
    \/ RelayTimer
    \/ BannerDisappeared \/ BannerTimeout \/ BannerTapped
    \/ DisplayEntered \/ DisplayExited
    \/ TouchScreenLockChanges \/ DisplayStateChanges \/ PreviewKeyChanges

Spec == Init /\ [][Next]_vars

-----------------------------------------------------------------------------
(* Properties.                                                             *)

\* Every variable holds a value of its C++ type; there is always an address for
\* one more banner.
TypeOK ==
    /\ DOMAIN live \subseteq NotificationId
    /\ \A id \in DOMAIN live : live[id] \in AllKinds
    /\ waiting \subseteq NotificationId
    /\ progress \in 0 .. MaxNotificationId
    /\ notificationIds \subseteq NotificationId
    /\ DOMAIN idToBanner \subseteq NotificationId
    /\ \A id \in DOMAIN idToBanner : idToBanner[id] \in Banner
    /\ bannerQueue \in Seq(Banner)
    /\ currentBanner \in Banner \cup {NoBanner}
    /\ phase \in {"shown", "disappearing", "disappeared"}
    /\ DOMAIN heap \subseteq Banner
    /\ Banner \ DOMAIN heap # {}
    /\ \A b \in DOMAIN heap : heap[b] \in AllKinds
    /\ window \in {"none", "hidden", "visible"}
    /\ {bannerTimer, onDisplay, allPreviewsDisabled, touchScreenLockActive,
        displayOff} \subseteq BOOLEAN
    /\ previewKey \in PreviewKeys
    /\ stack \in Seq(Frame)

Queued == {bannerQueue[i] : i \in DOMAIN bannerQueue}
Mapped == {idToBanner[id] : id \in DOMAIN idToBanner}

\* No banner is used after it was deleted or deleted twice, none is queued
\* twice, and none belongs to two notifications, whatever is removed or added
\* from inside of whatever else (mcompositornotificationsink.cpp:179-197, 371-384).
BannersAlive ==
    /\ Mapped \cup ({currentBanner} \ {NoBanner}) \subseteq DOMAIN heap
    /\ Top("delete") => Head(stack).banner \in DOMAIN heap
    /\ Len(bannerQueue) = Cardinality(Queued)
    /\ currentBanner \notin Queued
    /\ \A i, j \in DOMAIN idToBanner : idToBanner[i] = idToBanner[j] => i = j
    /\ Idle => Queued \subseteq Mapped

\* Between events a banner that waits has somebody to show it, the window on its
\* way to the display or the banner before it, which has a timer or is on its way
\* out; and a window with nothing to show does not stay on the display.
BannersServed ==
    Idle =>
        /\ currentBanner = NoBanner =>
            \/ window = "visible" /\ ~onDisplay
            \/ bannerQueue = <<>> /\ window # "visible"
        /\ currentBanner # NoBanner =>
            \/ phase = "shown" /\ bannerTimer
            \/ phase = "disappearing"

\* Between events the sink remembers only identifiers of notifications that exist
\* and were announced: the identifier of a removed one is used again, and the new
\* notification must not pass for an update of the old.
IdsNotStale ==
    Idle => /\ notificationIds \subseteq DOMAIN live \ waiting
            /\ DOMAIN idToBanner \subseteq notificationIds

\* Between events every system notification that was announced has a banner in
\* the queue or on the screen, at whose end its removal will be requested: "System
\* notifications need to be removed after they've been shown to avoid leaking"
\* (mcompositornotificationsink.cpp:222).
SystemNotLeaked ==
    Idle => \A id \in DOMAIN live \ waiting :
        live[id] = "system" =>
            /\ id \in DOMAIN idToBanner
            /\ idToBanner[id] \in Queued \cup {currentBanner}

\* Previews are disabled exactly when the key says so or the display is off while
\* the touch screen is locked, in any order of the changes
\* (ut_mcompositornotificationsink.cpp:752-763).
PreviewsFollowConditions ==
    allPreviewsDisabled =
        (previewKey = "false" \/ (touchScreenLockActive /\ displayOff))

\* What the sink remembers of notifications, banners and conditions is right, from
\* inside of whatever else it is called (mcompositornotificationsink.cpp:87-227,
\* 310-384).
SinkConsistent == TypeOK /\ BannersAlive /\ IdsNotStale /\ PreviewsFollowConditions

-----------------------------------------------------------------------------
(* Fairness.  Calls that have begun end; the timers and the animation of a *)
(* banner that disappears come to an end; a window that is shown comes on  *)
(* the display again and again unless it is hidden.                        *)
Fairness ==
    /\ WF_vars(RunFrame)
    /\ SF_vars(RelayTimer)
    /\ SF_vars(BannerTimeout)
    /\ SF_vars(BannerDisappeared)
    /\ SF_vars(DisplayEntered)

FairSpec == Spec /\ Fairness

AnnouncedSystem(id) == id \in DOMAIN live \ waiting /\ live[id] = "system"

\* A system notification with something to show is removed in the end once it was
\* announced, however the display, the lock and the settings change in between:
\* what NotificationManager takes for granted as the fairness of its BannerDone.
AnnouncedSystemRemoved ==
    \A id \in NotificationId : AnnouncedSystem(id) ~> ~AnnouncedSystem(id)

=============================================================================
