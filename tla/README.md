# A formal model of the MeeGo Touch system UI

`sysuid` is the daemon behind the status area, the notifications, the lock screen and the dialogs of a
MeeGo Touch device. This directory holds TLA+ modules translated from its sources (`src/src/systemui`,
`src/src/libnotificationsystem`, `src/src/extensions`), the TLC configurations that check them on small
instances, and TLAPS proofs of the properties that matter most for every instance. `PROJECT.json` maps each
definition to the lines it models.

## 1. The system

### 1.1 One thread, nested calls

The daemon runs one Qt event loop. There are no data races between threads; what is hard is **re-entrancy**.
A signal is a direct call of every connected slot, in connection order, in the middle of the emitting function,
and a slot may call back into the emitter. `NotificationManager::submitNotification()` emits
`notificationUpdated`, the compositor sink answers `notificationRemovalRequested` from inside, the manager removes the
notification, relays the next one, emits again, and only then do the sinks connected later hear of the first
notification. Everything else that interleaves is an event of the loop: D-Bus calls of clients, posted (queued)
calls, timers, window events, context property changes, and the death of the process between two writes.

### 1.2 Components

| component | state | operations | talks to |
|---|---|---|---|
| `NotificationManager` | `notificationContainer`, `groupContainer`, `waitQueue`, the notification in progress, the relay timer, user ID counter, two data files, a boot file | add, update, remove of notifications and groups, relay, restore, prune, event type changes | sources call it; it signals the sinks; sinks request removals |
| `EventTypeStore` | least-recently-used cache of parsed event type files, watched files | `contains`, `value`, directory and file change events | signals the manager `eventTypeModified`, `eventTypeUninstalled` |
| `DBusInterfaceNotificationSource` | none | forwards D-Bus calls, answers lists | calls the manager |
| `DBusInterfaceNotificationSink`, `MNotificationProxy` | the registered proxies | register, unregister, forward, field by field | hears the manager; removals come back over D-Bus |
| `MCompositorNotificationSink` | banner queue, id to banner map, current banner, timer, enabled flags | add, remove, banner done, display and lock changes | hears the manager, requests removals |
| `NGFNotificationSink` | id to feedback event, application events enabled | play, stop, use mode | hears the manager; NGF |
| `NotificationStatusIndicatorSink` | notifications, groups, the list of icons, the most important one | add, remove, restore | hears the manager |
| `NotificationAreaSink`, `NotificationArea` | banners of groups and of notifications, counts, what is laid out | add, remove, clear group, click, clear all | hears the manager, requests removals |
| `UnlockNotificationSink`, `UnlockMissedEvents`, the widget | missed event counts while locked, labels and icons | add, clear, lock signals, new view, turn | hears the manager and MCE |
| `ScreenLockBusinessLogic`, `EventEater`, `ScreenLockWindow` | lock window, event eater, callback of MCE, shutting down | `tklock_open`, `tklock_close`, display and system state | MCE over D-Bus, compositor sink |
| lock screen extension | the drag, the unlock area, background pixmaps, the date | press, move, release, redraw, reset, picture and day changes | unlocks the lock |
| `BatteryBusinessLogic`, `LowBatteryNotifier` | charging, level, current notification, light, reminder interval | charger, charging, battery and power save events | adds notifications, lock state |
| `ShutdownBusinessLogic`, `ShutdownUI` | phase of the shutdown screen | system state, timers, requests over D-Bus | display, feedback |
| `DiskSpaceNotifier` | what was sent for which path, the notification it showed | threshold signals | adds notifications |
| `UsbUi` | dialog, requested mode, timers | mode events, choices | adds notifications, lock state |
| `VolumeBarLogic`, `VolumeBar` | steps, current step, PulseAudio connection, the bar's timer and animation | step updates, keys, touches | PulseAudio over D-Bus |
| `StatusAreaRenderer` | window manager's window, event masks, visibility, changes not rendered yet | X events, scene changes, display | X11 |
| `Clock`, status indicators | time, heartbeat; style, value, animation, subscriptions | display, context changes, timers | context framework |
| `StatusIndicatorMenuWindow`, menu, view | visibility, menu widget, power off dialog, device lock | show, hide, display, lock and language changes | X11, the lock, compositor sink |
| `Sysuid`, X11 wrappers, private mode applet, stateless views | none beyond the connections | | |

### 1.3 What is hard, and what makes each component correct

The hazards are in `PROJECT.json` with the line where each bites. In short:

* **the wait queue**: order (system before application, arrival within a class), no loss, no copy that is out
  of date, and *somebody scheduled to relay what waits* although a removal can relay in the middle of an emission;
* **what the sinks know** against what the container holds, with sinks that come and go and removals nested
  in announcements;
* **persistence**: two files, each rewritten whole on every change, a multi-step group removal, the counter of
  user IDs, a boot file that says whether to prune;
* **event types** that change under existing notifications;
* **liveness**: a system notification goes away only if a sink asks for it, a waiting one is shown only if a
  timer fires;
* **the lock**: posted mode changes against visibility, the display and shutdown;
* **banners**: a current banner, a queue, a timer and a window that must agree while notifications are removed
  and previews disabled;
* **counters** of groups and missed events under updates, identifiers that are issued again, signals that never come
  (a removed group, the removal of what waits);
* **late signals**: a battery, a file watcher, an X server and a context framework tell of a change some time after it, mixed
  with values that are asked for at once;
* **timers that outlive their reason**: a redraw after the drag, a choice of a USB mode after the cable, a menu that is
  initialised after it was opened, a label of the shutdown screen deleted twice.

## 2. Modules

| module | what it is |
|---|---|
| `NotificationManager` | the manager, its wait queue and relay timer, its groups, the persistence, and the part of the sinks that calls back |
| `NotificationQueue` | abstract: what the wait queue promises |
| `MCNotificationManager` | values of the manager's constants for TLC |
| `NotificationManagerProofs` | TLAPS: the manager's types, the queue, the relay, the disk, the user IDs, the refinement |
| `NotificationSinksProofs` | TLAPS: what the sinks know and who waits; groups, their timestamps, orphans |
| `MCompositorNotificationSink` | the banners: queue, current banner, timer, window, preview settings; the manager reduced to what the sink sees of it |
| `BannersProofs` | TLAPS: the banners, the queue and the current banner, through all nestings |
| `QtLists`, `QtListsProofs` | a list from which an element is removed (`QList::removeAll`, `QList::removeOne`); TLAPS: its elements, their order and that they stay distinct |
| `NotificationSignals` | the manager reduced to its signals, for those who only listen |
| `NotificationArea`, `NotificationIndicator`, `FeedbackSink`, `MissedEvents` | four listeners of those signals |
| `NotificationListeners`, `MCNotificationListeners` | the listeners composed with the signals |
| `NotificationListenersProofs` | TLAPS: the feedback, the missed events, the icon, the notification area |
| `NotificationBus` | calls, lists and remote sinks: which parameters survive which form of call |
| `EventTypeStore` | the cache of event type files and its watcher |
| `ScreenLock` | the touch screen lock, the event eater, MCE's calls, the listeners of `screenIsLocked` |
| `UsbUi` | the USB dialog on top of `ScreenLock` |
| `LockScreen` | what is on the lock screen: drag, background, date |
| `StatusIndicatorMenu` | the menu window, the menu in it, the locks |
| `Shutdown` | the shutdown screen and the disk warning |
| `ScreensProofs` | TLAPS: the lock with its listeners, MCE and the event eater; the USB dialog; the lock screen's contents, the menu, the shutdown, the disk warning |
| `Battery`, `Volume`, `Clock`, `StatusIndicators`, `StatusAreaRenderer` | the other parts of the status bar and the dialogs |
| `SystemUiProofs` | TLAPS: the clock, the event types, the battery, the bus |
| `StatusAreaProofs` | TLAPS: the renderer of the status bar, the indicators |
| `MCSystem`, `MCLiveness` | parts that share no state, checked in one run each |

How they fit together: `NotificationManager` treats the compositor sink as an actor that may request a removal from inside an
announcement and whose banners are done in the end (`BannerDone`, with `SF`). `MCompositorNotificationSink` is that actor in
detail, with the manager as its environment; `AnnouncedSystemRemoved` is what `NotificationManager`'s fairness takes for
granted. `NotificationSignals` is the manager once more, for those who cannot disturb it: an operation of it takes as an
operator what its listeners do with the signals it emits, so that hearing is part of the emitting step, as with a direct
connection. `MCompositorNotificationSink` lets `touchScreenLockActive` change at any time; `ScreenLock` says when it does
(`LockConsistent`). `UsbUi` extends `ScreenLock`: its dialog calls `UnlockScreen` inside its own step.

### 2.1 NotificationManager

*Nesting as a stack.* `stack` is the sequence of *frames* still to be executed, innermost first: "tell sink s of
notification n", "the rest of submitNotification", "the rest of updateNotification", "one more turn of the
loop that removes these notifications", and so on. An action either runs the frame on top or, if the stack is empty
(`Idle`), takes the next event. A function of the code is therefore split exactly where it lets somebody else run
(an emission, a loop that calls something that emits), and nowhere else, so that every nesting the code can
produce is a behaviour and no other is.

*State.* The variables carry the names of the members: `notificationContainer` and `groupContainer` are partial
functions from identifiers, `waitQueue` a sequence of copies, `notificationInProgress`, `notificationIdInProgress`,
`timerActive` the relay state. `told` and `toldGroups` record what each sink was last signalled; `disk` is the pair
of data files, `openFile` the file whose write the last step may have left half done (only if it is in
`TornFiles`), `bootFile` the marker in `/tmp`. `issuedUserId` is a history variable: the highest user ID handed out.

*Actions.* `AddNotification`, `ClientUpdatesNotification`, `ClientRemovesNotification`, `AddGroup`, `UpdateGroup`,
`ClientRemovesGroup` and `NotificationUserId` are the functions the D-Bus source calls. The removals a client
requests are only `Post`ed, as the queued connections of the constructor do, and `DeliverPosted` runs them.
`SinkRemovesNotification`, `SinkClearsGroup`, `BannerDone` are events of sinks. `RelayNextNotification` is the
timer. `EventTypeModified` and `EventTypeUninstalled` come from the event type store. `RegisterSink`,
`UnregisterSink` are D-Bus sinks. `Start`, `Crash`, `Reboot`, `EventTypeChangesUnseen` are the life of the process.

*What is abstracted.* A notification's parameters are reduced to the three the manager reads: class, persistence
and event type, plus the timestamp. Texts, icons and priorities are carried along by the code and read by the sinks
only. Identifiers that the code searches from 1 upwards are bounded. The D-Bus sinks are one sink, registered or
not. Serialisation is modelled by what a whole or a partial file restores. Reading after free
(`updateNotification`'s iterator, used after an emission in which the notification can have been removed) is a
choice over all groups.

### 2.2 MCompositorNotificationSink

*State.* `notificationIds`, `idToBanner`, `bannerQueue`, `currentBanner` and the flags carry the names of the members.
`heap` maps the addresses of banners that are not deleted to their kind, so that a double or missing `delete` shows. `phase`
is the scene window's life: shown, disappearing, disappeared. `window` and `onDisplay` are two variables, since the code
knows that the window may still count as on the display after `hide()`. `live`, `waiting` and `progress` are the
manager: the notifications there are, those not announced yet, the one in progress.

*Nesting.* As in the manager: `AddNotification` runs up to the point where the queue may have to be cleared, `ShowBanner`
is the rest; `ClearQueue` is one turn of the loop of `removeBannersFromQueue()` over its *copy* of the queue;
`BannerDisappeared` and `FinishCurrentDone` are the halves of `currentBannerDone()` around the removal it may request.
A removal comes back through `RunRemove`, which calls `RemoveFromSink` and may relay the next notification.

*What is abstracted.* Texts, images, actions, the window mask. Whether application previews are disabled
(`sinkDisabled`, video recording, the current application's window property) is read once per notification and set by
others at any time: a choice. A notification without any text is a kind of its own (`"textless"`), because the code ignores it
before anything else. The tap on a banner and the queued `clicked` slot are one step.

### 2.3 ScreenLock

*State.* `posted` is the sequence of slots the single shot timers will call (timers of 0 ms are called in the order they were
started). `lowPowerMode` belongs to the window, `extensionMode` to the contents. `touchScreenLockActive` has a value per
listener. `lastRequest` and `unlockReported` are history variables: what MCE knows.

*Actions.* `TklockOpen`, `TklockClose` are MCE's calls, `CallPosted` carries one out; `UnlockScreen` (the extension's
`unlocked`, the USB dialog's `dialogShown`), `HideEventEater`, `SystemStateChanged` act at once. A slot is one step, because
nothing it calls comes back to the lock. Both reasons for showing the lock screen (`TkLockModeEnable`, `TkLockEnableVisual`)
post the same slot.

### 2.4 The wait queue, abstractly

`NotificationQueue` knows a sequence of entries with a class and four steps: one arrives at the place its class gives it, one
leaves, entries change where they are, all are lost. It does not say when. `Queue` instantiates it over `waitQueue`;
`QueueImplemented` is its specification, checked in `NM_live` and proved for every bound.

### 2.5 The listeners

`NotificationSignals` has the managed notifications with one mark each: signalled, waiting, or dropped by the full queue (kept,
and signalled again as soon as it is updated). Waiting ones are changed and removed silently. The order of the signals of one operation
is that of the code; identifiers are issued again as soon as they are free.

`NotificationArea` keeps the four maps of the sink and, as a sequence, the banners that the view has laid out; the area is created with
the menu and restores what there is. `NotificationIndicator` keeps the list whose order decides between equal
priorities. `FeedbackSink` has NGF's events that play. `MissedEvents` has MCE's lock signals on their way, the sink and the widget
of a view that may be replaced, the row of labels and icons. `NotificationListeners` watches one of them per behaviour (`watched`): they do
not know each other, so that their product would show nothing more.

### 2.6 NotificationBus, EventTypeStore

`NotificationBus` gives each parameter a version, as if each were a text, and models which call carries which parameter, which
field of which reply they end in, and what a registered sink is sent. `said` is a history variable: what the applications said.
`EventTypeStore` has the files, the watcher's signals that were not delivered, and the cache; `hasty` and `unasked` are history variables
for the two exceptions its property makes.

### 2.7 Dialogs and screens

`Battery` keeps the signals of the battery library apart from its present values, because the handlers use both; the reminder's
timer is counted in `elapsed` and `left`. `UsbUi` has the timers of the choices, one for each choice, and the signals of the mode on
their way. `Shutdown` has one phase record per widget: `realized`, `labels`, `logos`, the two timers, the screen. `StatusIndicatorMenu` has the
window as the process sees it (`visible`), as the window manager has it (`onDisplay`, `obscured`), and the number of
`initializeMenuWidget` timers that were not called; `powerOffDialog = "orphaned"` is a dialog whose menu was deleted under it.
`LockScreen` abstracts positions to three places. Its pixmaps carry whose they are, so that a pixmap of the theme that is deleted, or not given
back, shows. `Volume` has messages in both directions and an arithmetic modulo `Quint32`, since the code subtracts unsigned numbers.

### 2.8 The status bar

`StatusIndicators` has one kind per indicator class, with the context properties it subscribes to (`Keys`), what each handler
makes of them, and what the view shows. A property that nobody in the process subscribes to keeps its last value. `Clock` counts seconds.
`StatusAreaRenderer` models the X server's side too: event masks, the window named by the root, events that are under way
when a window dies.

## 3. Runs

Bounds are named constants; each run says what it needs.

| run | instance | shows |
|---|---|---|
| `NM_live` | 3 notifications, timed relay, both classes, `FairSpec` | the queue does what `NotificationQueue` promises (`QueueImplemented`), nobody is forgotten or overtaken, waiting system notifications are relayed (`SystemNeverStarves`), application ones too unless system ones keep coming (`ApplicationStarvesOnlyBehindSystem`), system notifications are removed in the end |
| `NM_full` | 3 notifications, 1 group, queue of 1, 2 timestamps, posted removals, updates, a D-Bus sink | copies in the queue are up to date, the relay is scheduled, sinks agree with the container, group timestamps are the latest of their members, a D-Bus sink knows the groups |
| `NM_crash` | 2 notifications, 1 group, 1 user ID, an event type file that changes, crashes anywhere, torn notification file | types, event type classes applied, files equal memory between events, no orphans, no reissued user ID |
| `NM_drop` | queue of 1 | *violated*: what the full queue drops stays in the container |
| `NM_persistent_system` | an event type that changes | *violated*: a system notification becomes persistent |
| `MC_banners` | 2 notifications of all kinds, the key `true` or `false`, updates of known notifications, `FairSpec` | banners are not used after their deletion, each that waits gets its turn, identifiers are not stale, an announced system notification has a banner or is being removed, previews follow the settings, and it *is* removed in the end |
| `MC_leak` | 3 notifications, updates of any of them | *violated*: clearing the queue runs into itself and a system notification is left behind |
| `MC_previews` | the key not set | *violated*: previews stay disabled |
| `SK_listeners` | 2 or 3 notifications, up to 2 groups, 3 contents | the area, the icon, the feedback and the missed events agree with the notifications there are |
| `SY_system` | see below | the reminder of the battery, the USB dialog, the indicators, the clock, the status bar, the lock screen, the lists on the bus and the event types agree with what they depend on |
| `SY_live` | 3 waiting calls of MCE, 2 pending menus, 2 paths, fair | the listeners of the lock, MCE and the event queue agree with the lock screen; a close as the last word takes effect; no menu while locked and no empty window for ever; the shutdown ends in the dark with one logo; one disk warning; the volume bar goes away |
| `SL_shutdown` | 1 waiting call | *violated*: a waiting request shows the lock screen during the shutdown |

Several properties are conjunctions whose parts are separately named in their modules: `NobodyForgottenOrOvertaken`, `GroupsConsistent`,
`SinkConsistent`, `LockConsistent`, `UserKnowsBattery` (the reminder is on time, follows the battery, and nothing says "charging" that
does not), `DialogInPlace`, `NothingLeftBehind`, `AreaFollowsNotifications`, `BusTellsWhatThereIs`, `StoreFollowsFiles`.

*Subjects.* The parts in `MCSystem` and `MCLiveness` have no variable in common. A behaviour picks one of them, the *subject*, and
moves only that one; the others stay in one initial state. Since no action of a part reads what is another's, the product
would reach no other state of any part, and each part is explored as if it were alone. `UsbMoves` leaves out
the shutdown, which hides the lock as `UnlockScreen` does; `SY_live` has it.

*Why the bounds are enough.* Three notifications are the fewest with one in progress and two in the queue, whose order
can then be wrong; with a queue of one they are the fewest that overflow it. Two notifications in one group suffice for a
timestamp that is not the removed one's. One user ID counter step before a crash suffices to reissue it.
Two banners are one on the screen and one in the queue; the safety properties of `MC_banners` were also checked with three
notifications (5 million states). Three waiting calls are a lock request between two others. The listeners need an identifier that is
issued again beside one that stays: two notifications, for the icon three, since it is chosen among a notification and two groups.
Two battery signals on their way are the fewest that can be about two properties in either order; the intervals 1, 2, 3 are
distinct and keep the order of the real ones. Four seconds to a minute leave room for the two seconds of the heartbeat and a second that is
neither; 16 seconds are four minutes. Three windows of the window manager are one that died, one that runs and one that comes. A cache
of one event type out of two is the smallest that forgets. `Quint32 = 8` with up to 3 steps wraps as the real one does. The theorems of
section 4 lift 32 of the 40 properties to every bound.

*Fairness* (`FairSpec`): a call that has begun runs to its end (`WF` on `RunFrame`; it is straight-line code);
an expired timer and a posted call are served however many other events arrive (`SF`, since the event loop is a queue and
a restarted timer or a change of the notification in progress can disable the action for a moment); a banner's own
timer ends its time on the screen (`SF` on `BannerDone`, per identifier). Clients promise nothing. In
`MCompositorNotificationSink`, running timers expire and animations end (`SF`, since other events may come first), and a
window that is shown comes on the display if it is shown again and again; the window system is trusted with that.
`SY_live` needs weak fairness only, of its subject: posted calls are called (`ScreenLock`); timers of the menu fire, its animation
ends and the window manager tells of the display (`MenuFairness`); the two timers of the shutdown screen (`ShutdownFairness`); the
timer and the animation of the volume bar (`VolumeFairness`). Users, MCE, the system and PulseAudio promise nothing: `ShutdownGoesDark`
and `BarGoesAway` except those who ask for ever.

## 4. Proofs

The proofs assume only what the modules `ASSUME` of their constants and, where it is said, a hypothesis of the theorem. Each hypothesis
excludes something the code really gets wrong (section 5) or a quantity that the property does not speak of; none excludes
an operation altogether but the first two of `GroupsAlwaysConsistent` and `SinksAlwaysConsistent`.

### 4.1 The manager

`NotificationManagerProofs` proves `TypeCorrect == Spec => []TypeOK` and

* `WaitQueueAlwaysConsistent`: the queue respects its limit, contains no notification twice, and its copies equal the
  originals. `WaitQueueConsistent` is inductive once it is known that nothing is in memory while the daemon is down
  (`DownIsIdle`) and that a new identifier is free.
* `RelayAlwaysScheduled`: what waits has somebody to relay it. The strengthening `RelayInvariant` adds that in immediate mode
  nothing ever waits, and speaks of the pending "submitted" frames of nested emissions.
* `DiskAlwaysMatchesMemory`: the files equal the memory between events. The strengthening `DiskInvariant` says what may
  differ *during* a call: the notifications file only while a `prune` frame is pending, the state file only while a
  `groupGone` frame is pending; each frame either saves what it changed or leaves such a frame behind.
* `UserIdsUnique`: if the state file is never torn, no user ID is issued twice. `UserIdInvariant` carries the
  counter on the disk through crashes. The hypothesis is needed: `saveStateData()` truncates the file first, and a death
  before it is filled again lets the next start count from 0.
* `QueueAlwaysImplemented`: every step of the manager is a step of `NotificationQueue` or leaves the queue alone. It uses
  the type and the consistency of the queue, whose copies' identifiers differ, and one lemma each for an insertion
  (`InsertPositionProperties`), a relay, a removal and an update.

`NotificationSinksProofs` is about the emissions nested in each other: a sink may be told of a notification while another call about the
same one is half done further down the stack.

* `SinksAlwaysConsistent`: between events each sink's knowledge of an application notification equals the container's. The hypothesis
  `SinkRegistration # "any"` leaves the D-Bus sink to register when nothing waits, see section 5.
  `SinksInvariant` describes the stack together with the sinks: what a sink knows is the present value or a frame that tells it is
  still due (`ToldSoon`), a frame that is due carries the present value (`FreshNotes`), the compositor sink, which is told
  first, knows only what is there (`CompositorKnows`), and frames lie in the order in which the code can nest them (`StackOrder`).
* `NobodyEverForgotten`: what is in the container waits or was signalled, as long as the queue cannot overflow
  (`NoneForgotten` asks for `MaxNotificationId <= MaxWaitQueueSize`; the notification in progress does not count towards the
  queue, but it may have been removed from inside its own announcement while all others wait).
* `NobodyEverForgottenOrOvertaken`: if in addition classes are fixed (no client updates a class and no event type gives one),
  system notifications wait in front of all others. Otherwise the code changes the class of a copy where it stands.

The last part of `NotificationSinksProofs` is about removals nested in removals: `doRemoveGroup()` removes the members one by one, each removal is told, and
what is told may remove more.

* `SinkAlwaysKnowsGroups`: a registered D-Bus sink knows exactly the groups there are, across crashes too.
* `GroupsAlwaysConsistent`: moreover a group's timestamp is the latest of its members'. Members' groups exist unless the member is about to go
  (`MembersHaveGroups`), and a timestamp that is behind is about to be computed (`TimestampsFollow`). The
  hypothesis `~MayCrash` is needed: a death inside `doRemoveGroup()`, or before timestamps are saved, leaves
  group data on the disk that the next start believes.
* `DiskNeverOrphans`: no notification is left on the disk whose group is not, wherever the daemon dies and however much of the
  notifications file is lost. With one group and an untorn state file only, see section 5. `GravesBelow` says why one group suffices:
  below a frame that removes groups there are only such frames.

### 4.2 The screens

`ScreensProofs` proves of the lock, for every number of waiting calls, its types, `ListenersFollowLock`, `LowPowerModeAgrees`
(together `LockConsistent`, inductive with `WindowInv`), `MceAgrees` and `EventEaterGivesWay`. `MceAgrees` is silent while a request waits; its
strengthening `MceInv` adds that the last request that waits is MCE's last one (`LastRequestWaits`) and that the callback is
known as soon as a lock screen can come (`CallbackKnown`), for otherwise an unlock could go unreported. `PostEffect` and
`TailEffect` are the two lemmas about the queue. Of the USB dialog it proves `DialogAlwaysInPlace` and
`LastChoiceAlwaysCounts`: the last signal on its way is that of the mode there is (`SignalsEndInMode`), and a choice waits
for a timer or was made (`ChoiceWaitsOrIsMade`).

It proves `OneLogoEver` and `WarnedOnceEver`; the first needs that the timer of the logo runs only while there are labels to
replace, and that a screen that was not made has none; the second that a warning on the screen is noted for its path. It proves
`NoMenuEverWhileLocked` (`MenuInv` adds only types, but the property is inductive because
`DisplayActive` asks for a visible window) and `NothingEverLeftBehind`: a finger that is away ends every drag
(`DragInv`), and the kind of a pixmap is known as long as there is one (`BackgroundInv`).

### 4.3 What follows something outside

`SystemUiProofs` and `StatusAreaProofs` prove of six parts that they agree in the end with what they are told of late. Each invariant
says what is still on its way while they do not.

* `ClockAlwaysRight`, for a minute of any length above the two seconds in which the heartbeat may come: what is shown is the time the
  model was last given, and a clock on display waits from then until the minute has turned, not longer. (The division by the seconds of a minute
  is kept in two lemmas, `MinuteType` and `MinuteUnique`.)
* `StoreAlwaysFollowsFiles`: what the cache answers comes from the files, or a signal of the watcher about that file or the
  directory is under way (`AnswerFollows`), and what is there is watched unless the directory has still to be looked at (`AllWatched`). The list of
  what was used last names each type once, so that dropping its last keeps the cache within its limit (`IsStore`).
* `WindowManagerAlwaysFollowed`: when every event of the X server has been handled, the renderer has found the window manager that has checked
  in and believes of the status bar what it says. Until then `Tracked` names the event that is still to come: the property's, if what is believed of
  the present window manager is old; the end of the window, if it is another's, whose events are then selected; the root's property, if there is none
  yet.
* `UserAlwaysKnowsBattery`: the reminder is on time, and once all signals are delivered the reminder, the light and the notification tell of the
  battery and the charger there are (as long as no charger of 100 mA was attached, which the code treats as a charger here and as none there). The handlers use a signal's argument and the present values of the hardware together;
  `BatteryInv` says that a stale signal is superseded by a later one (`Superseded`), that an unplug is signalled after a charging that
  is on its way (`UnpluggedSignalled`), that "no charger" is told only after a charger was (`NoneAfterCharger`), and that reminder and
  indication catch up (`ReminderCatchesUp`, `IndicationCatchesUp`).

* `BusAlwaysTellsWhatThereIs`: what was last said of each text of a notification or group is what its parameters have
  (`SaidAsStored`), and what a registered sink holds is what is stored, as the bus leaves it (`Follow`). Each layout is written and read
  field by field in its own order, so that what arrives is what was written, for the fields it has (`ReadAsWritten`, `LayoutsKnown`).
  `Follow` also has the sinks that are not registered know nothing, which is what the state sent on registration starts from.
* `IndicatorsAlwaysTellTheContext`: `StyleOf`, `Moves` and `TellsValue` say what each kind of indicator makes of the context, as functions of the
  context alone; `Refreshed` proves that looking at everything leads there from any sound indicator, and `ContentsKept` that looking at
  the one item that changed does as well. The second is what could be wrong: a handler computes only a part of what is shown, and
  needs that the rest is still right. Off the display only `Sound` is kept, and `Entered` restores the rest. The signal strength and
  the network type, which is told of the network's availability, are in one group and entered in either order (`IndicatorChanged`).
* `LimitedServiceAlwaysStays` comes from the same invariant: it is kept in every state, on display or not.

### 4.4 The listeners

`NotificationListenersProofs` is about the four that listen to the signals of the manager, for any number of notifications.

* `FeedbackAlwaysEnds`: what plays is exactly what the sink knows to play, each event for one notification (`Sounding`), and each of these is there
  and was signalled (`FeedbackInv`); the latter makes the removal of what plays audible to the sink. That NGF always has a number left for one more event
  is a matter of cardinalities (`EventIdLeft`), that an identifier handed out is free one of least elements (`LeastExists`).
* `MissedEventsAlwaysShown`: the row of the lock screen has the items of the labelled types, each once, and the most recent event at most
  (`Agrees`), however the two of a type are taken out and put in again as the device turns (`PairTakenOut`, `PairInserted`); the labels
  tell what was counted, and when the sink is switched the events are forgotten together with the labels (`TellsEvents`).
* `IconAlwaysFollows`: the sink's maps are those of the application notifications that were signalled (`Apps`) and of the groups
  (`Follows`, of three parts: who is in which group, the data that is kept, the data that is shown). Two things make it inductive. A group that
  is gone stays in the maps, but nobody is in it and its data is not shown, so that it may lack contents until its identifier is issued again
  and the data overwritten (`GroupGoneFollows`, `GroupContentFollows`). And the removal of a group is heard as one removal after the other,
  between which the sink follows neither the former nor the next state: it follows what has not been told to be removed yet
  (`RemovalsFollow`, from the first signal after which it would not). `MostImportantChosen` then says what the loop over the list
  finds. Priorities are any integers; what has a negative one has no icon, since the loop starts from -1.
* `AreaAlwaysFollows`: the area's maps are written with six parts (`AreaOf`): the content of the notifications that have a banner of their
  own, the contents of the groups, the groups that have a banner, those whose banner is laid out, the counts, and who was counted where.
  `AreaFits` relates them to what the area has to know. It needs less than equality, and could not have it: the area is never told of the
  removal of what waits, but was told of it when it was made, so that it keeps identifiers, banners and counts of notifications that are gone, and an
  identifier that is issued again may be known in a group and alone. What does hold: who is counted is counted in a group
  whose banner is laid out, and a count is never *less* than those it counts (`CountsEach`); updates count, too, so it may be more. The banner of a
  group is hence deleted only when nobody is left in it, and nobody is counted in a group without a banner, which
  `decreaseNotificationCountOfGroup()` would look for. Whatever fits also fits if the area has to know of fewer notifications (`AreaKeepsFewer`): this is what
  covers the removals it does not hear, and its creation, which tells it of all there is (`AreaKnowsWhatThereIs`). A group is removed after each of its
  notifications that was heard of (`AreaRemovalsFit`), a click and the clear button remove as the manager does (`AreaKeptByRemovals`).

### 4.5 The banners

`BannersProofs` is about a sink that is called again by what it asks for, for any number of notifications of any kind. Its
invariant `BannersInv` says what the stack of frames can be and, for each of its twelve shapes (`AtBase` to `AtRemoveThenEnd`),
how far the queue, the map of identifiers, the heap, the current banner and the window agree there.

* What holds in every state (`Known`): whoever has a banner was announced and is there, its banner is of its kind and its own,
  waits in the queue or is the current one, and the queue has each banner once.
* Between two events, and where a call is about to return (`Rests`): the queue has only banners that are owned, the heap has
  nothing but these and the current banner, the screen is served, and no announced system notification is without a
  banner, save the one whose call it is. `ScreenFits` has two cases, since a notification can be added while
  the end of the current banner is being dealt with: then there is a current banner that has disappeared and belongs to nobody.
* While the queue is emptied (`Clearing`): the loop's copy of the queue has, each once, exactly the banners that are still owned. A banner that is
  deleted stays in the queue until the loop is over, so that the heap has less than the queue; it is the copy that must agree.

The hypothesis `Updates # "any"` is needed for the last point. A notification that is announced for the first time is not in progress yet, and nor
is any other (`Adding`): the removals that the loop requests then relay nobody, and no addition is nested in it. The update of a notification
whose banner was refused before adds one at any time: a removal of the notification in progress, requested inside the loop, relays the next one, whose
addition empties the queue inside its own emptying, and the outer loop's copy has banners that are gone (`MC_leak`, section 5). With three identifiers TLC
finds a banner that is deleted twice in 22 steps.
`PreviewKeys \subseteq {"true", "false"}` is needed by one conjunct of `SinkConsistent` only, the preview settings (`MC_previews`). `SinkAlwaysConsistent`,
`BannersAlwaysServed` and `SystemNeverLeaked` follow from the shape `AtBase`. What `AnnouncedSystemRemoved` says beyond the last, that
the removal comes in the end, is liveness.

### 4.6 How they are laid out, and what is not proved

The case split over the manager's `Next` is shared (`RunningStep`, `UnseenStep`, `Start`, `Crash`, in the later modules `NextCases` and
`StepLeaves`). Every inductive invariant was checked by TLC on the instances of section 3 before it was proved; the battery's with four
chargers and three signals on their way (12 million states), the icon's also with a content of
negative priority, the area's with three identifiers in two groups down to a depth of 10.
Checked by TLC only is liveness.

## 5. Divergences met while modelling

Five are kept as runs (`NM_drop`, `NM_persistent_system`, `MC_leak`, `MC_previews`, `SL_shutdown`, see `findings`). Others, reproduced with TLC or read in the code while modelling it, are recorded here:

* `notifications.dox:25` calls the wait queue first-in-first-out; `insertPosition()` lets system notifications overtake.
* The compositor sink can have a notification removed while it is being announced; the feedback sink and the status
  indicator, connected later, then hear `notificationUpdated` for a removed system notification
  (`notificationmanager.cpp:581`). `SinksConsistent` therefore speaks of application notifications.
* A D-Bus sink that registers while a notification waits is sent it, and is never told when it is removed from the
  queue (`notificationmanager.cpp:344-347`, `dbusinterfacenotificationsink.cpp:99-104`). `SinkRegistration = "quiet"`
  excludes this in the runs that check the sinks' view.
* `isSubsequentStart()` creates the boot file before the pruned container is saved (`notificationmanager.cpp:217` and `:91`):
  a death in between restores, at the next start, what the reboot should have discarded.
* With two groups, a nested removal inside `doRemoveGroup()` may save the state without the removed group while its
  notifications are still on the disk; a death then leaves orphans. `DiskNoOrphans` is checked with one group.
* Removals are posted and answered `true`; when delivered, the identifier may already have been given to another notification.
* A system notification without any text is ignored by the compositor sink (`mcompositornotificationsink.cpp:89`) before the
  code that removes system notifications is reached, and stays in the container until its client removes it.
* When the lock screen is hidden in low power mode, the contents become normal before the window leaves low power mode
  (`screenlockbusinesslogic.cpp:226-231`); the comment at `:152` asks for the opposite order.
* A lock request that MCE posts just before the USB dialog appears is carried out after the dialog has unlocked the screen
  (`sysuid.cpp:156`) and covers it.
* The LED pattern `PatternBatteryFull` is switched on and never off (`batterybusinesslogic.cpp`); `ChargingIndicationHonest` speaks of the
  charging pattern only.
* The drag icon flips back to the inactive one when it is updated while it is the active one: only the first branch of
  `updateDragAndDropIcon()` asks for the state (`lockscreenwithpadlockview.cpp:226-232`).
* Changes of the scene that accumulated while the status bar was hidden are rendered when it becomes visible
  (`statusarearenderer.cpp:368-371`), but not if it becomes so because the window manager died: the flag is then set before
  the old value is read, and they wait for the next change of the scene or of the display.
* Before PulseAudio has told its steps, or with a single step, the number of steps less one is 0 or wraps
  (`volumebarlogic.cpp:356`, `volumebarwindow.cpp:55-60`), and a touch above or below the bar gives a percentage beyond its range
  (`volumebar.cpp:100`).
* A notification area that is created while a notification waits shows a banner for it, and is not told when it is removed
  before it was relayed (`notificationareasink.cpp:46-58`, `:240`): the banner stays. `AreaMissesNothing` is therefore
  stated in one direction, and `BannersBelong` speaks of the sink's own maps.
* Unregistering a D-Bus sink removes its proxy but not the connections to its signals
  (`dbusinterfacenotificationsink.cpp:35-47`): its requests for removals are still carried out.
* A change of the language deletes the menu under an open power off dialog, which runs an event loop inside one of the menu's slots
  (`powerOffDialog = "orphaned"`).

## 6. Plan

Done: the manager with its abstract queue, the banners, the lock with the USB dialog and the lock screen, the battery, the
listeners, the bus, the event types, the shutdown, the menu, the volume bar, the status bar.

Left, in this order:

1. Clients told apart by their user IDs, so that a removal that is delivered late can be held against whose notification it removes
   (the hazard at `notificationmanager.cpp:330`).
2. The boot file in the fault model of `NM_crash` (`notificationmanager.cpp:217`).
3. Posted removals in `NotificationSignals`: now a listener's request is one of the operations that anybody may call.
4. The reset of the lock screen on unblank, and banners of the USB mode with their removal.

## 7. Not modelled

Creating the objects and loading the translations (`main.cpp`, the constructor of `Sysuid` beyond its connections): runs once, before any
event. The wrappers of X11 and D-Bus that forward a call; what the X server and the window manager do is in `StatusAreaRenderer` and
`StatusIndicatorMenu`. The private mode applet, another process that toggles one configuration key. Views, styles, layouts, painting and
sounds that keep no state of their own. Texts, except where a value decides what is shown (indicators) or what was said (bus).
Generated D-Bus proxies. `PROJECT.json` gives for each component what is left out of it.
