----------------------- MODULE StatusIndicatorMenu -----------------------
(***************************************************************************)
(* The status indicator menu: its window (statusindicatormenuwindow.cpp),  *)
(* the menu itself (statusindicatormenu.cpp), the view of it               *)
(* (statusindicatormenudropdownview.cpp), and what Sysuid makes of its     *)
(* visibility (sysuid.cpp).                                                *)
(*                                                                         *)
(* The window manager and the scene manager are modelled from the calls    *)
(* and the signals: a window enters and leaves the display some time after *)
(* it was shown and hidden, and a menu disappears with an animation unless *)
(* it is told to disappear now.                                            *)
(***************************************************************************)
EXTENDS Integers

CONSTANT MaxResets      \* bound on the menus that wait for their first showing

ASSUME MenuAssumption == MaxResets \in Nat \ {0}

VARIABLES
    menuWindow,         \* the window, and what the window manager does to it
    menu,               \* the menu widget and its view
    powerOffDialog,     \* "none", "open", or "orphaned" when its menu was deleted
    locks,              \* the device lock and the screen lock
    previewsDisabled    \* what the compositor sink was told last

menuVars == <<menuWindow, menu, powerOffDialog, locks, previewsDisabled>>

NewMenu == [state |-> "disappeared", viewable |-> FALSE, scrolled |-> FALSE, tall |-> FALSE, overlay |-> FALSE]

UpdateCompositorNotificationSink(w, l) == w.visible \/ l.screen \/ l.device

(* The window hides, and tells Sysuid. *)
HideMenuWindow(l) ==
    /\ menuWindow' = [menuWindow EXCEPT !.visible = FALSE]
    /\ previewsDisabled' = UpdateCompositorNotificationSink(menuWindow', l)

(* The view makes its extensions ready when the menu enters the display. *)
Appears(m) ==
    IF m.state = "disappeared" THEN {[m EXCEPT !.state = "appeared", !.viewable = TRUE]}
    ELSE IF m.state = "disappearing" THEN {m, [m EXCEPT !.state = "appeared"]}
    ELSE {m}

-----------------------------------------------------------------------------
(* Opening and closing.                                                    *)

(* Bug: the window trusts that it will enter the display. *)
MakeVisibleTrustsTheDisplay ==
    /\ ~locks.device
    /\ menuWindow' = [menuWindow EXCEPT !.visible = TRUE, !.obscured = FALSE]
    /\ UNCHANGED <<menu, powerOffDialog, locks, previewsDisabled>>

(* showStatusIndicatorMenu, over D-Bus or by an extension.  If the window  *)
(* has not left the display yet it will not enter it, and the menu has to  *)
(* appear here.                                                            *)
MakeVisible ==
    /\ ~locks.device
    /\ menuWindow' = [menuWindow EXCEPT !.visible = TRUE, !.obscured = FALSE]
    /\ IF menu.state = "disappeared" /\ menuWindow.onDisplay
       THEN menu' \in Appears(menu)
       ELSE UNCHANGED menu
    /\ UNCHANGED <<powerOffDialog, locks, previewsDisabled>>

(* The close buttons, a press outside the contents, a click on a banner or *)
(* on the settings, and a press on the status bar, which leaves the        *)
(* viewport where it is.                                                   *)
HideRequested ==
    /\ menuWindow.visible /\ menuWindow.onDisplay
    /\ menu.state = "appeared"
    /\ \E reset \in BOOLEAN :
            menu' = [menu EXCEPT !.state = "disappearing", !.scrolled = @ /\ ~reset]
    /\ UNCHANGED <<menuWindow, powerOffDialog, locks, previewsDisabled>>

MenuDisappeared ==
    /\ menu.state = "disappearing"
    /\ menu' = [menu EXCEPT !.state = "disappeared"]
    /\ HideMenuWindow(locks)
    /\ UNCHANGED <<powerOffDialog, locks>>

DisplayActive ==
    /\ menuWindow.visible /\ ~menuWindow.obscured /\ ~menuWindow.onDisplay
    /\ menuWindow' = [menuWindow EXCEPT !.onDisplay = TRUE]
    /\ previewsDisabled' = UpdateCompositorNotificationSink(menuWindow', locks)
    /\ menu' \in Appears(menu)
    /\ UNCHANGED <<powerOffDialog, locks>>

DisplayInActive ==
    /\ menuWindow.onDisplay
    /\ ~menuWindow.visible \/ menuWindow.obscured
    /\ menuWindow' = [menuWindow EXCEPT !.onDisplay = FALSE, !.visible = FALSE]
    /\ previewsDisabled' = UpdateCompositorNotificationSink(menuWindow', locks)
    /\ menu' = [menu EXCEPT !.state = "disappeared"]
    /\ UNCHANGED <<powerOffDialog, locks>>

Obscured ==
    /\ menuWindow.visible /\ ~menuWindow.obscured
    /\ menuWindow' = [menuWindow EXCEPT !.obscured = TRUE]
    /\ UNCHANGED <<menu, powerOffDialog, locks, previewsDisabled>>

-----------------------------------------------------------------------------
(* The first showing, and a new menu for a new language.                   *)

(* The menu appears and disappears at once, and the window hides, whatever *)
(* the user has done with them in the meantime.                            *)
InitializeMenuWidget ==
    /\ menuWindow.timers > 0
    /\ menuWindow' = [menuWindow EXCEPT !.timers = @ - 1, !.visible = FALSE]
    /\ menu' = [menu EXCEPT !.state = "disappeared"]
    /\ previewsDisabled' = UpdateCompositorNotificationSink(menuWindow', locks)
    /\ UNCHANGED <<powerOffDialog, locks>>

LanguageChanges ==
    /\ menuWindow.timers < MaxResets
    /\ menuWindow' = [menuWindow EXCEPT !.timers = @ + 1]
    /\ menu' = NewMenu
    /\ powerOffDialog' = IF powerOffDialog = "open" THEN "orphaned" ELSE powerOffDialog
    /\ UNCHANGED <<locks, previewsDisabled>>

ViewTimeout ==
    /\ ~menu.viewable
    /\ menu' = [menu EXCEPT !.viewable = TRUE]
    /\ UNCHANGED <<menuWindow, powerOffDialog, locks, previewsDisabled>>

(* The extensions grow and shrink: an overlay brings the close button when *)
(* its row is beyond the screen, if the menu is in a scene at all.         *)
SetPannabilityAndLayout ==
    /\ menu.viewable
    /\ \E tall \in BOOLEAN :
            menu' = [menu EXCEPT !.tall = tall, !.scrolled = @ /\ tall,
                                 !.overlay = IF menu.state = "disappeared" THEN @ ELSE tall]
    /\ UNCHANGED <<menuWindow, powerOffDialog, locks, previewsDisabled>>

Pans ==
    /\ menu.state = "appeared" /\ menu.tall
    /\ menu' = [menu EXCEPT !.scrolled = TRUE]
    /\ UNCHANGED <<menuWindow, powerOffDialog, locks, previewsDisabled>>

(* The dialog runs an event loop of its own inside a slot of the menu. *)
LaunchPowerOffDialog ==
    /\ menuWindow.visible /\ menuWindow.onDisplay
    /\ menu.state = "appeared"
    /\ powerOffDialog = "none"
    /\ powerOffDialog' = "open"
    /\ UNCHANGED <<menuWindow, menu, locks, previewsDisabled>>

PowerOffDialogAnswered ==
    /\ powerOffDialog # "none"
    /\ powerOffDialog' = "none"
    /\ UNCHANGED <<menuWindow, menu, locks, previewsDisabled>>

-----------------------------------------------------------------------------
(* The locks.                                                              *)

(* Bug: the lock only keeps the menu from being opened. *)
DeviceLockChangesKeepsWindow ==
    /\ locks' = [locks EXCEPT !.device = ~@]
    /\ previewsDisabled' = UpdateCompositorNotificationSink(menuWindow, locks')
    /\ UNCHANGED <<menuWindow, menu, powerOffDialog>>

DeviceLockChanges ==
    /\ locks' = [locks EXCEPT !.device = ~@]
    /\ IF locks'.device /\ menuWindow.visible THEN HideMenuWindow(locks')
       ELSE /\ previewsDisabled' = UpdateCompositorNotificationSink(menuWindow, locks')
            /\ UNCHANGED menuWindow
    /\ UNCHANGED <<menu, powerOffDialog>>

(* The touch screen lock, as MCE and as the screen lock tell of it. *)
TouchScreenLocks ==
    /\ menuWindow.visible
    /\ HideMenuWindow(locks)
    /\ UNCHANGED <<menu, powerOffDialog, locks>>

ScreenIsLocked ==
    /\ locks' = [locks EXCEPT !.screen = ~@]
    /\ previewsDisabled' = UpdateCompositorNotificationSink(menuWindow, locks')
    /\ UNCHANGED <<menuWindow, menu, powerOffDialog>>

-----------------------------------------------------------------------------
MenuInit ==
    /\ menuWindow = [visible |-> FALSE, onDisplay |-> FALSE, obscured |-> FALSE, timers |-> 1]
    /\ menu = NewMenu
    /\ powerOffDialog = "none"
    /\ locks \in [device : BOOLEAN, screen : {FALSE}]
    /\ previewsDisabled = locks.device

MenuNext ==
    \/ MakeVisible
    \/ HideRequested
    \/ MenuDisappeared
    \/ DisplayActive
    \/ DisplayInActive
    \/ Obscured
    \/ InitializeMenuWidget
    \/ LanguageChanges
    \/ ViewTimeout
    \/ SetPannabilityAndLayout
    \/ Pans
    \/ LaunchPowerOffDialog
    \/ PowerOffDialogAnswered
    \/ DeviceLockChanges
    \/ TouchScreenLocks
    \/ ScreenIsLocked

(* The timers fire, the animations end, and the window manager tells of    *)
(* the display.                                                            *)
MenuFairness ==
    /\ WF_menuVars(InitializeMenuWidget)
    /\ WF_menuVars(MenuDisappeared)
    /\ WF_menuVars(DisplayActive)
    /\ WF_menuVars(DisplayInActive)

MenuSpec == MenuInit /\ [][MenuNext]_menuVars /\ MenuFairness

-----------------------------------------------------------------------------
MenuOpen == menuWindow.visible /\ menuWindow.onDisplay

(* An empty window does not stay over the display: whenever the window is  *)
(* on display without its menu, because the language changed or because it *)
(* was opened again before the display was told that it closed, the menu   *)
(* appears or the window hides (makeVisible and initializeMenuWidget,      *)
(* statusindicatormenuwindow.cpp:83-136).                                  *)
EmptyWindowPasses ==
    (MenuOpen /\ menu.state = "disappeared") ~> (~MenuOpen \/ menu.state = "appeared")

(* The device lock keeps the menu away: the window is not visible while    *)
(* the device is locked, whether it was opened before or after, and the    *)
(* previews of the compositor are off then as well                         *)
(* (statusindicatormenuwindow.cpp:115-159, sysuid.cpp:216-223).            *)
NoMenuWhileLocked == locks.device => ~menuWindow.visible /\ previewsDisabled

=============================================================================
