----------------------------- MODULE LockScreen -----------------------------
(***************************************************************************)
(* The lock screen (extensions/screenlock): the padlock icon that is       *)
(* dragged to the unlock area (lockscreenwithpadlockview.cpp,              *)
(* unlockarea.cpp), the controller that tells of the unlocking             *)
(* (lockscreen.cpp, screenlockextension.cpp), the background pixmaps of    *)
(* the two orientations (lockscreenview.cpp), the date (date.cpp) and the  *)
(* area reserved for the missed events.  A position is where it is: on the *)
(* padlock, in the unlock area, or elsewhere.                              *)
(***************************************************************************)
EXTENDS Integers, FiniteSets

CONSTANTS
    MaxDays,            \* bound on the days that pass
    MaxUnlocks          \* bound on the unlocked signals counted

ASSUME LockScreenAssumption == MaxDays \in Nat /\ MaxUnlocks \in Nat

VARIABLES
    finger,         \* where the finger is; "away" if it does not touch
    drag,           \* the drag and drop of the padlock view
    area,           \* the unlock area
    background,     \* the pixmaps, the theme's own book of them, the style
    calendar,       \* the day, whether it has just begun; what the date says
    unlocks         \* the number of unlocked signals

lockScreenVars == <<finger, drag, area, background, calendar, unlocks>>

Places == {"padlock", "area", "elsewhere"}
Orientations == {"landscape", "portrait"}

-----------------------------------------------------------------------------
(* The unlock area.                                                        *)
SetActive(a, active) == IF a.enabled THEN [a EXCEPT !.active = active] ELSE a
SetEnabled(a, enabled) ==
    IF a.enabled = enabled THEN a ELSE [enabled |-> enabled, active |-> FALSE]
AreaObjectName(a) ==
    IF ~a.enabled THEN "LockLandArea"
    ELSE IF a.active THEN "LockLandAreaActive" ELSE "LockLandAreaDragged"

(* The icon flips back when it is updated while it is the active one: only *)
(* the first branch looks at the state.                                    *)
UpdateDragAndDropIcon(d) ==
    [d EXCEPT
        !.icon = IF d.state = "STATE_MOVING_ACTIVE" /\ d.icon # "LockScreenDnDIconActive"
                 THEN "LockScreenDnDIconActive" ELSE "LockScreenDnDIcon",
        !.overlay = (d.state # "STATE_NONE")]

Redraw(d) == [d EXCEPT !.drawPending = TRUE]

ResetView ==
    /\ drag' = UpdateDragAndDropIcon([drag EXCEPT !.state = "STATE_NONE", !.padlock = TRUE])
    /\ area' = SetEnabled(area, FALSE)

(* LockScreen::unlock: only a lock screen on display unlocks.              *)
LockScreenUnlocks ==
    unlocks' = IF drag.onDisplay /\ unlocks < MaxUnlocks THEN unlocks + 1 ELSE unlocks

(* Nothing but the padlock starts a drag.                                  *)
MousePress(place) ==
    /\ finger = "away"
    /\ drag.onDisplay
    /\ finger' = place
    /\ IF place = "padlock"
       THEN /\ drag' = Redraw([drag EXCEPT !.state = "STATE_MOVING", !.padlock = FALSE])
            /\ area' = SetEnabled(area, TRUE)
       ELSE /\ drag' = [drag EXCEPT !.state = "STATE_NONE"]
            /\ UNCHANGED area
    /\ UNCHANGED <<background, calendar, unlocks>>

MouseMove(place) ==
    /\ finger # "away"
    /\ place # finger
    /\ finger' = place
    /\ LET new == IF place = "area" THEN "STATE_MOVING_ACTIVE" ELSE "STATE_MOVING"
       IN  IF drag.state = "STATE_NONE" \/ drag.state = new
           THEN UNCHANGED <<drag, area>>
           ELSE /\ drag' = UpdateDragAndDropIcon([drag EXCEPT !.state = new])
                /\ area' = SetActive(area, new = "STATE_MOVING_ACTIVE")
    /\ UNCHANGED <<background, calendar, unlocks>>

(* Bug: what the timer draws does not look at the state.                   *)
RedrawIdleShows ==
    /\ drag.drawPending
    /\ drag' = [UpdateDragAndDropIcon(drag) EXCEPT !.drawPending = FALSE, !.overlay = TRUE]
    /\ UNCHANGED <<finger, area, background, calendar, unlocks>>

(* The timer is not stopped by what ends a drag.                           *)
RedrawIdle ==
    /\ drag.drawPending
    /\ drag' = UpdateDragAndDropIcon([drag EXCEPT !.drawPending = FALSE])
    /\ UNCHANGED <<finger, area, background, calendar, unlocks>>

MouseRelease ==
    /\ finger # "away"
    /\ finger' = "away"
    /\ IF drag.state = "STATE_NONE"
       THEN UNCHANGED <<drag, area, unlocks>>
       ELSE /\ ResetView
            /\ IF drag.state = "STATE_MOVING_ACTIVE"
               THEN LockScreenUnlocks ELSE UNCHANGED unlocks
    /\ UNCHANGED <<background, calendar>>

(* ScreenLockExtension::reset, when the lock screen is shown or hidden: the*)
(* finger may be on the screen.                                            *)
Reset ==
    /\ ResetView
    /\ UNCHANGED <<finger, background, calendar, unlocks>>

(* The window is shown, or hidden, or the display goes off: what is        *)
(* pressed stays pressed.                                                  *)
LockScreenDisplayChanges ==
    /\ drag' = [drag EXCEPT !.onDisplay = ~@]
    /\ UNCHANGED <<finger, area, background, calendar, unlocks>>

(* The application is minimised.                                           *)
Minimized ==
    /\ LockScreenUnlocks
    /\ UNCHANGED <<finger, drag, area, background, calendar>>

(* needToShow of the missed events widget.                                 *)
ShowHideNotifications(show) ==
    /\ drag' = [drag EXCEPT !.notificationArea = show]
    /\ UNCHANGED <<finger, area, background, calendar, unlocks>>

-----------------------------------------------------------------------------
(* The background.  A pixmap of the theme is borrowed and has to be given  *)
(* back; one loaded from a file is deleted.                                *)
Pictures == {"none", "file", "broken file", "theme"}

(* LockScreenBackgroundPixmap::updatePixmap: the old pixmap is disposed of *)
(* as what it is; without a picture the kind stays what it was.            *)
UpdatePixmap(b, o, picture) ==
    LET release == b.pixmap[o] # "none" /\ b.fromTheme[o]
        delete == b.pixmap[o] # "none" /\ ~b.fromTheme[o]
    IN  [b EXCEPT !.pixmap[o] = picture,
                  !.fromTheme[o] = IF picture = "none" THEN @ ELSE picture = "theme",
                  !.borrowed[o] = (@ /\ ~release) \/ picture = "theme",
                  !.deleted = @ \/ (delete /\ b.pixmap[o] = "theme")]

Valid(b, o) == b.pixmap[o] \in {"file", "theme"}
UpdateStyleName(b) == [b EXCEPT !.custom = \A o \in Orientations : Valid(b, o)]

(* What is drawn behind the lock screen.                                   *)
DrawnBackground(b, o) == IF Valid(b, o) THEN b.pixmap[o] ELSE "default"

PictureIsChosen(o, picture) ==
    /\ background' = UpdateStyleName(UpdatePixmap(background, o, picture))
    /\ UNCHANGED <<finger, drag, area, calendar, unlocks>>

-----------------------------------------------------------------------------
(* The date.  The timer is armed to a second after midnight.               *)
UpdateDate(c) == [c EXCEPT !.shown = c.today, !.timer = c.today + 1]

DateTimer ==
    /\ calendar.timer = calendar.today
    /\ calendar' = UpdateDate(calendar)
    /\ UNCHANGED <<finger, drag, area, background, unlocks>>

Midnight ==
    /\ calendar.today < MaxDays
    /\ calendar.timer > calendar.today
    /\ calendar' = [calendar EXCEPT !.today = @ + 1]
    /\ UNCHANGED <<finger, drag, area, background, unlocks>>

(* updateSettings, and the locale, which reformats the date.               *)
DateIsSet(day) ==
    /\ calendar' = UpdateDate([calendar EXCEPT !.today = day])
    /\ UNCHANGED <<finger, drag, area, background, unlocks>>

-----------------------------------------------------------------------------
LockScreenInit ==
    /\ finger = "away"
    /\ drag = [state |-> "STATE_NONE", icon |-> "LockScreenDnDIcon", overlay |-> FALSE,
               drawPending |-> FALSE, padlock |-> TRUE, onDisplay |-> FALSE,
               notificationArea |-> FALSE]
    /\ area = [enabled |-> FALSE, active |-> FALSE]
    /\ \E picture \in [Orientations -> Pictures] :
        background = UpdateStyleName(
            [pixmap |-> picture, fromTheme |-> [o \in Orientations |-> picture[o] = "theme"],
             borrowed |-> [o \in Orientations |-> picture[o] = "theme"],
             deleted |-> FALSE, custom |-> FALSE])
    /\ calendar = [today |-> 0, shown |-> 0, timer |-> 1]
    /\ unlocks = 0

LockScreenNext ==
    \/ \E place \in Places : MousePress(place) \/ MouseMove(place)
    \/ MouseRelease
    \/ RedrawIdle
    \/ Reset
    \/ LockScreenDisplayChanges
    \/ Minimized
    \/ \E show \in BOOLEAN : ShowHideNotifications(show)
    \/ \E o \in Orientations, picture \in Pictures : PictureIsChosen(o, picture)
    \/ DateTimer
    \/ Midnight
    \/ \E day \in 0..MaxDays : DateIsSet(day)

LockScreenSpec == LockScreenInit /\ [][LockScreenNext]_lockScreenVars

-----------------------------------------------------------------------------
(* When no drag is going on nothing of one is left on the screen: not the  *)
(* icon, though its timer outlives the drag, and not the unlock area,      *)
(* whatever resets the view under the finger                               *)
(* (lockscreenwithpadlockview.cpp:126-134, 182-240).                       *)
DragLeavesNothing ==
    drag.state = "STATE_NONE" =>
        ~drag.overlay /\ drag.padlock /\ AreaObjectName(area) = "LockLandArea"

(* Pixmaps borrowed from the theme are given back and never deleted, and   *)
(* the style tells whether there is a picture for both orientations        *)
(* (lockscreenview.cpp:40-70, 118-128).                                    *)
ThemeGetsItsPixmapsBack ==
    /\ ~background.deleted
    /\ \A o \in Orientations : background.borrowed[o] = (background.pixmap[o] = "theme")
    /\ background.custom = \A o \in Orientations : DrawnBackground(background, o) # "default"

\* Neither a drag nor a change of the background leaves anything behind: no icon,
\* no active unlock area, no pixmap that the theme misses.
NothingLeftBehind == DragLeavesNothing /\ ThemeGetsItsPixmapsBack

=============================================================================
