---------------------------- MODULE ScreenLock ----------------------------
(***************************************************************************)
(* The touch screen lock                                                   *)
(* (systemui/screenlock/screenlockbusinesslogic.cpp) and those who are told*)
(* whether the screen is locked (systemui/sysuid.cpp).                     *)
(*                                                                         *)
(* MCE, the mode control entity of the device, asks for the lock screen,   *)
(* its low power and display off modes and the event eater over D-Bus.     *)
(* Each call is answered at once and carried out later, from the event     *)
(* queue.  The user, and the USB dialog, unlock at once, and so does the   *)
(* shutdown.  A slot runs to its end before anything else happens.         *)
(***************************************************************************)
EXTENDS Naturals, Sequences

CONSTANT MaxPosted  \* bound on the calls of MCE that were not carried out yet

ASSUME MaxPostedAssumption == MaxPosted \in Nat

VARIABLES
    posted,         \* slots to be called from the event queue, in this order
    screenLockWindow,   \* "none" (not created), "hidden", "visible"
    lowPowerMode,   \* of the window
    extensionMode,  \* what the lock screen extension shows
    eventEater,     \* its window, which grabs all input, is on the screen
    callback,       \* MCE has said whom to tell of an unlock
    shuttingDown,
    touchScreenLockActive,  \* by listener
    sinkDisabled,   \* previews of application notifications
    menuVisible,    \* the status indicator menu is
    deviceLocked,
    lastRequest,    \* history: MCE's last request about the lock screen
    unlockReported  \* history: MCE was told of an unlock since it was carried out

windowVars == <<screenLockWindow, lowPowerMode, extensionMode>>
listenerVars == <<touchScreenLockActive, sinkDisabled>>
inputVars == <<menuVisible, deviceLocked>>
historyVars == <<lastRequest, unlockReported>>
vars == <<posted, windowVars, eventEater, callback, shuttingDown, listenerVars, inputVars,
          historyVars>>

Listener == {"compositorNotificationSink", "batteryBusinessLogic"}
ShowSlot == {"showScreenLock", "showLowPowerMode", "setDisplayOffMode"}
LockSlot == ShowSlot \cup {"hideScreenLockAndEventEater"}
Slot == LockSlot \cup {"showEventEater"}
NoRequest == "none"

ModeOf(slot) ==
    CASE slot = "showLowPowerMode" -> "lowPower"
      [] slot = "setDisplayOffMode" -> "displayOff"
      [] OTHER -> "normal"

-----------------------------------------------------------------------------
(* What the slots are made of.                                             *)

Visible == screenLockWindow = "visible"

(* updateCompositorNotificationSinkEnabledStatus.                          *)
UpdateSinkEnabledStatus ==
    sinkDisabled' = (menuVisible' \/ screenLockWindow' = "visible" \/ deviceLocked')

(* Broken variants, each with a plausible bug, stand before what they vary. *)
TellTooEarly(locked) ==
    /\ sinkDisabled' = (menuVisible \/ Visible \/ deviceLocked)
    /\ touchScreenLockActive' = [l \in Listener |-> locked]

(* screenIsLocked, at the end of toggleScreenLockUI.                       *)
Tell(locked) ==
    /\ UpdateSinkEnabledStatus
    /\ touchScreenLockActive' = [l \in Listener |-> locked]

(* showScreenLock, showLowPowerMode, setDisplayOffMode: the modes of the    *)
(* window and the extension, then toggleScreenLockUI(true).                *)
ShowWindow(slot) ==
    /\ screenLockWindow' = "visible"
    /\ extensionMode' = ModeOf(slot)
    /\ lowPowerMode' = (slot = "showLowPowerMode")
    /\ UNCHANGED inputVars
    /\ Tell(TRUE)

(* toggleScreenLockUI(false); the listeners hear of it even if there was   *)
(* nothing to hide.                                                        *)
HideWindow ==
    /\ screenLockWindow' = IF Visible THEN "hidden" ELSE screenLockWindow
    /\ extensionMode' = "normal"
    /\ lowPowerMode' = (lowPowerMode /\ ~Visible)
    /\ UNCHANGED inputVars
    /\ Tell(FALSE)

-----------------------------------------------------------------------------
(* Calls of MCE.                                                           *)

Post(slot) ==
    /\ Len(posted) < MaxPosted
    /\ posted' = Append(posted, slot)
    /\ lastRequest' = IF slot \in LockSlot THEN slot ELSE lastRequest

(* Deprecated modes post nothing.                                          *)
TklockOpen(slot) ==
    /\ slot \in ShowSlot \cup {"showEventEater"}
    /\ ~shuttingDown
    /\ callback' = TRUE
    /\ Post(slot)
    /\ UNCHANGED <<windowVars, eventEater, shuttingDown, listenerVars, inputVars,
                   unlockReported>>

TklockCloseAtOnce ==
    /\ lastRequest' = "hideScreenLockAndEventEater"
    /\ HideWindow
    /\ eventEater' = FALSE
    /\ unlockReported' = FALSE
    /\ UNCHANGED <<posted, callback, shuttingDown>>

TklockCloseUnlessShuttingDown ==
    /\ IF shuttingDown
       THEN lastRequest' = "hideScreenLockAndEventEater" /\ UNCHANGED posted
       ELSE Post("hideScreenLockAndEventEater")
    /\ UNCHANGED <<windowVars, eventEater, callback, shuttingDown, listenerVars, inputVars,
                   unlockReported>>

TklockClose ==
    /\ Post("hideScreenLockAndEventEater")
    /\ UNCHANGED <<windowVars, eventEater, callback, shuttingDown, listenerVars, inputVars,
                   unlockReported>>

(* The event queue calls the next slot.                                    *)
CallPosted ==
    /\ posted # <<>>
    /\ posted' = Tail(posted)
    /\ \/ /\ Head(posted) \in ShowSlot
          /\ ShowWindow(Head(posted))
          /\ eventEater' = FALSE
          /\ unlockReported' = FALSE
       \/ /\ Head(posted) = "hideScreenLockAndEventEater"
          /\ HideWindow
          /\ eventEater' = FALSE
          /\ unlockReported' = FALSE
       \/ /\ Head(posted) = "showEventEater"
          /\ eventEater' = TRUE
          /\ UNCHANGED <<windowVars, listenerVars, inputVars, unlockReported>>
    /\ UNCHANGED <<callback, shuttingDown, lastRequest>>

-----------------------------------------------------------------------------
(* What happens at once.                                                   *)

(* The extension says that the user unlocked, or UsbUi that it shows its   *)
(* dialog: unlockScreen.                                                   *)
UnlockScreen ==
    /\ Visible
    /\ HideWindow
    /\ eventEater' = FALSE
    /\ unlockReported' = (unlockReported \/ callback)
    /\ UNCHANGED <<posted, callback, shuttingDown, lastRequest>>

(* Input arrives at the event eater: hideEventEater.                       *)
HideEventEater ==
    /\ eventEater
    /\ eventEater' = FALSE
    /\ UNCHANGED <<posted, windowVars, callback, shuttingDown, listenerVars, inputVars,
                   historyVars>>

SystemStateChanged ==
    /\ HideWindow
    /\ eventEater' = FALSE
    /\ shuttingDown' = TRUE
    /\ UNCHANGED <<posted, callback, historyVars>>

StatusIndicatorMenuVisibilityChanged ==
    /\ menuVisible' = ~menuVisible
    /\ UNCHANGED <<deviceLocked, screenLockWindow>>
    /\ UpdateSinkEnabledStatus
    /\ UNCHANGED <<posted, lowPowerMode, extensionMode, eventEater, callback, shuttingDown,
                   touchScreenLockActive, historyVars>>

DeviceLockChanged ==
    /\ deviceLocked' = ~deviceLocked
    /\ UNCHANGED <<menuVisible, screenLockWindow>>
    /\ UpdateSinkEnabledStatus
    /\ UNCHANGED <<posted, lowPowerMode, extensionMode, eventEater, callback, shuttingDown,
                   touchScreenLockActive, historyVars>>

-----------------------------------------------------------------------------
Init ==
    /\ posted = <<>>
    /\ screenLockWindow = "none"
    /\ lowPowerMode = FALSE
    /\ extensionMode = "normal"
    /\ eventEater = FALSE
    /\ callback = FALSE
    /\ shuttingDown = FALSE
    /\ touchScreenLockActive = [l \in Listener |-> FALSE]
    /\ menuVisible = FALSE
    /\ deviceLocked \in BOOLEAN
    /\ sinkDisabled = deviceLocked
    /\ lastRequest = NoRequest
    /\ unlockReported = FALSE

Next ==
    \/ \E slot \in Slot : TklockOpen(slot)
    \/ TklockClose
    \/ CallPosted
    \/ UnlockScreen
    \/ HideEventEater
    \/ SystemStateChanged
    \/ StatusIndicatorMenuVisibilityChanged
    \/ DeviceLockChanged

Spec == Init /\ [][Next]_vars

(* The event loop goes on.                                                 *)
FairSpec == Spec /\ WF_vars(CallPosted)

-----------------------------------------------------------------------------
(* Properties.                                                             *)

\* Every variable holds a value of its C++ type; the windows there are.
TypeOK ==
    /\ posted \in Seq(Slot)
    /\ Len(posted) <= MaxPosted
    /\ screenLockWindow \in {"none", "hidden", "visible"}
    /\ lowPowerMode \in BOOLEAN
    /\ extensionMode \in {"normal", "lowPower", "displayOff"}
    /\ eventEater \in BOOLEAN
    /\ callback \in BOOLEAN
    /\ shuttingDown \in BOOLEAN
    /\ touchScreenLockActive \in [Listener -> BOOLEAN]
    /\ sinkDisabled \in BOOLEAN
    /\ menuVisible \in BOOLEAN
    /\ deviceLocked \in BOOLEAN
    /\ lastRequest \in LockSlot \cup {NoRequest}
    /\ unlockReported \in BOOLEAN

\* Those who depend on the lock know whether the lock screen is visible: the
\* previews of application notifications are disabled exactly while it, the menu
\* or the device lock hides the applications, and the compositor sink and the
\* battery logic hold the same value of the touch screen lock
\* (sysuid.cpp:120-121, 149, 216-223).
ListenersFollowLock ==
    /\ sinkDisabled = (menuVisible \/ Visible \/ deviceLocked)
    /\ \A l \in Listener : touchScreenLockActive[l] = Visible

\* The window is in low power mode, on top of everything, exactly while the lock
\* screen is visible and the extension shows its low power contents, through any
\* sequence of modes (screenlockbusinesslogic.cpp:150-194, 225-233).
LowPowerModeAgrees ==
    lowPowerMode = (Visible /\ extensionMode = "lowPower")

\* The window, its contents and all who listen agree on the state of the lock.
LockConsistent == TypeOK /\ ListenersFollowLock /\ LowPowerModeAgrees

PendingLockRequest == \E i \in DOMAIN posted : posted[i] \in LockSlot

ScreenAsRequested ==
    IF lastRequest \in ShowSlot /\ ~unlockReported
    THEN Visible /\ extensionMode = ModeOf(lastRequest)
    ELSE ~Visible

\* Once MCE's calls are carried out the screen is as it last asked for, unless it
\* was told of an unlock in the meantime, and then there is no lock screen: until
\* the shutdown, MCE and the screen never disagree silently, although requests
\* are carried out late and unlocking is not (screenlockbusinesslogic.cpp:58-148).
MceAgrees == ~shuttingDown /\ ~PendingLockRequest => ScreenAsRequested

\* When the lock screen comes, goes or changes its mode, the event eater, which
\* grabs all input, goes.
EventEaterGivesWay == [][windowVars' # windowVars => ~eventEater']_vars

\* If it is MCE's last word to close the lock screen it stays closed in the end,
\* whatever was requested before, during a shutdown too
\* (screenlockbusinesslogic.cpp:106-111).
CloseTakesEffect ==
    <>[](lastRequest = "hideScreenLockAndEventEater") => <>[]~Visible

\* "The lock screen should be disabled during shutdown"
\* (screenlockbusinesslogic.cpp:284).
NoLockScreenDuringShutdown == shuttingDown => ~Visible

=============================================================================
