------------------------------- MODULE UsbUi -------------------------------
(***************************************************************************)
(* The USB dialog (systemui/usbui.cpp) together with the touch screen lock *)
(* that it opens (systemui/sysuid.cpp).                                    *)
(*                                                                         *)
(* The USB mode changes with the cable and with what the user chooses.     *)
(* Changes are signalled and delivered later.  A choice closes the dialog  *)
(* at once and takes effect a moment later, so that the mode may have      *)
(* changed in between.                                                     *)
(***************************************************************************)
EXTENDS ScreenLock, FiniteSets

CONSTANTS
    MaxModeSignals,     \* bound on modeChanged signals that were not delivered yet
    MaxRequestTimers    \* bound on single shot timers of choices

VARIABLES
    usbMode,            \* the mode there is
    modeSignals,        \* modes that were not signalled yet
    dialogVisible,
    requestedUSBMode,
    requestTimers,      \* single shot timers that will call setRequestedUSBMode
    startTimer,         \* the one that will call applyCurrentUSBMode
    sdkItemShown,       \* as long as the developer mode is on
    choice,             \* history: the user's last choice, until the mode is changed by others
    lockedAfterDialog   \* history: the lock screen was shown after the dialog

dialogVars == <<dialogVisible, requestedUSBMode, requestTimers, startTimer>>
usbVars == <<usbMode, modeSignals, dialogVars, sdkItemShown, choice, lockedAfterDialog>>

ModeChoices == {"OviSuite", "MassStorage", "SDK"}
Modes == ModeChoices \cup {"Connected", "Ask", "Disconnected", "ChargingOnly", "Undefined"}

-----------------------------------------------------------------------------
(* dialogShown is connected to unlockScreen.                               *)

UnlockForDialog ==
    /\ IF Visible THEN UnlockScreen ELSE UNCHANGED vars
    /\ lockedAfterDialog' = FALSE

NoUnlock == UNCHANGED vars /\ UNCHANGED lockedAfterDialog

(* hideDialog.                                                             *)
HideDialog == dialogVisible' = FALSE

ApplyUSBModeUnlocksNothing(mode) ==
    \/ mode = "Ask" /\ dialogVisible' = TRUE /\ lockedAfterDialog' = FALSE /\ UNCHANGED vars
    \/ mode \in {"Connected", "ChargingOnly"} /\ NoUnlock /\ UNCHANGED dialogVisible
    \/ mode \notin {"Ask", "Connected", "ChargingOnly"} /\ NoUnlock /\ HideDialog

(* applyUSBMode; Ask stands for ModeRequest too.  With the device locked   *)
(* the dialog is only pretended.  The notifications are left out.          *)
ApplyUSBMode(mode) ==
    \/ /\ mode = "Ask"
       /\ dialogVisible' = TRUE
       /\ UnlockForDialog
    \/ /\ mode = "Connected" /\ deviceLocked
       /\ UnlockForDialog
       /\ UNCHANGED dialogVisible
    \/ /\ mode = "Connected" /\ ~deviceLocked
       /\ NoUnlock
       /\ UNCHANGED dialogVisible
    \/ /\ mode = "ChargingOnly"
       /\ NoUnlock
       /\ UNCHANGED dialogVisible
    \/ /\ mode \in ModeChoices \cup {"Disconnected", "Undefined"}
       /\ NoUnlock
       /\ HideDialog

(* The constructor's single shot timer: applyCurrentUSBMode.               *)
ApplyCurrentUSBMode ==
    /\ startTimer
    /\ startTimer' = FALSE
    /\ ApplyUSBMode(usbMode)
    /\ UNCHANGED <<usbMode, modeSignals, requestedUSBMode, requestTimers, sdkItemShown, choice>>

ModeChanged ==
    /\ modeSignals # <<>>
    /\ modeSignals' = Tail(modeSignals)
    /\ ApplyUSBMode(Head(modeSignals))
    /\ UNCHANGED <<usbMode, requestedUSBMode, requestTimers, startTimer, sdkItemShown, choice>>

-----------------------------------------------------------------------------
(* The mode changes.                                                       *)

ModeBecomes(mode) ==
    /\ Len(modeSignals) < MaxModeSignals
    /\ usbMode' = mode
    /\ modeSignals' = Append(modeSignals, mode)

(* The cable, or another program.                                          *)
OthersChangeMode(mode) ==
    /\ mode # usbMode
    /\ ModeBecomes(mode)
    /\ choice' = "none"
    /\ UNCHANGED <<vars, dialogVars, sdkItemShown, lockedAfterDialog>>

(* setOviSuiteMode, setMassStorageMode, setSDKMode: the user chooses.      *)
SetMode(mode) ==
    /\ dialogVisible
    /\ mode = "SDK" => sdkItemShown
    /\ requestTimers < MaxRequestTimers
    /\ HideDialog
    /\ requestedUSBMode' = mode
    /\ requestTimers' = requestTimers + 1
    /\ choice' = mode
    /\ UNCHANGED <<vars, usbMode, modeSignals, startTimer, sdkItemShown, lockedAfterDialog>>

SetRequestedUSBModeAlways ==
    /\ requestTimers > 0
    /\ requestTimers' = requestTimers - 1
    /\ requestedUSBMode' = "Undefined"
    /\ ModeBecomes(requestedUSBMode)
    /\ UNCHANGED <<vars, dialogVisible, startTimer, sdkItemShown, choice, lockedAfterDialog>>

(* setRequestedUSBMode; without a cable the mode cannot be set.            *)
SetRequestedUSBMode ==
    /\ requestTimers > 0
    /\ requestTimers' = requestTimers - 1
    /\ requestedUSBMode' = "Undefined"
    /\ IF requestedUSBMode \notin {"Undefined", usbMode} /\ usbMode # "Disconnected"
       THEN ModeBecomes(requestedUSBMode)
       ELSE UNCHANGED <<usbMode, modeSignals>>
    /\ UNCHANGED <<vars, dialogVisible, startTimer, sdkItemShown, choice, lockedAfterDialog>>

(* updateSDKItemVisibility.                                                *)
DeveloperModeChanged ==
    /\ sdkItemShown' = ~sdkItemShown
    /\ UNCHANGED <<vars, usbMode, modeSignals, dialogVars, choice, lockedAfterDialog>>

LockActs ==
    /\ Next
    /\ lockedAfterDialog' = (lockedAfterDialog \/ (Visible' /\ windowVars' # windowVars))
    /\ UNCHANGED <<usbMode, modeSignals, dialogVars, sdkItemShown, choice>>

-----------------------------------------------------------------------------
UsbInit ==
    /\ Init
    /\ usbMode \in {"Disconnected", "Ask"}
    /\ modeSignals = <<>>
    /\ dialogVisible = FALSE
    /\ requestedUSBMode = "Undefined"
    /\ requestTimers = 0
    /\ startTimer = TRUE
    /\ sdkItemShown = FALSE
    /\ choice = "none"
    /\ lockedAfterDialog = FALSE

UsbNext ==
    \/ ApplyCurrentUSBMode
    \/ ModeChanged
    \/ \E mode \in Modes : OthersChangeMode(mode)
    \/ \E mode \in ModeChoices : SetMode(mode)
    \/ SetRequestedUSBMode
    \/ DeveloperModeChanged
    \/ LockActs

UsbSpec == UsbInit /\ [][UsbNext]_<<vars, usbVars>>

-----------------------------------------------------------------------------
(* Properties.                                                             *)

\* Once all changes of the mode are delivered, the dialog is on the screen only if
\* the mode still is, or may still be, to be chosen, although a choice, the cable
\* and the signals overtake each other (usbui.cpp:139-230).
DialogFollowsMode ==
    dialogVisible /\ modeSignals = <<>> => usbMode \notin ModeChoices \cup {"Disconnected", "Undefined"}

\* Once the timers of the user's choices have expired, the mode is the last one he
\* chose, if nobody else changed it since then and there is a cable, however fast he
\* chose again (usbui.cpp:160-200).
LastChoiceCounts ==
    choice # "none" /\ requestTimers = 0 /\ usbMode # "Disconnected" => usbMode = choice

\* The dialog is not covered by the lock screen, unless that was asked for after the
\* dialog had come (sysuid.cpp:155-156).
DialogUnlocks == dialogVisible /\ ~lockedAfterDialog => ~Visible

\* The dialog is there for a mode that has to be chosen only, and in front of the
\* lock screen (usbui.cpp:139-230, sysuid.cpp:155-156).
DialogInPlace == DialogFollowsMode /\ DialogUnlocks

=============================================================================
