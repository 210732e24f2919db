----------------------------- MODULE Shutdown -----------------------------
(***************************************************************************)
(* The shutdown screen (systemui/shutdownui.cpp), those who ask for it     *)
(* (systemui/shutdownbusinesslogic.cpp), and the warning that the disk is  *)
(* full (systemui/diskspacenotifier.cpp).                                  *)
(*                                                                         *)
(* The screen shows two lines of text, then a logo, then nothing.  It may  *)
(* be asked for again and again, with other texts or none, in any phase.   *)
(***************************************************************************)
EXTENDS Naturals, FiniteSets

CONSTANTS
    MaxNotes,   \* bound on the notifications of the shutdown
    Paths       \* file systems that are watched

VARIABLES
    realized,       \* the contents were made
    realizeTimer,   \* they will be, to have them ready
    window,         \* "none" (no ShutdownUI), "hidden", "shown"
    labels,         \* label1 and label2 are there
    logos,          \* how many logos were put into the layout
    logoShown,
    labelTimer,     \* runs: the time of the texts
    offTimers,      \* single shot timers that will turn the screen off
    screen,         \* "on", "off", "black" (could not be turned off)
    notes,          \* notifications of the business logic: thermal, battery, USB
    usage,          \* of a file system: "some", "high", "full"
    notificationsSentForPath,   \* what was notified of for a file system
    diskNotifications   \* those of the disk notifier that there are

shutdownVars == <<realized, realizeTimer, window, labels, logos, logoShown, labelTimer, offTimers,
                  screen, notes>>
diskVars == <<usage, notificationsSentForPath, diskNotifications>>

-----------------------------------------------------------------------------
(* ShutdownUI.                                                             *)

(* realize: once.                                                          *)
Realize ==
    /\ realized' = TRUE
    /\ labels' = (labels \/ ~realized)

RealizeInAdvance ==
    /\ realizeTimer
    /\ realizeTimer' = FALSE
    /\ Realize
    /\ UNCHANGED <<window, logos, logoShown, labelTimer, offTimers, screen, notes>>

(* showLogo, from the timer or at once.                                    *)
LogoReplacesLabels ==
    /\ labels' = FALSE
    /\ logos' = logos + 1
    /\ logoShown' = TRUE
    /\ offTimers' = offTimers + 1

ShowShutdownWindowKeepsTimer(text) ==
    /\ window' = "shown"
    /\ realized' = TRUE
    /\ IF text THEN labelTimer' = TRUE /\ labels' = (labels \/ ~realized)
                    /\ UNCHANGED <<logos, logoShown, offTimers>>
       ELSE LogoReplacesLabels /\ UNCHANGED labelTimer
    /\ UNCHANGED <<screen, notes>>

(* showWindow, with labels to show: with texts the timer starts anew,      *)
(* without the logo comes at once.                                         *)
ShowShutdownWindow(text) ==
    /\ window' = "shown"
    /\ realized' = TRUE
    /\ IF text THEN labelTimer' = TRUE /\ labels' = (labels \/ ~realized)
                    /\ UNCHANGED <<logos, logoShown, offTimers>>
       ELSE LogoReplacesLabels /\ labelTimer' = FALSE
    /\ UNCHANGED <<screen, notes>>

(* showUI: the window is created when it is needed first.  Once the logo   *)
(* was shown nothing happens any more.                                     *)
ShowUI(text) ==
    /\ realizeTimer' = (realizeTimer \/ window = "none")
    /\ IF realized /\ ~labels
       THEN UNCHANGED <<realized, window, labels, logos, logoShown, labelTimer, offTimers, screen,
                        notes>>
       ELSE ShowShutdownWindow(text)

ShowLogo ==
    /\ labelTimer
    /\ labelTimer' = FALSE
    /\ LogoReplacesLabels
    /\ UNCHANGED <<realized, realizeTimer, window, screen, notes>>

TurnOffScreenGivesUp ==
    /\ offTimers > 0
    /\ offTimers' = offTimers - 1
    /\ screen' \in {"off", screen}
    /\ UNCHANGED <<realized, realizeTimer, window, labels, logos, logoShown, labelTimer, notes>>

(* turnOffScreen: dimming and turning off may fail.                        *)
TurnOffScreen ==
    /\ offTimers > 0
    /\ offTimers' = offTimers - 1
    /\ \/ screen' = "off" /\ UNCHANGED logoShown
       \/ screen' = "black" /\ logoShown' = FALSE
    /\ UNCHANGED <<realized, realizeTimer, window, labels, logos, labelTimer, notes>>

-----------------------------------------------------------------------------
(* ShutdownBusinessLogic: systemStateChanged.                              *)

ShutdownStateChanged(what) ==
    \/ /\ what = "Shutdown"
       /\ ShowUI(FALSE)
    \/ /\ what \in {"ThermalStateFatal", "ShutdownDeniedUSB", "BatteryStateEmpty"}
       /\ notes < MaxNotes
       /\ notes' = notes + 1
       /\ UNCHANGED <<realized, realizeTimer, window, labels, logos, logoShown, labelTimer,
                      offTimers, screen>>

(* showScreen of the D-Bus adaptor.                                        *)
ShowScreen(text) == ShowUI(text)

-----------------------------------------------------------------------------
(* DiskSpaceNotifier.                                                      *)

(* The constructor removes the notifications of an earlier process.        *)
RestartDiskNotifier ==
    /\ diskNotifications' = {}
    /\ notificationsSentForPath' = [p \in Paths |-> {}]
    /\ UNCHANGED usage

HandleDiskSpaceChangeAdds(path, level) ==
    /\ usage' = [usage EXCEPT ![path] = level]
    /\ IF level \in notificationsSentForPath[path]
       THEN UNCHANGED <<notificationsSentForPath, diskNotifications>>
       ELSE /\ notificationsSentForPath' = [notificationsSentForPath EXCEPT ![path] = @ \cup {level}]
            /\ diskNotifications' = diskNotifications \cup {<<path, level>>}

(* handleDiskSpaceChange: a threshold is told of once for each path; the   *)
(* previous notification is replaced.                                      *)
HandleDiskSpaceChange(path, level) ==
    /\ level \in {"high", "full"}
    /\ usage' = [usage EXCEPT ![path] = level]
    /\ IF level \in notificationsSentForPath[path]
       THEN UNCHANGED <<notificationsSentForPath, diskNotifications>>
       ELSE /\ notificationsSentForPath' = [notificationsSentForPath EXCEPT ![path] = @ \cup {level}]
            /\ diskNotifications' = {<<path, level>>}

(* Space is freed: the monitor says nothing.                               *)
SpaceFreed(path) ==
    /\ usage[path] # "some"
    /\ usage' = [usage EXCEPT ![path] = "some"]
    /\ UNCHANGED <<notificationsSentForPath, diskNotifications>>

(* The warning is removed by the user; the notifier does not know.         *)
WarningDismissed ==
    /\ diskNotifications # {}
    /\ diskNotifications' = {}
    /\ UNCHANGED <<usage, notificationsSentForPath>>

-----------------------------------------------------------------------------
ShutdownInit ==
    /\ realized = FALSE
    /\ realizeTimer = FALSE
    /\ window = "none"
    /\ labels = FALSE
    /\ logos = 0
    /\ logoShown = FALSE
    /\ labelTimer = FALSE
    /\ offTimers = 0
    /\ screen = "on"
    /\ notes = 0

DiskInit ==
    /\ usage = [p \in Paths |-> "some"]
    /\ notificationsSentForPath = [p \in Paths |-> {}]
    /\ diskNotifications = {}

ShutdownActs ==
    /\ \/ RealizeInAdvance
       \/ \E text \in BOOLEAN : ShowScreen(text)
       \/ \E what \in {"Shutdown", "ThermalStateFatal", "ShutdownDeniedUSB", "BatteryStateEmpty"} :
              ShutdownStateChanged(what)
       \/ ShowLogo
       \/ TurnOffScreen
    /\ UNCHANGED diskVars

DiskActs ==
    /\ \/ RestartDiskNotifier
       \/ \E path \in Paths, level \in {"high", "full"} : HandleDiskSpaceChange(path, level)
       \/ \E path \in Paths : SpaceFreed(path)
       \/ WarningDismissed
    /\ UNCHANGED shutdownVars

AskForText == ShowScreen(TRUE) /\ UNCHANGED diskVars

ShutdownFairness ==
    /\ WF_shutdownVars(ShowLogo /\ UNCHANGED diskVars)
    /\ WF_shutdownVars(TurnOffScreen /\ UNCHANGED diskVars)

ShutdownSpec ==
    /\ ShutdownInit /\ DiskInit
    /\ [][ShutdownActs \/ DiskActs]_<<shutdownVars, diskVars>>
    /\ ShutdownFairness

-----------------------------------------------------------------------------
(* Properties.                                                             *)

\* However often, in whatever phase and by whomever the shutdown screen is asked
\* for, the labels make room for one logo, once: no timer of an earlier request
\* destroys them a second time or brings another logo
\* (shutdownui.cpp:116-172).
OneLogo ==
    /\ logos <= 1
    /\ logos = 1 => ~labels /\ ~labelTimer

\* Unless it is asked for new texts for ever, a shutdown screen that is shown
\* ends in a dark one (shutdownui.cpp:126-198).
ShutdownGoesDark ==
    []<><<AskForText>>_shutdownVars \/ (window = "shown" ~> screen # "on")

\* Whichever file systems fill up, and after a restart too, there is one warning
\* at most, and it is of a level that was noted as told of
\* (diskspacenotifier.cpp:29-35, 45-76).
WarnedOnce ==
    /\ Cardinality(diskNotifications) <= 1
    /\ \A warning \in diskNotifications : warning[2] \in notificationsSentForPath[warning[1]]

=============================================================================
