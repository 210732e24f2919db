------------------------------ MODULE MCSystem ------------------------------
(***************************************************************************)
(* The parts of the user interface that share no state, checked in one     *)
(* run: a behaviour follows one of them, the subject, and the others stay  *)
(* as they were made.  Each is explored as by itself, since no action of   *)
(* one reads or writes what is another's; UsbUi is the USB dialog together *)
(* with the screen lock it acts on.                                        *)
(***************************************************************************)
EXTENDS Battery, UsbUi, StatusIndicators, Clock, StatusAreaRenderer, LockScreen,
        NotificationBus, EventTypeStore

VARIABLE subject

Subjects == {"battery", "usb", "status", "clock", "renderer", "lock screen", "bus", "event types"}

(* Only the subject is made in all the ways it can be.                     *)
MCInit ==
    /\ subject \in Subjects
    /\ BatteryInit
    /\ subject # "battery" => charger = "None" /\ level = "StateOK"
    /\ UsbInit
    /\ subject # "usb" => ~deviceLocked /\ usbMode = "Ask"
    /\ StatusInit
    /\ subject # "status" => group = {"Alarm"}
    /\ ClockInit
    /\ subject # "clock" => now = 0
    /\ RendererInit
    /\ subject # "renderer" => server.made = NoWindow /\ ~renderer.sharing /\ ~renderer.renderScene
    /\ LockScreenInit
    /\ subject # "lock screen" => \A o \in Orientations : background.pixmap[o] = "none"
    /\ BusInit
    /\ EventTypesInit
    /\ subject # "event types" => Installed = {}

usbSystemVars == <<vars, usbVars>>
statusBarVars == <<statusVars, clockVars, rendererVars>>
notificationVars == <<busVars, eventTypeVars>>

BatteryMoves ==
    /\ subject = "battery"
    /\ BatteryNext
    /\ UNCHANGED <<usbSystemVars, statusBarVars, lockScreenVars, notificationVars>>
(* SystemStateChanged is left to MCLiveness: it does to the dialog what    *)
(* UnlockScreen does.                                                      *)
UsbMoves ==
    /\ subject = "usb"
    /\ UsbNext
    /\ ~shuttingDown'
    /\ UNCHANGED <<batteryVars, statusBarVars, lockScreenVars, notificationVars>>
StatusMoves ==
    /\ subject = "status"
    /\ StatusNext
    /\ UNCHANGED <<batteryVars, usbSystemVars, clockVars, rendererVars, lockScreenVars, notificationVars>>
ClockMoves ==
    /\ subject = "clock"
    /\ ClockNext
    /\ UNCHANGED <<batteryVars, usbSystemVars, statusVars, rendererVars, lockScreenVars, notificationVars>>
RendererMoves ==
    /\ subject = "renderer"
    /\ RendererNext
    /\ UNCHANGED <<batteryVars, usbSystemVars, statusVars, clockVars, lockScreenVars, notificationVars>>
LockScreenMoves ==
    /\ subject = "lock screen"
    /\ LockScreenNext
    /\ UNCHANGED <<batteryVars, usbSystemVars, statusBarVars, notificationVars>>
BusMoves ==
    /\ subject = "bus"
    /\ BusNext
    /\ UNCHANGED <<batteryVars, usbSystemVars, statusBarVars, lockScreenVars, eventTypeVars>>
EventTypesMove ==
    /\ subject = "event types"
    /\ EventTypesNext
    /\ UNCHANGED <<batteryVars, usbSystemVars, statusBarVars, lockScreenVars, busVars>>

MCNext ==
    /\ \/ BatteryMoves
       \/ UsbMoves
       \/ StatusMoves
       \/ ClockMoves
       \/ RendererMoves
       \/ LockScreenMoves
       \/ BusMoves
       \/ EventTypesMove
    /\ UNCHANGED subject

MCSpec ==
    MCInit /\ [][MCNext]_<<subject, batteryVars, usbSystemVars, statusBarVars, lockScreenVars,
                            notificationVars>>

=============================================================================
