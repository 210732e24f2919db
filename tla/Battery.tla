------------------------------ MODULE Battery ------------------------------
(***************************************************************************)
(* The battery notifications (systemui/batterybusinesslogic.cpp) and the   *)
(* reminder of a low battery (systemui/lowbatterynotifier.cpp).            *)
(*                                                                         *)
(* The charger, the charging and the level of the battery change at any    *)
(* time.  Each change is signalled, and a signal is delivered later; the   *)
(* handlers mix the value they are given with values they ask for, which   *)
(* are those of the moment.  The reminder is given at once and then        *)
(* periodically, more often during a call and less often while the device  *)
(* is locked and dark.                                                     *)
(***************************************************************************)
EXTENDS Integers, Sequences

CONSTANTS
    CALL_ACTIVE_NOTIFICATION_INTERVAL,
    DEVICE_ACTIVE_NOTIFICATION_INTERVAL,
    DEVICE_INACTIVE_NOTIFICATION_INTERVAL,
    ChargerTypes,       \* the chargers there are, with "None"
    MaxBatterySignals   \* bound on the signals that were not delivered yet

ASSUME IntervalsAssumption ==
    /\ CALL_ACTIVE_NOTIFICATION_INTERVAL \in Nat \ {0}
    /\ DEVICE_ACTIVE_NOTIFICATION_INTERVAL \in Nat \ {0}
    /\ DEVICE_INACTIVE_NOTIFICATION_INTERVAL \in Nat \ {0}

ASSUME ChargerTypesAssumption ==
    /\ "None" \in ChargerTypes
    /\ ChargerTypes \subseteq {"None", "Wall", "USB_500mA", "USB_100mA"}

VARIABLES
    charger, charging, level,   \* the hardware
    call, displayOff,           \* the phone and the display
    batterySignals,     \* what QmBattery and QmDeviceMode have still to signal
    displaySignal,      \* so has QmDisplayState
    battery,            \* the members of BatteryBusinessLogic
    lowBatteryNotifier, \* none, or one: <<>> or <<its members>>
    weakUsb             \* history: USB_100mA was attached

hardwareVars == <<charger, charging, level, weakUsb>>
activityVars == <<call, displayOff, displaySignal>>
batteryVars == <<hardwareVars, activityVars, batterySignals, battery, lowBatteryNotifier>>

ChargingStates == {"StateNotCharging", "StateCharging", "StateChargingFailed"}
BatteryStates == {"StateFull", "StateOK", "StateLow", "StateEmpty"}
NoBanner == "none"

(* What BatteryBusinessLogic works on: its members with the notifier.      *)
Logic == [members |-> battery, notifier |-> lowBatteryNotifier]

-----------------------------------------------------------------------------
(* LowBatteryNotifier.                                                     *)

(* A new one has not subscribed to the call state yet.                     *)
NewNotifier ==
    [notificationInterval |-> DEVICE_ACTIVE_NOTIFICATION_INTERVAL,
     deviceInactive |-> FALSE,
     callActive |-> FALSE,
     touchScreenLockActive |-> FALSE,
     callContextItem |-> FALSE,
     elapsed |-> 0,     \* since the previous notification
     left |-> 0]        \* until the timer expires

IntervalFor(callActive, deviceInactive) ==
    IF callActive THEN CALL_ACTIVE_NOTIFICATION_INTERVAL
    ELSE IF deviceInactive THEN DEVICE_INACTIVE_NOTIFICATION_INTERVAL
    ELSE DEVICE_ACTIVE_NOTIFICATION_INTERVAL

(* sendLowBatteryAlert: the timer starts anew.                             *)
Alerted(n) == [n EXCEPT !.elapsed = 0, !.left = n.notificationInterval]

(* The display is asked for its present state.                             *)
Inactive(n) == n.touchScreenLockActive /\ displayOff

ActivityChanged(n) == Inactive(n) # n.deviceInactive \/ n.callContextItem # n.callActive

WithActivity(n) ==
    [n EXCEPT !.deviceInactive = Inactive(n),
              !.callActive = n.callContextItem,
              !.notificationInterval = IntervalFor(n.callContextItem, Inactive(n))]

(* The alert that a changed interval makes due is given at once.           *)
Due(n) == ActivityChanged(n) /\ n.elapsed >= WithActivity(n).notificationInterval

(* A broken variant, with a plausible bug, stands before what it varies.   *)
IntervalFromNow(n) ==
    IF ~ActivityChanged(n) THEN n
    ELSE LET m == WithActivity(n) IN
         IF Due(n) THEN Alerted(m) ELSE [m EXCEPT !.left = m.notificationInterval]

(* setNotificationInterval.                                                *)
SetNotificationInterval(n) ==
    IF ~ActivityChanged(n) THEN n
    ELSE LET m == WithActivity(n) IN
         IF Due(n) THEN Alerted(m) ELSE [m EXCEPT !.left = m.notificationInterval - m.elapsed]

-----------------------------------------------------------------------------
(* BatteryBusinessLogic: what its handlers are made of.                    *)

(* sendNotification: the previous one is not taken back, only forgotten.   *)
(* It counts as long as its timer runs.                                    *)
Sent(l, type) == [l EXCEPT !.members.notification = type]

(* removeNotification: only what was sent within the last seconds.         *)
Removed(l, types) ==
    IF l.members.notification \in types THEN [l EXCEPT !.members.notification = NoBanner] ELSE l

Led(l, on, pattern) ==
    [l EXCEPT !.members.leds = IF on THEN @ \cup {pattern} ELSE @ \ {pattern}]

Alert(l, n) == Sent([l EXCEPT !.notifier = <<Alerted(n)>>], "lowbattery")

StartLowBatteryNotifier(l) ==
    LET n == IF l.notifier = <<>> THEN NewNotifier ELSE l.notifier[1]
    IN  Alert(l, SetNotificationInterval(
                     [n EXCEPT !.touchScreenLockActive = l.members.touchScreenLockActive]))

StopLowBatteryNotifier(l) == [l EXCEPT !.notifier = <<>>]

(* The charger is asked for.                                               *)
ChargingStateChanged(l, state) ==
    CASE state = "StateCharging" ->
            IF charger = "USB_100mA" THEN Sent(l, "notenoughpower")
            ELSE Sent(Led(Removed(StopLowBatteryNotifier(l),
                                  {"removecharger", "chargingcomplete", "lowbattery"}),
                          TRUE, "PatternBatteryCharging"),
                      "charging")
      [] state = "StateNotCharging" ->
            Led(Removed(l, {"charging"}), FALSE, "PatternBatteryCharging")
      [] state = "StateChargingFailed" ->
            Sent(Led(l, FALSE, "PatternBatteryCharging"), "chargingnotstarted")

(* The charging state is asked for.                                        *)
BatteryStateChanged(l, state) ==
    CASE state = "StateFull" ->
            Sent(Led(Removed(StopLowBatteryNotifier(l), {"charging"}), TRUE, "PatternBatteryFull"),
                 "chargingcomplete")
      [] state = "StateOK" -> StopLowBatteryNotifier(l)
      [] state = "StateLow" ->
            IF charging # "StateCharging" THEN StartLowBatteryNotifier(l) ELSE l
      [] state = "StateEmpty" -> Sent(l, "recharge")

RemindAgain(l) ==
    /\ l.members.chargerType \notin {"None", "USB_100mA"}
    /\ level = "StateLow"
    /\ charging # "StateCharging"

(* The level and the charging state are asked for, the previous charger is *)
(* remembered.                                                             *)
BatteryChargerEvent(l, type) ==
    LET told == IF type = "None" /\ l.members.chargerType = "Wall"
                THEN Sent(Removed(l, {"charging", "chargingcomplete"}), "removecharger")
                ELSE l
        reminded == IF type = "None" /\ RemindAgain(l) THEN StartLowBatteryNotifier(told) ELSE told
    IN  [reminded EXCEPT !.members.chargerType = type]

Handled(l, signal) ==
    CASE signal.kind = "chargingStateChanged" -> ChargingStateChanged(l, signal.value)
      [] signal.kind = "batteryStateChanged" -> BatteryStateChanged(l, signal.value)
      [] signal.kind = "chargerEvent" -> BatteryChargerEvent(l, signal.value)

Becomes(l) == battery' = l.members /\ lowBatteryNotifier' = l.notifier

(* Each time the display, the call or the lock may have changed the        *)
(* notifier is told so, if there is one.                                   *)
Reconsidered(l, n) ==
    IF Due(n) THEN Sent([l EXCEPT !.notifier = <<SetNotificationInterval(n)>>], "lowbattery")
    ELSE [l EXCEPT !.notifier = <<SetNotificationInterval(n)>>]

-----------------------------------------------------------------------------
(* The hardware.  What it signals in one step may arrive in any order.     *)

Signal(kind, value) == [kind |-> kind, value |-> value]

Signalled(signals) ==
    /\ Len(batterySignals) + Len(signals) <= MaxBatterySignals
    /\ batterySignals' = batterySignals \o signals

PowerChanges(newCharger, newCharging) ==
    LET plugged == IF newCharger = charger THEN <<>> ELSE <<Signal("chargerEvent", newCharger)>>
        powered == IF newCharging = charging THEN <<>>
                   ELSE <<Signal("chargingStateChanged", newCharging)>>
    IN  /\ charger' = newCharger
        /\ charging' = newCharging
        /\ weakUsb' = (weakUsb \/ newCharger = "USB_100mA")
        /\ \E order \in {plugged \o powered, powered \o plugged} : Signalled(order)
        /\ UNCHANGED <<level, activityVars, battery, lowBatteryNotifier>>

Plug(type) ==
    /\ charger = "None" /\ type # "None"
    /\ \E state \in ChargingStates : PowerChanges(type, state)

Unplug ==
    /\ charger # "None"
    /\ PowerChanges("None", "StateNotCharging")

(* A computer grants more or less current.                                 *)
Renegotiate(type) ==
    /\ charger \in {"USB_100mA", "USB_500mA"} \ {type} /\ type \in {"USB_100mA", "USB_500mA"}
    /\ PowerChanges(type, charging)

ChargingChanges(state) ==
    /\ charger # "None" /\ state # charging
    /\ PowerChanges(charger, state)

LevelChanges(state) ==
    /\ state # level
    /\ level' = state
    /\ Signalled(<<Signal("batteryStateChanged", state)>>)
    /\ UNCHANGED <<charger, charging, weakUsb, activityVars, battery, lowBatteryNotifier>>

DeliverBatterySignal ==
    /\ batterySignals # <<>>
    /\ batterySignals' = Tail(batterySignals)
    /\ Becomes(Handled(Logic, Head(batterySignals)))
    /\ UNCHANGED <<hardwareVars, activityVars>>

DevicePSMStateChanged(state) ==
    /\ Becomes(Sent(Logic, IF state = "PSMStateOn" THEN "enterpsm" ELSE "exitpsm"))
    /\ UNCHANGED <<hardwareVars, activityVars, batterySignals>>

-----------------------------------------------------------------------------
(* What bears on the reminder.                                             *)

DisplayChanges ==
    /\ displayOff' = ~displayOff
    /\ displaySignal' = TRUE
    /\ UNCHANGED <<hardwareVars, call, batterySignals, battery, lowBatteryNotifier>>

DisplayStateChanged ==
    /\ displaySignal
    /\ displaySignal' = FALSE
    /\ IF lowBatteryNotifier = <<>> THEN UNCHANGED <<battery, lowBatteryNotifier>>
       ELSE Becomes(Reconsidered(Logic, lowBatteryNotifier[1]))
    /\ UNCHANGED <<hardwareVars, call, displayOff, batterySignals>>

CallChanges ==
    /\ call' = ~call
    /\ UNCHANGED <<hardwareVars, displayOff, displaySignal, batterySignals, battery,
                   lowBatteryNotifier>>

(* contentsChanged of the notifier's context item.                         *)
CallContextChanged ==
    /\ lowBatteryNotifier # <<>>
    /\ lowBatteryNotifier[1].callContextItem # call
    /\ Becomes(Reconsidered(Logic, [lowBatteryNotifier[1] EXCEPT !.callContextItem = call]))
    /\ UNCHANGED <<hardwareVars, activityVars, batterySignals>>

(* The screen lock says so (Sysuid::Sysuid).                               *)
SetTouchScreenLockActive(active) ==
    /\ LET l == [Logic EXCEPT !.members.touchScreenLockActive = active]
       IN  Becomes(IF l.notifier = <<>> THEN l
                   ELSE Reconsidered(l, [l.notifier[1] EXCEPT !.touchScreenLockActive = active]))
    /\ UNCHANGED <<hardwareVars, activityVars, batterySignals>>

(* A minute passes; the timer does not wait.                               *)
MinutePasses ==
    /\ lowBatteryNotifier # <<>>
    /\ lowBatteryNotifier[1].left > 0
    /\ lowBatteryNotifier' = <<[lowBatteryNotifier[1] EXCEPT !.elapsed = @ + 1, !.left = @ - 1]>>
    /\ battery' = [battery EXCEPT !.notification = NoBanner]
    /\ UNCHANGED <<hardwareVars, activityVars, batterySignals>>

(* The timer of the reminder expires.                                      *)
SendLowBatteryAlert ==
    /\ lowBatteryNotifier # <<>>
    /\ lowBatteryNotifier[1].left = 0
    /\ Becomes(Alert(Logic, lowBatteryNotifier[1]))
    /\ UNCHANGED <<hardwareVars, activityVars, batterySignals>>

(* Five seconds after a notification it cannot be removed any more.        *)
NotificationTimerExpires ==
    /\ battery.notification # NoBanner
    /\ battery' = [battery EXCEPT !.notification = NoBanner]
    /\ UNCHANGED <<hardwareVars, activityVars, batterySignals, lowBatteryNotifier>>

-----------------------------------------------------------------------------
NewLogic ==
    [members |-> [notification |-> NoBanner, leds |-> {},
                  touchScreenLockActive |-> FALSE, chargerType |-> "Unknown"],
     notifier |-> <<>>]

(* The constructor with initBattery.                                       *)
BatteryInit ==
    /\ charger \in ChargerTypes
    /\ charging \in {s \in ChargingStates : charger = "None" => s = "StateNotCharging"}
    /\ level \in BatteryStates
    /\ weakUsb = (charger = "USB_100mA")
    /\ call = FALSE
    /\ displayOff = FALSE
    /\ displaySignal = FALSE
    /\ batterySignals = <<>>
    /\ LET l == BatteryStateChanged(ChargingStateChanged(NewLogic, charging), level)
       IN  battery = l.members /\ lowBatteryNotifier = l.notifier

BatteryNext ==
    \/ \E type \in ChargerTypes : Plug(type) \/ Renegotiate(type)
    \/ Unplug
    \/ \E state \in ChargingStates : ChargingChanges(state)
    \/ \E state \in BatteryStates : LevelChanges(state)
    \/ \E state \in {"PSMStateOn", "PSMStateOff"} : DevicePSMStateChanged(state)
    \/ DeliverBatterySignal
    \/ DisplayChanges
    \/ DisplayStateChanged
    \/ CallChanges
    \/ CallContextChanged
    \/ \E active \in BOOLEAN : SetTouchScreenLockActive(active)
    \/ MinutePasses
    \/ SendLowBatteryAlert
    \/ NotificationTimerExpires

BatterySpec == BatteryInit /\ [][BatteryNext]_batteryVars

-----------------------------------------------------------------------------
(* Properties.                                                             *)

Quiet == batterySignals = <<>>
Reminding == lowBatteryNotifier # <<>>

\* The next reminder is due one interval after the previous one, whatever the
\* display, the lock and the call did in between and how often: a change of
\* activity shortens or extends the present period and never restarts it, and the
\* interval is the one for what is known of call, lock and display
\* (lowbatterynotifier.cpp:64-94).
ReminderOnTime ==
    \A n \in {lowBatteryNotifier[i] : i \in DOMAIN lowBatteryNotifier} :
        /\ n.elapsed + n.left = n.notificationInterval
        /\ n.touchScreenLockActive = battery.touchScreenLockActive
        /\ ~displaySignal => n.notificationInterval = IntervalFor(n.callContextItem, Inactive(n))

\* Once all signals are delivered, whatever their order, the user is reminded of
\* a low battery if no charger is attached and never while the battery charges or
\* is in order, unless a computer that grants 100 mA only was involved
\* (batterybusinesslogic.cpp:71-165).
RemindersFollowBattery ==
    Quiet /\ ~weakUsb =>
        /\ Reminding => level \in {"StateLow", "StateEmpty"} /\ charging # "StateCharging"
        /\ level = "StateLow" /\ charger = "None" => Reminding

\* Once all signals are delivered neither the charging light nor a recent
\* notification says "Charging" unless the battery charges
\* (batterybusinesslogic.cpp:71-95, 177-186).
ChargingIndicationHonest ==
    Quiet /\ charging # "StateCharging" =>
        /\ "PatternBatteryCharging" \notin battery.leds
        /\ battery.notification # "charging"

\* The reminder, its period, the notification and the light tell of the battery and
\* of the charger there are, once what changed has been signalled
\* (batterybusinesslogic.cpp:71-165, lowbatterynotifier.cpp:64-94).
UserKnowsBattery == ReminderOnTime /\ RemindersFollowBattery /\ ChargingIndicationHonest

=============================================================================
