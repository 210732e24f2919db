------------------------------ MODULE Volume ------------------------------
(***************************************************************************)
(* The volume bar (extensions/volume): the connection to PulseAudio and    *)
(* the steps known of it (volumebarlogic.cpp), the hardware keys, and the  *)
(* bar that fades in, stays and fades out (volumebar.cpp,                  *)
(* volumebarwindow.cpp).                                                   *)
(*                                                                         *)
(* PulseAudio is modelled from the calls that are made to it: it starts    *)
(* and dies at any time, and other clients change its volume.  Messages    *)
(* travel in order in both directions.                                     *)
(***************************************************************************)
EXTENDS Integers, Sequences

CONSTANTS
    Quint32,        \* how many values a quint32 has
    StepCounts,     \* the numbers of steps that PulseAudio may have
    MaxMessages     \* bound on the messages that travel, in each direction

ASSUME VolumeAssumption == StepCounts \subseteq 1..(Quint32 \div 2 - 1)

VARIABLES
    pulse,          \* PulseAudio: whether it runs, its steps, what it sent
    volumeLogic,    \* the members of VolumeBarLogic, and what was sent by it
    hwkeysConnected,
    volumeWindow,   \* "none", "hidden", "shown"
    volumeBar       \* the members of VolumeBar

volumeVars == <<pulse, volumeLogic, hwkeysConnected, volumeWindow, volumeBar>>

-----------------------------------------------------------------------------
(* PulseAudio, from the outside.                                           *)

Steps(count) == {[count |-> count, step |-> s] : s \in 0..(count - 1)}
AllSteps == UNION {Steps(count) : count \in StepCounts}

PulseStarts ==
    /\ ~pulse.runs
    /\ \E steps \in AllSteps : pulse' = [pulse EXCEPT !.runs = TRUE, !.steps = steps]
    /\ UNCHANGED <<volumeLogic, hwkeysConnected, volumeWindow, volumeBar>>

PulseDies ==
    /\ pulse.runs
    /\ pulse' = [pulse EXCEPT !.runs = FALSE]
    /\ volumeLogic' = [volumeLogic EXCEPT
           !.dbus_conn = IF @ = "connected" THEN "closed" ELSE @, !.listens = FALSE, !.sent = <<>>]
    /\ UNCHANGED <<hwkeysConnected, volumeWindow, volumeBar>>

(* The steps change, which those who listen are told.                      *)
PulseChanges(steps) ==
    pulse' = [pulse EXCEPT !.steps = steps,
                           !.signals = IF volumeLogic.listens THEN Append(@, steps) ELSE @]

PulseChangesSteps ==
    /\ pulse.runs
    /\ Len(pulse.signals) < MaxMessages
    /\ \E steps \in AllSteps \ {pulse.steps} : PulseChanges(steps)
    /\ UNCHANGED <<volumeLogic, hwkeysConnected, volumeWindow, volumeBar>>

PulseSetsCurrentStep ==
    /\ volumeLogic.sent # <<>>
    /\ Len(pulse.signals) < MaxMessages
    /\ volumeLogic' = [volumeLogic EXCEPT !.sent = Tail(@)]
    /\ IF Head(volumeLogic.sent) < pulse.steps.count
       THEN PulseChanges([pulse.steps EXCEPT !.step = Head(volumeLogic.sent)])
       ELSE UNCHANGED pulse
    /\ UNCHANGED <<hwkeysConnected, volumeWindow, volumeBar>>

-----------------------------------------------------------------------------
(* VolumeBarLogic: each operation says what may become of the members.     *)

(* addSignalMatch: ListenForSignal.                                        *)
AddSignalMatch(l) == [l EXCEPT !.listens = TRUE]

(* initValues: GetAll may be answered by an error.                         *)
InitValues(l) ==
    {AddSignalMatch(l),
     AddSignalMatch([l EXCEPT !.currentvolume = pulse.steps.step, !.currentmax = pulse.steps.count])}

(* openConnection: nothing if there is one, and no values without init.    *)
OpenConnection(l, init) ==
    IF l.dbus_conn = "connected" THEN {l}
    ELSE IF ~pulse.runs THEN {[l EXCEPT !.dbus_conn = "none"]}
    ELSE LET opened == [l EXCEPT !.dbus_conn = "connected"]
         IN  IF init THEN InitValues(opened) ELSE {opened}

(* ping, in volume() and maxVolume().                                      *)
Ping(l) == OpenConnection(l, TRUE)

(* setVolume.                                                              *)
SetVolume(l, value) ==
    {IF o.dbus_conn = "none" THEN o ELSE [o EXCEPT !.sent = Append(@, value)] :
         o \in OpenConnection([l EXCEPT !.currentvolume = value], FALSE)}

(* stepsUpdatedSignal and stepsUpdated.                                    *)
StepsUpdated ==
    /\ pulse.signals # <<>>
    /\ pulse' = [pulse EXCEPT !.signals = Tail(@)]
    /\ volumeLogic' = [volumeLogic EXCEPT !.currentvolume = Head(pulse.signals).step,
                                          !.currentmax = Head(pulse.signals).count]
    /\ UNCHANGED <<hwkeysConnected, volumeWindow, volumeBar>>

-----------------------------------------------------------------------------
(* VolumeBar.                                                              *)

(* Starting an animation of the opacity stops the other one (Qt).          *)
FadeInFrom(b) == [b EXCEPT !.fade = "in", !.opacity = "low"]

SetTargetPercentageStopsFading(b) ==
    [b EXCEPT !.fade = IF @ = "out" THEN "none" ELSE @, !.visibilityTimer = FALSE]

(* setTargetPercentage: the time begins anew, and a bar that fades out or  *)
(* is hardly there fades in.  The percentage itself is left out.           *)
SetTargetPercentage(b) ==
    [(IF b.fade = "out" \/ (b.fade = "none" /\ b.opacity = "low") THEN FadeInFrom(b) ELSE b) EXCEPT
         !.visibilityTimer = TRUE]

(* updateVolume of the window asks twice: volume(), maxVolume().           *)
UpdateVolume(l) ==
    /\ \E a \in Ping(l) : volumeLogic' \in Ping(a)
    /\ volumeBar' = SetTargetPercentage(volumeBar)

(* The user touches the bar (calculateNewVolumeForEvent), or drags out of  *)
(* it: what becomes of a negative number is undefined.                     *)
CalculateNewVolumeForEvent ==
    /\ volumeWindow = "shown"
    /\ Len(volumeLogic.sent) < MaxMessages
    /\ \E l \in Ping(volumeLogic), inside \in BOOLEAN :
           \E value \in IF inside THEN 0..((l.currentmax - 1) % Quint32) ELSE 0..(Quint32 - 1) :
               volumeLogic' \in SetVolume(l, value)
    /\ volumeBar' = SetTargetPercentage(volumeBar)
    /\ UNCHANGED <<pulse, hwkeysConnected, volumeWindow>>

(* The timer repeats; starting a running animation does nothing.           *)
VisibilityTimeout ==
    /\ volumeBar.visibilityTimer
    /\ volumeBar' = [volumeBar EXCEPT !.fade = "out"]
    /\ UNCHANGED <<pulse, volumeLogic, hwkeysConnected, volumeWindow>>

FadeStep ==
    /\ volumeBar.fade # "none"
    /\ volumeBar' = [volumeBar EXCEPT !.opacity = IF volumeBar.fade = "in" THEN "high" ELSE "low"]
    /\ UNCHANGED <<pulse, volumeLogic, hwkeysConnected, volumeWindow>>

FadeInFinished ==
    /\ volumeBar.fade = "in"
    /\ volumeBar' = [volumeBar EXCEPT !.fade = "none", !.opacity = "high"]
    /\ UNCHANGED <<pulse, volumeLogic, hwkeysConnected, volumeWindow>>

(* finishAnimations, which hides the window.                               *)
FinishAnimations ==
    /\ volumeBar.fade = "out"
    /\ volumeBar' = [volumeBar EXCEPT !.fade = "none", !.opacity = "low", !.visibilityTimer = FALSE]
    /\ volumeWindow' = "hidden"
    /\ UNCHANGED <<pulse, volumeLogic, hwkeysConnected>>

-----------------------------------------------------------------------------
(* The hardware keys.                                                      *)

AsInt(quint32) == IF quint32 >= Quint32 \div 2 THEN quint32 - Quint32 ELSE quint32

(* The volume after a press, within limits.                                *)
KeyVolume(volumeChange) ==
    LET volume == AsInt((volumeLogic.currentvolume + volumeChange) % Quint32)
    IN  IF volume >= AsInt(volumeLogic.currentmax) THEN (volumeLogic.currentmax - 1) % Quint32
        ELSE IF volume < 0 THEN 0 ELSE volume

(* hwKeyEvent of a press.                                                  *)
HwKeyEvent(volumeChange) ==
    /\ hwkeysConnected
    /\ Len(volumeLogic.sent) < MaxMessages
    /\ \E l \in SetVolume(volumeLogic, KeyVolume(volumeChange)) : UpdateVolume(l)
    /\ volumeWindow' = "shown"
    /\ UNCHANGED <<pulse, hwkeysConnected>>

(* hwKeyResourceAcquired, hwKeyResourceLost.                               *)
HwKeyResource(acquired) ==
    /\ hwkeysConnected' = acquired
    /\ UNCHANGED <<pulse, volumeLogic, volumeWindow, volumeBar>>

-----------------------------------------------------------------------------
(* A bar that was not made yet is one that was not shown yet.              *)
NewVolumeBar ==
    [visibilityTimer |-> FALSE, fade |-> "none", opacity |-> "low"]

(* The constructor connects, if it can.                                    *)
VolumeInit ==
    /\ \/ pulse = [runs |-> FALSE, steps |-> [count |-> 1, step |-> 0], signals |-> <<>>]
       \/ \E steps \in AllSteps : pulse = [runs |-> TRUE, steps |-> steps, signals |-> <<>>]
    /\ volumeLogic \in OpenConnection([dbus_conn |-> "none", listens |-> FALSE, currentvolume |-> 0,
                                       currentmax |-> 0, sent |-> <<>>], TRUE)
    /\ hwkeysConnected = FALSE
    /\ volumeWindow = "none"
    /\ volumeBar = NewVolumeBar

UserActs == CalculateNewVolumeForEvent \/ \E volumeChange \in {-1, 1} : HwKeyEvent(volumeChange)

VolumeNext ==
    \/ PulseStarts
    \/ PulseDies
    \/ PulseChangesSteps
    \/ PulseSetsCurrentStep
    \/ StepsUpdated
    \/ UserActs
    \/ VisibilityTimeout
    \/ FadeStep
    \/ FadeInFinished
    \/ FinishAnimations
    \/ \E acquired \in BOOLEAN : HwKeyResource(acquired)

VolumeFairness ==
    /\ WF_volumeVars(VisibilityTimeout)
    /\ WF_volumeVars(FinishAnimations)

VolumeSpec == VolumeInit /\ [][VolumeNext]_volumeVars /\ VolumeFairness

-----------------------------------------------------------------------------
(* Properties.                                                             *)

\* Unless keys and touches go on for ever the bar goes away
\* (volumebar.cpp:58-59, 145-155, 158-167).
BarGoesAway == []<><<UserActs>>_volumeVars \/ []<>(volumeWindow # "shown")

=============================================================================
