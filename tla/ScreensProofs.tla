-------------------------- MODULE ScreensProofs --------------------------
(***************************************************************************)
(* The screens for every value of their constants.  The touch screen lock  *)
(* agrees with what it has told its listeners and MCE however many calls   *)
(* wait to be carried out; the USB dialog with the mode, the choices of    *)
(* the user and the lock screen; the shutdown screen brings one logo and   *)
(* the disk notifier one warning; the device lock keeps the status         *)
(* indicator menu away; and neither a drag of the padlock nor a change of  *)
(* the background leaves anything behind on the lock screen.               *)
(***************************************************************************)
EXTENDS UsbUi, Shutdown, StatusIndicatorMenu, LockScreen, SequenceTheorems, FiniteSetTheorems, TLAPS

-----------------------------------------------------------------------------

(* The two definitions in which Next's actions meet.                       *)

LEMMA ShowWindowEffect ==
    ASSUME NEW slot \in ShowSlot, ShowWindow(slot)
    PROVE  /\ screenLockWindow' = "visible"
           /\ extensionMode' = ModeOf(slot)
           /\ extensionMode' \in {"normal", "lowPower", "displayOff"}
           /\ lowPowerMode' = (extensionMode' = "lowPower")
           /\ lowPowerMode' \in BOOLEAN
           /\ UNCHANGED inputVars
           /\ sinkDisabled' = TRUE
           /\ touchScreenLockActive' = [l \in Listener |-> TRUE]
  BY DEF ShowWindow, ShowSlot, ModeOf, Tell, UpdateSinkEnabledStatus, inputVars

LEMMA HideWindowEffect ==
    ASSUME HideWindow, LowPowerModeAgrees,
           screenLockWindow \in {"none", "hidden", "visible"}
    PROVE  /\ screenLockWindow' \in {"none", "hidden"}
           /\ extensionMode' = "normal"
           /\ lowPowerMode' = FALSE
           /\ UNCHANGED inputVars
           /\ sinkDisabled' = (menuVisible' \/ deviceLocked')
           /\ touchScreenLockActive' = [l \in Listener |-> FALSE]
  BY DEF HideWindow, LowPowerModeAgrees, Visible, Tell, UpdateSinkEnabledStatus, inputVars

-----------------------------------------------------------------------------
(* Types, the listeners and the low power mode: an inductive invariant.    *)

LEMMA WindowInvInit == Init => LockConsistent
  <1> SUFFICES ASSUME Init PROVE LockConsistent
    OBVIOUS
  <1>1. TypeOK
    <2>1. posted \in Seq(Slot) /\ Len(posted) <= MaxPosted
      BY MaxPostedAssumption DEF Init
    <2>2. lastRequest \in LockSlot \cup {NoRequest}
      BY DEF Init
    <2>3. touchScreenLockActive \in [Listener -> BOOLEAN]
      BY DEF Init
    <2>4. sinkDisabled \in BOOLEAN /\ deviceLocked \in BOOLEAN
      BY Zenon DEF Init
    <2> QED
      BY <2>1, <2>2, <2>3, <2>4 DEF Init, TypeOK
  <1>2. ListenersFollowLock /\ LowPowerModeAgrees
    BY DEF Init, ListenersFollowLock, LowPowerModeAgrees, Visible
  <1> QED
    BY <1>1, <1>2 DEF LockConsistent

LEMMA PostType ==
    ASSUME TypeOK, NEW slot \in Slot, Post(slot)
    PROVE  /\ posted' \in Seq(Slot)
           /\ Len(posted') <= MaxPosted
           /\ lastRequest' \in LockSlot \cup {NoRequest}
  BY MaxPostedAssumption DEF TypeOK, Post

LEMMA WindowInvStep ==
    ASSUME LockConsistent, [Next]_vars
    PROVE  LockConsistent'
  <1> USE DEF LockConsistent
  <1>1. ASSUME NEW slot \in Slot, TklockOpen(slot) PROVE LockConsistent'
    <2>1. TypeOK'
      BY <1>1, PostType DEF TypeOK, TklockOpen, windowVars, listenerVars, inputVars
    <2>2. (ListenersFollowLock /\ LowPowerModeAgrees)'
      BY <1>1 DEF TklockOpen, windowVars, listenerVars, inputVars, ListenersFollowLock,
                  LowPowerModeAgrees, Visible
    <2> QED
      BY <2>1, <2>2
  <1>2. CASE TklockClose
    <2>1. TypeOK'
      BY <1>2, PostType
      DEF TypeOK, TklockClose, windowVars, listenerVars, inputVars, Slot, LockSlot
    <2>2. (ListenersFollowLock /\ LowPowerModeAgrees)'
      BY <1>2 DEF TklockClose, windowVars, listenerVars, inputVars, ListenersFollowLock,
                  LowPowerModeAgrees, Visible
    <2> QED
      BY <2>1, <2>2
  <1>3. CASE CallPosted
    <2>1. posted' \in Seq(Slot) /\ Len(posted') <= MaxPosted
      BY <1>3, MaxPostedAssumption DEF TypeOK, CallPosted
    <2>2. CASE Head(posted) \in ShowSlot
      <3>1. ShowWindow(Head(posted)) /\ eventEater' = FALSE /\ unlockReported' = FALSE
        BY <1>3, <2>2 DEF CallPosted, ShowSlot
      <3> QED
        BY <1>3, <2>1, <2>2, <3>1, ShowWindowEffect
        DEF CallPosted, inputVars, TypeOK, ListenersFollowLock, LowPowerModeAgrees, Visible
    <2>3. CASE Head(posted) = "hideScreenLockAndEventEater"
      <3>1. HideWindow /\ eventEater' = FALSE /\ unlockReported' = FALSE
        BY <1>3, <2>3 DEF CallPosted, ShowSlot
      <3> QED
        BY <1>3, <2>1, <3>1, HideWindowEffect
        DEF CallPosted, inputVars, TypeOK, ListenersFollowLock, LowPowerModeAgrees, Visible
    <2>4. CASE Head(posted) = "showEventEater"
      <3>1. /\ eventEater' = TRUE
            /\ UNCHANGED <<windowVars, listenerVars, inputVars, unlockReported, callback,
                           shuttingDown, lastRequest>>
        BY <1>3, <2>4 DEF CallPosted, ShowSlot
      <3>2. TypeOK'
        BY <2>1, <3>1 DEF windowVars, listenerVars, inputVars, TypeOK
      <3>3. (ListenersFollowLock /\ LowPowerModeAgrees)'
        BY <3>1 DEF windowVars, listenerVars, inputVars, ListenersFollowLock,
                    LowPowerModeAgrees, Visible
      <3> QED
        BY <3>2, <3>3
    <2> QED
      BY <1>3, <2>2, <2>3, <2>4 DEF CallPosted
  <1>4. CASE UnlockScreen
    BY <1>4, HideWindowEffect
    DEF UnlockScreen, inputVars, TypeOK, ListenersFollowLock, LowPowerModeAgrees, Visible
  <1>5. CASE HideEventEater
    BY <1>5
    DEF HideEventEater, windowVars, listenerVars, inputVars, historyVars, TypeOK,
        ListenersFollowLock, LowPowerModeAgrees, Visible
  <1>6. CASE SystemStateChanged
    BY <1>6, HideWindowEffect
    DEF SystemStateChanged, inputVars, historyVars, TypeOK, ListenersFollowLock,
        LowPowerModeAgrees, Visible
  <1>7. CASE StatusIndicatorMenuVisibilityChanged
    BY <1>7
    DEF StatusIndicatorMenuVisibilityChanged, UpdateSinkEnabledStatus, historyVars, TypeOK,
        ListenersFollowLock, LowPowerModeAgrees, Visible
  <1>8. CASE DeviceLockChanged
    BY <1>8
    DEF DeviceLockChanged, UpdateSinkEnabledStatus, historyVars, TypeOK,
        ListenersFollowLock, LowPowerModeAgrees, Visible
  <1>9. CASE UNCHANGED vars
    BY <1>9
    DEF vars, windowVars, listenerVars, inputVars, historyVars, TypeOK,
        ListenersFollowLock, LowPowerModeAgrees, Visible
  <1> QED
    BY <1>1, <1>2, <1>3, <1>4, <1>5, <1>6, <1>7, <1>8, <1>9 DEF Next

\* Window, contents and listeners agree on the lock, in every order of MCE's calls,
\* of unlocking and of the inputs, however many calls wait.
THEOREM LockAlwaysConsistent == Spec => []LockConsistent
  BY WindowInvInit, WindowInvStep, PTL DEF Spec

\* Every variable holds a value of its type and no more than MaxPosted calls wait.
THEOREM ScreenLockTypeCorrect == Spec => []TypeOK
  <1>1. LockConsistent => TypeOK
    BY DEF LockConsistent
  <1> QED
    BY <1>1, LockAlwaysConsistent, PTL

\* The compositor sink and the battery logic always know whether the lock screen
\* is visible (Sysuid's connections to screenIsLocked).
THEOREM ListenersAlwaysFollowLock == Spec => []ListenersFollowLock
  <1>1. LockConsistent => ListenersFollowLock
    BY DEF LockConsistent
  <1> QED
    BY <1>1, LockAlwaysConsistent, PTL

\* The window is in low power mode exactly while it shows low power contents.
THEOREM LowPowerModeAlwaysAgrees == Spec => []LowPowerModeAgrees
  <1>1. LockConsistent => LowPowerModeAgrees
    BY DEF LockConsistent
  <1> QED
    BY <1>1, LockAlwaysConsistent, PTL

-----------------------------------------------------------------------------
(* MCE and the screen.  MceAgrees says nothing while a request about the   *)
(* lock screen waits; what makes it inductive is that the last of those    *)
(* that wait is MCE's last request, and that MCE's callback is known as    *)
(* soon as a lock screen can come.                                         *)

LastWaiting(i) ==
    /\ i \in DOMAIN posted
    /\ posted[i] \in LockSlot
    /\ \A j \in DOMAIN posted : j > i => posted[j] \notin LockSlot

LastRequestWaits == \A i \in DOMAIN posted : LastWaiting(i) => posted[i] = lastRequest

CallbackKnown ==
    (Visible \/ \E i \in DOMAIN posted : posted[i] \in ShowSlot) => callback = TRUE

MceInv == MceAgrees /\ LastRequestWaits /\ CallbackKnown

LEMMA MceInvInit == Init => MceInv
  BY DEF Init, MceInv, MceAgrees, PendingLockRequest, ScreenAsRequested, LastRequestWaits,
         LastWaiting, CallbackKnown, Visible, NoRequest, LockSlot, ShowSlot

(* A request that is posted waits, behind the others.                      *)
LEMMA PostEffect ==
    ASSUME TypeOK, MceInv, NEW slot \in Slot, Post(slot),
           UNCHANGED <<windowVars, shuttingDown, unlockReported>>
    PROVE  MceAgrees' /\ LastRequestWaits'
  <1>1. /\ posted' = Append(posted, slot)
        /\ posted \in Seq(Slot)
        /\ lastRequest' = IF slot \in LockSlot THEN slot ELSE lastRequest
        /\ UNCHANGED <<screenLockWindow, extensionMode, shuttingDown, unlockReported>>
    BY DEF Post, TypeOK, windowVars
  <1>2. /\ Len(posted') = Len(posted) + 1
        /\ DOMAIN posted = 1 .. Len(posted)
        /\ DOMAIN posted' = 1 .. Len(posted')
        /\ Len(posted) \in Nat
        /\ posted'[Len(posted')] = slot
        /\ \A i \in DOMAIN posted : posted'[i] = posted[i]
    BY <1>1
  <1>3. CASE slot \in LockSlot
    <2>1. PendingLockRequest'
      BY <1>2, <1>3 DEF PendingLockRequest
    <2>2. \A i : LastWaiting(i)' => i = Len(posted')
      BY <1>2, <1>3 DEF LastWaiting
    <2> QED
      BY <1>1, <1>2, <1>3, <2>1, <2>2 DEF MceAgrees, LastRequestWaits
  <1>4. CASE slot \notin LockSlot
    <2>1. PendingLockRequest => PendingLockRequest'
      BY <1>2 DEF PendingLockRequest
    <2>2. \A i : LastWaiting(i)' => LastWaiting(i) /\ posted'[i] = posted[i]
      <3> SUFFICES ASSUME NEW i, LastWaiting(i)'
                   PROVE  LastWaiting(i) /\ posted'[i] = posted[i]
        OBVIOUS
      <3>1. i \in DOMAIN posted
        BY <1>2, <1>4 DEF LastWaiting
      <3> QED
        BY <1>2, <3>1 DEF LastWaiting
    <2>3. MceAgrees'
      BY <1>1, <1>4, <2>1 DEF MceInv, MceAgrees, ScreenAsRequested, Visible
    <2>4. LastRequestWaits'
      BY <1>1, <1>4, <2>2 DEF MceInv, LastRequestWaits, LastWaiting
    <2> QED
      BY <2>3, <2>4
  <1> QED
    BY <1>3, <1>4

(* A request that is carried out no longer waits.                          *)
LEMMA TailEffect ==
    ASSUME TypeOK, MceInv, posted # <<>>, posted' = Tail(posted), UNCHANGED lastRequest
    PROVE  /\ LastRequestWaits'
           /\ Head(posted) \in LockSlot /\ ~PendingLockRequest' => Head(posted) = lastRequest
           /\ Head(posted) \notin LockSlot /\ PendingLockRequest => PendingLockRequest'
           /\ (\E i \in DOMAIN posted' : posted'[i] \in ShowSlot)
                => \E i \in DOMAIN posted : posted[i] \in ShowSlot
           /\ Head(posted) \in Slot
           /\ Head(posted) \in ShowSlot => \E i \in DOMAIN posted : posted[i] \in ShowSlot
  <1>1. /\ posted \in Seq(Slot)
        /\ Len(posted) \in Nat /\ Len(posted) >= 1
        /\ DOMAIN posted = 1 .. Len(posted)
        /\ DOMAIN posted' = 1 .. (Len(posted) - 1)
        /\ \A i \in DOMAIN posted' : posted'[i] = posted[i + 1]
        /\ Head(posted) = posted[1]
        /\ Head(posted) \in Slot
    BY DEF TypeOK
  <1>2. \A i \in DOMAIN posted' : i + 1 \in DOMAIN posted
    BY <1>1
  <1>3. \A i \in DOMAIN posted : i = 1 \/ (i - 1 \in DOMAIN posted' /\ posted'[i - 1] = posted[i])
    BY <1>1
  <1>4. LastRequestWaits'
    <2> SUFFICES ASSUME NEW i, LastWaiting(i)' PROVE posted'[i] = lastRequest
      BY DEF LastRequestWaits
    <2>1. i \in DOMAIN posted' /\ posted'[i] = posted[i + 1] /\ i + 1 \in DOMAIN posted
      BY <1>1, <1>2 DEF LastWaiting
    <2>2. \A j \in DOMAIN posted : j > i + 1 => posted[j] \notin LockSlot
      <3> SUFFICES ASSUME NEW j \in DOMAIN posted, j > i + 1 PROVE posted[j] \notin LockSlot
        OBVIOUS
      <3>1. j - 1 \in DOMAIN posted' /\ posted'[j - 1] = posted[j] /\ j - 1 > i
        BY <1>1, <2>1
      <3> QED
        BY <3>1 DEF LastWaiting
    <2>3. LastWaiting(i + 1)
      BY <2>1, <2>2 DEF LastWaiting
    <2> QED
      BY <2>1, <2>3 DEF MceInv, LastRequestWaits
  <1>5. Head(posted) \in LockSlot /\ ~PendingLockRequest' => Head(posted) = lastRequest
    <2> SUFFICES ASSUME Head(posted) \in LockSlot, ~PendingLockRequest'
                 PROVE  Head(posted) = lastRequest
      OBVIOUS
    <2>1. \A j \in DOMAIN posted : j > 1 => posted[j] \notin LockSlot
      <3> SUFFICES ASSUME NEW j \in DOMAIN posted, j > 1 PROVE posted[j] \notin LockSlot
        OBVIOUS
      <3>1. j - 1 \in DOMAIN posted' /\ posted'[j - 1] = posted[j]
        BY <1>1
      <3> QED
        BY <3>1 DEF PendingLockRequest
    <2>2. LastWaiting(1)
      BY <1>1, <2>1 DEF LastWaiting
    <2> QED
      BY <1>1, <2>2 DEF MceInv, LastRequestWaits, LastWaiting
  <1>6. Head(posted) \notin LockSlot /\ PendingLockRequest => PendingLockRequest'
    BY <1>1, <1>3 DEF PendingLockRequest
  <1>7. (\E i \in DOMAIN posted' : posted'[i] \in ShowSlot)
            => \E i \in DOMAIN posted : posted[i] \in ShowSlot
    BY <1>1, <1>2
  <1> QED
    BY <1>1, <1>4, <1>5, <1>6, <1>7

LEMMA MceInvStep ==
    ASSUME LockConsistent, MceInv, [Next]_vars
    PROVE  MceInv'
  <1>0. TypeOK /\ LowPowerModeAgrees /\ screenLockWindow \in {"none", "hidden", "visible"}
    BY DEF LockConsistent, TypeOK
  <1>1. ASSUME NEW slot \in Slot, TklockOpen(slot) PROVE MceInv'
    <2>1. MceAgrees' /\ LastRequestWaits'
      BY <1>0, <1>1, PostEffect DEF TklockOpen
    <2>2. CallbackKnown'
      BY <1>1 DEF TklockOpen, CallbackKnown
    <2> QED
      BY <2>1, <2>2 DEF MceInv
  <1>2. CASE TklockClose
    <2>1. MceAgrees' /\ LastRequestWaits'
      BY <1>0, <1>2, PostEffect DEF TklockClose, Slot, LockSlot
    <2>2. \A i \in DOMAIN posted' :
            posted'[i] \in ShowSlot => i \in DOMAIN posted /\ posted[i] \in ShowSlot
      BY <1>0, <1>2 DEF TklockClose, Post, ShowSlot, TypeOK
    <2>3. CallbackKnown'
      BY <1>2, <2>2 DEF MceInv, TklockClose, windowVars, CallbackKnown, Visible
    <2> QED
      BY <2>1, <2>3 DEF MceInv
  <1>3. CASE CallPosted
    <2>1. posted # <<>> /\ posted' = Tail(posted) /\ UNCHANGED <<callback, shuttingDown, lastRequest>>
      BY <1>3 DEF CallPosted
    <2>2. CASE Head(posted) \in ShowSlot
      <3>1. ShowWindow(Head(posted)) /\ unlockReported' = FALSE
        BY <1>3, <2>2 DEF CallPosted, ShowSlot
      <3>2. screenLockWindow' = "visible" /\ extensionMode' = ModeOf(Head(posted))
        BY <2>2, <3>1, ShowWindowEffect
      <3>3. MceAgrees'
        BY <1>0, <2>1, <2>2, <3>1, <3>2, TailEffect
        DEF MceAgrees, ScreenAsRequested, Visible, LockSlot
      <3>4. CallbackKnown'
        BY <1>0, <2>1, <2>2, TailEffect DEF MceInv, CallbackKnown
      <3> QED
        BY <1>0, <2>1, <3>3, <3>4, TailEffect DEF MceInv
    <2>3. CASE Head(posted) = "hideScreenLockAndEventEater"
      <3>1. HideWindow /\ unlockReported' = FALSE
        BY <1>3, <2>3 DEF CallPosted, ShowSlot
      <3>2. screenLockWindow' \in {"none", "hidden"}
        BY <1>0, <3>1, HideWindowEffect
      <3>3. MceAgrees'
        BY <1>0, <2>1, <2>3, <3>1, <3>2, TailEffect
        DEF MceAgrees, ScreenAsRequested, Visible, LockSlot, ShowSlot
      <3>4. CallbackKnown'
        BY <1>0, <2>1, <3>2, TailEffect DEF MceInv, CallbackKnown, Visible
      <3> QED
        BY <1>0, <2>1, <3>3, <3>4, TailEffect DEF MceInv
    <2>4. CASE Head(posted) = "showEventEater"
      <3>1. UNCHANGED <<screenLockWindow, extensionMode, unlockReported>>
        BY <1>3, <2>4 DEF CallPosted, ShowSlot, windowVars
      <3>2. Head(posted) \notin LockSlot
        BY <2>4 DEF LockSlot, ShowSlot
      <3>3. MceAgrees'
        BY <1>0, <2>1, <3>1, <3>2, TailEffect DEF MceInv, MceAgrees, ScreenAsRequested, Visible
      <3>4. CallbackKnown'
        BY <1>0, <2>1, <3>1, TailEffect DEF MceInv, CallbackKnown, Visible
      <3> QED
        BY <1>0, <2>1, <3>3, <3>4, TailEffect DEF MceInv
    <2> QED
      BY <1>3, <2>2, <2>3, <2>4 DEF CallPosted
  <1>4. CASE UnlockScreen
    <2>1. /\ screenLockWindow' \in {"none", "hidden"}
          /\ UNCHANGED <<posted, callback, shuttingDown, lastRequest>>
          /\ unlockReported' = (unlockReported \/ callback)
      BY <1>0, <1>4, HideWindowEffect DEF UnlockScreen
    <2>2. callback = TRUE
      BY <1>4 DEF UnlockScreen, MceInv, CallbackKnown
    <2> QED
      BY <2>1, <2>2
      DEF MceInv, MceAgrees, PendingLockRequest, ScreenAsRequested, LastRequestWaits,
          LastWaiting, CallbackKnown, Visible
  <1>5. CASE SystemStateChanged
    <2>1. /\ screenLockWindow' \in {"none", "hidden"}
          /\ UNCHANGED <<posted, callback, lastRequest>>
          /\ shuttingDown' = TRUE
      BY <1>0, <1>5, HideWindowEffect DEF SystemStateChanged, historyVars
    <2> QED
      BY <2>1
      DEF MceInv, MceAgrees, LastRequestWaits, LastWaiting, CallbackKnown, Visible
  <1>6. ASSUME UNCHANGED <<posted, screenLockWindow, extensionMode, callback, shuttingDown,
                           lastRequest, unlockReported>>
        PROVE  MceInv'
    BY <1>6
    DEF MceInv, MceAgrees, PendingLockRequest, ScreenAsRequested, LastRequestWaits,
        LastWaiting, CallbackKnown, Visible
  <1>7. CASE HideEventEater
    BY <1>6, <1>7 DEF HideEventEater, windowVars, historyVars
  <1>8. CASE StatusIndicatorMenuVisibilityChanged
    BY <1>6, <1>8 DEF StatusIndicatorMenuVisibilityChanged, historyVars
  <1>9. CASE DeviceLockChanged
    BY <1>6, <1>9 DEF DeviceLockChanged, historyVars
  <1>10. CASE UNCHANGED vars
    BY <1>6, <1>10 DEF vars, windowVars, historyVars
  <1> QED
    BY <1>1, <1>2, <1>3, <1>4, <1>5, <1>7, <1>8, <1>9, <1>10 DEF Next

\* Once its calls are carried out, MCE's last request is what the screen shows or
\* MCE was told of an unlock, until the shutdown.
THEOREM MceAlwaysAgrees == Spec => []MceAgrees
  <1>1. Spec => []MceInv
    BY LockAlwaysConsistent, MceInvInit, MceInvStep, PTL DEF Spec
  <1>2. MceInv => MceAgrees
    BY DEF MceInv
  <1> QED
    BY <1>1, <1>2, PTL

-----------------------------------------------------------------------------
\* No step lets the event eater stay when it shows, hides or changes the lock
\* screen.
THEOREM EventEaterAlwaysGivesWay == Spec => EventEaterGivesWay
  <1>1. ASSUME [Next]_vars PROVE [windowVars' # windowVars => ~eventEater']_vars
    <2>1. CASE \E slot \in Slot : TklockOpen(slot)
      BY <2>1 DEF TklockOpen, windowVars
    <2>2. CASE CallPosted
      BY <2>2 DEF CallPosted, windowVars
    <2> QED
      BY <1>1, <2>1, <2>2
      DEF Next, vars, windowVars, TklockClose, UnlockScreen, HideEventEater, SystemStateChanged,
          StatusIndicatorMenuVisibilityChanged, DeviceLockChanged
  <1> QED
    BY <1>1, PTL DEF Spec, EventEaterGivesWay

-----------------------------------------------------------------------------

(* What a change of the mode bears on.                                     *)
ModeTypes ==
    /\ usbMode \in Modes
    /\ modeSignals \in Seq(Modes)
    /\ requestedUSBMode \in ModeChoices \cup {"Undefined"}
    /\ requestTimers \in Nat
    /\ dialogVisible \in BOOLEAN
    /\ choice \in ModeChoices \cup {"none"}

(* The last signal on its way is that of the mode there is.                *)
SignalsEndInMode == modeSignals # <<>> => modeSignals[Len(modeSignals)] = usbMode

(* A choice is waiting for its timer, or it is the mode and nothing else   *)
(* is requested; unless there is no cable.                                 *)
ChoiceWaitsOrIsMade ==
    \/ choice = "none"
    \/ usbMode = "Disconnected"
    \/ requestTimers > 0 /\ requestedUSBMode = choice
    \/ usbMode = choice /\ requestedUSBMode = "Undefined"

ModeInv == ModeTypes /\ SignalsEndInMode /\ DialogFollowsMode /\ ChoiceWaitsOrIsMade

usbSystemVars == <<vars, usbVars>>

-----------------------------------------------------------------------------
(* What applying a mode does to the dialog.                                *)
LEMMA AppliedModeShows ==
    ASSUME NEW mode \in Modes, dialogVisible \in BOOLEAN, ApplyUSBMode(mode)
    PROVE  /\ dialogVisible' \in BOOLEAN
           /\ mode \in ModeChoices \cup {"Disconnected", "Undefined"} => ~dialogVisible'
  BY DEF ApplyUSBMode, HideDialog, Modes, ModeChoices

(* A change of the mode is signalled, last.                                *)
LEMMA ChangeIsSignalledLast ==
    ASSUME ModeTypes, NEW mode \in Modes, ModeBecomes(mode)
    PROVE  /\ usbMode' = mode
           /\ modeSignals' \in Seq(Modes)
           /\ modeSignals' # <<>>
           /\ modeSignals'[Len(modeSignals')] = mode
<1>1. usbMode' = mode /\ modeSignals' = Append(modeSignals, mode)
  BY DEF ModeBecomes
<1>2. modeSignals \in Seq(Modes)
  BY DEF ModeTypes
<1>3. QED
  BY <1>1, <1>2

LEMMA ModeStep == ModeInv /\ [UsbNext]_usbSystemVars => ModeInv'
<1> SUFFICES ASSUME ModeInv, [UsbNext]_usbSystemVars
             PROVE  ModeInv'
  OBVIOUS
<1> USE DEF ModeInv
<1>1. CASE ApplyCurrentUSBMode
  <2>1. /\ ApplyUSBMode(usbMode)
        /\ UNCHANGED <<usbMode, modeSignals, requestedUSBMode, requestTimers, choice>>
    BY <1>1 DEF ApplyCurrentUSBMode
  <2>2. /\ dialogVisible' \in BOOLEAN
        /\ usbMode \in ModeChoices \cup {"Disconnected", "Undefined"} => ~dialogVisible'
    BY <2>1, AppliedModeShows DEF ModeTypes
  <2>3. QED
    BY <2>1, <2>2 DEF ModeTypes, SignalsEndInMode, DialogFollowsMode, ChoiceWaitsOrIsMade
<1>2. CASE ModeChanged
  <2>1. /\ modeSignals # <<>>
        /\ modeSignals' = Tail(modeSignals)
        /\ ApplyUSBMode(Head(modeSignals))
        /\ UNCHANGED <<usbMode, requestedUSBMode, requestTimers, choice>>
    BY <1>2 DEF ModeChanged
  <2>2. modeSignals \in Seq(Modes) /\ Head(modeSignals) \in Modes /\ modeSignals' \in Seq(Modes)
    BY <2>1 DEF ModeTypes
  <2>3. /\ dialogVisible' \in BOOLEAN
        /\ Head(modeSignals) \in ModeChoices \cup {"Disconnected", "Undefined"} => ~dialogVisible'
    BY <2>1, <2>2, AppliedModeShows DEF ModeTypes
  <2>4. ModeTypes'
    BY <2>1, <2>2, <2>3 DEF ModeTypes
  <2>5. SignalsEndInMode'
    <3>1. SUFFICES ASSUME modeSignals' # <<>>
                   PROVE  modeSignals'[Len(modeSignals')] = usbMode'
      BY DEF SignalsEndInMode
    <3>2. Len(modeSignals') = Len(modeSignals) - 1 /\ Len(modeSignals') > 0
      BY <2>1, <2>2, <3>1
    <3>3. modeSignals'[Len(modeSignals')] = modeSignals[Len(modeSignals)]
      BY <2>1, <2>2, <3>2
    <3>4. QED
      BY <2>1, <3>3 DEF SignalsEndInMode
  <2>6. DialogFollowsMode'
    <3>1. SUFFICES ASSUME modeSignals' = <<>>, dialogVisible'
                   PROVE  usbMode' \notin ModeChoices \cup {"Disconnected", "Undefined"}
      BY DEF DialogFollowsMode
    <3>2. Len(modeSignals) = 1
      <4>1. Len(Tail(modeSignals)) = Len(modeSignals) - 1 /\ Len(modeSignals) \in Nat
        BY <2>1, <2>2
      <4>2. Len(Tail(modeSignals)) = 0
        BY <2>1, <2>2, <3>1, EmptySeq
      <4>3. QED
        BY <4>1, <4>2
    <3>3. Head(modeSignals) = usbMode
      <4>1. modeSignals[Len(modeSignals)] = usbMode
        BY <2>1 DEF SignalsEndInMode
      <4>2. Head(modeSignals) = modeSignals[1]
        BY <2>1, <2>2
      <4>3. QED
        BY <4>1, <4>2, <3>2
    <3>4. QED
      BY <2>1, <2>3, <3>1, <3>3
  <2>7. ChoiceWaitsOrIsMade'
    BY <2>1 DEF ChoiceWaitsOrIsMade
  <2>8. QED
    BY <2>4, <2>5, <2>6, <2>7
<1>3. ASSUME NEW mode \in Modes, OthersChangeMode(mode)
      PROVE  ModeInv'
  <2>1. /\ ModeBecomes(mode) /\ choice' = "none"
        /\ UNCHANGED <<requestedUSBMode, requestTimers, dialogVisible>>
    BY <1>3 DEF OthersChangeMode, dialogVars
  <2>2. QED
    BY <2>1, ChangeIsSignalledLast
       DEF ModeTypes, SignalsEndInMode, DialogFollowsMode, ChoiceWaitsOrIsMade
<1>4. ASSUME NEW mode \in ModeChoices, SetMode(mode)
      PROVE  ModeInv'
  <2>1. /\ ~dialogVisible' /\ dialogVisible' \in BOOLEAN
        /\ requestedUSBMode' = mode /\ requestTimers' = requestTimers + 1 /\ choice' = mode
        /\ UNCHANGED <<usbMode, modeSignals>>
    BY <1>4 DEF SetMode, HideDialog
  <2>2. QED
    BY <2>1 DEF ModeTypes, SignalsEndInMode, DialogFollowsMode, ChoiceWaitsOrIsMade
<1>5. CASE SetRequestedUSBMode
  <2>1. /\ requestTimers' = requestTimers - 1 /\ requestTimers' \in Nat
        /\ requestedUSBMode' = "Undefined"
        /\ UNCHANGED <<dialogVisible, choice>>
    BY <1>5 DEF SetRequestedUSBMode, ModeTypes
  <2>2. CASE requestedUSBMode \notin {"Undefined", usbMode} /\ usbMode # "Disconnected"
    <3>1. ModeBecomes(requestedUSBMode)
      BY <1>5, <2>2 DEF SetRequestedUSBMode
    <3>2. requestedUSBMode \in Modes
      BY DEF ModeTypes, Modes
    <3>3. /\ usbMode' = requestedUSBMode /\ modeSignals' \in Seq(Modes) /\ modeSignals' # <<>>
          /\ modeSignals'[Len(modeSignals')] = requestedUSBMode
      BY <3>1, <3>2, ChangeIsSignalledLast
    <3>4. ChoiceWaitsOrIsMade'
      BY <2>1, <2>2, <3>3 DEF ChoiceWaitsOrIsMade
    <3>5. QED
      BY <2>1, <3>2, <3>3, <3>4 DEF ModeTypes, SignalsEndInMode, DialogFollowsMode
  <2>3. CASE ~(requestedUSBMode \notin {"Undefined", usbMode} /\ usbMode # "Disconnected")
    <3>1. UNCHANGED <<usbMode, modeSignals>>
      BY <1>5, <2>3 DEF SetRequestedUSBMode
    <3>2. ChoiceWaitsOrIsMade'
      BY <2>1, <2>3, <3>1 DEF ChoiceWaitsOrIsMade, ModeTypes, ModeChoices
    <3>3. QED
      BY <2>1, <3>1, <3>2 DEF ModeTypes, SignalsEndInMode, DialogFollowsMode
  <2>4. QED
    BY <2>2, <2>3
<1>6. CASE DeveloperModeChanged \/ LockActs \/ UNCHANGED usbSystemVars
  <2>1. UNCHANGED <<usbMode, modeSignals, requestedUSBMode, requestTimers, dialogVisible, choice>>
    BY <1>6 DEF DeveloperModeChanged, LockActs, usbSystemVars, usbVars, dialogVars
  <2>2. QED
    BY <2>1 DEF ModeTypes, SignalsEndInMode, DialogFollowsMode, ChoiceWaitsOrIsMade
<1>7. QED
  BY <1>1, <1>2, <1>3, <1>4, <1>5, <1>6 DEF UsbNext

LEMMA ModeStarts == UsbInit => ModeInv
<1> SUFFICES ASSUME UsbInit
             PROVE  ModeInv
  OBVIOUS
<1>1. /\ usbMode \in Modes /\ requestedUSBMode = "Undefined" /\ requestTimers = 0
      /\ dialogVisible = FALSE /\ choice = "none"
  BY DEF UsbInit, Modes
<1>2. modeSignals = <<>> /\ modeSignals \in Seq(Modes)
  BY DEF UsbInit
<1>3. ModeTypes
  BY <1>1, <1>2 DEF ModeTypes
<1>4. QED
  BY <1>1, <1>2, <1>3 DEF ModeInv, SignalsEndInMode, DialogFollowsMode, ChoiceWaitsOrIsMade

-----------------------------------------------------------------------------
(* The dialog and the lock screen: the lock hears of the dialog when it    *)
(* appears, and only another request covers it again.                      *)
LEMMA AppliedModeUnlocks ==
    ASSUME NEW mode, DialogUnlocks, ApplyUSBMode(mode)
    PROVE  DialogUnlocks'
<1>1. ASSUME mode = "Ask" \/ UnlockForDialog
      PROVE  DialogUnlocks'
  <2>1. UnlockForDialog
    BY <1>1 DEF ApplyUSBMode, ModeChoices
  <2>2. ~Visible'
    <3>1. CASE Visible
      <4>1. screenLockWindow' = "hidden"
        BY <2>1, <3>1 DEF UnlockForDialog, UnlockScreen, HideWindow
      <4>2. QED
        BY <4>1 DEF Visible
    <3>2. CASE ~Visible
      BY <2>1, <3>2 DEF UnlockForDialog, vars, windowVars, Visible
    <3>3. QED
      BY <3>1, <3>2
  <2>3. QED
    BY <2>2 DEF DialogUnlocks
<1>2. ASSUME ~(mode = "Ask" \/ UnlockForDialog)
      PROVE  DialogUnlocks'
  <2>1. NoUnlock /\ (~dialogVisible' \/ UNCHANGED dialogVisible)
    BY <1>2 DEF ApplyUSBMode, HideDialog
  <2>2. QED
    BY <2>1 DEF NoUnlock, vars, windowVars, Visible, DialogUnlocks
<1>3. QED
  BY <1>1, <1>2

LEMMA DialogStep == DialogUnlocks /\ [UsbNext]_usbSystemVars => DialogUnlocks'
<1> SUFFICES ASSUME DialogUnlocks, [UsbNext]_usbSystemVars
             PROVE  DialogUnlocks'
  OBVIOUS
<1>1. CASE ApplyCurrentUSBMode \/ ModeChanged
  BY <1>1, AppliedModeUnlocks DEF ApplyCurrentUSBMode, ModeChanged
<1>2. CASE LockActs
  <2>1. /\ lockedAfterDialog' = (lockedAfterDialog \/ (Visible' /\ windowVars' # windowVars))
        /\ UNCHANGED dialogVisible
    BY <1>2 DEF LockActs, dialogVars
  <2>2. SUFFICES ASSUME dialogVisible', ~lockedAfterDialog'
                 PROVE  ~Visible'
    BY DEF DialogUnlocks
  <2>3. Visible' => windowVars' # windowVars
    BY <2>1, <2>2 DEF DialogUnlocks, windowVars, Visible
  <2>4. QED
    BY <2>1, <2>2, <2>3
<1>3. CASE \/ \E mode \in Modes : OthersChangeMode(mode)
           \/ \E mode \in ModeChoices : SetMode(mode)
           \/ SetRequestedUSBMode \/ DeveloperModeChanged \/ UNCHANGED usbSystemVars
  <2>1. /\ UNCHANGED <<screenLockWindow, lockedAfterDialog>>
        /\ ~dialogVisible' \/ UNCHANGED dialogVisible
    BY <1>3 DEF OthersChangeMode, SetMode, SetRequestedUSBMode, DeveloperModeChanged, HideDialog,
                usbSystemVars, vars, windowVars, usbVars, dialogVars
  <2>2. QED
    BY <2>1 DEF DialogUnlocks, Visible
<1>4. QED
  BY <1>1, <1>2, <1>3 DEF UsbNext

-----------------------------------------------------------------------------
\* However the cable, the user, MCE and the signals overtake each other, the dialog is
\* there only for a mode that is still to be chosen, and in front of the lock screen
\* unless that was asked for after it (usbui.cpp:139-230, sysuid.cpp:155-156).
THEOREM DialogAlwaysInPlace == UsbSpec => []DialogInPlace
<1>1. UsbInit => DialogUnlocks
  BY DEF UsbInit, DialogUnlocks
<1>2. UsbSpec => []DialogUnlocks
  BY <1>1, DialogStep, PTL DEF UsbSpec, usbSystemVars
<1>3. UsbSpec => []ModeInv
  BY ModeStarts, ModeStep, PTL DEF UsbSpec, usbSystemVars
<1>4. ModeInv /\ DialogUnlocks => DialogInPlace
  BY DEF ModeInv, DialogInPlace
<1>5. QED
  BY <1>2, <1>3, <1>4, PTL

\* The user's last choice is the mode once his timers have expired, however many
\* choices he made before (usbui.cpp:160-200).
THEOREM LastChoiceAlwaysCounts == UsbSpec => []LastChoiceCounts
<1>1. UsbSpec => []ModeInv
  BY ModeStarts, ModeStep, PTL DEF UsbSpec, usbSystemVars
<1>2. ModeInv => LastChoiceCounts
  BY DEF ModeInv, ModeTypes, ChoiceWaitsOrIsMade, LastChoiceCounts
<1>3. QED
  BY <1>1, <1>2, PTL

-----------------------------------------------------------------------------
(* The logo.  The labels are there from the time the contents are made     *)
(* until the logo replaces them, and their timer runs only then.           *)

LogoInv ==
    /\ realized \in BOOLEAN /\ labels \in BOOLEAN /\ labelTimer \in BOOLEAN
    /\ logos \in {0, 1}
    /\ logos = 0 <=> (realized => labels)
    /\ labels => realized
    /\ labelTimer => labels

LEMMA LogoComes ==
    ASSUME logos = 0, LogoReplacesLabels, realized' = TRUE, labelTimer' = FALSE
    PROVE  LogoInv'
<1>1. labels' = FALSE /\ logos' = logos + 1
  BY DEF LogoReplacesLabels
<1>2. logos' = 1
  BY <1>1
<1>3. logos' # 0 /\ logos' \in {0, 1}
  BY <1>2
<1>4. QED
  BY <1>1, <1>3, Zenon DEF LogoInv

LEMMA LogoStep == LogoInv /\ [ShutdownActs \/ DiskActs]_<<shutdownVars, diskVars>> => LogoInv'
<1> SUFFICES ASSUME LogoInv, [ShutdownActs \/ DiskActs]_<<shutdownVars, diskVars>>
             PROVE  LogoInv'
  OBVIOUS
<1>1. CASE RealizeInAdvance
  BY <1>1 DEF LogoInv, RealizeInAdvance, Realize
<1>2. ASSUME NEW text \in BOOLEAN, ShowUI(text)
      PROVE  LogoInv'
  <2>1. CASE realized /\ ~labels
    BY <1>2, <2>1 DEF LogoInv, ShowUI
  <2>2. CASE ~(realized /\ ~labels)
    <3>1. logos = 0
      BY <2>2 DEF LogoInv
    <3>2. ShowShutdownWindow(text)
      BY <1>2, <2>2 DEF ShowUI
    <3>3. CASE text
      BY <3>1, <3>2, <3>3, <2>2 DEF LogoInv, ShowShutdownWindow
    <3>4. CASE ~text
      BY <3>1, <3>2, <3>4, LogoComes DEF ShowShutdownWindow
    <3>5. QED
      BY <3>3, <3>4
  <2>3. QED
    BY <2>1, <2>2
<1>3. ASSUME NEW what, ShutdownStateChanged(what)
      PROVE  LogoInv'
  <2>1. CASE ShowUI(FALSE)
    BY <1>2, <2>1
  <2>2. CASE UNCHANGED <<realized, labels, logos, labelTimer>>
    BY <2>2 DEF LogoInv
  <2>3. QED
    BY <1>3, <2>1, <2>2 DEF ShutdownStateChanged
<1>4. CASE ShowLogo
  <2>1. logos = 0 /\ realized = TRUE
    BY <1>4 DEF LogoInv, ShowLogo
  <2>2. realized' = TRUE /\ labelTimer' = FALSE /\ LogoReplacesLabels
    BY <1>4, <2>1 DEF ShowLogo
  <2>3. QED
    BY <2>1, <2>2, LogoComes
<1>5. CASE TurnOffScreen
  BY <1>5 DEF LogoInv, TurnOffScreen
<1>6. CASE DiskActs \/ UNCHANGED <<shutdownVars, diskVars>>
  BY <1>6 DEF LogoInv, DiskActs, shutdownVars
<1>7. QED
  BY <1>1, <1>2, <1>3, <1>4, <1>5, <1>6 DEF ShutdownActs, ShowScreen

\* Whatever is asked of the shutdown screen, by the system and over D-Bus, one
\* logo replaces the labels, and no timer does so again (shutdownui.cpp:116-172).
THEOREM OneLogoEver == ShutdownSpec => []OneLogo
<1>1. ShutdownInit => LogoInv
  BY DEF ShutdownInit, LogoInv
<1>2. LogoInv => OneLogo
  BY DEF LogoInv, OneLogo
<1>3. QED
  BY <1>1, <1>2, LogoStep, PTL DEF ShutdownSpec

-----------------------------------------------------------------------------
(* The warning.                                                            *)

DiskInv ==
    /\ notificationsSentForPath \in [Paths -> SUBSET {"high", "full"}]
    /\ \/ diskNotifications = {}
       \/ \E path \in Paths, level \in {"high", "full"} :
              /\ diskNotifications = {<<path, level>>}
              /\ level \in notificationsSentForPath[path]

LEMMA DiskStep == DiskInv /\ [ShutdownActs \/ DiskActs]_<<shutdownVars, diskVars>> => DiskInv'
<1> SUFFICES ASSUME DiskInv, [ShutdownActs \/ DiskActs]_<<shutdownVars, diskVars>>
             PROVE  DiskInv'
  OBVIOUS
<1>1. CASE RestartDiskNotifier
  BY <1>1 DEF DiskInv, RestartDiskNotifier
<1>2. ASSUME NEW path \in Paths, NEW level \in {"high", "full"}, HandleDiskSpaceChange(path, level)
      PROVE  DiskInv'
  <2>1. CASE level \in notificationsSentForPath[path]
    BY <1>2, <2>1 DEF DiskInv, HandleDiskSpaceChange
  <2>2. CASE level \notin notificationsSentForPath[path]
    <3>1. /\ notificationsSentForPath' =
                 [notificationsSentForPath EXCEPT ![path] = @ \cup {level}]
          /\ diskNotifications' = {<<path, level>>}
      BY <1>2, <2>2 DEF HandleDiskSpaceChange
    <3>2. notificationsSentForPath' \in [Paths -> SUBSET {"high", "full"}]
      BY <3>1 DEF DiskInv
    <3>3. level \in notificationsSentForPath'[path]
      BY <3>1 DEF DiskInv
    <3>4. QED
      BY <3>1, <3>2, <3>3 DEF DiskInv
  <2>3. QED
    BY <2>1, <2>2
<1>3. CASE \E path \in Paths : SpaceFreed(path)
  BY <1>3 DEF DiskInv, SpaceFreed
<1>4. CASE WarningDismissed
  BY <1>4 DEF DiskInv, WarningDismissed
<1>5. CASE ShutdownActs \/ UNCHANGED <<shutdownVars, diskVars>>
  BY <1>5 DEF DiskInv, ShutdownActs, diskVars
<1>6. QED
  BY <1>1, <1>2, <1>3, <1>4, <1>5 DEF DiskActs

\* Whichever file systems fill up, in whatever order, and across restarts, there is
\* one warning at most (diskspacenotifier.cpp:29-35, 45-76).
THEOREM WarnedOnceEver == ShutdownSpec => []WarnedOnce
<1>1. DiskInit => DiskInv
  BY DEF DiskInit, DiskInv
<1>2. DiskInv => WarnedOnce
  <2>1. ASSUME DiskInv PROVE Cardinality(diskNotifications) <= 1
    <3>1. CASE diskNotifications = {}
      BY <3>1, FS_EmptySet
    <3>2. CASE \E warning : diskNotifications = {warning}
      BY <3>2, FS_Singleton
    <3>3. QED
      BY <2>1, <3>1, <3>2 DEF DiskInv
  <2>2. ASSUME DiskInv, NEW warning \in diskNotifications
        PROVE  warning[2] \in notificationsSentForPath[warning[1]]
    BY <2>2 DEF DiskInv
  <2>3. QED
    BY <2>1, <2>2 DEF WarnedOnce
<1>3. QED
  BY <1>1, <1>2, DiskStep, PTL DEF ShutdownSpec

-----------------------------------------------------------------------------
(* The types of what the lock bears on.                                    *)
MenuTypes ==
    /\ menuWindow \in [visible : BOOLEAN, onDisplay : BOOLEAN, obscured : BOOLEAN, timers : Int]
    /\ locks \in [device : BOOLEAN, screen : BOOLEAN]
    /\ previewsDisabled \in BOOLEAN

MenuInv == MenuTypes /\ NoMenuWhileLocked

-----------------------------------------------------------------------------
(* Whoever hides the window leaves it invisible, and previews are off if   *)
(* the device is locked.                                                   *)
LEMMA HidingKeepsAway ==
    ASSUME MenuInv, NEW l \in [device : BOOLEAN, screen : BOOLEAN], locks' = l, HideMenuWindow(l)
    PROVE  MenuInv'
<1>1. /\ menuWindow' = [menuWindow EXCEPT !.visible = FALSE]
      /\ previewsDisabled' = (menuWindow'.visible \/ l.screen \/ l.device)
  BY DEF HideMenuWindow, UpdateCompositorNotificationSink
<1>2. menuWindow' \in [visible : BOOLEAN, onDisplay : BOOLEAN, obscured : BOOLEAN, timers : Int]
      /\ menuWindow'.visible = FALSE
  BY <1>1 DEF MenuInv, MenuTypes
<1>3. previewsDisabled' \in BOOLEAN /\ (l.device => previewsDisabled')
  BY <1>1, <1>2
<1>4. QED
  BY <1>2, <1>3 DEF MenuInv, MenuTypes, NoMenuWhileLocked

(* An unlocked device that stays unlocked may show what it likes.          *)
LEMMA UnlockedMayShow ==
    ASSUME MenuInv, ~locks.device, UNCHANGED locks,
           menuWindow' \in [visible : BOOLEAN, onDisplay : BOOLEAN, obscured : BOOLEAN, timers : Int],
           previewsDisabled' \in BOOLEAN
    PROVE  MenuInv'
  BY DEF MenuInv, MenuTypes, NoMenuWhileLocked

LEMMA MenuStep == MenuInv /\ [MenuNext]_menuVars => MenuInv'
<1> SUFFICES ASSUME MenuInv, [MenuNext]_menuVars
             PROVE  MenuInv'
  OBVIOUS
<1> DEFINE Window == [visible : BOOLEAN, onDisplay : BOOLEAN, obscured : BOOLEAN, timers : Int]
<1>t. menuWindow \in Window /\ locks \in [device : BOOLEAN, screen : BOOLEAN]
  BY DEF MenuInv, MenuTypes
<1>1. CASE MakeVisible
  <2>1. menuWindow' \in Window
    BY <1>1, <1>t DEF MakeVisible
  <2>2. ~locks.device /\ UNCHANGED <<locks, previewsDisabled>>
    BY <1>1 DEF MakeVisible
  <2>3. QED
    BY <2>1, <2>2, UnlockedMayShow DEF MenuInv, MenuTypes
<1>2. CASE MenuDisappeared
  BY <1>2, <1>t, HidingKeepsAway DEF MenuDisappeared
<1>3. CASE DisplayActive
  <2>1. menuWindow' \in Window /\ UNCHANGED locks
    BY <1>3, <1>t DEF DisplayActive
  <2>2. previewsDisabled' = (menuWindow'.visible \/ locks.screen \/ locks.device)
    BY <1>3 DEF DisplayActive, UpdateCompositorNotificationSink
  <2>3. previewsDisabled' \in BOOLEAN
    BY <2>1, <2>2, <1>t
  <2>4. ~locks.device
    BY <1>3 DEF DisplayActive, MenuInv, NoMenuWhileLocked
  <2>5. QED
    BY <2>1, <2>3, <2>4, UnlockedMayShow
<1>4. ASSUME DisplayInActive \/ InitializeMenuWidget
      PROVE  MenuInv'
  <2>1. menuWindow' \in Window /\ menuWindow'.visible = FALSE
    <3>1. CASE DisplayInActive
      BY <3>1, <1>t DEF DisplayInActive
    <3>2. CASE InitializeMenuWidget
      <4>1. menuWindow' = [menuWindow EXCEPT !.timers = @ - 1, !.visible = FALSE]
        BY <3>2 DEF InitializeMenuWidget
      <4>2. menuWindow.timers - 1 \in Int
        BY <1>t
      <4>3. QED
        BY <4>1, <4>2, <1>t
    <3>3. QED
      BY <3>1, <3>2, <1>4
  <2>2. /\ UNCHANGED locks
        /\ previewsDisabled' = (menuWindow'.visible \/ locks.screen \/ locks.device)
    <3>1. CASE DisplayInActive
      BY <3>1 DEF DisplayInActive, UpdateCompositorNotificationSink
    <3>2. CASE InitializeMenuWidget
      BY <3>2 DEF InitializeMenuWidget, UpdateCompositorNotificationSink
    <3>3. QED
      BY <3>1, <3>2, <1>4
  <2>3. previewsDisabled' \in BOOLEAN /\ (locks'.device => previewsDisabled')
    BY <2>1, <2>2, <1>t
  <2>4. QED
    BY <2>1, <2>2, <2>3, <1>t DEF MenuInv, MenuTypes, NoMenuWhileLocked
<1>5. CASE Obscured \/ LanguageChanges
  <2>1. menuWindow' \in Window /\ menuWindow'.visible = menuWindow.visible
    <3>1. CASE Obscured
      BY <3>1, <1>t DEF Obscured
    <3>2. CASE LanguageChanges
      <4>1. menuWindow' = [menuWindow EXCEPT !.timers = @ + 1]
        BY <3>2 DEF LanguageChanges
      <4>2. menuWindow.timers + 1 \in Int
        BY <1>t
      <4>3. QED
        BY <4>1, <4>2, <1>t
    <3>3. QED
      BY <3>1, <3>2, <1>5
  <2>2. UNCHANGED <<locks, previewsDisabled>>
    BY <1>5 DEF Obscured, LanguageChanges
  <2>3. QED
    BY <2>1, <2>2 DEF MenuInv, MenuTypes, NoMenuWhileLocked
<1>6. CASE DeviceLockChanges
  <2>1. locks' \in [device : BOOLEAN, screen : BOOLEAN]
    BY <1>6, <1>t DEF DeviceLockChanges
  <2>2. CASE locks'.device /\ menuWindow.visible
    BY <1>6, <2>1, <2>2, HidingKeepsAway DEF DeviceLockChanges
  <2>3. CASE ~(locks'.device /\ menuWindow.visible)
    <3>1. /\ UNCHANGED menuWindow
          /\ previewsDisabled' = (menuWindow.visible \/ locks'.screen \/ locks'.device)
      BY <1>6, <2>3 DEF DeviceLockChanges, UpdateCompositorNotificationSink
    <3>2. previewsDisabled' \in BOOLEAN /\ (locks'.device => previewsDisabled')
      BY <3>1, <2>1, <1>t
    <3>3. QED
      BY <3>1, <3>2, <2>1, <2>3, <1>t DEF MenuInv, MenuTypes, NoMenuWhileLocked
  <2>4. QED
    BY <2>2, <2>3
<1>7. CASE TouchScreenLocks
  BY <1>7, <1>t, HidingKeepsAway DEF TouchScreenLocks
<1>8. CASE ScreenIsLocked
  <2>1. /\ locks' \in [device : BOOLEAN, screen : BOOLEAN]
        /\ locks'.device = locks.device
    BY <1>8, <1>t DEF ScreenIsLocked
  <2>2. /\ UNCHANGED menuWindow
        /\ previewsDisabled' = (menuWindow.visible \/ locks'.screen \/ locks'.device)
    BY <1>8 DEF ScreenIsLocked, UpdateCompositorNotificationSink
  <2>3. previewsDisabled' \in BOOLEAN /\ (locks'.device => previewsDisabled')
    BY <2>1, <2>2, <1>t
  <2>4. QED
    BY <2>1, <2>2, <2>3 DEF MenuInv, MenuTypes, NoMenuWhileLocked
<1>9. CASE \/ HideRequested \/ ViewTimeout \/ SetPannabilityAndLayout \/ Pans
           \/ LaunchPowerOffDialog \/ PowerOffDialogAnswered \/ UNCHANGED menuVars
  <2>1. UNCHANGED <<menuWindow, locks, previewsDisabled>>
    BY <1>9 DEF HideRequested, ViewTimeout, SetPannabilityAndLayout, Pans, LaunchPowerOffDialog,
                PowerOffDialogAnswered, menuVars
  <2>2. QED
    BY <2>1 DEF MenuInv, MenuTypes, NoMenuWhileLocked
<1>10. QED
  BY <1>1, <1>2, <1>3, <1>4, <1>5, <1>6, <1>7, <1>8, <1>9 DEF MenuNext

\* Whatever opens and closes the menu, the window is not visible while the device is
\* locked, and previews are off then (statusindicatormenuwindow.cpp:115-159,
\* sysuid.cpp:216-223).
THEOREM NoMenuEverWhileLocked == MenuSpec => []NoMenuWhileLocked
<1>1. MenuInit => MenuInv
  <2> SUFFICES ASSUME MenuInit
               PROVE  MenuInv
    OBVIOUS
  <2>1. /\ menuWindow = [visible |-> FALSE, onDisplay |-> FALSE, obscured |-> FALSE, timers |-> 1]
        /\ locks \in [device : BOOLEAN, screen : {FALSE}]
        /\ previewsDisabled = locks.device
    BY DEF MenuInit
  <2>2. locks \in [device : BOOLEAN, screen : BOOLEAN] /\ locks.device \in BOOLEAN
    BY <2>1
  <2>3. menuWindow \in [visible : BOOLEAN, onDisplay : BOOLEAN, obscured : BOOLEAN, timers : Int]
        /\ menuWindow.visible = FALSE
    BY <2>1
  <2>4. previewsDisabled \in BOOLEAN /\ (locks.device => previewsDisabled)
    BY <2>1, <2>2
  <2>5. QED
    BY <2>2, <2>3, <2>4 DEF MenuInv, MenuTypes, NoMenuWhileLocked
<1>2. MenuInv => NoMenuWhileLocked
  BY DEF MenuInv
<1>3. QED
  BY <1>1, <1>2, MenuStep, PTL DEF MenuSpec

-----------------------------------------------------------------------------
(* A drag: its state, what of it is on the screen, and whether the finger  *)
(* may be away, which ends every drag.                                     *)
DragStates == {"STATE_NONE", "STATE_MOVING", "STATE_MOVING_ACTIVE"}
Icons == {"LockScreenDnDIcon", "LockScreenDnDIconActive"}

DragType ==
    /\ drag \in [state : DragStates, icon : Icons, overlay : BOOLEAN, drawPending : BOOLEAN,
                 padlock : BOOLEAN, onDisplay : BOOLEAN, notificationArea : BOOLEAN]
    /\ area \in [enabled : BOOLEAN, active : BOOLEAN]

DragInv ==
    /\ DragType
    /\ finger = "away" => drag.state = "STATE_NONE"
    /\ drag.state = "STATE_NONE" => ~drag.overlay /\ drag.padlock /\ ~area.enabled

(* The background: the kind of a pixmap is known, and it is on loan if it  *)
(* is one of the theme's.                                                  *)
BackgroundType(b) ==
    b \in [pixmap : [Orientations -> Pictures], fromTheme : [Orientations -> BOOLEAN],
           borrowed : [Orientations -> BOOLEAN], deleted : BOOLEAN, custom : BOOLEAN]

BackgroundInv(b) ==
    /\ BackgroundType(b)
    /\ ~b.deleted
    /\ \A o \in Orientations :
        /\ b.pixmap[o] # "none" => b.fromTheme[o] = (b.pixmap[o] = "theme")
        /\ b.borrowed[o] = (b.pixmap[o] = "theme")

StyleInv(b) == b.custom = (\A o \in Orientations : Valid(b, o))

LockScreenInv == DragInv /\ BackgroundInv(background) /\ StyleInv(background)

-----------------------------------------------------------------------------
(* What is drawn is drawn in the state of the drag, and only the icon and  *)
(* its overlay change.                                                     *)
LEMMA UpdateKeepsDrag ==
    ASSUME NEW d \in [state : DragStates, icon : Icons, overlay : BOOLEAN, drawPending : BOOLEAN,
                      padlock : BOOLEAN, onDisplay : BOOLEAN, notificationArea : BOOLEAN]
    PROVE  /\ UpdateDragAndDropIcon(d) \in
                [state : DragStates, icon : Icons, overlay : BOOLEAN, drawPending : BOOLEAN,
                 padlock : BOOLEAN, onDisplay : BOOLEAN, notificationArea : BOOLEAN]
           /\ UpdateDragAndDropIcon(d).state = d.state
           /\ UpdateDragAndDropIcon(d).padlock = d.padlock
           /\ UpdateDragAndDropIcon(d).overlay = (d.state # "STATE_NONE")
<1> DEFINE icon == IF d.state = "STATE_MOVING_ACTIVE" /\ d.icon # "LockScreenDnDIconActive"
                   THEN "LockScreenDnDIconActive" ELSE "LockScreenDnDIcon"
<1>1. icon \in Icons /\ (d.state # "STATE_NONE") \in BOOLEAN
  BY DEF Icons
<1>2. UpdateDragAndDropIcon(d) = [d EXCEPT !.icon = icon, !.overlay = (d.state # "STATE_NONE")]
  BY DEF UpdateDragAndDropIcon
<1> HIDE DEF icon
<1>3. QED
  BY <1>1, <1>2

(* Whoever resets the view, under a finger or not, clears the screen.      *)
LEMMA ResetClears == DragInv /\ ResetView => DragInv'
<1> SUFFICES ASSUME DragInv, ResetView
             PROVE  DragInv'
  OBVIOUS
<1> DEFINE d == [drag EXCEPT !.state = "STATE_NONE", !.padlock = TRUE]
<1>1. /\ d \in [state : DragStates, icon : Icons, overlay : BOOLEAN, drawPending : BOOLEAN,
               padlock : BOOLEAN, onDisplay : BOOLEAN, notificationArea : BOOLEAN]
      /\ d.state = "STATE_NONE" /\ d.padlock = TRUE
  BY DEF DragInv, DragType, DragStates
<1>2. drag' = UpdateDragAndDropIcon(d)
  BY DEF ResetView
<1> HIDE DEF d
<1>3. area' \in [enabled : BOOLEAN, active : BOOLEAN] /\ ~area'.enabled
  BY DEF ResetView, SetEnabled, DragInv, DragType
<1>4. QED
  BY <1>1, <1>2, <1>3, UpdateKeepsDrag DEF DragInv, DragType

LEMMA DragStep == DragInv /\ [LockScreenNext]_lockScreenVars => DragInv'
<1> SUFFICES ASSUME DragInv, [LockScreenNext]_lockScreenVars
             PROVE  DragInv'
  OBVIOUS
<1> DEFINE Drag == [state : DragStates, icon : Icons, overlay : BOOLEAN, drawPending : BOOLEAN,
                    padlock : BOOLEAN, onDisplay : BOOLEAN, notificationArea : BOOLEAN]
           Area == [enabled : BOOLEAN, active : BOOLEAN]
<1>t. drag \in Drag /\ area \in Area
  BY DEF DragInv, DragType
<1>1. ASSUME NEW place \in Places, MousePress(place)
      PROVE  DragInv'
  <2>1. CASE place = "padlock"
    <3>1. drag' = [drag EXCEPT !.state = "STATE_MOVING", !.padlock = FALSE, !.drawPending = TRUE]
      BY <1>1, <2>1, <1>t DEF MousePress, Redraw
    <3>2. area' \in Area
      <4>1. area' = SetEnabled(area, TRUE)
        BY <1>1, <2>1 DEF MousePress
      <4>2. QED
        BY <4>1, <1>t DEF SetEnabled
    <3>3. drag' \in Drag /\ drag'.state = "STATE_MOVING"
      BY <3>1, <1>t DEF DragStates
    <3>4. finger' # "away"
      BY <1>1, <2>1 DEF MousePress
    <3>5. QED
      BY <3>2, <3>3, <3>4 DEF DragInv, DragType
  <2>2. CASE place # "padlock"
    <3>1. drag' = [drag EXCEPT !.state = "STATE_NONE"] /\ area' = area
      BY <1>1, <2>2 DEF MousePress
    <3>2. drag.state = "STATE_NONE"
      BY <1>1 DEF MousePress, DragInv
    <3>3. drag' = drag
      BY <3>1, <3>2, <1>t
    <3>4. QED
      BY <3>1, <3>2, <3>3 DEF DragInv, DragType
  <2>3. QED
    BY <2>1, <2>2
<1>2. ASSUME NEW place \in Places, MouseMove(place)
      PROVE  DragInv'
  <2> DEFINE new == IF place = "area" THEN "STATE_MOVING_ACTIVE" ELSE "STATE_MOVING"
             d == [drag EXCEPT !.state = new]
  <2>1. finger' # "away"
    BY <1>2 DEF MouseMove, Places
  <2>2. CASE drag.state = "STATE_NONE" \/ drag.state = new
    <3>1. UNCHANGED <<drag, area>>
      BY <1>2, <2>2 DEF MouseMove
    <3>2. QED
      BY <3>1, <2>1 DEF DragInv, DragType
  <2>3. CASE ~(drag.state = "STATE_NONE" \/ drag.state = new)
    <3>1. drag' = UpdateDragAndDropIcon(d) /\ area' = SetActive(area, new = "STATE_MOVING_ACTIVE")
      BY <1>2, <2>3 DEF MouseMove
    <3>2. new \in DragStates /\ new # "STATE_NONE"
      BY DEF DragStates
    <3>3. d \in Drag /\ d.state = new
      BY <3>2, <1>t
    <3>4. area' \in Area
      BY <3>1, <1>t DEF SetActive
    <3> HIDE DEF d, new
    <3>5. drag' \in Drag /\ drag'.state = new
      BY <3>1, <3>3, UpdateKeepsDrag
    <3>6. QED
      BY <3>2, <3>4, <3>5, <2>1 DEF DragInv, DragType
  <2>4. QED
    BY <2>2, <2>3
<1>3. CASE MouseRelease
  <2>1. CASE drag.state = "STATE_NONE"
    <3>1. UNCHANGED <<drag, area>>
      BY <1>3, <2>1 DEF MouseRelease
    <3>2. QED
      BY <3>1, <2>1 DEF DragInv, DragType
  <2>2. CASE drag.state # "STATE_NONE"
    BY <1>3, <2>2, ResetClears DEF MouseRelease
  <2>3. QED
    BY <2>1, <2>2
<1>4. CASE RedrawIdle
  <2> DEFINE d == [drag EXCEPT !.drawPending = FALSE]
  <2>1. drag' = UpdateDragAndDropIcon(d) /\ UNCHANGED <<finger, area>>
    BY <1>4 DEF RedrawIdle
  <2>2. d \in Drag /\ d.state = drag.state /\ d.padlock = drag.padlock
    BY <1>t
  <2> HIDE DEF d
  <2>3. /\ drag' \in Drag /\ drag'.state = drag.state /\ drag'.padlock = drag.padlock
        /\ drag'.overlay = (drag.state # "STATE_NONE")
    BY <2>1, <2>2, UpdateKeepsDrag
  <2>4. QED
    BY <2>1, <2>3 DEF DragInv, DragType
<1>5. CASE Reset
  BY <1>5, ResetClears DEF Reset
<1>6. CASE LockScreenDisplayChanges \/ \E show \in BOOLEAN : ShowHideNotifications(show)
  <2>1. /\ drag' \in Drag /\ drag'.state = drag.state /\ drag'.padlock = drag.padlock
        /\ drag'.overlay = drag.overlay
    <3>1. CASE LockScreenDisplayChanges
      <4>1. drag' = [drag EXCEPT !.onDisplay = ~@]
        BY <3>1 DEF LockScreenDisplayChanges
      <4>2. QED
        BY <4>1, <1>t
    <3>2. ASSUME NEW show \in BOOLEAN, ShowHideNotifications(show)
          PROVE  /\ drag' \in Drag /\ drag'.state = drag.state /\ drag'.padlock = drag.padlock
                 /\ drag'.overlay = drag.overlay
      <4>1. drag' = [drag EXCEPT !.notificationArea = show]
        BY <3>2 DEF ShowHideNotifications
      <4>2. QED
        BY <4>1, <1>t
    <3>3. QED
      BY <3>1, <3>2, <1>6
  <2>2. UNCHANGED <<finger, area>>
    BY <1>6 DEF LockScreenDisplayChanges, ShowHideNotifications
  <2>3. QED
    BY <2>1, <2>2 DEF DragInv, DragType
<1>7. CASE \/ Minimized
           \/ \E o \in Orientations, picture \in Pictures : PictureIsChosen(o, picture)
           \/ DateTimer \/ Midnight \/ \E day \in 0..MaxDays : DateIsSet(day)
           \/ UNCHANGED lockScreenVars
  <2>1. UNCHANGED <<finger, drag, area>>
    BY <1>7 DEF Minimized, PictureIsChosen, DateTimer, Midnight, DateIsSet, lockScreenVars
  <2>2. QED
    BY <2>1 DEF DragInv, DragType
<1>8. QED
  BY <1>1, <1>2, <1>3, <1>4, <1>5, <1>6, <1>7 DEF LockScreenNext

-----------------------------------------------------------------------------
(* A picture takes the place of another in one orientation.                *)
LEMMA PictureStep ==
    ASSUME NEW b, BackgroundInv(b), NEW o \in Orientations, NEW picture \in Pictures
    PROVE  BackgroundInv(UpdatePixmap(b, o, picture))
<1> DEFINE release == b.pixmap[o] # "none" /\ b.fromTheme[o]
           delete == b.pixmap[o] # "none" /\ ~b.fromTheme[o]
           fromTheme == IF picture = "none" THEN b.fromTheme[o] ELSE picture = "theme"
           new == UpdatePixmap(b, o, picture)
<1>t. BackgroundType(b)
  BY DEF BackgroundInv
<1>1. /\ new.pixmap = [b.pixmap EXCEPT ![o] = picture]
      /\ new.fromTheme = [b.fromTheme EXCEPT ![o] = fromTheme]
      /\ new.borrowed = [b.borrowed EXCEPT ![o] = (b.borrowed[o] /\ ~release) \/ picture = "theme"]
      /\ new.deleted = (b.deleted \/ (delete /\ b.pixmap[o] = "theme"))
      /\ new.custom = b.custom
  BY <1>t DEF UpdatePixmap, BackgroundType
<1>2. BackgroundType(new)
  BY <1>t DEF UpdatePixmap, BackgroundType
<1> HIDE DEF new
<1>3. ~new.deleted
  BY <1>1 DEF BackgroundInv
<1>4. ASSUME NEW p \in Orientations
      PROVE  /\ new.pixmap[p] # "none" => new.fromTheme[p] = (new.pixmap[p] = "theme")
             /\ new.borrowed[p] = (new.pixmap[p] = "theme")
  <2>1. CASE p = o
    <3>1. /\ new.pixmap[p] = picture
          /\ new.fromTheme[p] = fromTheme
          /\ new.borrowed[p] = ((b.borrowed[o] /\ ~release) \/ picture = "theme")
      BY <1>1, <1>t, <2>1 DEF BackgroundType
    <3>2. ~(b.borrowed[o] /\ ~release)
      BY <1>t DEF BackgroundInv, BackgroundType
    <3>3. QED
      BY <3>1, <3>2
  <2>2. CASE p # o
    <3>1. /\ new.pixmap[p] = b.pixmap[p]
          /\ new.fromTheme[p] = b.fromTheme[p]
          /\ new.borrowed[p] = b.borrowed[p]
      BY <1>1, <1>t, <2>2 DEF BackgroundType
    <3>2. QED
      BY <3>1 DEF BackgroundInv
  <2>3. QED
    BY <2>1, <2>2
<1>5. QED
  BY <1>2, <1>3, <1>4 DEF BackgroundInv, new

(* The name of the style says what the pixmaps are.                        *)
LEMMA StyleFollows ==
    ASSUME NEW b, BackgroundInv(b)
    PROVE  BackgroundInv(UpdateStyleName(b)) /\ StyleInv(UpdateStyleName(b))
<1> DEFINE new == UpdateStyleName(b)
<1>1. BackgroundType(b)
  BY DEF BackgroundInv
<1>2. /\ new.pixmap = b.pixmap /\ new.fromTheme = b.fromTheme
      /\ new.borrowed = b.borrowed /\ new.deleted = b.deleted
      /\ new.custom = (\A o \in Orientations : Valid(b, o))
      /\ BackgroundType(new)
  BY <1>1 DEF UpdateStyleName, BackgroundType
<1> HIDE DEF new
<1>3. BackgroundInv(new)
  BY <1>2 DEF BackgroundInv
<1>4. StyleInv(new)
  BY <1>2 DEF StyleInv, Valid
<1>5. QED
  BY <1>3, <1>4 DEF new

LEMMA BackgroundStep ==
    /\ BackgroundInv(background) /\ StyleInv(background)
    /\ [LockScreenNext]_lockScreenVars
    => BackgroundInv(background') /\ StyleInv(background')
<1> SUFFICES ASSUME BackgroundInv(background), StyleInv(background),
                    [LockScreenNext]_lockScreenVars
             PROVE  BackgroundInv(background') /\ StyleInv(background')
  OBVIOUS
<1>1. ASSUME NEW o \in Orientations, NEW picture \in Pictures, PictureIsChosen(o, picture)
      PROVE  BackgroundInv(background') /\ StyleInv(background')
  <2>1. background' = UpdateStyleName(UpdatePixmap(background, o, picture))
    BY <1>1 DEF PictureIsChosen
  <2>2. BackgroundInv(UpdatePixmap(background, o, picture))
    BY PictureStep
  <2>3. QED
    BY <2>1, <2>2, StyleFollows
<1>2. ASSUME ~\E o \in Orientations, picture \in Pictures : PictureIsChosen(o, picture)
      PROVE  background' = background
  BY <1>2 DEF LockScreenNext, MousePress, MouseMove, MouseRelease, RedrawIdle, Reset,
              LockScreenDisplayChanges, Minimized, ShowHideNotifications, DateTimer, Midnight,
              DateIsSet, lockScreenVars
<1>3. QED
  BY <1>1, <1>2

-----------------------------------------------------------------------------
LEMMA LockScreenStarts == LockScreenInit => LockScreenInv
<1> SUFFICES ASSUME LockScreenInit
             PROVE  LockScreenInv
  OBVIOUS
<1>1. DragInv
  BY DEF LockScreenInit, DragInv, DragType, DragStates, Icons
<1>2. BackgroundInv(background) /\ StyleInv(background)
  <2>1. PICK picture \in [Orientations -> Pictures] :
            background = UpdateStyleName(
                [pixmap |-> picture, fromTheme |-> [o \in Orientations |-> picture[o] = "theme"],
                 borrowed |-> [o \in Orientations |-> picture[o] = "theme"],
                 deleted |-> FALSE, custom |-> FALSE])
    BY DEF LockScreenInit
  <2> DEFINE b == [pixmap |-> picture, fromTheme |-> [o \in Orientations |-> picture[o] = "theme"],
                   borrowed |-> [o \in Orientations |-> picture[o] = "theme"],
                   deleted |-> FALSE, custom |-> FALSE]
  <2>2. BackgroundInv(b)
    BY DEF BackgroundInv, BackgroundType
  <2>3. background = UpdateStyleName(b)
    BY <2>1
  <2> HIDE DEF b
  <2>4. QED
    BY <2>2, <2>3, StyleFollows
<1>3. QED
  BY <1>1, <1>2 DEF LockScreenInv

LEMMA InvClearsScreen == LockScreenInv => NothingLeftBehind
<1> SUFFICES ASSUME LockScreenInv
             PROVE  NothingLeftBehind
  OBVIOUS
<1>1. DragLeavesNothing
  BY DEF LockScreenInv, DragInv, DragLeavesNothing, AreaObjectName
<1>2. \A o \in Orientations : (DrawnBackground(background, o) # "default") = Valid(background, o)
  BY DEF DrawnBackground, Valid
<1>3. ThemeGetsItsPixmapsBack
  BY <1>2 DEF LockScreenInv, BackgroundInv, StyleInv, ThemeGetsItsPixmapsBack
<1>4. QED
  BY <1>1, <1>3 DEF NothingLeftBehind

\* Whatever drags, resets, unlockings and changes of the background there are, no icon
\* of an ended drag stays, and no pixmap of the theme is lost or deleted
\* (lockscreenwithpadlockview.cpp:126-240, lockscreenview.cpp:40-128).
THEOREM NothingEverLeftBehind == LockScreenSpec => []NothingLeftBehind
<1>1. LockScreenInv /\ [LockScreenNext]_lockScreenVars => LockScreenInv'
  BY DragStep, BackgroundStep DEF LockScreenInv
<1>2. QED
  BY <1>1, LockScreenStarts, InvClearsScreen, PTL DEF LockScreenSpec

=============================================================================
