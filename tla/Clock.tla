------------------------------- MODULE Clock -------------------------------
(***************************************************************************)
(* The clock of the status area (clock.cpp, clockview.cpp).  Time is       *)
(* counted in seconds; a heartbeat wakes the clock up one or two seconds   *)
(* after the minute has turned, and whenever the time of the device is set.*)
(***************************************************************************)
EXTENDS Integers

CONSTANTS
    SecondsPerMinute,
    MaxSeconds          \* bound on the time

ASSUME ClockAssumption == SecondsPerMinute \in Nat \ {0} /\ MaxSeconds \in Nat

VARIABLES
    now,            \* the time of the device
    clock           \* the model of the clock, its heartbeat, its view

clockVars == <<now, clock>>

Minute(time) == time \div SecondsPerMinute

NoWait == [from |-> -1, until |-> -1]
Waiting == clock.wait # NoWait

(* The label is set only if its text changes. *)
UpdateLabel(c) == [c EXCEPT !.label = <<Minute(c.time), c.twelveHours>>]

(* Bug: the wait is a minute long, wherever in the minute it begins. *)
UpdateModelWaitsAMinute(c, time) ==
    LET next == time + SecondsPerMinute
    IN  UpdateLabel([c EXCEPT !.time = time, !.wait = [from |-> next + 1, until |-> next + 2]])

(* The wait ends in the minute that follows. *)
UpdateModelAndSetupTimer(c, time) ==
    LET next == (Minute(time) + 1) * SecondsPerMinute
    IN  UpdateLabel([c EXCEPT !.time = time, !.wait = [from |-> next + 1, until |-> next + 2]])

EnterDisplayClock ==
    /\ ~clock.onDisplay
    /\ clock' = UpdateModelAndSetupTimer([clock EXCEPT !.onDisplay = TRUE], now)
    /\ UNCHANGED now

ExitDisplayClock ==
    /\ clock.onDisplay
    /\ clock' = [clock EXCEPT !.onDisplay = FALSE, !.wait = NoWait]
    /\ UNCHANGED now

(* The heartbeat. *)
WakeUp ==
    /\ Waiting
    /\ now >= clock.wait.from
    /\ clock' = UpdateModelAndSetupTimer(clock, now)
    /\ UNCHANGED now

(* The heartbeat is never late. *)
SecondPasses ==
    /\ now < MaxSeconds
    /\ Waiting => now < clock.wait.until
    /\ now' = now + 1
    /\ UNCHANGED clock

(* timeOrSettingsChanged updates the clock, on display or not. *)
TimeIsSet ==
    \E time \in 0..MaxSeconds :
        /\ now' = time
        /\ clock' = UpdateModelAndSetupTimer(clock, time)

ApplyCurrentLocale ==
    \E twelve \in BOOLEAN :
        /\ clock' = UpdateLabel([clock EXCEPT !.twelveHours = twelve])
        /\ UNCHANGED now

ClockInit ==
    /\ now \in 0..(SecondsPerMinute - 1)
    /\ clock = [onDisplay |-> FALSE, time |-> 0, wait |-> NoWait, twelveHours |-> FALSE,
                label |-> <<0, FALSE>>]

ClockNext ==
    \/ EnterDisplayClock
    \/ ExitDisplayClock
    \/ WakeUp
    \/ SecondPasses
    \/ TimeIsSet
    \/ ApplyCurrentLocale

ClockSpec == ClockInit /\ [][ClockNext]_clockVars

(* A clock on display shows the minute it is, in the format of the locale, *)
(* but for the two seconds in which the heartbeat may come                 *)
(* (updateModelAndSetupTimer, clock.cpp:48-69).                            *)
ClockIsRight ==
    clock.onDisplay =>
        \/ clock.label = <<Minute(now), clock.twelveHours>>
        \/ /\ now % SecondsPerMinute <= 2
           /\ clock.label = <<Minute(now) - 1, clock.twelveHours>>

=============================================================================
