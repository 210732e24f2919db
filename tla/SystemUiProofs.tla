--------------------------- MODULE SystemUiProofs ---------------------------
(***************************************************************************)
(* Proofs of the parts that follow something outside: the clock follows    *)
(* the time, the store of event types the files, the battery's reminder,   *)
(* light and notification the battery and the charger, a registered sink   *)
(* of the bus what applications say.  Each part learns of a change late,   *)
(* by a signal, a timer or a message, and each invariant says what is      *)
(* still on its way while the part does not agree with what it follows.    *)
(***************************************************************************)
EXTENDS Clock, EventTypeStore, Battery, NotificationBus, SequenceTheorems, FiniteSetTheorems,
        NaturalsInduction, WellFoundedInduction, TLAPS


-----------------------------------------------------------------------------
(* The clock: clock.cpp.                                                   *)

LEMMA MinuteType ==
    ASSUME NEW time \in Nat
    PROVE  Minute(time) \in Nat /\ time < (Minute(time) + 1) * SecondsPerMinute
  <1>1. SecondsPerMinute \in Nat \ {0}
    BY ClockAssumption
  <1>2. time \div SecondsPerMinute \in Nat
    BY <1>1
  <1>3. time < SecondsPerMinute * (time \div SecondsPerMinute) + SecondsPerMinute
    BY <1>1
  <1> QED
    BY <1>1, <1>2, <1>3 DEF Minute

LEMMA MinuteUnique ==
    ASSUME NEW n \in Nat, NEW m \in Nat,
           m * SecondsPerMinute <= n, n < (m + 1) * SecondsPerMinute
    PROVE  Minute(n) = m /\ n % SecondsPerMinute = n - m * SecondsPerMinute
  <1>1. SecondsPerMinute \in Nat \ {0}
    BY ClockAssumption
  <1>2. n \div SecondsPerMinute = m
    BY <1>1
  <1>3. n % SecondsPerMinute = n - SecondsPerMinute * (n \div SecondsPerMinute)
    BY <1>1
  <1> QED
    BY <1>1, <1>2, <1>3 DEF Minute

MinuteEnd(time) == (Minute(time) + 1) * SecondsPerMinute

Waits == [from : Int, until : Int]
Labels == Int \X BOOLEAN
Clocks == [onDisplay : BOOLEAN, time : Nat, wait : Waits, twelveHours : BOOLEAN, label : Labels]

LEMMA SmallTypes ==
    /\ NoWait \in Waits
    /\ \A n \in Nat, b \in BOOLEAN : <<n, b>> \in Labels
  BY DEF NoWait, Waits, Labels

ClockTypes == now \in Nat /\ clock \in Clocks

Shown(c) == c.label = <<Minute(c.time), c.twelveHours>>

NextWait(time) == [from |-> MinuteEnd(time) + 1, until |-> MinuteEnd(time) + 2]

(* What is shown is the time of the model, and a clock that waits does so  *)
(* from that time until the minute has turned.                             *)
ClockInvariant ==
    /\ ClockTypes
    /\ Shown(clock)
    /\ clock.onDisplay => Waiting
    /\ Waiting => /\ clock.time <= now
                  /\ now <= clock.wait.until
                  /\ clock.wait = NextWait(clock.time)

LEMMA ClockStarts == ClockInit => ClockInvariant
  <1> SUFFICES ASSUME ClockInit PROVE ClockInvariant
    OBVIOUS
  <1>1. now \in Nat
    BY ClockAssumption DEF ClockInit
  <1>2. Minute(0) = 0
    BY ClockAssumption DEF Minute
  <1>4. clock \in Clocks
    BY SmallTypes DEF ClockInit, Clocks
  <1>3. /\ clock.label = <<0, FALSE>> /\ clock.time = 0 /\ clock.twelveHours = FALSE
        /\ clock.onDisplay = FALSE /\ ~Waiting
    BY DEF ClockInit, Waiting
  <1> QED
    BY <1>1, <1>2, <1>3, <1>4 DEF ClockInvariant, ClockTypes, Shown

LEMMA MinuteEnds ==
    ASSUME NEW time \in Nat
    PROVE  MinuteEnd(time) \in Nat /\ time < MinuteEnd(time) /\ NextWait(time) # NoWait
  <1>1. Minute(time) \in Nat /\ time < MinuteEnd(time)
    BY MinuteType DEF MinuteEnd
  <1>2. MinuteEnd(time) \in Nat
    BY <1>1, ClockAssumption DEF MinuteEnd
  <1>3. NextWait(time).from # NoWait.from
    BY <1>2 DEF NextWait, NoWait
  <1> QED
    BY <1>1, <1>2, <1>3

LEMMA ModelUpdated ==
    ASSUME NEW c \in Clocks, NEW time \in Nat, now' = time,
           clock' = UpdateModelAndSetupTimer(c, time)
    PROVE  ClockInvariant'
  <1>1. /\ Minute(time) \in Nat
        /\ MinuteEnd(time) \in Nat /\ time < MinuteEnd(time) /\ NextWait(time) # NoWait
    BY MinuteType, MinuteEnds
  <1>2. clock' = [c EXCEPT !.time = time, !.wait = NextWait(time),
                           !.label = <<Minute(time), c.twelveHours>>]
    BY DEF UpdateModelAndSetupTimer, UpdateLabel, MinuteEnd, NextWait, Clocks
  <1>3. NextWait(time) \in Waits /\ NextWait(time).until = MinuteEnd(time) + 2
    BY <1>1 DEF NextWait, Waits
  <1>4. clock' \in Clocks
    BY <1>1, <1>2, <1>3, SmallTypes DEF Clocks
  <1>5. Shown(clock')
    BY <1>2 DEF Shown, Clocks
  <1>6. clock'.time = time /\ clock'.wait = NextWait(time)
    BY <1>2 DEF Clocks
  <1> QED
    BY <1>1, <1>3, <1>4, <1>5, <1>6 DEF ClockInvariant, ClockTypes, Waiting

LEMMA ClockKept == ClockInvariant /\ [ClockNext]_clockVars => ClockInvariant'
  <1> SUFFICES ASSUME ClockInvariant, [ClockNext]_clockVars PROVE ClockInvariant'
    OBVIOUS
  <1>t. now \in Nat /\ clock \in Clocks /\ clock.time \in Nat
    BY DEF ClockInvariant, ClockTypes, Clocks
  <1>1. CASE EnterDisplayClock
    <2>1. [clock EXCEPT !.onDisplay = TRUE] \in Clocks
      BY <1>t DEF Clocks
    <2> QED
      BY <1>1, <1>t, <2>1, ModelUpdated DEF EnterDisplayClock
  <1>2. CASE ExitDisplayClock
    <2>1. clock' = [clock EXCEPT !.onDisplay = FALSE, !.wait = NoWait] /\ now' = now
      BY <1>2 DEF ExitDisplayClock
    <2>2. clock' \in Clocks
      BY <1>t, <2>1, SmallTypes DEF Clocks
    <2>3. Shown(clock')
      BY <1>t, <2>1 DEF Clocks, Shown, ClockInvariant
    <2>4. clock'.onDisplay = FALSE /\ ~Waiting'
      BY <1>t, <2>1 DEF Clocks, Waiting
    <2> QED
      BY <1>t, <2>1, <2>2, <2>3, <2>4 DEF ClockInvariant, ClockTypes
  <1>3. CASE WakeUp
    BY <1>3, <1>t, ModelUpdated DEF WakeUp
  <1>4. CASE SecondPasses
    <2>1. clock' = clock /\ now' = now + 1 /\ (Waiting => now < clock.wait.until)
      BY <1>4 DEF SecondPasses
    <2>2. Waiting => now + 1 <= clock.wait.until /\ clock.time <= now + 1
      BY <1>t, <2>1, MinuteEnds DEF ClockInvariant, NextWait
    <2> QED
      BY <1>t, <2>1, <2>2 DEF ClockInvariant, ClockTypes, Waiting
  <1>5. CASE TimeIsSet
    <2>1. PICK time \in 0..MaxSeconds : now' = time /\ clock' = UpdateModelAndSetupTimer(clock, time)
      BY <1>5 DEF TimeIsSet
    <2>2. time \in Nat
      BY ClockAssumption
    <2> QED
      BY <1>t, <2>1, <2>2, ModelUpdated
  <1>6. CASE ApplyCurrentLocale
    <2>1. PICK twelve \in BOOLEAN : clock' = UpdateLabel([clock EXCEPT !.twelveHours = twelve])
      BY <1>6 DEF ApplyCurrentLocale
    <2>2. clock' = [clock EXCEPT !.twelveHours = twelve, !.label = <<Minute(clock.time), twelve>>]
      BY <1>t, <2>1 DEF UpdateLabel, Clocks
    <2>3. Minute(clock.time) \in Nat
      BY <1>t, MinuteType
    <2>4. now' = now
      BY <1>6 DEF ApplyCurrentLocale
    <2>5. clock' \in Clocks
      BY <1>t, <2>2, <2>3, SmallTypes DEF Clocks
    <2>6. Shown(clock')
      BY <1>t, <2>2 DEF Shown, Clocks
    <2>7. /\ clock'.onDisplay = clock.onDisplay
          /\ clock'.wait = clock.wait
          /\ clock'.time = clock.time
      BY <1>t, <2>2 DEF Clocks
    <2> QED
      BY <2>4, <2>5, <2>6, <2>7 DEF ClockInvariant, ClockTypes, Waiting
  <1>7. CASE UNCHANGED clockVars
    BY <1>7 DEF clockVars, Waiting, ClockInvariant, ClockTypes
  <1> QED
    BY <1>1, <1>2, <1>3, <1>4, <1>5, <1>6, <1>7 DEF ClockNext

(* The heartbeat comes at most two seconds into the next minute, which     *)
(* has to be longer than that.                                             *)
LEMMA ClockShown == SecondsPerMinute > 2 /\ ClockInvariant => ClockIsRight
  <1> SUFFICES ASSUME SecondsPerMinute > 2, ClockInvariant, clock.onDisplay
               PROVE  \/ clock.label = <<Minute(now), clock.twelveHours>>
                      \/ /\ now % SecondsPerMinute <= 2
                         /\ clock.label = <<Minute(now) - 1, clock.twelveHours>>
    BY DEF ClockIsRight
  <1> DEFINE m == Minute(clock.time)
  <1>1. /\ now \in Nat
        /\ clock.time \in Nat
        /\ clock.label = <<m, clock.twelveHours>>
        /\ clock.time <= now
        /\ now <= (m + 1) * SecondsPerMinute + 2
    BY MinuteEnds DEF ClockInvariant, ClockTypes, Clocks, Shown, MinuteEnd, NextWait
  <1>2. m \in Nat /\ m * SecondsPerMinute <= clock.time
    BY <1>1, ClockAssumption DEF Minute
  <1>3. CASE now < (m + 1) * SecondsPerMinute
    <2>1. Minute(now) = m
      BY <1>1, <1>2, <1>3, MinuteUnique, ClockAssumption
    <2> QED
      BY <1>1, <2>1
  <1>4. CASE now >= (m + 1) * SecondsPerMinute
    <2>1. now < ((m + 1) + 1) * SecondsPerMinute
      BY <1>1, <1>2, <1>4, ClockAssumption
    <2>2. Minute(now) = m + 1 /\ now % SecondsPerMinute = now - (m + 1) * SecondsPerMinute
      BY <1>1, <1>2, <1>4, <2>1, MinuteUnique
    <2>3. (m + 1) * SecondsPerMinute \in Nat
      BY <1>2, ClockAssumption
    <2> QED
      BY <1>1, <1>2, <2>2, <2>3
  <1> QED
    BY <1>1, <1>2, <1>3, <1>4, ClockAssumption

(* A clock on display is right, but for the two seconds in which the       *)
(* heartbeat may come, for minutes of any length above that and however    *)
(* the time is set (updateModelAndSetupTimer, clock.cpp:48-69).            *)
THEOREM ClockAlwaysRight == SecondsPerMinute > 2 /\ ClockSpec => []ClockIsRight
  <1>1. CASE SecondsPerMinute > 2
    <2>1. ClockInvariant => ClockIsRight
      BY <1>1, ClockShown
    <2>2. ClockSpec => []ClockIsRight
      BY <2>1, ClockStarts, ClockKept, PTL DEF ClockSpec
    <2> QED
      BY <2>2
  <1>2. CASE ~(SecondsPerMinute > 2)
    BY <1>2
  <1> QED
    BY <1>1, <1>2

-----------------------------------------------------------------------------
(* The store of event types: eventtypestore.cpp.                           *)

LEMMA FirstRemoved ==
    ASSUME NEW S, NEW u \in Seq(S), IsInjective(u), NEW t
    PROVE  \/ RemoveFirst(u, t) = u /\ t \notin Range(u)
           \/ \E p \in 1..Len(u) : u[p] = t /\ RemoveFirst(u, t) = RemoveAt(u, p)
  <1>1. CASE t \notin Range(u)
    <2>1. ~ \E i \in 1..Len(u) : u[i] = t
      BY <1>1 DEF Range
    <2> QED
      BY <1>1, <2>1 DEF RemoveFirst
  <1>2. CASE t \in Range(u)
    <2>1. PICK p \in 1..Len(u) : u[p] = t
      BY <1>2 DEF Range
    <2> DEFINE I == {i \in 1..Len(u) : u[i] = t}
    <2>2. RemoveFirst(u, t) = RemoveAt(u, Min(I))
      BY <2>1 DEF RemoveFirst, SelectInSeq
    <2>3. I = {p}
      BY <2>1 DEF IsInjective
    <2>4. Min(I) = p
      BY <2>3 DEF Min
    <2> QED
      BY <2>1, <2>2, <2>4
  <1> QED
    BY <1>1, <1>2

LEMMA RemovedAt ==
    ASSUME NEW S, NEW s \in Seq(S), NEW i \in 1 .. Len(s)
    PROVE  /\ RemoveAt(s, i) \in Seq(S)
           /\ Len(RemoveAt(s, i)) = Len(s) - 1
           /\ \A k \in 1 .. Len(s) - 1 : RemoveAt(s, i)[k] =
                IF k < i THEN s[k] ELSE s[k + 1]
<1> DEFINE a == SubSeq(s, 1, i - 1)
           b == SubSeq(s, i + 1, Len(s))
<1>1. a \in Seq(S) /\ Len(a) = i - 1 /\ \A k \in 1 .. i - 1 : a[k] = s[k]
  OBVIOUS
<1>2. b \in Seq(S) /\ Len(b) = Len(s) - i /\ \A k \in 1 .. Len(b) : b[k] = s[i + k]
  OBVIOUS
<1>3. RemoveAt(s, i) = a \o b
  BY DEF RemoveAt
<1> HIDE DEF a, b
<1>4. /\ a \o b \in Seq(S)
      /\ Len(a \o b) = Len(s) - 1
      /\ \A k \in 1 .. Len(s) - 1 : (a \o b)[k] = IF k < i THEN a[k] ELSE b[k - i + 1]
  <2>1. Len(a) + Len(b) = Len(s) - 1
    BY <1>1, <1>2
  <2>2. /\ a \o b \in Seq(S)
        /\ Len(a \o b) = Len(s) - 1
        /\ \A k \in 1 .. Len(s) - 1 :
              (a \o b)[k] = IF k <= Len(a) THEN a[k] ELSE b[k - Len(a)]
    <3>1. /\ a \o b \in Seq(S)
          /\ Len(a \o b) = Len(a) + Len(b)
          /\ \A k \in 1 .. Len(a) + Len(b) :
                (a \o b)[k] = IF k <= Len(a) THEN a[k] ELSE b[k - Len(a)]
      BY <1>1, <1>2, ConcatProperties
    <3>2. QED
      BY <2>1, <3>1, Zenon
  <2>3. ASSUME NEW k \in 1 .. Len(s) - 1
        PROVE  (a \o b)[k] = IF k < i THEN a[k] ELSE b[k - i + 1]
    <3>1. (k <= Len(a) <=> k < i) /\ k - Len(a) = k - i + 1
      BY <1>1
    <3>2. (a \o b)[k] = IF k <= Len(a) THEN a[k] ELSE b[k - Len(a)]
      BY <2>2, Zenon
    <3>3. QED
      BY <3>1, <3>2, Zenon
  <2>4. QED
    BY <2>2, <2>3, Zenon
<1>5. \A k \in 1 .. Len(s) - 1 : ~(k < i) => b[k - i + 1] = s[k + 1]
  <2>1. SUFFICES ASSUME NEW k \in 1 .. Len(s) - 1, ~(k < i)
                 PROVE  b[k - i + 1] = s[k + 1]
    OBVIOUS
  <2>2. k - i + 1 \in 1 .. Len(b) /\ i + (k - i + 1) = k + 1
    BY <1>2, <2>1
  <2>3. QED
    BY <1>2, <2>2
<1>6. ASSUME NEW k \in 1 .. Len(s) - 1
      PROVE  (a \o b)[k] = IF k < i THEN s[k] ELSE s[k + 1]
  <2>1. (a \o b)[k] = IF k < i THEN a[k] ELSE b[k - i + 1]
    BY <1>4, Zenon
  <2>2. CASE k < i
    <3>1. k \in 1 .. i - 1
      BY <2>2
    <3>2. a[k] = s[k]
      BY <1>1, <3>1, Zenon
    <3>3. QED
      BY <2>1, <2>2, <3>2, Zenon
  <2>3. CASE ~(k < i)
    <3>1. b[k - i + 1] = s[k + 1]
      BY <1>5, <2>3, Zenon
    <3>2. QED
      BY <2>1, <2>3, <3>1, Zenon
  <2>4. QED
    BY <2>2, <2>3, Zenon
<1>7. QED
  BY <1>3, <1>4, <1>6, Zenon

LEMMA Prepended ==
    ASSUME NEW S, NEW r \in Seq(S), NEW e \in S
    PROVE  /\ <<e>> \o r \in Seq(S)
           /\ Len(<<e>> \o r) = 1 + Len(r)
           /\ (<<e>> \o r)[1] = e
           /\ \A k \in 1..Len(r) : (<<e>> \o r)[k + 1] = r[k]
  <1> DEFINE one == <<e>>
             used == <<e>> \o r
  <1>1. one \in Seq(S) /\ Len(one) = 1 /\ one[1] = e
    OBVIOUS
  <1>2. used = one \o r
    OBVIOUS
  <1> HIDE DEF one, used
  <1>3. /\ one \o r \in Seq(S)
        /\ Len(one \o r) = Len(one) + Len(r)
        /\ \A i \in 1..Len(one) + Len(r) :
              (one \o r)[i] = IF i <= Len(one) THEN one[i] ELSE r[i - Len(one)]
    BY <1>1, ConcatProperties, Zenon
  <1>4. /\ used \in Seq(S) /\ Len(used) = 1 + Len(r)
        /\ \A i \in 1..1 + Len(r) : used[i] = IF i <= 1 THEN one[i] ELSE r[i - 1]
    BY <1>1, <1>2, <1>3, Zenon
  <1>5. 1 \in 1..1 + Len(r) /\ 1 <= 1
    OBVIOUS
  <1>6. used[1] = e
    BY <1>1, <1>4, <1>5, Zenon
  <1>7. ASSUME NEW k \in 1..Len(r) PROVE used[k + 1] = r[k]
    <2>1. k + 1 \in 1..1 + Len(r) /\ ~(k + 1 <= 1) /\ (k + 1) - 1 = k
      OBVIOUS
    <2>2. used[k + 1] = r[(k + 1) - 1]
      BY <1>4, <2>1, Zenon
    <2> QED
      BY <2>1, <2>2, Zenon
  <1> QED
    BY <1>4, <1>6, <1>7, Zenon DEF used

LEMMA IndicesOfPrepended ==
    ASSUME NEW n \in Nat, NEW i \in 1..1 + n
    PROVE  i = 1 \/ \E k \in 1..n : i = k + 1
  <1>1. i # 1 => i - 1 \in 1..n /\ i = (i - 1) + 1
    OBVIOUS
  <1> QED
    BY <1>1, Zenon

(* The list of usage after a type was accessed: that type is in front, and *)
(* all others are still there.                                             *)
LEMMA UsedNow ==
    ASSUME NEW S, NEW u \in Seq(S), IsInjective(u), NEW t \in S,
           NEW r, r = RemoveFirst(u, t)
    PROVE  /\ <<t>> \o r \in Seq(S) /\ IsInjective(<<t>> \o r)
           /\ Len(<<t>> \o r) >= 1 /\ (<<t>> \o r)[1] = t
           /\ Range(u) \subseteq Range(<<t>> \o r)
  <1> DEFINE used == <<t>> \o r
  <1>1. /\ r \in Seq(S)
        /\ \A i \in 1..Len(r) : \E j \in 1..Len(u) : r[i] = u[j] /\ u[j] # t
        /\ \A i, j \in 1..Len(r) : r[i] = r[j] => i = j
        /\ \A j \in 1..Len(u) : u[j] # t => \E i \in 1..Len(r) : r[i] = u[j]
    <2>1. CASE r = u /\ t \notin Range(u)
      BY <2>1 DEF IsInjective, Range
    <2>2. CASE \E p \in 1..Len(u) : u[p] = t /\ r = RemoveAt(u, p)
      <3>1. PICK p \in 1..Len(u) : u[p] = t /\ r = RemoveAt(u, p)
        BY <2>2
      <3>2. /\ r \in Seq(S) /\ Len(r) = Len(u) - 1
            /\ \A k \in 1..Len(u) - 1 : r[k] = IF k < p THEN u[k] ELSE u[k + 1]
        BY <3>1, RemovedAt
      <3>3. \A j \in 1..Len(u) : u[j] = t => j = p
        BY <3>1 DEF IsInjective
      <3>4. ASSUME NEW i \in 1..Len(r) PROVE \E j \in 1..Len(u) : r[i] = u[j] /\ u[j] # t
        <4>1. CASE i < p
          <5>1. i \in 1..Len(u) - 1 /\ i \in 1..Len(u) /\ i # p
            BY <3>2, <4>1
          <5>2. r[i] = u[i]
            BY <3>2, <4>1, <5>1, Zenon
          <5> QED
            BY <3>3, <5>1, <5>2, Zenon
        <4>2. CASE ~(i < p)
          <5>1. i + 1 \in 1..Len(u) /\ i + 1 # p
            BY <3>2, <4>2
          <5>2. r[i] = u[i + 1]
            <6>1. i \in 1..Len(u) - 1
              BY <3>2
            <6> QED
              BY <3>2, <4>2, <6>1, Zenon
          <5>3. u[i + 1] # t
            BY <3>3, <5>1
          <5> QED
            BY <5>1, <5>2, <5>3
        <4> QED
          BY <4>1, <4>2
      <3>5. ASSUME NEW i \in 1..Len(r), NEW j \in 1..Len(r), r[i] = r[j] PROVE i = j
        <4>1. \A a, b \in 1..Len(u) : u[a] = u[b] => a = b
          BY DEF IsInjective
        <4>2. i \in 1..Len(u) /\ i + 1 \in 1..Len(u) /\ j \in 1..Len(u) /\ j + 1 \in 1..Len(u)
          BY <3>2
        <4>3. r[i] = (IF i < p THEN u[i] ELSE u[i + 1]) /\ r[j] = (IF j < p THEN u[j] ELSE u[j + 1])
          BY <3>2
        <4>4. CASE i < p /\ j < p
          BY <3>5, <4>1, <4>2, <4>3, <4>4, Zenon
        <4>5. CASE i < p /\ ~(j < p)
          <5>1. u[i] = u[j + 1]
            BY <3>5, <4>3, <4>5, Zenon
          <5>2. i = j + 1
            BY <4>1, <4>2, <5>1, Zenon
          <5> QED
            BY <4>5, <5>2
        <4>6. CASE ~(i < p) /\ j < p
          <5>1. u[i + 1] = u[j]
            BY <3>5, <4>3, <4>6, Zenon
          <5>2. i + 1 = j
            BY <4>1, <4>2, <5>1, Zenon
          <5> QED
            BY <4>6, <5>2
        <4>7. CASE ~(i < p) /\ ~(j < p)
          <5>1. u[i + 1] = u[j + 1]
            BY <3>5, <4>3, <4>7, Zenon
          <5>2. i + 1 = j + 1
            BY <4>1, <4>2, <5>1, Zenon
          <5> QED
            BY <5>2
        <4> QED
          BY <4>4, <4>5, <4>6, <4>7, Zenon
      <3>6. ASSUME NEW j \in 1..Len(u), u[j] # t PROVE \E i \in 1..Len(r) : r[i] = u[j]
        <4>1. CASE j < p
          BY <3>2, <4>1
        <4>2. CASE j > p
          <5>1. j - 1 \in 1..Len(r) /\ ~(j - 1 < p) /\ (j - 1) + 1 = j
            BY <3>2, <4>2
          <5>2. r[j - 1] = u[j]
            BY <3>2, <5>1
          <5> QED
            BY <5>1, <5>2
        <4>3. j # p
          BY <3>1, <3>6
        <4> QED
          BY <4>1, <4>2, <4>3
      <3> QED
        BY <3>2, <3>4, <3>5, <3>6
    <2> QED
      BY <2>1, <2>2, FirstRemoved
  <1> HIDE DEF used
  <1>3. used = <<t>> \o r
    BY DEF used
  <1>4. /\ used \in Seq(S)
        /\ Len(used) = 1 + Len(r)
        /\ used[1] = t
        /\ \A k \in 1..Len(r) : used[k + 1] = r[k]
    <2>1. r \in Seq(S)
      BY <1>1
    <2> QED
      <3>1. /\ <<t>> \o r \in Seq(S)
            /\ Len(<<t>> \o r) = 1 + Len(r)
            /\ (<<t>> \o r)[1] = t
            /\ \A k \in 1..Len(r) : (<<t>> \o r)[k + 1] = r[k]
        BY <2>1, Prepended
      <3> QED
        BY <1>3, <3>1
  <1>5. used[1] = t /\ 1 \in 1..Len(used)
    BY <1>1, <1>4
  <1>6. \A i \in 1..Len(r) : i + 1 \in 1..Len(used) /\ used[i + 1] = r[i]
    <2>1. \A i \in 1..Len(r) : i + 1 \in 1..Len(used)
      BY <1>1, <1>4
    <2> QED
      BY <1>4, <2>1, Zenon
  <1>7. ASSUME NEW i \in 1..Len(used), i # 1
        PROVE  \E k \in 1..Len(r) : i = k + 1 /\ used[i] = r[k]
    <2>1. Len(r) \in Nat
      BY <1>1
    <2>2. PICK k \in 1..Len(r) : i = k + 1
      BY <1>4, <1>7, <2>1, IndicesOfPrepended, Zenon
    <2> QED
      BY <1>4, <2>2, Zenon
  <1>8. DOMAIN used = 1..Len(used) /\ DOMAIN u = 1..Len(u)
    BY <1>4
  <1>9. IsInjective(used)
    <2> SUFFICES ASSUME NEW i \in 1..Len(used), NEW j \in 1..Len(used), used[i] = used[j] PROVE i = j
      BY <1>8 DEF IsInjective
    <2>1. CASE i = 1 /\ j = 1
      BY <2>1
    <2>2. CASE i = 1 /\ j # 1
      <3>1. PICK k \in 1..Len(r) : used[j] = r[k]
        BY <1>7, <2>2
      <3> QED
        <4>1. used[i] = t
          BY <1>5, <2>2
        <4>2. r[k] # t
          BY <1>1
        <4> QED
          BY <2>2, <3>1, <4>1, <4>2
    <2>3. CASE i # 1 /\ j = 1
      <3>1. PICK k \in 1..Len(r) : used[i] = r[k]
        BY <1>7, <2>3
      <3> QED
        <4>1. used[j] = t
          BY <1>5, <2>3
        <4>2. r[k] # t
          BY <1>1
        <4> QED
          BY <2>3, <3>1, <4>1, <4>2
    <2>4. CASE i # 1 /\ j # 1
      <3>1. PICK k \in 1..Len(r) : i = k + 1 /\ used[i] = r[k]
        BY <1>7, <2>4
      <3>2. PICK m \in 1..Len(r) : j = m + 1 /\ used[j] = r[m]
        BY <1>7, <2>4
      <3>3. r[k] = r[m]
        BY <3>1, <3>2
      <3>4. k = m
        BY <1>1, <3>3
      <3> QED
        BY <3>1, <3>2, <3>4
    <2> QED
      BY <2>1, <2>2, <2>3, <2>4
  <1>10. Range(u) \subseteq Range(used)
    <2> SUFFICES ASSUME NEW j \in 1..Len(u) PROVE u[j] \in Range(used)
      BY <1>8 DEF Range
    <2>1. CASE u[j] = t
      BY <1>5, <1>8, <2>1, <1>4 DEF Range
    <2>2. CASE u[j] # t
      <3>1. PICK i \in 1..Len(r) : r[i] = u[j]
        BY <1>1, <2>2
      <3> QED
        BY <1>6, <1>8, <3>1 DEF Range
    <2> QED
      BY <2>1, <2>2
  <1> QED
    BY <1>4, <1>5, <1>9, <1>10 DEF used

-----------------------------------------------------------------------------
IsStore(s) ==
    s = [eventTypesMap |-> s.eventTypesMap, eventTypeUsage |-> s.eventTypeUsage,
         eventTypeFiles |-> s.eventTypeFiles]

Unchanging(old, new) == \A k \in DOMAIN new : k \in DOMAIN old /\ new[k] = old[k]

LEMMA Loaded ==
    ASSUME NEW s, IsStore(s), NEW t \in EventTypes, NEW l, l = LoadSettings(s, t)
    PROVE  /\ IsStore(l)
           /\ l.eventTypeUsage = s.eventTypeUsage
           /\ l.eventTypeFiles = s.eventTypeFiles
           /\ Usable(t) => /\ DOMAIN l.eventTypesMap = DOMAIN s.eventTypesMap \cup {t}
                           /\ l.eventTypesMap[t] = files[t]
                           /\ \A k \in DOMAIN s.eventTypesMap :
                                  k # t => l.eventTypesMap[k] = s.eventTypesMap[k]
           /\ ~Usable(t) => l = s
  <1> DEFINE map == [k \in DOMAIN s.eventTypesMap \cup {t} |->
                        IF k = t THEN files[t] ELSE s.eventTypesMap[k]]
  <1>1. CASE Usable(t)
    <2>1. l = [eventTypesMap |-> map, eventTypeUsage |-> s.eventTypeUsage,
               eventTypeFiles |-> s.eventTypeFiles]
      BY <1>1 DEF IsStore, LoadSettings
    <2>2. l.eventTypesMap = map
      BY <2>1
    <2> QED
      BY <1>1, <2>1, <2>2 DEF IsStore
  <1>2. CASE ~Usable(t)
    BY <1>2 DEF LoadSettings
  <1> QED
    BY <1>1, <1>2

LEMMA Accessed ==
    ASSUME NEW s, IsStore(s), NEW t \in EventTypes, NEW a, a = EventTypeAccessed(s, t),
           s.eventTypeUsage \in Seq(EventTypes), IsInjective(s.eventTypeUsage)
    PROVE  /\ IsStore(a)
           /\ a.eventTypeFiles = s.eventTypeFiles
           /\ a.eventTypeUsage \in Seq(EventTypes)
           /\ IsInjective(a.eventTypeUsage)
           /\ Len(a.eventTypeUsage) <= MaxStoredEventTypes
           /\ t \in Range(a.eventTypeUsage)
           /\ Unchanging(s.eventTypesMap, a.eventTypesMap)
           /\ DOMAIN a.eventTypesMap \subseteq
                  (DOMAIN s.eventTypesMap \ Range(s.eventTypeUsage)) \cup Range(a.eventTypeUsage)
  <1> DEFINE used == <<t>> \o RemoveFirst(s.eventTypeUsage, t)
             n == IF Len(used) > MaxStoredEventTypes THEN MaxStoredEventTypes ELSE Len(used)
             kept == SubSeq(used, 1, n)
             map == Restrict(s.eventTypesMap,
                             DOMAIN s.eventTypesMap \ (Range(used) \ Range(kept)))
  <1>1. a = [eventTypesMap |-> map, eventTypeUsage |-> kept, eventTypeFiles |-> s.eventTypeFiles]
    BY DEF EventTypeAccessed, IsStore
  <1>2. /\ used \in Seq(EventTypes) /\ IsInjective(used)
        /\ Len(used) >= 1 /\ used[1] = t
        /\ Range(s.eventTypeUsage) \subseteq Range(used)
    <2> DEFINE r == RemoveFirst(s.eventTypeUsage, t)
               u == s.eventTypeUsage
    <2>1. u \in Seq(EventTypes) /\ IsInjective(u) /\ r = RemoveFirst(u, t)
      OBVIOUS
    <2>2. used = <<t>> \o r
      OBVIOUS
    <2> HIDE DEF r, u, used
    <2>3. /\ <<t>> \o r \in Seq(EventTypes) /\ IsInjective(<<t>> \o r)
          /\ Len(<<t>> \o r) >= 1 /\ (<<t>> \o r)[1] = t
          /\ Range(u) \subseteq Range(<<t>> \o r)
      BY <2>1, UsedNow
    <2> QED
      BY <2>2, <2>3 DEF u
  <1>3. /\ DOMAIN map = DOMAIN s.eventTypesMap \ (Range(used) \ Range(kept))
        /\ \A k \in DOMAIN map : map[k] = s.eventTypesMap[k]
    BY DEF Restrict
  <1> HIDE DEF used, map
  <1>4. n \in 1..Len(used) /\ n <= MaxStoredEventTypes
    BY <1>2, EventTypesAssumption
  <1>5. /\ kept \in Seq(EventTypes) /\ Len(kept) = n
        /\ \A i \in 1..n : kept[i] = used[i]
    BY <1>2, <1>4
  <1> HIDE DEF n, kept
  <1>6. IsInjective(kept)
    BY <1>2, <1>4, <1>5 DEF IsInjective
  <1>7. t \in Range(kept)
    <2>1. 1 \in 1..n /\ DOMAIN kept = 1..n
      BY <1>4, <1>5
    <2>2. kept[1] = t
      BY <1>2, <1>5, <2>1
    <2> QED
      BY <2>1, <2>2 DEF Range
  <1>8. Unchanging(s.eventTypesMap, map)
    BY <1>3 DEF Unchanging
  <1>9. DOMAIN map \subseteq (DOMAIN s.eventTypesMap \ Range(s.eventTypeUsage)) \cup Range(kept)
    BY <1>2, <1>3
  <1>10. a.eventTypesMap = map /\ a.eventTypeUsage = kept /\ a.eventTypeFiles = s.eventTypeFiles
    BY <1>1
  <1> QED
    BY <1>1, <1>4, <1>5, <1>6, <1>7, <1>8, <1>9, <1>10 DEF IsStore

FileContents == {"absent", "unusable"} \cup Versions

EventTypesTypes ==
    /\ files \in [EventTypes -> FileContents]
    /\ watcher \in [directoryChanged : BOOLEAN, fileChanged : SUBSET EventTypes,
                    watched : SUBSET EventTypes]
    /\ IsStore(store)
    /\ store.eventTypeUsage \in Seq(EventTypes)
    /\ DOMAIN store.eventTypesMap \subseteq EventTypes

(* Where nothing has to be signalled of the directory, all files that are  *)
(* there are watched and listed.                                           *)
AllWatched ==
    ~watcher.directoryChanged => /\ Installed \subseteq watcher.watched
                                 /\ Installed \subseteq store.eventTypeFiles

(* A type that is in memory without its file is listed and will be noticed *)
(* when the directory is looked at; another is as its file says, unless    *)
(* that has still to be signalled or the file became unusable.             *)
AnswerFollows(t) ==
    /\ files[t] = "absent" => watcher.directoryChanged /\ t \in store.eventTypeFiles
    /\ files[t] # "absent" /\ t \notin watcher.fileChanged =>
           files[t] \in {store.eventTypesMap[t], "unusable"}

EventTypesInvariant ==
    /\ EventTypesTypes
    /\ MemoryBounded
    /\ AllWatched
    /\ \A t \in DOMAIN store.eventTypesMap \ hasty : AnswerFollows(t)

LEMMA EventTypesStart == EventTypesInit => EventTypesInvariant
  <1> SUFFICES ASSUME EventTypesInit PROVE EventTypesInvariant
    OBVIOUS
  <1>1. /\ store.eventTypesMap = <<>> /\ store.eventTypeUsage = <<>>
        /\ store.eventTypeFiles = Installed /\ IsStore(store)
    BY DEF EventTypesInit, IsStore
  <1>2. DOMAIN store.eventTypesMap = {}
    BY <1>1
  <1>3. /\ store.eventTypeUsage \in Seq(EventTypes) /\ Len(store.eventTypeUsage) = 0
        /\ DOMAIN store.eventTypeUsage = {}
    BY <1>1
  <1>4. MemoryBounded
    BY <1>2, <1>3, EventTypesAssumption DEF MemoryBounded, IsInjective
  <1>5. watcher = [directoryChanged |-> FALSE, fileChanged |-> {}, watched |-> Installed]
    BY DEF EventTypesInit
  <1>6. watcher \in [directoryChanged : BOOLEAN, fileChanged : SUBSET EventTypes,
                     watched : SUBSET EventTypes]
    BY <1>5 DEF Installed
  <1>7. files \in [EventTypes -> FileContents]
    BY DEF EventTypesInit, FileContents
  <1>8. AllWatched
    BY <1>1, <1>5 DEF AllWatched
  <1> QED
    BY <1>1, <1>2, <1>3, <1>4, <1>6, <1>7, <1>8 DEF EventTypesInvariant, EventTypesTypes

LEMMA AskKept ==
    ASSUME EventTypesInvariant, NEW t \in EventTypes, Ask(t)
    PROVE  EventTypesInvariant'
  <1>0. /\ store' = EventTypeExists(store, t) /\ unasked' = unasked \ {t}
        /\ files' = files /\ watcher' = watcher /\ hasty' = hasty
    BY DEF Ask
  <1>1. /\ IsStore(store) /\ store.eventTypeUsage \in Seq(EventTypes)
        /\ IsInjective(store.eventTypeUsage) /\ Len(store.eventTypeUsage) <= MaxStoredEventTypes
        /\ DOMAIN store.eventTypesMap \subseteq EventTypes
        /\ DOMAIN store.eventTypesMap \subseteq Range(store.eventTypeUsage) \cup unasked
    BY DEF EventTypesInvariant, EventTypesTypes, MemoryBounded
  <1> DEFINE l == IF t \in DOMAIN store.eventTypesMap THEN store ELSE LoadSettings(store, t)
  <1>2. /\ IsStore(l)
        /\ l.eventTypeUsage = store.eventTypeUsage
        /\ l.eventTypeFiles = store.eventTypeFiles
        /\ DOMAIN l.eventTypesMap \subseteq DOMAIN store.eventTypesMap \cup {t}
        /\ DOMAIN store.eventTypesMap \subseteq DOMAIN l.eventTypesMap
        /\ \A k \in DOMAIN store.eventTypesMap : l.eventTypesMap[k] = store.eventTypesMap[k]
        /\ t \in DOMAIN l.eventTypesMap /\ t \notin DOMAIN store.eventTypesMap =>
               Usable(t) /\ l.eventTypesMap[t] = files[t]
    <2>1. CASE t \in DOMAIN store.eventTypesMap
      BY <1>1, <2>1
    <2>2. CASE t \notin DOMAIN store.eventTypesMap
      <3>1. l = LoadSettings(store, t)
        BY <2>2
      <3> HIDE DEF l
      <3> QED
        BY <1>1, <2>2, <3>1, Loaded
    <2> QED
      BY <2>1, <2>2
  <1>3. store' = IF t \in DOMAIN l.eventTypesMap THEN EventTypeAccessed(l, t) ELSE l
    BY <1>0 DEF EventTypeExists
  <1> HIDE DEF l
  <1>4. /\ IsStore(store')
        /\ store'.eventTypeFiles = store.eventTypeFiles
        /\ store'.eventTypeUsage \in Seq(EventTypes)
        /\ IsInjective(store'.eventTypeUsage)
        /\ Len(store'.eventTypeUsage) <= MaxStoredEventTypes
        /\ Unchanging(l.eventTypesMap, store'.eventTypesMap)
        /\ DOMAIN store'.eventTypesMap \subseteq Range(store'.eventTypeUsage) \cup (unasked \ {t})
    <2>1. CASE t \in DOMAIN l.eventTypesMap
      <3>1. /\ IsStore(store')
            /\ store'.eventTypeFiles = l.eventTypeFiles
            /\ store'.eventTypeUsage \in Seq(EventTypes)
            /\ IsInjective(store'.eventTypeUsage)
            /\ Len(store'.eventTypeUsage) <= MaxStoredEventTypes
            /\ t \in Range(store'.eventTypeUsage)
            /\ Unchanging(l.eventTypesMap, store'.eventTypesMap)
            /\ DOMAIN store'.eventTypesMap \subseteq
                  (DOMAIN l.eventTypesMap \ Range(l.eventTypeUsage)) \cup Range(store'.eventTypeUsage)
        BY <1>1, <1>2, <1>3, <2>1, Accessed
      <3> QED
        BY <1>1, <1>2, <3>1
    <2>2. CASE t \notin DOMAIN l.eventTypesMap
      BY <1>1, <1>2, <1>3, <2>2 DEF Unchanging
    <2> QED
      BY <2>1, <2>2
  <1>5. DOMAIN store'.eventTypesMap \subseteq EventTypes
    BY <1>1, <1>2, <1>4 DEF Unchanging
  <1>6. EventTypesTypes'
    BY <1>0, <1>4, <1>5 DEF EventTypesInvariant, EventTypesTypes
  <1>7. MemoryBounded'
    BY <1>0, <1>4 DEF MemoryBounded
  <1>8. AllWatched'
    BY <1>0, <1>4 DEF EventTypesInvariant, AllWatched, Installed
  <1>9. ASSUME NEW k \in DOMAIN store'.eventTypesMap \ hasty PROVE AnswerFollows(k)'
    <2>1. k \in DOMAIN l.eventTypesMap /\ store'.eventTypesMap[k] = l.eventTypesMap[k]
      BY <1>4 DEF Unchanging
    <2>2. CASE k \in DOMAIN store.eventTypesMap
      <3>1. AnswerFollows(k)
        BY <2>2 DEF EventTypesInvariant
      <3>2. store'.eventTypesMap[k] = store.eventTypesMap[k]
        BY <1>2, <2>1, <2>2
      <3> QED
        BY <1>0, <1>4, <3>1, <3>2 DEF AnswerFollows
    <2>3. CASE k \notin DOMAIN store.eventTypesMap
      <3>1. k = t /\ Usable(t) /\ store'.eventTypesMap[t] = files[t]
        BY <1>2, <2>1, <2>3
      <3>2. files[t] # "absent"
        BY <3>1, EventTypesAssumption DEF Usable
      <3> QED
        BY <1>0, <3>1, <3>2 DEF AnswerFollows
    <2> QED
      BY <2>2, <2>3
  <1> QED
    BY <1>0, <1>6, <1>7, <1>8, <1>9 DEF EventTypesInvariant

LEMMA DirectoryKept ==
    ASSUME EventTypesInvariant, UpdateEventTypeFileList
    PROVE  EventTypesInvariant'
  <1> DEFINE removed == store.eventTypeFiles \ Installed
             map == Restrict(store.eventTypesMap, DOMAIN store.eventTypesMap \ removed)
  <1>0. /\ IsStore(store) /\ watcher.directoryChanged
        /\ watcher \in [directoryChanged : BOOLEAN, fileChanged : SUBSET EventTypes,
                        watched : SUBSET EventTypes]
    BY DEF UpdateEventTypeFileList, EventTypesInvariant, EventTypesTypes
  <1>1. /\ store' = [eventTypesMap |-> map, eventTypeUsage |-> store.eventTypeUsage,
                     eventTypeFiles |-> Installed]
        /\ watcher' = [watcher EXCEPT !.directoryChanged = FALSE,
                                      !.watched = (@ \ removed) \cup Installed]
        /\ unasked' = unasked \ removed
        /\ files' = files /\ hasty' = hasty
    BY <1>0 DEF UpdateEventTypeFileList, IsStore
  <1>2. /\ DOMAIN map = DOMAIN store.eventTypesMap \ removed
        /\ \A k \in DOMAIN map : map[k] = store.eventTypesMap[k]
    BY DEF Restrict
  <1> HIDE DEF map
  <1>3. /\ store'.eventTypesMap = map /\ store'.eventTypeUsage = store.eventTypeUsage
        /\ store'.eventTypeFiles = Installed /\ IsStore(store')
    BY <1>1 DEF IsStore
  <1>4. /\ watcher' \in [directoryChanged : BOOLEAN, fileChanged : SUBSET EventTypes,
                         watched : SUBSET EventTypes]
        /\ watcher'.fileChanged = watcher.fileChanged /\ Installed \subseteq watcher'.watched
    BY <1>0, <1>1 DEF Installed
  <1>5. EventTypesTypes'
    BY <1>1, <1>2, <1>3, <1>4 DEF EventTypesInvariant, EventTypesTypes
  <1>6. MemoryBounded'
    BY <1>1, <1>2, <1>3 DEF EventTypesInvariant, MemoryBounded
  <1>7. AllWatched'
    BY <1>1, <1>3, <1>4 DEF AllWatched, Installed
  <1>8. ASSUME NEW k \in DOMAIN map \ hasty PROVE AnswerFollows(k)'
    <2>1. AnswerFollows(k) /\ k \notin removed /\ map[k] = store.eventTypesMap[k] /\ k \in EventTypes
      BY <1>2 DEF EventTypesInvariant, EventTypesTypes
    <2>2. files[k] # "absent"
      BY <2>1 DEF AnswerFollows, Installed
    <2> QED
      BY <1>1, <1>3, <1>4, <2>1, <2>2 DEF AnswerFollows
  <1> QED
    BY <1>1, <1>3, <1>5, <1>6, <1>7, <1>8 DEF EventTypesInvariant

LEMMA FileKept ==
    ASSUME EventTypesInvariant, NEW t \in EventTypes, UpdateEventTypeFile(t)
    PROVE  EventTypesInvariant'
  <1>0. /\ IsStore(store)
        /\ watcher \in [directoryChanged : BOOLEAN, fileChanged : SUBSET EventTypes,
                        watched : SUBSET EventTypes]
        /\ files' = files /\ hasty' = hasty
        /\ store' = IF t \in Installed THEN LoadSettings(store, t) ELSE store
        /\ unasked' = IF Usable(t) THEN unasked \cup {t} ELSE unasked
        /\ watcher' = [watcher EXCEPT !.fileChanged = @ \ {t}]
    BY DEF UpdateEventTypeFile, EventTypesInvariant, EventTypesTypes
  <1>1. Usable(t) => t \in Installed
    BY EventTypesAssumption DEF Usable, Installed
  <1>2. /\ IsStore(store')
        /\ store'.eventTypeUsage = store.eventTypeUsage
        /\ store'.eventTypeFiles = store.eventTypeFiles
        /\ Usable(t) => /\ DOMAIN store'.eventTypesMap = DOMAIN store.eventTypesMap \cup {t}
                        /\ store'.eventTypesMap[t] = files[t]
                        /\ \A k \in DOMAIN store.eventTypesMap :
                               k # t => store'.eventTypesMap[k] = store.eventTypesMap[k]
        /\ ~Usable(t) => store' = store
    <2>1. CASE t \in Installed
      BY <1>0, <2>1, Loaded
    <2>2. CASE t \notin Installed
      BY <1>0, <1>1, <2>2
    <2> QED
      BY <2>1, <2>2
  <1>3. /\ watcher'.directoryChanged = watcher.directoryChanged
        /\ watcher'.fileChanged = watcher.fileChanged \ {t}
        /\ watcher'.watched = watcher.watched
        /\ watcher' \in [directoryChanged : BOOLEAN, fileChanged : SUBSET EventTypes,
                         watched : SUBSET EventTypes]
    BY <1>0
  <1>4. EventTypesTypes'
    BY <1>0, <1>2, <1>3 DEF EventTypesInvariant, EventTypesTypes
  <1>5. MemoryBounded'
    <2>1. CASE Usable(t)
      BY <1>0, <1>2, <2>1 DEF EventTypesInvariant, MemoryBounded
    <2>2. CASE ~Usable(t)
      BY <1>0, <1>2, <2>2 DEF EventTypesInvariant, MemoryBounded
    <2> QED
      BY <2>1, <2>2
  <1>6. AllWatched'
    BY <1>0, <1>2, <1>3 DEF EventTypesInvariant, AllWatched, Installed
  <1>7. ASSUME NEW k \in DOMAIN store'.eventTypesMap \ hasty PROVE AnswerFollows(k)'
    <2>1. CASE k = t /\ Usable(t)
      <3>1. files[t] # "absent"
        BY <2>1, EventTypesAssumption DEF Usable
      <3> QED
        BY <1>0, <1>2, <2>1, <3>1 DEF AnswerFollows
    <2>2. CASE k = t /\ ~Usable(t)
      <3>1. AnswerFollows(t) /\ files[t] \in {"absent", "unusable"}
        BY <1>2, <2>2 DEF EventTypesInvariant, EventTypesTypes, FileContents, Usable
      <3> QED
        BY <1>0, <1>2, <1>3, <2>2, <3>1 DEF AnswerFollows
    <2>3. CASE k # t
      <3>1. /\ k \in DOMAIN store.eventTypesMap
            /\ store'.eventTypesMap[k] = store.eventTypesMap[k]
        BY <1>2, <2>3
      <3>2. AnswerFollows(k)
        BY <3>1 DEF EventTypesInvariant
      <3> QED
        BY <1>0, <1>2, <1>3, <2>3, <3>1, <3>2 DEF AnswerFollows
    <2> QED
      BY <2>1, <2>2, <2>3
  <1> QED
    BY <1>0, <1>4, <1>5, <1>6, <1>7 DEF EventTypesInvariant

LEMMA ChangeKept ==
    ASSUME EventTypesInvariant, NEW t \in EventTypes, NEW contents \in FileContents,
           ChangeFile(t, contents)
    PROVE  EventTypesInvariant'
  <1>0. /\ watcher \in [directoryChanged : BOOLEAN, fileChanged : SUBSET EventTypes,
                        watched : SUBSET EventTypes]
        /\ files \in [EventTypes -> FileContents]
        /\ store' = store /\ unasked' = unasked
        /\ contents # files[t]
        /\ files' = [files EXCEPT ![t] = contents]
        /\ hasty' = IF watcher.directoryChanged THEN hasty \cup {t} ELSE hasty
        /\ watcher' = [watcher EXCEPT
              !.directoryChanged = @ \/ "absent" \in {contents, files[t]},
              !.fileChanged = IF t \in watcher.watched THEN @ \cup {t} ELSE @,
              !.watched = IF contents = "absent" THEN @ \ {t} ELSE @]
    BY DEF ChangeFile, EventTypesInvariant, EventTypesTypes
  <1>1. /\ files' \in [EventTypes -> FileContents]
        /\ files'[t] = contents
        /\ \A k \in EventTypes \ {t} : files'[k] = files[k]
    BY <1>0
  <1>2. /\ watcher'.directoryChanged <=>
               (watcher.directoryChanged \/ "absent" \in {contents, files[t]})
        /\ watcher'.fileChanged =
               IF t \in watcher.watched THEN watcher.fileChanged \cup {t} ELSE watcher.fileChanged
        /\ watcher'.watched =
               IF contents = "absent" THEN watcher.watched \ {t} ELSE watcher.watched
    BY <1>0
  <1>3. watcher' \in [directoryChanged : BOOLEAN, fileChanged : SUBSET EventTypes,
                      watched : SUBSET EventTypes]
    BY <1>0
  <1>4. EventTypesTypes'
    BY <1>0, <1>1, <1>3 DEF EventTypesInvariant, EventTypesTypes
  <1>5. MemoryBounded'
    BY <1>0 DEF EventTypesInvariant, MemoryBounded
  <1>6. AllWatched'
    <2> SUFFICES ASSUME ~watcher'.directoryChanged
                 PROVE  Installed' = Installed /\ watcher'.watched = watcher.watched
                        /\ ~watcher.directoryChanged
      BY <1>0 DEF AllWatched, EventTypesInvariant
    <2>1. ~watcher.directoryChanged /\ contents # "absent" /\ files[t] # "absent"
      BY <1>2
    <2> QED
      BY <1>1, <1>2, <2>1 DEF Installed
  <1>7. ASSUME NEW k \in DOMAIN store.eventTypesMap \ hasty' PROVE AnswerFollows(k)'
    <2>1. k \in EventTypes /\ AnswerFollows(k)
      BY <1>0 DEF EventTypesInvariant, EventTypesTypes
    <2>2. CASE k # t
      BY <1>0, <1>1, <1>2, <2>1, <2>2 DEF AnswerFollows
    <2>3. CASE k = t
      <3>1. ~watcher.directoryChanged
        BY <1>0, <2>3
      <3>2. files[t] # "absent"
        BY <2>1, <2>3, <3>1 DEF AnswerFollows
      <3>3. t \in Installed /\ t \in watcher.watched /\ t \in store.eventTypeFiles
        BY <3>1, <3>2 DEF Installed, AllWatched, EventTypesInvariant
      <3>4. t \in watcher'.fileChanged /\ (contents = "absent" => watcher'.directoryChanged)
        BY <1>2, <3>3
      <3> QED
        BY <1>0, <1>1, <2>3, <3>3, <3>4 DEF AnswerFollows
    <2> QED
      BY <2>2, <2>3
  <1> QED
    BY <1>0, <1>4, <1>5, <1>6, <1>7 DEF EventTypesInvariant

LEMMA EventTypesKept ==
    EventTypesInvariant /\ [EventTypesNext]_eventTypeVars => EventTypesInvariant'
  <1> SUFFICES ASSUME EventTypesInvariant, [EventTypesNext]_eventTypeVars
               PROVE  EventTypesInvariant'
    OBVIOUS
  <1>1. ASSUME NEW t \in EventTypes, Ask(t) PROVE EventTypesInvariant'
    BY <1>1, AskKept
  <1>2. ASSUME NEW t \in EventTypes, UpdateEventTypeFile(t) PROVE EventTypesInvariant'
    BY <1>2, FileKept
  <1>3. ASSUME NEW t \in EventTypes, NEW contents \in {"absent", "unusable"} \cup Versions,
               ChangeFile(t, contents)
        PROVE  EventTypesInvariant'
    BY <1>3, ChangeKept DEF FileContents
  <1>4. CASE UpdateEventTypeFileList
    BY <1>4, DirectoryKept
  <1>5. CASE UNCHANGED eventTypeVars
    BY <1>5 DEF eventTypeVars, EventTypesInvariant, EventTypesTypes, MemoryBounded, AllWatched,
                AnswerFollows, Installed
  <1> QED
    BY <1>1, <1>2, <1>3, <1>4, <1>5 DEF EventTypesNext

(* Whatever files come, change, become unusable and go, and whenever their *)
(* signals arrive: what the store answers with comes from the files, and   *)
(* it keeps no more of them than it may (eventtypestore.cpp:42-147).       *)
THEOREM StoreAlwaysFollowsFiles == EventTypesSpec => []StoreFollowsFiles
  <1>1. EventTypesInvariant => StoreFollowsFiles
    BY DEF EventTypesInvariant, StoreFollowsFiles, AnswersFollowFiles, AnswerFollows
  <1> QED
    BY <1>1, EventTypesStart, EventTypesKept, PTL DEF EventTypesSpec

-----------------------------------------------------------------------------
(* The reminder of a low battery: lowbatterynotifier.cpp.                  *)

Notifiers == [notificationInterval : Nat, deviceInactive : BOOLEAN, callActive : BOOLEAN,
              touchScreenLockActive : BOOLEAN, callContextItem : BOOLEAN,
              elapsed : Nat, left : Nat]

(* The interval is that of what the notifier noticed last.                 *)
IntervalNoticed(n) == n.notificationInterval = IntervalFor(n.callActive, n.deviceInactive)

(* It has noticed what there is.                                           *)
Noticed(n) == n.deviceInactive = Inactive(n) /\ n.callActive = n.callContextItem

PeriodWhole(n) == n.elapsed + n.left = n.notificationInterval

InTime(n, locked) ==
    /\ n \in Notifiers
    /\ IntervalNoticed(n)
    /\ PeriodWhole(n)
    /\ n.touchScreenLockActive = locked
    /\ ~displaySignal => Noticed(n)

LEMMA IntervalType ==
    ASSUME NEW a \in BOOLEAN, NEW b \in BOOLEAN
    PROVE  IntervalFor(a, b) \in Nat
  BY IntervalsAssumption DEF IntervalFor

WithPeriod(n, elapsed, left) == [n EXCEPT !.elapsed = elapsed, !.left = left]

LEMMA PeriodSet ==
    ASSUME NEW n \in Notifiers, NEW e \in Nat, NEW f \in Nat
    PROVE  /\ WithPeriod(n, e, f) \in Notifiers
           /\ WithPeriod(n, e, f).notificationInterval = n.notificationInterval
           /\ WithPeriod(n, e, f).deviceInactive = n.deviceInactive
           /\ WithPeriod(n, e, f).callActive = n.callActive
           /\ WithPeriod(n, e, f).touchScreenLockActive = n.touchScreenLockActive
           /\ WithPeriod(n, e, f).callContextItem = n.callContextItem
           /\ WithPeriod(n, e, f).elapsed = e
           /\ WithPeriod(n, e, f).left = f
  BY DEF WithPeriod, Notifiers

LEMMA AlertedInTime ==
    ASSUME NEW n \in Notifiers, IntervalNoticed(n), ~displaySignal => Noticed(n),
           NEW m, m = Alerted(n)
    PROVE  InTime(m, n.touchScreenLockActive)
  <1>1. /\ m \in Notifiers
        /\ m.notificationInterval = n.notificationInterval
        /\ m.deviceInactive = n.deviceInactive /\ m.callActive = n.callActive
        /\ m.touchScreenLockActive = n.touchScreenLockActive
        /\ m.callContextItem = n.callContextItem
        /\ m.elapsed = 0 /\ m.left = n.notificationInterval
        /\ n.notificationInterval \in Nat
    BY DEF Alerted, Notifiers
  <1> QED
    BY <1>1 DEF InTime, IntervalNoticed, PeriodWhole, Noticed, Inactive

(* What is left of a longer interval.                                      *)
LEMMA RestInTime ==
    ASSUME NEW n \in Notifiers, IntervalNoticed(n), Noticed(n),
           NEW left \in Nat, n.elapsed + left = n.notificationInterval,
           NEW m, m = WithPeriod(n, n.elapsed, left)
    PROVE  /\ m \in Notifiers /\ IntervalNoticed(m) /\ Noticed(m) /\ PeriodWhole(m)
           /\ m.touchScreenLockActive = n.touchScreenLockActive
           /\ m.callContextItem = n.callContextItem
  <1>1. n.elapsed \in Nat /\ n.notificationInterval \in Nat
    BY DEF Notifiers
  <1>2. /\ m \in Notifiers
        /\ m.notificationInterval = n.notificationInterval
        /\ m.deviceInactive = n.deviceInactive /\ m.callActive = n.callActive
        /\ m.touchScreenLockActive = n.touchScreenLockActive
        /\ m.callContextItem = n.callContextItem
        /\ m.elapsed = n.elapsed /\ m.left = left
    <2>1. PICK e \in Nat : e = n.elapsed
      BY <1>1
    <2>2. PICK o : o = WithPeriod(n, e, left)
      OBVIOUS
    <2>3. /\ o \in Notifiers
          /\ o.notificationInterval = n.notificationInterval
          /\ o.deviceInactive = n.deviceInactive /\ o.callActive = n.callActive
          /\ o.touchScreenLockActive = n.touchScreenLockActive
          /\ o.callContextItem = n.callContextItem
          /\ o.elapsed = e /\ o.left = left
      <3>1. n \in Notifiers /\ e \in Nat /\ left \in Nat
        BY <2>1
      <3>2. QED
        BY <2>2, <3>1, PeriodSet, SMTT(20)
    <2>4. m = o
      BY <2>1, <2>2
    <2>5. QED
      BY <2>1, <2>3, <2>4
  <1>3. IntervalNoticed(m)
    BY <1>2 DEF IntervalNoticed, Inactive
  <1>4. Noticed(m)
    BY <1>2 DEF Noticed, Inactive
  <1>5. PeriodWhole(m)
    BY <1>2 DEF PeriodWhole
  <1> QED
    BY <1>2, <1>3, <1>4, <1>5

(* A minute later.                                                         *)
LEMMA LaterInTime ==
    ASSUME NEW n, NEW locked, InTime(n, locked),
           NEW elapsed \in Nat, NEW left \in Nat, elapsed + left = n.elapsed + n.left,
           NEW m, m = WithPeriod(n, elapsed, left)
    PROVE  InTime(m, locked)
  <1>1. n \in Notifiers
    BY DEF InTime
  <1>2. /\ m \in Notifiers
        /\ m.notificationInterval = n.notificationInterval
        /\ m.deviceInactive = n.deviceInactive /\ m.callActive = n.callActive
        /\ m.touchScreenLockActive = n.touchScreenLockActive
        /\ m.callContextItem = n.callContextItem
        /\ m.elapsed = elapsed /\ m.left = left
    BY <1>1, PeriodSet
  <1> QED
    BY <1>2 DEF InTime, IntervalNoticed, PeriodWhole, Noticed, Inactive

(* A changed interval shortens or extends the period, whatever the notifier *)
(* noticed before.                                                          *)
LEMMA IntervalSet ==
    ASSUME NEW n \in Notifiers, IntervalNoticed(n), displayOff \in BOOLEAN,
           NEW m, m = SetNotificationInterval(n)
    PROVE  /\ m \in Notifiers /\ IntervalNoticed(m) /\ Noticed(m)
           /\ m.touchScreenLockActive = n.touchScreenLockActive
           /\ m.callContextItem = n.callContextItem
           /\ PeriodWhole(n) => PeriodWhole(m)
  <1>0. Inactive(n) \in BOOLEAN /\ n.callContextItem \in BOOLEAN
    BY DEF Inactive, Notifiers
  <1>1. IntervalFor(n.callContextItem, Inactive(n)) \in Nat
    BY <1>0, IntervalType
  <1> PICK w : w = WithActivity(n)
    OBVIOUS
  <1>2. w = [n EXCEPT !.deviceInactive = Inactive(n), !.callActive = n.callContextItem,
                      !.notificationInterval = IntervalFor(n.callContextItem, Inactive(n))]
    BY DEF WithActivity
  <1>3. /\ w \in Notifiers
        /\ w.deviceInactive = Inactive(n)
        /\ w.callActive = n.callContextItem
        /\ w.callContextItem = n.callContextItem
        /\ w.touchScreenLockActive = n.touchScreenLockActive
        /\ w.notificationInterval = IntervalFor(n.callContextItem, Inactive(n))
        /\ w.elapsed = n.elapsed
    BY <1>0, <1>1, <1>2 DEF Notifiers
  <1>4. Inactive(w) = Inactive(n)
    BY <1>3 DEF Inactive
  <1>5. IntervalNoticed(w) /\ Noticed(w)
    BY <1>3, <1>4 DEF IntervalNoticed, Noticed
  <1>6. CASE ~ActivityChanged(n)
    BY <1>6 DEF SetNotificationInterval, ActivityChanged, Noticed
  <1>7. CASE ActivityChanged(n) /\ Due(n)
    <2>1. m = Alerted(w)
      BY <1>7 DEF SetNotificationInterval
    <2>2. w.notificationInterval \in Nat /\ 0 \in Nat
      BY <1>3 DEF Notifiers
    <2>3. m = WithPeriod(w, 0, w.notificationInterval)
      BY <2>1 DEF Alerted, WithPeriod
    <2>4. /\ m \in Notifiers
          /\ m.notificationInterval = w.notificationInterval
          /\ m.deviceInactive = w.deviceInactive /\ m.callActive = w.callActive
          /\ m.touchScreenLockActive = w.touchScreenLockActive
          /\ m.callContextItem = w.callContextItem
          /\ m.elapsed = 0 /\ m.left = w.notificationInterval
      BY <1>3, <2>2, <2>3, PeriodSet
    <2> QED
      BY <1>3, <1>5, <2>2, <2>4 DEF IntervalNoticed, PeriodWhole, Noticed, Inactive
  <1>8. CASE ActivityChanged(n) /\ ~Due(n)
    <2>1. w.elapsed \in Nat /\ w.notificationInterval \in Nat /\ w.left \in Nat
      BY <1>3 DEF Notifiers
    <2>2. ~(w.elapsed >= w.notificationInterval)
      BY <1>3, <1>8 DEF Due
    <2>3. m = WithPeriod(w, w.elapsed, w.notificationInterval - w.elapsed)
      BY <1>3, <1>8 DEF SetNotificationInterval, WithPeriod, Notifiers
    <2>4. PICK left \in Nat : /\ w.elapsed + left = w.notificationInterval
                              /\ m = WithPeriod(w, w.elapsed, left)
      BY <2>1, <2>2, <2>3
    <2> QED
      BY <1>3, <1>5, <2>4, RestInTime
  <1> QED
    BY <1>6, <1>7, <1>8

LEMMA NewNotifierType ==
    NewNotifier \in Notifiers /\ IntervalNoticed(NewNotifier)
  BY IntervalsAssumption DEF NewNotifier, Notifiers, IntervalNoticed, IntervalFor

-----------------------------------------------------------------------------
(* What the handlers make of the members and the notifier.                 *)

Banners == {NoBanner, "lowbattery", "removecharger", "chargingcomplete", "charging",
            "chargingnotstarted", "notenoughpower", "recharge", "enterpsm", "exitpsm"}
Patterns == SUBSET {"PatternBatteryCharging", "PatternBatteryFull"}
KnownChargers == ChargerTypes \cup {"Unknown"}

Members == [notification : Banners, leds : Patterns, touchScreenLockActive : BOOLEAN,
            chargerType : KnownChargers]

IsLogic(l) ==
    /\ l = [members |-> l.members, notifier |-> l.notifier]
    /\ l.members \in Members

(* There is a notifier at most, and it reminds in time.                    *)
RemindsInTime(l) ==
    \/ l.notifier = <<>>
    \/ /\ l.notifier = <<l.notifier[1]>>
       /\ InTime(l.notifier[1], l.members.touchScreenLockActive)

GoodLogic(l) == IsLogic(l) /\ RemindsInTime(l)

SaysCharging(l) ==
    "PatternBatteryCharging" \in l.members.leds \/ l.members.notification = "charging"

Tells(l, s, type) ==
    /\ GoodLogic(s) /\ s.notifier = l.notifier
    /\ s.members.notification = type /\ s.members.leds = l.members.leds
    /\ s.members.chargerType = l.members.chargerType
    /\ s.members.touchScreenLockActive = l.members.touchScreenLockActive

LEMMA SentGood ==
    ASSUME NEW l, GoodLogic(l), NEW type \in Banners, NEW s, s = Sent(l, type)
    PROVE  Tells(l, s, type)
  <1> DEFINE m == [l.members EXCEPT !.notification = type]
  <1>1. s = [members |-> m, notifier |-> l.notifier]
    BY DEF Sent, GoodLogic, IsLogic
  <1>2. /\ m \in Members
        /\ m.notification = type /\ m.leds = l.members.leds
        /\ m.chargerType = l.members.chargerType
        /\ m.touchScreenLockActive = l.members.touchScreenLockActive
    BY DEF GoodLogic, IsLogic, Members
  <1> HIDE DEF m
  <1>3. s.members = m /\ s.notifier = l.notifier
    BY <1>1
  <1> QED
    BY <1>1, <1>2, <1>3 DEF Tells, GoodLogic, IsLogic, RemindsInTime

LEMMA RemovedGood ==
    ASSUME NEW l, GoodLogic(l), NEW types, NEW s, s = Removed(l, types)
    PROVE  /\ GoodLogic(s) /\ s.notifier = l.notifier
           /\ s.members.notification =
                IF l.members.notification \in types THEN NoBanner ELSE l.members.notification
           /\ s.members.leds = l.members.leds
           /\ s.members.chargerType = l.members.chargerType
           /\ s.members.touchScreenLockActive = l.members.touchScreenLockActive
  <1>1. CASE l.members.notification \in types
    <2>1. s = Sent(l, NoBanner) /\ NoBanner \in Banners
      BY <1>1 DEF Removed, Sent, Banners
    <2> QED
      BY <1>1, <2>1, SentGood DEF Tells
  <1>2. CASE l.members.notification \notin types
    BY <1>2 DEF Removed
  <1> QED
    BY <1>1, <1>2

Shines(l, s, leds) ==
    /\ GoodLogic(s) /\ s.notifier = l.notifier
    /\ s.members.notification = l.members.notification
    /\ s.members.leds = leds
    /\ s.members.chargerType = l.members.chargerType
    /\ s.members.touchScreenLockActive = l.members.touchScreenLockActive

LEMMA LedGood ==
    ASSUME NEW l, GoodLogic(l), NEW on \in BOOLEAN,
           NEW pattern \in {"PatternBatteryCharging", "PatternBatteryFull"},
           NEW s, s = Led(l, on, pattern)
    PROVE  Shines(l, s, IF on THEN l.members.leds \cup {pattern} ELSE l.members.leds \ {pattern})
  <1> DEFINE leds == IF on THEN l.members.leds \cup {pattern} ELSE l.members.leds \ {pattern}
             m == [l.members EXCEPT !.leds = leds]
  <1>1. s = [members |-> m, notifier |-> l.notifier]
    BY DEF Led, GoodLogic, IsLogic
  <1>2. leds \in Patterns
    BY DEF GoodLogic, IsLogic, Members, Patterns
  <1> HIDE DEF leds
  <1>3. /\ m \in Members
        /\ m.notification = l.members.notification /\ m.leds = leds
        /\ m.chargerType = l.members.chargerType
        /\ m.touchScreenLockActive = l.members.touchScreenLockActive
    BY <1>2 DEF GoodLogic, IsLogic, Members
  <1> HIDE DEF m
  <1>4. s.members = m /\ s.notifier = l.notifier
    BY <1>1
  <1> QED
    BY <1>1, <1>3, <1>4 DEF Shines, GoodLogic, IsLogic, RemindsInTime, leds

LEMMA StoppedGood ==
    ASSUME NEW l, GoodLogic(l), NEW s, s = StopLowBatteryNotifier(l)
    PROVE  GoodLogic(s) /\ s.notifier = <<>> /\ s.members = l.members
  BY DEF StopLowBatteryNotifier, GoodLogic, IsLogic, RemindsInTime

LEMMA AlertGood ==
    ASSUME NEW l, GoodLogic(l), NEW n \in Notifiers, IntervalNoticed(n),
           ~displaySignal => Noticed(n),
           n.touchScreenLockActive = l.members.touchScreenLockActive,
           NEW s, s = Alert(l, n)
    PROVE  /\ GoodLogic(s) /\ s.notifier # <<>>
           /\ s.members.notification = "lowbattery" /\ s.members.leds = l.members.leds
           /\ s.members.chargerType = l.members.chargerType
           /\ s.members.touchScreenLockActive = l.members.touchScreenLockActive
  <1> DEFINE a == Alerted(n)
             x == [l EXCEPT !.notifier = <<a>>]
  <1>1. InTime(a, l.members.touchScreenLockActive)
    BY AlertedInTime
  <1> HIDE DEF a
  <1>2. /\ x = [members |-> l.members, notifier |-> <<a>>]
        /\ x.members = l.members /\ x.notifier = <<a>>
    BY DEF GoodLogic, IsLogic
  <1>3. s = Sent(x, "lowbattery")
    BY DEF Alert, a
  <1> HIDE DEF x
  <1>4. <<a>>[1] = a /\ <<a>> # <<>>
    OBVIOUS
  <1>5. x.notifier[1] = a /\ x.notifier # <<>>
    BY <1>2, <1>4
  <1>6. GoodLogic(x)
    BY <1>1, <1>2, <1>5 DEF GoodLogic, IsLogic, RemindsInTime
  <1>7. "lowbattery" \in Banners
    BY DEF Banners
  <1>8. /\ GoodLogic(s) /\ s.notifier = x.notifier
        /\ s.members.notification = "lowbattery" /\ s.members.leds = x.members.leds
        /\ s.members.chargerType = x.members.chargerType
        /\ s.members.touchScreenLockActive = x.members.touchScreenLockActive
    BY <1>3, <1>6, <1>7, SentGood DEF Tells
  <1> QED
    BY <1>2, <1>5, <1>8

LEMMA StartedGood ==
    ASSUME NEW l, GoodLogic(l), displayOff \in BOOLEAN,
           NEW s, s = StartLowBatteryNotifier(l)
    PROVE  /\ GoodLogic(s) /\ s.notifier # <<>>
           /\ s.members.notification = "lowbattery" /\ s.members.leds = l.members.leds
           /\ s.members.chargerType = l.members.chargerType
           /\ s.members.touchScreenLockActive = l.members.touchScreenLockActive
  <1> DEFINE n == IF l.notifier = <<>> THEN NewNotifier ELSE l.notifier[1]
             t == [n EXCEPT !.touchScreenLockActive = l.members.touchScreenLockActive]
             m == SetNotificationInterval(t)
  <1>1. n \in Notifiers /\ IntervalNoticed(n)
    BY NewNotifierType DEF GoodLogic, RemindsInTime, InTime
  <1>2. s = Alert(l, m)
    BY DEF StartLowBatteryNotifier
  <1>3. l.members.touchScreenLockActive \in BOOLEAN
    BY DEF GoodLogic, IsLogic, Members
  <1> HIDE DEF n
  <1>4. /\ t \in Notifiers /\ t.touchScreenLockActive = l.members.touchScreenLockActive
        /\ t.notificationInterval = n.notificationInterval
        /\ t.deviceInactive = n.deviceInactive /\ t.callActive = n.callActive
    BY <1>1, <1>3 DEF Notifiers
  <1> HIDE DEF t
  <1>5. IntervalNoticed(t)
    BY <1>1, <1>4 DEF IntervalNoticed
  <1>6. /\ m \in Notifiers /\ IntervalNoticed(m) /\ Noticed(m)
        /\ m.touchScreenLockActive = t.touchScreenLockActive
    BY <1>4, <1>5, IntervalSet
  <1> HIDE DEF m
  <1> QED
    BY <1>2, <1>4, <1>6, AlertGood

LEMMA ReconsideredGood ==
    ASSUME NEW l, IsLogic(l), displayOff \in BOOLEAN,
           NEW n \in Notifiers, IntervalNoticed(n), PeriodWhole(n),
           n.touchScreenLockActive = l.members.touchScreenLockActive,
           NEW s, s = Reconsidered(l, n)
    PROVE  /\ GoodLogic(s) /\ s.notifier # <<>> /\ Noticed(s.notifier[1])
           /\ s.members.leds = l.members.leds
           /\ s.members.notification \in {"lowbattery", l.members.notification}
           /\ s.members.chargerType = l.members.chargerType
           /\ s.members.touchScreenLockActive = l.members.touchScreenLockActive
  <1> DEFINE a == SetNotificationInterval(n)
             x == [l EXCEPT !.notifier = <<a>>]
  <1>1. /\ InTime(a, l.members.touchScreenLockActive)
        /\ Noticed(a)
    BY IntervalSet DEF InTime
  <1>2. s = IF Due(n) THEN Sent(x, "lowbattery") ELSE x
    BY DEF Reconsidered
  <1> HIDE DEF a
  <1>3. /\ x = [members |-> l.members, notifier |-> <<a>>]
        /\ x.members = l.members /\ x.notifier = <<a>>
    BY DEF GoodLogic, IsLogic
  <1> HIDE DEF x
  <1>4. <<a>>[1] = a /\ <<a>> # <<>>
    OBVIOUS
  <1>5. x.notifier[1] = a /\ x.notifier # <<>>
    BY <1>3, <1>4
  <1>6. GoodLogic(x)
    BY <1>1, <1>3, <1>5 DEF GoodLogic, IsLogic, RemindsInTime
  <1>7. "lowbattery" \in Banners
    BY DEF Banners
  <1>8. CASE Due(n)
    <2>1. Tells(x, s, "lowbattery")
      BY <1>2, <1>6, <1>7, <1>8, SentGood
    <2> QED
      BY <1>1, <1>3, <1>5, <2>1 DEF Tells
  <1>9. CASE ~Due(n)
    BY <1>1, <1>2, <1>3, <1>5, <1>6, <1>9
  <1> QED
    BY <1>8, <1>9

-----------------------------------------------------------------------------
(* The handlers of the signals.                                            *)

Charge(state) == Signal("chargingStateChanged", state)
BatteryLevel(state) == Signal("batteryStateChanged", state)
ChargerIs(type) == Signal("chargerEvent", type)

Signals == {Charge(s) : s \in ChargingStates} \cup {BatteryLevel(s) : s \in BatteryStates}
              \cup {ChargerIs(t) : t \in ChargerTypes}

Starts(l, signal) ==
    \/ signal = BatteryLevel("StateLow") /\ charging # "StateCharging"
    \/ signal = ChargerIs("None") /\ RemindAgain(l)

Stops(signal) ==
    \/ signal = Charge("StateCharging") /\ charger # "USB_100mA"
    \/ signal = BatteryLevel("StateFull")
    \/ signal = BatteryLevel("StateOK")

LEMMA SignalParts ==
    ASSUME NEW v
    PROVE  /\ Charge(v).kind = "chargingStateChanged" /\ Charge(v).value = v
           /\ BatteryLevel(v).kind = "batteryStateChanged" /\ BatteryLevel(v).value = v
           /\ ChargerIs(v).kind = "chargerEvent" /\ ChargerIs(v).value = v
  BY DEF Charge, BatteryLevel, ChargerIs, Signal

(* What a handler makes of the members, but for the charger.               *)
Handling(l, h, signal) ==
    /\ GoodLogic(h)
    /\ h.members.touchScreenLockActive = l.members.touchScreenLockActive
    /\ h.notifier # <<>> <=> Starts(l, signal) \/ (l.notifier # <<>> /\ ~Stops(signal))
    /\ SaysCharging(h) => \/ signal = Charge("StateCharging")
                          \/ SaysCharging(l) /\ signal.kind # "chargingStateChanged"

LEMMA ChargingHandled ==
    ASSUME NEW l, GoodLogic(l), NEW state \in ChargingStates,
           NEW h, h = ChargingStateChanged(l, state)
    PROVE  /\ Handling(l, h, Charge(state))
           /\ h.members.chargerType = l.members.chargerType
  <1>1. /\ ~Starts(l, Charge(state))
        /\ Stops(Charge(state)) <=> state = "StateCharging" /\ charger # "USB_100mA"
        /\ Charge(state) = Charge("StateCharging") <=> state = "StateCharging"
    BY DEF Starts, Stops, Charge, BatteryLevel, ChargerIs, Signal
  <1>2. /\ "notenoughpower" \in Banners /\ "charging" \in Banners
        /\ "chargingnotstarted" \in Banners
    BY DEF Banners
  <1>3. CASE state = "StateCharging" /\ charger = "USB_100mA"
    <2>1. h = Sent(l, "notenoughpower")
      BY <1>3 DEF ChargingStateChanged
    <2>2. /\ GoodLogic(h) /\ h.notifier = l.notifier
          /\ h.members.chargerType = l.members.chargerType
          /\ h.members.touchScreenLockActive = l.members.touchScreenLockActive
      <3>1. Tells(l, h, "notenoughpower")
        BY <1>2, <2>1, SentGood
      <3> QED
        BY <1>2, <2>1, <3>1 DEF Tells
    <2> QED
      BY <1>1, <1>3, <2>2 DEF Handling
  <1>4. CASE state = "StateCharging" /\ charger # "USB_100mA"
    <2> PICK a : a = StopLowBatteryNotifier(l)
      OBVIOUS
    <2> PICK b : b = Removed(a, {"removecharger", "chargingcomplete", "lowbattery"})
      OBVIOUS
    <2> PICK c : c = Led(b, TRUE, "PatternBatteryCharging")
      OBVIOUS
    <2>1. h = Sent(c, "charging")
      BY <1>4 DEF ChargingStateChanged
    <2>2. GoodLogic(a) /\ a.notifier = <<>> /\ a.members = l.members
      BY StoppedGood
    <2>3. /\ GoodLogic(b) /\ b.notifier = <<>>
          /\ b.members.chargerType = l.members.chargerType
          /\ b.members.touchScreenLockActive = l.members.touchScreenLockActive
      BY <2>2, RemovedGood
    <2>4. /\ GoodLogic(c) /\ c.notifier = <<>>
          /\ c.members.chargerType = l.members.chargerType
          /\ c.members.touchScreenLockActive = l.members.touchScreenLockActive
      <3>1. Shines(b, c, b.members.leds \cup {"PatternBatteryCharging"})
        BY <2>3, LedGood
      <3> QED
        BY <2>3, <3>1 DEF Shines
    <2>5. /\ GoodLogic(h) /\ h.notifier = <<>>
          /\ h.members.chargerType = l.members.chargerType
          /\ h.members.touchScreenLockActive = l.members.touchScreenLockActive
      <3>1. Tells(c, h, "charging")
        BY <1>2, <2>1, <2>4, SentGood
      <3> QED
        BY <2>4, <3>1 DEF Tells
    <2> QED
      BY <1>1, <1>4, <2>5 DEF Handling
  <1>5. CASE state = "StateNotCharging"
    <2> PICK a : a = Removed(l, {"charging"})
      OBVIOUS
    <2>1. h = Led(a, FALSE, "PatternBatteryCharging")
      BY <1>5 DEF ChargingStateChanged
    <2>2. /\ GoodLogic(a) /\ a.notifier = l.notifier /\ a.members.notification # "charging"
          /\ a.members.chargerType = l.members.chargerType
          /\ a.members.touchScreenLockActive = l.members.touchScreenLockActive
      BY RemovedGood DEF NoBanner
    <2>3. /\ GoodLogic(h) /\ h.notifier = l.notifier /\ h.members.notification # "charging"
          /\ "PatternBatteryCharging" \notin h.members.leds
          /\ h.members.chargerType = l.members.chargerType
          /\ h.members.touchScreenLockActive = l.members.touchScreenLockActive
      <3>1. Shines(a, h, a.members.leds \ {"PatternBatteryCharging"})
        BY <2>1, <2>2, LedGood
      <3> QED
        BY <2>1, <2>2, <3>1 DEF Shines
    <2> QED
      BY <1>1, <1>5, <2>3 DEF Handling, SaysCharging
  <1>6. CASE state = "StateChargingFailed"
    <2> PICK a : a = Led(l, FALSE, "PatternBatteryCharging")
      OBVIOUS
    <2>1. h = Sent(a, "chargingnotstarted")
      BY <1>6 DEF ChargingStateChanged
    <2>2. /\ GoodLogic(a) /\ a.notifier = l.notifier
          /\ "PatternBatteryCharging" \notin a.members.leds
          /\ a.members.chargerType = l.members.chargerType
          /\ a.members.touchScreenLockActive = l.members.touchScreenLockActive
      <3>1. Shines(l, a, l.members.leds \ {"PatternBatteryCharging"})
        BY LedGood
      <3> QED
        BY <3>1 DEF Shines
    <2>3. /\ GoodLogic(h) /\ h.notifier = l.notifier
          /\ h.members.notification = "chargingnotstarted"
          /\ "PatternBatteryCharging" \notin h.members.leds
          /\ h.members.chargerType = l.members.chargerType
          /\ h.members.touchScreenLockActive = l.members.touchScreenLockActive
      <3>1. Tells(a, h, "chargingnotstarted")
        BY <1>2, <2>1, <2>2, SentGood
      <3> QED
        BY <2>2, <3>1 DEF Tells
    <2> QED
      BY <1>1, <1>6, <2>3 DEF Handling, SaysCharging
  <1> QED
    BY <1>3, <1>4, <1>5, <1>6 DEF ChargingStates

LEMMA LevelHandled ==
    ASSUME NEW l, GoodLogic(l), displayOff \in BOOLEAN, NEW state \in BatteryStates,
           NEW h, h = BatteryStateChanged(l, state)
    PROVE  /\ Handling(l, h, BatteryLevel(state))
           /\ h.members.chargerType = l.members.chargerType
  <1>1. /\ Starts(l, BatteryLevel(state)) <=> state = "StateLow" /\ charging # "StateCharging"
        /\ Stops(BatteryLevel(state)) <=> state \in {"StateFull", "StateOK"}
        /\ BatteryLevel(state).kind = "batteryStateChanged"
    BY DEF Starts, Stops, Charge, BatteryLevel, ChargerIs, Signal
  <1>2. "chargingcomplete" \in Banners /\ "recharge" \in Banners
    BY DEF Banners
  <1>3. CASE state = "StateFull"
    <2> PICK a : a = StopLowBatteryNotifier(l)
      OBVIOUS
    <2> PICK b : b = Removed(a, {"charging"})
      OBVIOUS
    <2> PICK c : c = Led(b, TRUE, "PatternBatteryFull")
      OBVIOUS
    <2>1. h = Sent(c, "chargingcomplete")
      BY <1>3 DEF BatteryStateChanged
    <2>2. GoodLogic(a) /\ a.notifier = <<>> /\ a.members = l.members
      BY StoppedGood
    <2>3. /\ GoodLogic(b) /\ b.notifier = <<>> /\ b.members.leds = l.members.leds
          /\ b.members.chargerType = l.members.chargerType
          /\ b.members.touchScreenLockActive = l.members.touchScreenLockActive
      BY <2>2, RemovedGood
    <2>4. /\ GoodLogic(c) /\ c.notifier = <<>>
          /\ c.members.leds = l.members.leds \cup {"PatternBatteryFull"}
          /\ c.members.chargerType = l.members.chargerType
          /\ c.members.touchScreenLockActive = l.members.touchScreenLockActive
      <3>1. Shines(b, c, b.members.leds \cup {"PatternBatteryFull"})
        BY <2>3, LedGood
      <3> QED
        BY <2>3, <3>1 DEF Shines
    <2>5. /\ GoodLogic(h) /\ h.notifier = <<>>
          /\ h.members.notification = "chargingcomplete"
          /\ h.members.leds = l.members.leds \cup {"PatternBatteryFull"}
          /\ h.members.chargerType = l.members.chargerType
          /\ h.members.touchScreenLockActive = l.members.touchScreenLockActive
      <3>1. Tells(c, h, "chargingcomplete")
        BY <1>2, <2>1, <2>4, SentGood
      <3> QED
        BY <2>4, <3>1 DEF Tells
    <2> QED
      BY <1>1, <1>3, <2>5 DEF Handling, SaysCharging
  <1>4. CASE state = "StateOK"
    <2>1. GoodLogic(h) /\ h.notifier = <<>> /\ h.members = l.members
      BY <1>4, StoppedGood DEF BatteryStateChanged
    <2> QED
      BY <1>1, <1>4, <2>1 DEF Handling, SaysCharging
  <1>5. CASE state = "StateLow" /\ charging # "StateCharging"
    <2>1. h = StartLowBatteryNotifier(l)
      BY <1>5 DEF BatteryStateChanged
    <2>2. /\ GoodLogic(h) /\ h.notifier # <<>>
          /\ h.members.notification = "lowbattery" /\ h.members.leds = l.members.leds
          /\ h.members.chargerType = l.members.chargerType
          /\ h.members.touchScreenLockActive = l.members.touchScreenLockActive
      BY <2>1, StartedGood
    <2> QED
      BY <1>1, <1>5, <2>2 DEF Handling, SaysCharging
  <1>6. CASE state = "StateLow" /\ charging = "StateCharging"
    <2>1. h = l
      BY <1>6 DEF BatteryStateChanged
    <2> QED
      BY <1>1, <1>6, <2>1 DEF Handling, SaysCharging
  <1>7. CASE state = "StateEmpty"
    <2>1. h = Sent(l, "recharge")
      BY <1>7 DEF BatteryStateChanged
    <2>2. /\ GoodLogic(h) /\ h.notifier = l.notifier
          /\ h.members.notification = "recharge" /\ h.members.leds = l.members.leds
          /\ h.members.chargerType = l.members.chargerType
          /\ h.members.touchScreenLockActive = l.members.touchScreenLockActive
      <3>1. Tells(l, h, "recharge")
        BY <1>2, <2>1, SentGood
      <3> QED
        BY <1>2, <2>1, <3>1 DEF Tells
    <2> QED
      BY <1>1, <1>7, <2>2 DEF Handling, SaysCharging
  <1> QED
    BY <1>3, <1>4, <1>5, <1>6, <1>7 DEF BatteryStates

LEMMA ChargerHandled ==
    ASSUME NEW l, GoodLogic(l), displayOff \in BOOLEAN, NEW type \in ChargerTypes,
           NEW h, h = BatteryChargerEvent(l, type)
    PROVE  /\ Handling(l, h, ChargerIs(type))
           /\ h.members.chargerType = type
  <1>1. /\ Starts(l, ChargerIs(type)) <=> type = "None" /\ RemindAgain(l)
        /\ ~Stops(ChargerIs(type))
        /\ ChargerIs(type).kind = "chargerEvent"
    BY DEF Starts, Stops, Charge, BatteryLevel, ChargerIs, Signal
  <1>2. "removecharger" \in Banners
    BY DEF Banners
  <1> PICK told : told = IF type = "None" /\ l.members.chargerType = "Wall"
                         THEN Sent(Removed(l, {"charging", "chargingcomplete"}), "removecharger")
                         ELSE l
    OBVIOUS
  <1>3. /\ GoodLogic(told) /\ told.notifier = l.notifier
        /\ SaysCharging(told) => SaysCharging(l)
        /\ told.members.touchScreenLockActive = l.members.touchScreenLockActive
    <2>1. CASE type = "None" /\ l.members.chargerType = "Wall"
      <3> PICK a : a = Removed(l, {"charging", "chargingcomplete"})
        OBVIOUS
      <3>1. told = Sent(a, "removecharger")
        BY <2>1
      <3>2. /\ GoodLogic(a) /\ a.notifier = l.notifier /\ a.members.leds = l.members.leds
            /\ a.members.touchScreenLockActive = l.members.touchScreenLockActive
        BY RemovedGood
      <3>3. /\ GoodLogic(told) /\ told.notifier = l.notifier
            /\ told.members.notification = "removecharger"
            /\ told.members.leds = l.members.leds
            /\ told.members.touchScreenLockActive = l.members.touchScreenLockActive
        <4>1. Tells(a, told, "removecharger")
          BY <1>2, <3>1, <3>2, SentGood
        <4> QED
          BY <1>2, <3>1, <3>2, <4>1 DEF Tells
      <3> QED
        BY <3>3 DEF SaysCharging
    <2>2. CASE ~(type = "None" /\ l.members.chargerType = "Wall")
      BY <2>2
    <2> QED
      BY <2>1, <2>2
  <1> PICK r : r = IF type = "None" /\ RemindAgain(l) THEN StartLowBatteryNotifier(told) ELSE told
    OBVIOUS
  <1>4. /\ GoodLogic(r)
        /\ r.notifier # <<>> <=> (type = "None" /\ RemindAgain(l)) \/ l.notifier # <<>>
        /\ SaysCharging(r) => SaysCharging(l)
        /\ r.members.touchScreenLockActive = l.members.touchScreenLockActive
    <2>1. CASE type = "None" /\ RemindAgain(l)
      <3>1. r = StartLowBatteryNotifier(told)
        BY <2>1
      <3>2. /\ GoodLogic(r) /\ r.notifier # <<>>
            /\ r.members.notification = "lowbattery" /\ r.members.leds = told.members.leds
            /\ r.members.touchScreenLockActive = told.members.touchScreenLockActive
        BY <1>3, <3>1, StartedGood
      <3> QED
        BY <1>3, <2>1, <3>2 DEF SaysCharging
    <2>2. CASE ~(type = "None" /\ RemindAgain(l))
      BY <1>3, <2>2
    <2> QED
      BY <2>1, <2>2
  <1>5. h = [r EXCEPT !.members.chargerType = type]
    BY DEF BatteryChargerEvent
  <1>6. /\ GoodLogic(h) /\ h.notifier = r.notifier
        /\ h.members.notification = r.members.notification
        /\ h.members.leds = r.members.leds
        /\ h.members.chargerType = type
        /\ h.members.touchScreenLockActive = r.members.touchScreenLockActive
    <2> DEFINE m == [r.members EXCEPT !.chargerType = type]
    <2>1. h = [members |-> m, notifier |-> r.notifier]
      BY <1>4, <1>5 DEF GoodLogic, IsLogic
    <2>2. type \in KnownChargers
      BY DEF KnownChargers
    <2>3. /\ m \in Members
          /\ m.notification = r.members.notification /\ m.leds = r.members.leds
          /\ m.chargerType = type
          /\ m.touchScreenLockActive = r.members.touchScreenLockActive
      BY <1>4, <2>2 DEF GoodLogic, IsLogic, Members
    <2> HIDE DEF m
    <2>4. h.members = m /\ h.notifier = r.notifier
      BY <2>1
    <2> QED
      BY <1>4, <2>1, <2>3, <2>4 DEF GoodLogic, IsLogic, RemindsInTime
  <1> QED
    BY <1>1, <1>4, <1>6 DEF Handling, SaysCharging

LEMMA SignalHandled ==
    ASSUME NEW l, GoodLogic(l), displayOff \in BOOLEAN, NEW signal \in Signals,
           NEW h, h = Handled(l, signal)
    PROVE  /\ Handling(l, h, signal)
           /\ h.members.chargerType = IF signal.kind = "chargerEvent" THEN signal.value
                                      ELSE l.members.chargerType
  <1>1. CASE \E s \in ChargingStates : signal = Charge(s)
    <2>1. PICK s \in ChargingStates : signal = Charge(s)
      BY <1>1
    <2>2. signal.kind = "chargingStateChanged" /\ signal.value = s
      BY <2>1, SignalParts
    <2>3. h = ChargingStateChanged(l, s)
      BY <2>2 DEF Handled
    <2> QED
      BY <2>1, <2>2, <2>3, ChargingHandled
  <1>2. CASE \E s \in BatteryStates : signal = BatteryLevel(s)
    <2>1. PICK s \in BatteryStates : signal = BatteryLevel(s)
      BY <1>2
    <2>2. signal.kind = "batteryStateChanged" /\ signal.value = s
      BY <2>1, SignalParts
    <2>3. h = BatteryStateChanged(l, s)
      BY <2>2 DEF Handled
    <2> QED
      BY <2>1, <2>2, <2>3, LevelHandled
  <1>3. CASE \E t \in ChargerTypes : signal = ChargerIs(t)
    <2>1. PICK t \in ChargerTypes : signal = ChargerIs(t)
      BY <1>3
    <2>2. signal.kind = "chargerEvent" /\ signal.value = t
      BY <2>1, SignalParts
    <2>3. h = BatteryChargerEvent(l, t)
      BY <2>2 DEF Handled
    <2> QED
      BY <2>1, <2>2, <2>3, ChargerHandled
  <1> QED
    BY <1>1, <1>2, <1>3 DEF Signals

-----------------------------------------------------------------------------
(* What the signals that wait say of the battery and the charger.          *)

Awaited(q, s) == \E i \in 1..Len(q) : q[i] = s
Follows(q, i, s) == \E j \in 1..Len(q) : j > i /\ q[j] = s

(* A value that is stale is followed by the one of the moment.             *)
Superseded(q, kind, value) ==
    \A i \in 1..Len(q) :
        q[i].kind = kind /\ q[i].value # value => Follows(q, i, Signal(kind, value))

(* Before the signal at i was delivered a charger is what was told last.   *)
ChargerBefore(q, type, i) ==
    \/ /\ type # "None"
       /\ \A k \in 1..Len(q) : k < i => q[k].kind # "chargerEvent"
    \/ \E j \in 1..Len(q) :
           /\ j < i /\ q[j].kind = "chargerEvent" /\ q[j].value # "None"
           /\ \A k \in 1..Len(q) : j < k /\ k < i => q[k].kind # "chargerEvent"

LastToldCharger(q, type) == ChargerBefore(q, type, Len(q) + 1)

NoneAfterCharger(q, type) ==
    \A i \in 1..Len(q) : q[i] = ChargerIs("None") => ChargerBefore(q, type, i)

UnpluggedSignalled(q) ==
    \A i \in 1..Len(q) : q[i] = Charge("StateCharging") => Follows(q, i, ChargerIs("None"))

(* q without its first.                                                    *)
IsRest(q, r) ==
    /\ Len(q) \in Nat /\ Len(r) \in Nat
    /\ Len(q) = Len(r) + 1
    /\ \A i \in 1..Len(r) : r[i] = q[i + 1]

(* q and then what o signals.                                              *)
IsExtended(q, o, r) ==
    /\ Len(q) \in Nat /\ Len(o) \in Nat /\ Len(r) \in Nat
    /\ Len(r) = Len(q) + Len(o)
    /\ \A i \in 1..Len(q) : r[i] = q[i]
    /\ \A j \in 1..Len(o) : r[Len(q) + j] = o[j]

LEMMA TailIsRest ==
    ASSUME NEW S, NEW q \in Seq(S), q # <<>>
    PROVE  /\ IsRest(q, Tail(q)) /\ Tail(q) \in Seq(S)
           /\ 1 \in 1..Len(q) /\ Head(q) = q[1] /\ Head(q) \in S
  BY DEF IsRest

LEMMA ConcatIsExtended ==
    ASSUME NEW S, NEW q \in Seq(S), NEW o \in Seq(S)
    PROVE  IsExtended(q, o, q \o o) /\ q \o o \in Seq(S)
  BY DEF IsExtended

(* The position in the rest.                                               *)
LEMMA RestPosition ==
    ASSUME NEW q, NEW r, IsRest(q, r), NEW i \in 1..Len(q), i # 1
    PROVE  /\ i - 1 \in 1..Len(r) /\ r[i - 1] = q[i] /\ i - 1 < i
           /\ \A k \in 1..Len(q) : k < i <=> k - 1 < i - 1
  <1>1. /\ Len(q) \in Nat /\ Len(r) \in Nat /\ Len(q) = Len(r) + 1
        /\ \A k \in 1..Len(r) : r[k] = q[k + 1]
    BY DEF IsRest
  <1>2. i - 1 \in 1..Len(r) /\ (i - 1) + 1 = i
    BY <1>1
  <1>3. r[i - 1] = q[(i - 1) + 1]
    BY <1>1, <1>2
  <1>4. r[i - 1] = q[i]
    BY <1>2, <1>3
  <1>5. i - 1 < i /\ \A k \in 1..Len(q) : k < i <=> k - 1 < i - 1
    BY <1>1
  <1> QED
    BY <1>2, <1>4, <1>5

LEMMA QueuePosition ==
    ASSUME NEW q, NEW r, IsRest(q, r), NEW i \in 1..Len(r)
    PROVE  i + 1 \in 1..Len(q) /\ i + 1 # 1 /\ (i + 1) - 1 = i /\ q[i + 1] = r[i]
  BY DEF IsRest

(* The signal at i of the extended queue: old or new.                      *)
IsOld(q, r, i) == i \in 1..Len(q) /\ r[i] = q[i]
IsNew(q, o, r, i) == \E j \in 1..Len(o) : i = Len(q) + j /\ r[i] = o[j]

LEMMA ExtendedPosition ==
    ASSUME NEW q, NEW o, NEW r, IsExtended(q, o, r), NEW i \in 1..Len(r)
    PROVE  IsOld(q, r, i) \/ IsNew(q, o, r, i)
  <1>1. CASE i <= Len(q)
    BY <1>1 DEF IsExtended, IsOld
  <1>2. CASE ~(i <= Len(q))
    <2> PICK j : j = i - Len(q)
      OBVIOUS
    <2>1. j \in 1..Len(o) /\ i = Len(q) + j
      BY <1>2 DEF IsExtended
    <2>2. r[Len(q) + j] = o[j]
      BY <2>1 DEF IsExtended
    <2> QED
      BY <2>1, <2>2 DEF IsNew
  <1> QED
    BY <1>1, <1>2

LEMMA ExtensionPosition ==
    ASSUME NEW q, NEW o, NEW r, IsExtended(q, o, r), NEW j \in 1..Len(o)
    PROVE  /\ Len(q) + j \in 1..Len(r) /\ r[Len(q) + j] = o[j]
           /\ \A i \in 1..Len(q) : i < Len(q) + j
  BY DEF IsExtended

LEMMA OldPosition ==
    ASSUME NEW q, NEW o, NEW r, IsExtended(q, o, r), NEW i \in 1..Len(q)
    PROVE  i \in 1..Len(r) /\ r[i] = q[i]
  BY DEF IsExtended

-----------------------------------------------------------------------------
(* A signal is delivered.                                                  *)

LEMMA AwaitedRest ==
    ASSUME NEW q, NEW r, IsRest(q, r), NEW s
    PROVE  /\ Awaited(q, s) => q[1] = s \/ Awaited(r, s)
           /\ Awaited(r, s) => Awaited(q, s)
           /\ Follows(q, 1, s) => Awaited(r, s)
  <1>1. ASSUME NEW i \in 1..Len(q), q[i] = s, i # 1
        PROVE  Awaited(r, s)
    <2>1. i - 1 \in 1..Len(r) /\ r[i - 1] = s
      BY <1>1, RestPosition
    <2> QED
      BY <2>1 DEF Awaited
  <1>2. ASSUME NEW i \in 1..Len(r), r[i] = s
        PROVE  Awaited(q, s)
    <2>1. i + 1 \in 1..Len(q) /\ q[i + 1] = s
      BY <1>2, QueuePosition
    <2> QED
      BY <2>1 DEF Awaited
  <1> QED
    BY <1>1, <1>2 DEF Awaited, Follows

LEMMA FollowsRest ==
    ASSUME NEW q, NEW r, IsRest(q, r), NEW s, NEW i \in 1..Len(r), Follows(q, i + 1, s)
    PROVE  Follows(r, i, s)
  <1>1. PICK j \in 1..Len(q) : j > i + 1 /\ q[j] = s
    BY DEF Follows
  <1>2. j # 1 /\ j - 1 > i
    BY <1>1 DEF IsRest
  <1>3. j - 1 \in 1..Len(r) /\ r[j - 1] = s
    BY <1>1, <1>2, RestPosition
  <1> QED
    BY <1>2, <1>3 DEF Follows

LEMMA SupersededRest ==
    ASSUME NEW q, NEW r, IsRest(q, r), NEW kind, NEW value, Superseded(q, kind, value)
    PROVE  Superseded(r, kind, value)
  <1> SUFFICES ASSUME NEW i \in 1..Len(r), r[i].kind = kind, r[i].value # value
               PROVE  Follows(r, i, Signal(kind, value))
    BY DEF Superseded
  <1>1. i + 1 \in 1..Len(q) /\ q[i + 1] = r[i]
    BY QueuePosition
  <1>2. Follows(q, i + 1, Signal(kind, value))
    BY <1>1 DEF Superseded
  <1> QED
    BY <1>2, FollowsRest

LEMMA UnpluggedRest ==
    ASSUME NEW q, NEW r, IsRest(q, r), UnpluggedSignalled(q)
    PROVE  UnpluggedSignalled(r)
  <1> SUFFICES ASSUME NEW i \in 1..Len(r), r[i] = Charge("StateCharging")
               PROVE  Follows(r, i, ChargerIs("None"))
    BY DEF UnpluggedSignalled
  <1>1. i + 1 \in 1..Len(q) /\ q[i + 1] = r[i]
    BY QueuePosition
  <1>2. Follows(q, i + 1, ChargerIs("None"))
    BY <1>1 DEF UnpluggedSignalled
  <1> QED
    BY <1>2, FollowsRest

(* What was the last charger before a signal stays it.                     *)
LEMMA ChargerBeforeRest ==
    ASSUME NEW q, NEW r, IsRest(q, r), NEW type, NEW i \in 1..Len(r) + 1,
           ChargerBefore(q, type, i + 1),
           NEW told, told = IF q[1].kind = "chargerEvent" THEN q[1].value ELSE type
    PROVE  ChargerBefore(r, told, i)
  <1>1. /\ Len(q) \in Nat /\ Len(r) \in Nat /\ Len(q) = Len(r) + 1
        /\ 1 \in 1..Len(q) /\ 1 < i + 1
    BY DEF IsRest
  <1>2. CASE /\ type # "None"
             /\ \A k \in 1..Len(q) : k < i + 1 => q[k].kind # "chargerEvent"
    <2>1. told = type /\ told # "None"
      BY <1>1, <1>2
    <2>2. ASSUME NEW k \in 1..Len(r), k < i
          PROVE  r[k].kind # "chargerEvent"
      <3>1. k + 1 \in 1..Len(q) /\ q[k + 1] = r[k] /\ k + 1 < i + 1
        BY <1>1, <2>2, QueuePosition
      <3> QED
        BY <1>2, <3>1
    <2> QED
      BY <2>1, <2>2 DEF ChargerBefore
  <1>3. CASE \E j \in 1..Len(q) :
                /\ j < i + 1 /\ q[j].kind = "chargerEvent" /\ q[j].value # "None"
                /\ \A k \in 1..Len(q) : j < k /\ k < i + 1 => q[k].kind # "chargerEvent"
    <2>1. PICK j \in 1..Len(q) :
                /\ j < i + 1 /\ q[j].kind = "chargerEvent" /\ q[j].value # "None"
                /\ \A k \in 1..Len(q) : j < k /\ k < i + 1 => q[k].kind # "chargerEvent"
      BY <1>3
    <2>2. ASSUME NEW k \in 1..Len(r), j < k + 1, k < i
          PROVE  r[k].kind # "chargerEvent"
      <3>1. k + 1 \in 1..Len(q) /\ q[k + 1] = r[k] /\ k + 1 < i + 1
        BY <1>1, <2>2, QueuePosition
      <3> QED
        BY <2>1, <2>2, <3>1
    <2>3. CASE j = 1
      <3>1. told # "None"
        BY <2>1, <2>3
      <3>2. \A k \in 1..Len(r) : j < k + 1
        BY <1>1, <2>3
      <3> QED
        BY <2>2, <3>1, <3>2 DEF ChargerBefore
    <2>4. CASE j # 1
      <3>1. j - 1 \in 1..Len(r) /\ r[j - 1] = q[j]
        BY <2>4, RestPosition
      <3>2. j - 1 < i /\ \A k \in 1..Len(r) : j - 1 < k => j < k + 1
        BY <1>1, <2>1
      <3>3. \A k \in 1..Len(r) : j - 1 < k /\ k < i => r[k].kind # "chargerEvent"
        BY <2>2, <3>2
      <3> QED
        BY <2>1, <3>1, <3>2, <3>3 DEF ChargerBefore
    <2> QED
      BY <2>3, <2>4
  <1> QED
    BY <1>2, <1>3 DEF ChargerBefore

LEMMA NoneAfterChargerRest ==
    ASSUME NEW q, NEW r, IsRest(q, r), NEW type, NoneAfterCharger(q, type),
           NEW told, told = IF q[1].kind = "chargerEvent" THEN q[1].value ELSE type
    PROVE  NoneAfterCharger(r, told)
  <1> SUFFICES ASSUME NEW i \in 1..Len(r), r[i] = ChargerIs("None")
               PROVE  ChargerBefore(r, told, i)
    BY DEF NoneAfterCharger
  <1>1. i + 1 \in 1..Len(q) /\ q[i + 1] = r[i]
    BY QueuePosition
  <1>2. ChargerBefore(q, type, i + 1)
    BY <1>1 DEF NoneAfterCharger
  <1>3. i \in 1..Len(r) + 1
    BY DEF IsRest
  <1> QED
    BY <1>2, <1>3, ChargerBeforeRest

-----------------------------------------------------------------------------
(* The hardware signals what changed.                                      *)

(* Of this kind o tells the change, if there is one.                       *)
TellsChange(o, kind, old, new) ==
    /\ \A i \in 1..Len(o) : o[i].kind = kind => o[i] = Signal(kind, new) /\ old # new
    /\ old # new => Awaited(o, Signal(kind, new))

LEMMA AwaitedExtended ==
    ASSUME NEW q, NEW o, NEW r, IsExtended(q, o, r), NEW s
    PROVE  Awaited(r, s) <=> Awaited(q, s) \/ Awaited(o, s)
  <1>1. Awaited(r, s) => Awaited(q, s) \/ Awaited(o, s)
    BY ExtendedPosition DEF Awaited, IsOld, IsNew
  <1>2. Awaited(q, s) => Awaited(r, s)
    BY OldPosition DEF Awaited
  <1>3. Awaited(o, s) => Awaited(r, s)
    BY ExtensionPosition DEF Awaited
  <1> QED
    BY <1>1, <1>2, <1>3

LEMMA FollowsExtended ==
    ASSUME NEW q, NEW o, NEW r, IsExtended(q, o, r), NEW i \in 1..Len(q), NEW s,
           Follows(q, i, s) \/ Awaited(o, s)
    PROVE  Follows(r, i, s)
  <1>1. CASE Follows(q, i, s)
    BY <1>1, OldPosition DEF Follows
  <1>2. CASE Awaited(o, s)
    <2>1. PICK j \in 1..Len(o) : o[j] = s
      BY <1>2 DEF Awaited
    <2>2. Len(q) + j \in 1..Len(r) /\ r[Len(q) + j] = s /\ Len(q) + j > i
      BY <2>1, ExtensionPosition DEF IsExtended
    <2> QED
      BY <2>2 DEF Follows
  <1> QED
    BY <1>1, <1>2

LEMMA SupersededExtended ==
    ASSUME NEW q, NEW o, NEW r, IsExtended(q, o, r), NEW kind, NEW old, NEW new,
           TellsChange(o, kind, old, new), Superseded(q, kind, old)
    PROVE  Superseded(r, kind, new)
  <1> SUFFICES ASSUME NEW i \in 1..Len(r), r[i].kind = kind, r[i].value # new
               PROVE  Follows(r, i, Signal(kind, new))
    BY DEF Superseded
  <1>1. CASE IsOld(q, r, i)
    <2>1. CASE old = new
      <3>1. Follows(q, i, Signal(kind, new))
        BY <1>1, <2>1 DEF Superseded, IsOld
      <3> QED
        BY <1>1, <3>1, FollowsExtended DEF IsOld
    <2>2. CASE old # new
      BY <1>1, <2>2, FollowsExtended DEF TellsChange, IsOld
    <2> QED
      BY <2>1, <2>2
  <1>2. CASE IsNew(q, o, r, i)
    <2>1. r[i] = Signal(kind, new)
      BY <1>2 DEF TellsChange, IsNew
    <2> QED
      BY <2>1 DEF Signal
  <1>3. IsOld(q, r, i) \/ IsNew(q, o, r, i)
    BY ExtendedPosition
  <1> QED
    BY <1>1, <1>2, <1>3

LEMMA ChargerBeforeExtended ==
    ASSUME NEW q, NEW o, NEW r, IsExtended(q, o, r), NEW type, NEW i \in 1..Len(q) + 1,
           ChargerBefore(q, type, i), NEW e \in i..Len(r) + 1,
           \A k \in 1..Len(r) : i <= k /\ k < e => r[k].kind # "chargerEvent"
    PROVE  ChargerBefore(r, type, e)
  <1>1. ASSUME NEW k \in 1..Len(r), k < i
        PROVE  k \in 1..Len(q) /\ r[k] = q[k]
    BY <1>1 DEF IsExtended
  <1>2. \A k \in 1..Len(r) : k < i \/ i <= k
    BY DEF IsExtended
  <1>3. CASE /\ type # "None"
             /\ \A k \in 1..Len(q) : k < i => q[k].kind # "chargerEvent"
    BY <1>1, <1>2, <1>3 DEF ChargerBefore
  <1>4. CASE \E j \in 1..Len(q) :
                /\ j < i /\ q[j].kind = "chargerEvent" /\ q[j].value # "None"
                /\ \A k \in 1..Len(q) : j < k /\ k < i => q[k].kind # "chargerEvent"
    <2>1. PICK j \in 1..Len(q) :
                /\ j < i /\ q[j].kind = "chargerEvent" /\ q[j].value # "None"
                /\ \A k \in 1..Len(q) : j < k /\ k < i => q[k].kind # "chargerEvent"
      BY <1>4
    <2>2. j \in 1..Len(r) /\ r[j] = q[j]
      BY OldPosition
    <2>3. j < e
      BY <2>1 DEF IsExtended
    <2>4. \A k \in 1..Len(r) : j < k /\ k < e => r[k].kind # "chargerEvent"
      BY <1>1, <1>2, <2>1
    <2> QED
      BY <2>1, <2>2, <2>3, <2>4 DEF ChargerBefore
  <1> QED
    BY <1>3, <1>4 DEF ChargerBefore

(* One change of the charger at most is signalled.                         *)
OneCharger(o) ==
    \A i, j \in 1..Len(o) : o[i].kind = "chargerEvent" /\ o[j].kind = "chargerEvent" => i = j

LEMMA NothingTold ==
    ASSUME NEW q, NEW o, NEW r, IsExtended(q, o, r), NEW e \in (Len(q) + 1)..(Len(r) + 1),
           \A j \in 1..Len(o) : Len(q) + j < e => o[j].kind # "chargerEvent"
    PROVE  \A k \in 1..Len(r) : Len(q) + 1 <= k /\ k < e => r[k].kind # "chargerEvent"
  <1> SUFFICES ASSUME NEW k \in 1..Len(r), Len(q) + 1 <= k, k < e
               PROVE  r[k].kind # "chargerEvent"
    OBVIOUS
  <1>1. ~(k \in 1..Len(q))
    BY DEF IsExtended
  <1>2. IsNew(q, o, r, k)
    BY <1>1, ExtendedPosition DEF IsOld
  <1>3. PICK j \in 1..Len(o) : k = Len(q) + j /\ r[k] = o[j]
    BY <1>2 DEF IsNew
  <1> QED
    BY <1>3

LEMMA NoneAfterChargerExtended ==
    ASSUME NEW q, NEW o, NEW r, IsExtended(q, o, r), NEW type, NEW old, NEW new,
           NoneAfterCharger(q, type),
           old # "None" => LastToldCharger(q, type),
           TellsChange(o, "chargerEvent", old, new), OneCharger(o)
    PROVE  NoneAfterCharger(r, type)
  <1> SUFFICES ASSUME NEW i \in 1..Len(r), r[i] = ChargerIs("None")
               PROVE  ChargerBefore(r, type, i)
    BY DEF NoneAfterCharger
  <1>1. CASE IsOld(q, r, i)
    <2>1. ChargerBefore(q, type, i)
      BY <1>1 DEF NoneAfterCharger, IsOld
    <2>2. i \in 1..Len(q) + 1 /\ i \in i..Len(r) + 1
      BY <1>1 DEF IsExtended, IsOld
    <2>3. \A k \in 1..Len(r) : ~(i <= k /\ k < i)
      BY DEF IsExtended
    <2> QED
      BY <2>1, <2>2, <2>3, ChargerBeforeExtended
  <1>2. CASE IsNew(q, o, r, i)
    <2>1. PICK j \in 1..Len(o) : i = Len(q) + j /\ r[i] = o[j]
      BY <1>2 DEF IsNew
    <2>2. o[j].kind = "chargerEvent" /\ o[j].value = "None"
      BY <2>1, SignalParts
    <2>3. ChargerIs("None") = Signal("chargerEvent", new) /\ old # new
      BY <2>1, <2>2 DEF TellsChange
    <2>4. new = "None" /\ old # "None"
      BY <2>3 DEF ChargerIs, Signal
    <2>5. \A m \in 1..Len(o) : Len(q) + m < i => o[m].kind # "chargerEvent"
      BY <2>1, <2>2 DEF OneCharger, IsExtended
    <2>6. i \in (Len(q) + 1)..(Len(r) + 1) /\ Len(q) + 1 \in 1..Len(q) + 1
      BY <2>1 DEF IsExtended
    <2>7. \A k \in 1..Len(r) : Len(q) + 1 <= k /\ k < i => r[k].kind # "chargerEvent"
      BY <2>5, <2>6, NothingTold
    <2>8. PICK n : n = Len(q) + 1
      OBVIOUS
    <2>9. ChargerBefore(q, type, n) /\ n \in 1..Len(q) + 1 /\ i \in n..Len(r) + 1
      BY <2>4, <2>6, <2>8 DEF LastToldCharger
    <2>10. \A k \in 1..Len(r) : n <= k /\ k < i => r[k].kind # "chargerEvent"
      BY <2>7, <2>8
    <2> QED
      BY <2>9, <2>10, ChargerBeforeExtended
  <1>3. IsOld(q, r, i) \/ IsNew(q, o, r, i)
    BY ExtendedPosition
  <1> QED
    BY <1>1, <1>2, <1>3

LEMMA LastToldExtended ==
    ASSUME NEW q, NEW o, NEW r, IsExtended(q, o, r), NEW type, NEW old, NEW new,
           old # "None" => LastToldCharger(q, type),
           TellsChange(o, "chargerEvent", old, new), OneCharger(o), new # "None"
    PROVE  LastToldCharger(r, type)
  <1>0. Len(q) \in Nat /\ Len(o) \in Nat /\ Len(r) \in Nat /\ Len(r) = Len(q) + Len(o)
    BY DEF IsExtended
  <1>1. CASE old = new
    <2>1. \A j \in 1..Len(o) : o[j].kind # "chargerEvent"
      BY <1>1 DEF TellsChange
    <2> PICK e : e = Len(r) + 1
      OBVIOUS
    <2> PICK n : n = Len(q) + 1
      OBVIOUS
    <2>2. e \in (Len(q) + 1)..(Len(r) + 1) /\ n \in 1..Len(q) + 1 /\ e \in n..Len(r) + 1
      BY <1>0
    <2>3. \A k \in 1..Len(r) : Len(q) + 1 <= k /\ k < e => r[k].kind # "chargerEvent"
      BY <2>1, <2>2, NothingTold
    <2>4. ChargerBefore(q, type, n)
      BY <1>1 DEF LastToldCharger
    <2>5. ChargerBefore(r, type, e)
      BY <2>2, <2>3, <2>4, ChargerBeforeExtended
    <2> QED
      BY <2>5 DEF LastToldCharger
  <1>2. CASE old # new
    <2>1. PICK j \in 1..Len(o) : o[j] = Signal("chargerEvent", new)
      BY <1>2 DEF TellsChange, Awaited
    <2>2. o[j].kind = "chargerEvent" /\ o[j].value = new
      BY <2>1 DEF Signal
    <2> PICK p : p = Len(q) + j
      OBVIOUS
    <2>3. p \in 1..Len(r) /\ r[p] = o[j] /\ p < Len(r) + 1
      BY <1>0, ExtensionPosition
    <2>4. ASSUME NEW k \in 1..Len(r), p < k
          PROVE  r[k].kind # "chargerEvent"
      <3>1. ~(k \in 1..Len(q))
        BY <1>0, <2>4
      <3>2. PICK m \in 1..Len(o) : k = Len(q) + m /\ r[k] = o[m]
        BY <3>1, ExtendedPosition DEF IsOld, IsNew
      <3>3. m # j
        BY <1>0, <2>4, <3>2
      <3> QED
        BY <2>2, <3>2, <3>3 DEF OneCharger
    <2> QED
      BY <2>2, <2>3, <2>4 DEF ChargerBefore, LastToldCharger
  <1> QED
    BY <1>1, <1>2

LEMMA UnpluggedExtended ==
    ASSUME NEW q, NEW o, NEW r, IsExtended(q, o, r), NEW old, NEW oldCharging,
           old = "None" => UnpluggedSignalled(q),
           TellsChange(o, "chargerEvent", old, "None"),
           TellsChange(o, "chargingStateChanged", oldCharging, "StateNotCharging")
    PROVE  UnpluggedSignalled(r)
  <1> SUFFICES ASSUME NEW i \in 1..Len(r), r[i] = Charge("StateCharging")
               PROVE  Follows(r, i, ChargerIs("None"))
    BY DEF UnpluggedSignalled
  <1>1. CASE IsOld(q, r, i)
    <2>1. CASE old = "None"
      <3>1. Follows(q, i, ChargerIs("None"))
        BY <1>1, <2>1 DEF UnpluggedSignalled, IsOld
      <3> QED
        BY <1>1, <3>1, FollowsExtended DEF IsOld
    <2>2. CASE old # "None"
      <3>1. Awaited(o, ChargerIs("None"))
        BY <2>2 DEF TellsChange, ChargerIs
      <3> QED
        BY <1>1, <3>1, FollowsExtended DEF IsOld
    <2> QED
      BY <2>1, <2>2
  <1>2. CASE IsNew(q, o, r, i)
    <2>1. PICK j \in 1..Len(o) : r[i] = o[j]
      BY <1>2 DEF IsNew
    <2>2. o[j].kind = "chargingStateChanged" /\ o[j].value = "StateCharging"
      BY <2>1, SignalParts
    <2>3. o[j] = Signal("chargingStateChanged", "StateNotCharging")
      BY <2>2 DEF TellsChange
    <2> QED
      BY <2>2, <2>3 DEF Signal
  <1>3. IsOld(q, r, i) \/ IsNew(q, o, r, i)
    BY ExtendedPosition
  <1> QED
    BY <1>1, <1>2, <1>3

HardwareType ==
    /\ charger \in ChargerTypes
    /\ charging \in ChargingStates
    /\ level \in BatteryStates
    /\ weakUsb \in BOOLEAN
    /\ call \in BOOLEAN
    /\ displayOff \in BOOLEAN
    /\ displaySignal \in BOOLEAN
    /\ batterySignals \in Seq(Signals)

StrongSupply ==
    ~weakUsb => /\ charger # "USB_100mA"
                /\ battery.chargerType # "USB_100mA"
                /\ ~Awaited(batterySignals, ChargerIs("USB_100mA"))

SignalsCatchUp ==
    /\ charger = "None" => charging = "StateNotCharging" /\ UnpluggedSignalled(batterySignals)
    /\ Superseded(batterySignals, "batteryStateChanged", level)
    /\ Superseded(batterySignals, "chargingStateChanged", charging)
    /\ NoneAfterCharger(batterySignals, battery.chargerType)
    /\ charger # "None" => LastToldCharger(batterySignals, battery.chargerType)

ReminderCatchesUp ==
    /\ ~weakUsb /\ Reminding /\ level \in {"StateFull", "StateOK"} =>
          Awaited(batterySignals, BatteryLevel(level))
    /\ ~weakUsb /\ Reminding /\ charging = "StateCharging" =>
          Awaited(batterySignals, Charge("StateCharging"))
    /\ ~weakUsb /\ ~Reminding /\ level = "StateLow" /\ charger = "None" =>
          \/ Awaited(batterySignals, BatteryLevel("StateLow"))
          \/ Awaited(batterySignals, ChargerIs("None"))

IndicationCatchesUp ==
    charging # "StateCharging" /\ SaysCharging(Logic) =>
        Awaited(batterySignals, Charge(charging))

BatteryInv ==
    /\ HardwareType
    /\ GoodLogic(Logic)
    /\ StrongSupply
    /\ SignalsCatchUp
    /\ ReminderCatchesUp
    /\ IndicationCatchesUp

-----------------------------------------------------------------------------
(* The steps.                                                              *)

(* What a step of no signal and no hardware makes of the members.          *)
LEMMA MembersFollow ==
    ASSUME BatteryInv, UNCHANGED <<hardwareVars, batterySignals>>,
           call' \in BOOLEAN, displayOff' \in BOOLEAN, displaySignal' \in BOOLEAN,
           GoodLogic(Logic)', Reminding' <=> Reminding,
           SaysCharging(Logic)' => SaysCharging(Logic),
           battery'.chargerType = battery.chargerType
    PROVE  BatteryInv'
  <1>1. HardwareType'
    BY DEF BatteryInv, HardwareType, hardwareVars
  <1>2. StrongSupply'
    BY DEF BatteryInv, StrongSupply, hardwareVars
  <1>3. SignalsCatchUp'
    BY DEF BatteryInv, SignalsCatchUp, hardwareVars
  <1>4. ReminderCatchesUp'
    BY DEF BatteryInv, ReminderCatchesUp, hardwareVars
  <1>5. IndicationCatchesUp'
    BY DEF BatteryInv, IndicationCatchesUp, hardwareVars
  <1> QED
    BY <1>1, <1>2, <1>3, <1>4, <1>5 DEF BatteryInv

LEMMA LogicParts ==
    /\ Logic.members = battery /\ Logic.notifier = lowBatteryNotifier
    /\ Logic = [members |-> Logic.members, notifier |-> Logic.notifier]
  BY DEF Logic

(* What is good stays good while the display is what it is, or is told.    *)
LEMMA GoodBecomes ==
    ASSUME NEW l, GoodLogic(l), Becomes(l), displayOff' = displayOff,
           \/ displaySignal' = displaySignal
           \/ l.notifier # <<>> => Noticed(l.notifier[1])
    PROVE  GoodLogic(Logic)'
  <1>1. Logic' = l
    BY DEF Logic, Becomes, GoodLogic, IsLogic
  <1>2. \A n : Inactive(n)' <=> Inactive(n)
    BY DEF Inactive
  <1> QED
    BY <1>1, <1>2 DEF GoodLogic, IsLogic, RemindsInTime, InTime, Noticed, Inactive

LEMMA SignalShape ==
    ASSUME NEW s \in Signals
    PROVE  /\ s = Signal(s.kind, s.value)
           /\ s.kind \in {"chargingStateChanged", "batteryStateChanged", "chargerEvent"}
           /\ s.kind = "chargerEvent" => s = ChargerIs(s.value) /\ s.value \in ChargerTypes
           /\ s.kind = "chargingStateChanged" => s = Charge(s.value)
           /\ s.kind = "batteryStateChanged" => s = BatteryLevel(s.value)
  BY DEF Signals, Charge, BatteryLevel, ChargerIs, Signal

(* The first of the signals that wait is handled.                          *)
LEMMA DeliveryKeeps ==
    ASSUME BatteryInv, DeliverBatterySignal
    PROVE  BatteryInv'
  <1> PICK q : q = batterySignals
    OBVIOUS
  <1> PICK r : r = Tail(q)
    OBVIOUS
  <1> PICK s : s = Head(q)
    OBVIOUS
  <1> PICK l : l = Logic
    OBVIOUS
  <1> PICK h : h = Handled(l, s)
    OBVIOUS
  <1>1. /\ q \in Seq(Signals) /\ q # <<>>
        /\ batterySignals' = r /\ Becomes(h)
        /\ UNCHANGED <<hardwareVars, activityVars>>
    BY DEF BatteryInv, HardwareType, DeliverBatterySignal
  <1>2. IsRest(q, r) /\ r \in Seq(Signals) /\ 1 \in 1..Len(q) /\ s = q[1] /\ s \in Signals
    BY <1>1, TailIsRest
  <1>3. GoodLogic(l) /\ displayOff \in BOOLEAN
    BY DEF BatteryInv, HardwareType
  <1>4. /\ Handling(l, h, s)
        /\ h.members.chargerType = IF s.kind = "chargerEvent" THEN s.value
                                   ELSE l.members.chargerType
    BY <1>2, <1>3, SignalHandled
  <1>5. /\ GoodLogic(h)
        /\ h.notifier # <<>> <=> Starts(l, s) \/ (l.notifier # <<>> /\ ~Stops(s))
        /\ SaysCharging(h) => \/ s = Charge("StateCharging")
                              \/ SaysCharging(l) /\ s.kind # "chargingStateChanged"
    BY <1>4 DEF Handling
  <1>6. /\ battery' = h.members /\ lowBatteryNotifier' = h.notifier
        /\ l.members = battery /\ l.notifier = lowBatteryNotifier
        /\ Logic' = h
    BY <1>1, <1>5 DEF Becomes, Logic, GoodLogic, IsLogic
  <1> PICK type : type = battery.chargerType
    OBVIOUS
  <1> PICK told : told = IF q[1].kind = "chargerEvent" THEN q[1].value ELSE type
    OBVIOUS
  <1>7. battery'.chargerType = told
    BY <1>2, <1>4, <1>6
  <1>8. HardwareType'
    BY <1>1, <1>2 DEF BatteryInv, HardwareType, hardwareVars, activityVars
  <1>9. GoodLogic(Logic)'
    BY <1>1, <1>5, GoodBecomes DEF activityVars
  <1>10. StrongSupply'
    <2> SUFFICES ASSUME ~weakUsb
                 PROVE  /\ charger # "USB_100mA"
                        /\ told # "USB_100mA"
                        /\ ~Awaited(r, ChargerIs("USB_100mA"))
      BY <1>1, <1>7 DEF StrongSupply, hardwareVars
    <2>1. /\ charger # "USB_100mA" /\ type # "USB_100mA"
          /\ ~Awaited(q, ChargerIs("USB_100mA"))
      BY DEF BatteryInv, StrongSupply
    <2>2. s # ChargerIs("USB_100mA")
      BY <1>2, <2>1 DEF Awaited
    <2>3. told # "USB_100mA"
      BY <1>2, <2>1, <2>2, SignalShape
    <2> QED
      BY <1>2, <2>1, <2>3, AwaitedRest
  <1>11. SignalsCatchUp'
    <2>1. charger = "None" => charging = "StateNotCharging" /\ UnpluggedSignalled(r)
      BY <1>2, UnpluggedRest DEF BatteryInv, SignalsCatchUp
    <2>2. /\ Superseded(r, "batteryStateChanged", level)
          /\ Superseded(r, "chargingStateChanged", charging)
      BY <1>2, SupersededRest DEF BatteryInv, SignalsCatchUp
    <2>3. NoneAfterCharger(r, told)
      BY <1>2, NoneAfterChargerRest DEF BatteryInv, SignalsCatchUp
    <2>4. ASSUME charger # "None"
          PROVE  LastToldCharger(r, told)
      <3> PICK i : i = Len(r) + 1
        OBVIOUS
      <3>1. i \in 1..Len(r) + 1 /\ i + 1 = Len(q) + 1
        BY <1>2 DEF IsRest
      <3>2. ChargerBefore(q, type, i + 1)
        BY <2>4, <3>1 DEF BatteryInv, SignalsCatchUp, LastToldCharger
      <3>3. ChargerBefore(r, told, i)
        BY <1>2, <3>1, <3>2, ChargerBeforeRest
      <3> QED
        BY <3>3 DEF LastToldCharger
    <2> QED
      BY <1>1, <1>7, <2>1, <2>2, <2>3, <2>4 DEF SignalsCatchUp, hardwareVars
  <1>12. ReminderCatchesUp'
    <2>0. ReminderCatchesUp /\ SignalsCatchUp /\ StrongSupply
      BY DEF BatteryInv
    <2>1. ASSUME ~weakUsb, h.notifier # <<>>, level \in {"StateFull", "StateOK"}
          PROVE  Awaited(r, BatteryLevel(level))
      <3>1. CASE Starts(l, s)
        <4>1. s = BatteryLevel("StateLow")
          BY <2>1, <3>1 DEF Starts, RemindAgain
        <4>2. q[1].kind = "batteryStateChanged" /\ q[1].value # level
          BY <1>2, <2>1, <4>1, SignalParts
        <4>3. Follows(q, 1, BatteryLevel(level))
          BY <1>2, <2>0, <4>2 DEF SignalsCatchUp, Superseded, BatteryLevel
        <4> QED
          BY <1>2, <4>3, AwaitedRest
      <3>2. CASE l.notifier # <<>> /\ ~Stops(s)
        <4>1. Awaited(q, BatteryLevel(level))
          BY <1>6, <2>0, <2>1, <3>2 DEF ReminderCatchesUp, Reminding
        <4>2. q[1] # BatteryLevel(level)
          BY <1>2, <2>1, <3>2 DEF Stops
        <4> QED
          BY <1>2, <4>1, <4>2, AwaitedRest
      <3> QED
        BY <1>5, <2>1, <3>1, <3>2
    <2>2. ASSUME ~weakUsb, h.notifier # <<>>, charging = "StateCharging"
          PROVE  Awaited(r, Charge("StateCharging"))
      <3>1. ~Starts(l, s)
        BY <2>2 DEF Starts, RemindAgain
      <3>2. l.notifier # <<>> /\ ~Stops(s)
        BY <1>5, <2>2, <3>1
      <3>3. Awaited(q, Charge("StateCharging"))
        BY <1>6, <2>0, <2>2, <3>2 DEF ReminderCatchesUp, Reminding
      <3>4. q[1] # Charge("StateCharging")
        BY <1>2, <2>0, <2>2, <3>2 DEF Stops, StrongSupply
      <3> QED
        BY <1>2, <3>3, <3>4, AwaitedRest
    <2>3. ASSUME ~weakUsb, h.notifier = <<>>, level = "StateLow", charger = "None"
          PROVE  \/ Awaited(r, BatteryLevel("StateLow"))
                 \/ Awaited(r, ChargerIs("None"))
      <3>1. ~Starts(l, s)
        BY <1>5, <2>3
      <3>2. charging = "StateNotCharging" /\ UnpluggedSignalled(q)
        BY <2>0, <2>3 DEF SignalsCatchUp
      <3>3. CASE l.notifier # <<>>
        <4>1. Stops(s)
          BY <1>5, <2>3, <3>3
        <4>2. CASE s = Charge("StateCharging")
          <5>1. Follows(q, 1, ChargerIs("None"))
            BY <1>2, <3>2, <4>2 DEF UnpluggedSignalled
          <5> QED
            BY <1>2, <5>1, AwaitedRest
        <4>3. CASE s = BatteryLevel("StateFull") \/ s = BatteryLevel("StateOK")
          <5>1. q[1].kind = "batteryStateChanged" /\ q[1].value # level
            BY <1>2, <2>3, <4>3, SignalParts
          <5>2. Follows(q, 1, BatteryLevel("StateLow"))
            BY <1>2, <2>0, <2>3, <5>1 DEF SignalsCatchUp, Superseded, BatteryLevel
          <5> QED
            BY <1>2, <5>2, AwaitedRest
        <4> QED
          BY <4>1, <4>2, <4>3 DEF Stops
      <3>4. CASE l.notifier = <<>>
        <4>1. \/ Awaited(q, BatteryLevel("StateLow"))
              \/ Awaited(q, ChargerIs("None"))
          BY <1>6, <2>0, <2>3, <3>4 DEF ReminderCatchesUp, Reminding
        <4>2. q[1] # BatteryLevel("StateLow")
          BY <1>2, <3>1, <3>2 DEF Starts
        <4>3. ASSUME q[1] = ChargerIs("None")
              PROVE  FALSE
          <5>1. ChargerBefore(q, type, 1)
            BY <1>2, <2>0, <4>3 DEF SignalsCatchUp, NoneAfterCharger
          <5>2. type # "None"
            BY <1>2, <5>1 DEF ChargerBefore, IsRest
          <5>3. type # "USB_100mA"
            BY <2>0, <2>3 DEF StrongSupply
          <5>4. RemindAgain(l)
            BY <1>6, <2>3, <3>2, <5>2, <5>3 DEF RemindAgain
          <5> QED
            BY <1>2, <3>1, <4>3, <5>4 DEF Starts
        <4> QED
          BY <1>2, <4>1, <4>2, <4>3, AwaitedRest
      <3> QED
        BY <3>3, <3>4
    <2> QED
      BY <1>1, <1>6, <2>1, <2>2, <2>3 DEF ReminderCatchesUp, Reminding, hardwareVars
  <1>13. IndicationCatchesUp'
    <2> SUFFICES ASSUME charging # "StateCharging", SaysCharging(h)
                 PROVE  Awaited(r, Charge(charging))
      BY <1>1, <1>6 DEF IndicationCatchesUp, hardwareVars
    <2>1. CASE s = Charge("StateCharging")
      <3>1. q[1].kind = "chargingStateChanged" /\ q[1].value # charging
        BY <1>2, <2>1, SignalParts
      <3>2. Follows(q, 1, Charge(charging))
        BY <1>2, <3>1 DEF BatteryInv, SignalsCatchUp, Superseded, Charge
      <3> QED
        BY <1>2, <3>2, AwaitedRest
    <2>2. CASE SaysCharging(l) /\ s.kind # "chargingStateChanged"
      <3>1. Awaited(q, Charge(charging))
        BY <2>2 DEF BatteryInv, IndicationCatchesUp
      <3>2. q[1] # Charge(charging)
        BY <1>2, <2>2, SignalParts
      <3> QED
        BY <1>2, <3>1, <3>2, AwaitedRest
    <2> QED
      BY <1>5, <2>1, <2>2
  <1> QED
    BY <1>8, <1>9, <1>10, <1>11, <1>12, <1>13 DEF BatteryInv

(* What changed is signalled, each once.                                   *)
Announces(o) ==
    /\ o \in Seq(Signals)
    /\ TellsChange(o, "chargerEvent", charger, charger')
    /\ TellsChange(o, "chargingStateChanged", charging, charging')
    /\ TellsChange(o, "batteryStateChanged", level, level')
    /\ OneCharger(o)

LEMMA HardwareKeeps ==
    ASSUME BatteryInv, NEW o, Announces(o), batterySignals' = batterySignals \o o,
           charger' \in ChargerTypes, charging' \in ChargingStates, level' \in BatteryStates,
           charger' = "None" => charging' = "StateNotCharging",
           weakUsb' = (weakUsb \/ charger' = "USB_100mA"),
           UNCHANGED <<activityVars, battery, lowBatteryNotifier>>
    PROVE  BatteryInv'
  <1> PICK q : q = batterySignals
    OBVIOUS
  <1> PICK r : r = q \o o
    OBVIOUS
  <1> PICK type : type = battery.chargerType
    OBVIOUS
  <1>1. q \in Seq(Signals) /\ batterySignals' = r /\ battery'.chargerType = type
    BY DEF BatteryInv, HardwareType
  <1>2. IsExtended(q, o, r) /\ r \in Seq(Signals)
    BY <1>1, ConcatIsExtended DEF Announces
  <1>3. /\ call' = call /\ displayOff' = displayOff /\ displaySignal' = displaySignal
        /\ battery' = battery /\ lowBatteryNotifier' = lowBatteryNotifier
    BY DEF activityVars
  <1>4. HardwareType'
    BY <1>1, <1>2, <1>3 DEF BatteryInv, HardwareType
  <1>5. GoodLogic(Logic)'
    <2>1. Becomes(Logic)
      BY <1>3 DEF Becomes, Logic
    <2> QED
      BY <1>3, <2>1, GoodBecomes DEF BatteryInv
  <1>6. StrongSupply'
    <2> SUFFICES ASSUME ~weakUsb, charger' # "USB_100mA"
                 PROVE  /\ type # "USB_100mA"
                        /\ ~Awaited(r, ChargerIs("USB_100mA"))
      BY <1>1 DEF StrongSupply
    <2>1. ~Awaited(o, ChargerIs("USB_100mA"))
      <3> SUFFICES ASSUME NEW i \in 1..Len(o), o[i] = ChargerIs("USB_100mA")
                   PROVE  FALSE
        BY DEF Awaited
      <3>1. o[i].kind = "chargerEvent" /\ o[i].value = "USB_100mA"
        BY SignalParts
      <3>2. o[i] = Signal("chargerEvent", charger')
        BY <3>1 DEF Announces, TellsChange
      <3> QED
        BY <3>1, <3>2 DEF Signal
    <2> QED
      BY <1>2, <2>1, AwaitedExtended DEF BatteryInv, StrongSupply
  <1>7. SignalsCatchUp'
    <2>1. ASSUME charger' = "None"
          PROVE  charging' = "StateNotCharging" /\ UnpluggedSignalled(r)
      <3>1. charger = "None" => UnpluggedSignalled(q)
        BY DEF BatteryInv, SignalsCatchUp
      <3>2. /\ TellsChange(o, "chargerEvent", charger, "None")
            /\ TellsChange(o, "chargingStateChanged", charging, "StateNotCharging")
        BY <2>1 DEF Announces
      <3> QED
        BY <1>2, <2>1, <3>1, <3>2, UnpluggedExtended
    <2>2. Superseded(r, "batteryStateChanged", level')
      BY <1>2, SupersededExtended DEF BatteryInv, SignalsCatchUp, Announces
    <2>3. Superseded(r, "chargingStateChanged", charging')
      BY <1>2, SupersededExtended DEF BatteryInv, SignalsCatchUp, Announces
    <2>4. /\ NoneAfterCharger(q, type)
          /\ charger # "None" => LastToldCharger(q, type)
      BY DEF BatteryInv, SignalsCatchUp
    <2>5. NoneAfterCharger(r, type)
      BY <1>2, <2>4, NoneAfterChargerExtended DEF Announces
    <2>6. ASSUME charger' # "None"
          PROVE  LastToldCharger(r, type)
      <3>1. TellsChange(o, "chargerEvent", charger, charger') /\ OneCharger(o)
        BY DEF Announces
      <3> QED
        BY <1>2, <2>4, <2>6, <3>1, LastToldExtended
    <2> QED
      BY <1>1, <2>1, <2>2, <2>3, <2>5, <2>6 DEF SignalsCatchUp
  <1>8. ReminderCatchesUp'
    <2>0. ReminderCatchesUp
      BY DEF BatteryInv
    <2>1. \A v : Awaited(q, v) \/ Awaited(o, v) => Awaited(r, v)
      BY <1>2, AwaitedExtended
    <2>2. /\ level # level' => Awaited(o, BatteryLevel(level'))
          /\ charging # charging' => Awaited(o, Charge(charging'))
          /\ charger # charger' => Awaited(o, ChargerIs(charger'))
      BY DEF Announces, TellsChange, BatteryLevel, Charge, ChargerIs
    <2>3. ~weakUsb' => ~weakUsb
      OBVIOUS
    <2>4. ~weakUsb' /\ Reminding /\ level' \in {"StateFull", "StateOK"} =>
            Awaited(r, BatteryLevel(level'))
      BY <2>0, <2>1, <2>2, <2>3 DEF ReminderCatchesUp
    <2>5. ~weakUsb' /\ Reminding /\ charging' = "StateCharging" =>
            Awaited(r, Charge("StateCharging"))
      BY <2>0, <2>1, <2>2, <2>3 DEF ReminderCatchesUp
    <2>6. ~weakUsb' /\ ~Reminding /\ level' = "StateLow" /\ charger' = "None" =>
            \/ Awaited(r, BatteryLevel("StateLow"))
            \/ Awaited(r, ChargerIs("None"))
      BY <2>0, <2>1, <2>2, <2>3 DEF ReminderCatchesUp
    <2> QED
      BY <1>1, <1>3, <2>4, <2>5, <2>6 DEF ReminderCatchesUp, Reminding
  <1>9. IndicationCatchesUp'
    <2>1. Logic' = Logic
      BY <1>3 DEF Logic
    <2>2. charging # charging' => Awaited(o, Charge(charging'))
      BY DEF Announces, TellsChange, Charge
    <2>3. charging = charging' /\ charging # "StateCharging" /\ SaysCharging(Logic) =>
            Awaited(q, Charge(charging'))
      BY DEF BatteryInv, IndicationCatchesUp
    <2>4. charging' # "StateCharging" /\ SaysCharging(Logic) => Awaited(r, Charge(charging'))
      BY <1>2, <2>2, <2>3, AwaitedExtended
    <2> QED
      BY <1>1, <2>1, <2>4 DEF IndicationCatchesUp
  <1> QED
    BY <1>4, <1>5, <1>6, <1>7, <1>8, <1>9 DEF BatteryInv

LEMMA TellsNothing ==
    ASSUME NEW o, NEW kind, NEW old, NEW new, old = new,
           \A i \in 1..Len(o) : o[i].kind # kind
    PROVE  TellsChange(o, kind, old, new)
  BY DEF TellsChange

LEMMA TellsOne ==
    ASSUME NEW o, NEW kind, NEW old, NEW new, old # new,
           NEW i \in 1..Len(o), o[i] = Signal(kind, new),
           \A k \in 1..Len(o) : o[k].kind = kind => k = i
    PROVE  TellsChange(o, kind, old, new)
  BY DEF TellsChange, Awaited

LEMMA PowerAnnounced ==
    ASSUME BatteryInv, NEW newCharger \in ChargerTypes, NEW newCharging \in ChargingStates,
           PowerChanges(newCharger, newCharging)
    PROVE  \E o : Announces(o) /\ batterySignals' = batterySignals \o o
  <1> PICK a : a = ChargerIs(newCharger)
    OBVIOUS
  <1> PICK b : b = Charge(newCharging)
    OBVIOUS
  <1>1. a \in Signals /\ b \in Signals
    BY DEF Signals
  <1>2. /\ a.kind = "chargerEvent" /\ b.kind = "chargingStateChanged"
        /\ a = Signal("chargerEvent", charger') /\ b = Signal("chargingStateChanged", charging')
        /\ charger' = newCharger /\ charging' = newCharging /\ level' = level
    BY SignalParts DEF PowerChanges, ChargerIs, Charge
  <1> PICK plugged : plugged = IF newCharger = charger THEN <<>> ELSE <<a>>
    OBVIOUS
  <1> PICK powered : powered = IF newCharging = charging THEN <<>> ELSE <<b>>
    OBVIOUS
  <1>3. PICK o \in {plugged \o powered, powered \o plugged} :
            batterySignals' = batterySignals \o o
    BY DEF PowerChanges, Signalled, ChargerIs, Charge
  <1>4. \A i \in 1..Len(o) : o[i] = a \/ o[i] = b
    <2>1. plugged \in Seq({a, b}) /\ powered \in Seq({a, b})
      OBVIOUS
    <2>2. o \in Seq({a, b})
      BY <1>3, <2>1, ConcatProperties
    <2> QED
      BY <2>2
  <1>5. o \in Seq(Signals) /\ TellsChange(o, "batteryStateChanged", level, level')
    <2>1. plugged \in Seq(Signals) /\ powered \in Seq(Signals)
      BY <1>1
    <2>2. o \in Seq(Signals)
      BY <1>3, <2>1, ConcatProperties
    <2>3. \A i \in 1..Len(o) : o[i].kind # "batteryStateChanged"
      BY <1>2, <1>4
    <2> QED
      BY <1>2, <2>2, <2>3, TellsNothing
  <1>6. CASE newCharger = charger /\ newCharging = charging
    <2>1. o = <<>>
      BY <1>3, <1>6
    <2>2. Len(o) = 0
      BY <2>1
    <2>3. /\ TellsChange(o, "chargerEvent", charger, charger')
          /\ TellsChange(o, "chargingStateChanged", charging, charging')
          /\ OneCharger(o)
      BY <1>2, <1>6, <2>2, TellsNothing DEF OneCharger
    <2> QED
      BY <1>3, <1>5, <2>3 DEF Announces
  <1>7. CASE newCharger # charger /\ newCharging = charging
    <2>1. o = <<a>>
      BY <1>3, <1>7
    <2>2. Len(o) = 1 /\ o[1] = a
      BY <2>1
    <2>3. 1 \in 1..Len(o) /\ \A i \in 1..Len(o) : i = 1 /\ o[i].kind = "chargerEvent"
      BY <1>2, <2>2
    <2>4. TellsChange(o, "chargerEvent", charger, charger')
      BY <1>2, <1>7, <2>2, <2>3, TellsOne
    <2>5. TellsChange(o, "chargingStateChanged", charging, charging')
      BY <1>2, <1>7, <2>3, TellsNothing
    <2>6. OneCharger(o)
      BY <2>3 DEF OneCharger
    <2> QED
      BY <1>3, <1>5, <2>4, <2>5, <2>6 DEF Announces
  <1>8. CASE newCharger = charger /\ newCharging # charging
    <2>1. o = <<b>>
      BY <1>3, <1>8
    <2>2. Len(o) = 1 /\ o[1] = b
      BY <2>1
    <2>3. 1 \in 1..Len(o) /\ \A i \in 1..Len(o) : i = 1 /\ o[i].kind # "chargerEvent"
      BY <1>2, <2>2
    <2>4. TellsChange(o, "chargingStateChanged", charging, charging')
      BY <1>2, <1>8, <2>2, <2>3, TellsOne
    <2>5. TellsChange(o, "chargerEvent", charger, charger')
      BY <1>2, <1>8, <2>3, TellsNothing
    <2>6. OneCharger(o)
      BY <2>3 DEF OneCharger
    <2> QED
      BY <1>3, <1>5, <2>4, <2>5, <2>6 DEF Announces
  <1>9. CASE newCharger # charger /\ newCharging # charging
    <2>1. o = <<a, b>> \/ o = <<b, a>>
      BY <1>3, <1>9
    <2>2. Len(o) = 2 /\ ((o[1] = a /\ o[2] = b) \/ (o[1] = b /\ o[2] = a))
      BY <2>1
    <2>3. PICK i \in 1..Len(o) : o[i] = a /\ \A k \in 1..Len(o) : o[k].kind = "chargerEvent" => k = i
      BY <1>2, <2>2
    <2>4. PICK j \in 1..Len(o) : o[j] = b /\ \A k \in 1..Len(o) : o[k].kind = "chargingStateChanged" => k = j
      BY <1>2, <2>2
    <2>5. TellsChange(o, "chargerEvent", charger, charger')
      BY <1>2, <1>9, <2>3, TellsOne
    <2>6. TellsChange(o, "chargingStateChanged", charging, charging')
      BY <1>2, <1>9, <2>4, TellsOne
    <2>7. OneCharger(o)
      BY <2>3 DEF OneCharger
    <2> QED
      BY <1>3, <1>5, <2>5, <2>6, <2>7 DEF Announces
  <1> QED
    BY <1>6, <1>7, <1>8, <1>9

LEMMA PowerKeeps ==
    ASSUME BatteryInv, NEW newCharger \in ChargerTypes, NEW newCharging \in ChargingStates,
           PowerChanges(newCharger, newCharging),
           newCharger = "None" => newCharging = "StateNotCharging"
    PROVE  BatteryInv'
  <1>1. PICK o : Announces(o) /\ batterySignals' = batterySignals \o o
    BY PowerAnnounced
  <1>2. /\ charger' = newCharger /\ charging' = newCharging /\ level' = level
        /\ weakUsb' = (weakUsb \/ newCharger = "USB_100mA")
        /\ UNCHANGED <<activityVars, battery, lowBatteryNotifier>>
    BY DEF PowerChanges
  <1>3. level \in BatteryStates
    BY DEF BatteryInv, HardwareType
  <1> QED
    BY <1>1, <1>2, <1>3, HardwareKeeps

LEMMA LevelKeeps ==
    ASSUME BatteryInv, NEW state \in BatteryStates, LevelChanges(state)
    PROVE  BatteryInv'
  <1> PICK o : o = <<BatteryLevel(state)>>
    OBVIOUS
  <1>1. /\ batterySignals' = batterySignals \o o /\ level' = state /\ level # state
        /\ charger' = charger /\ charging' = charging /\ weakUsb' = weakUsb
        /\ UNCHANGED <<activityVars, battery, lowBatteryNotifier>>
    BY DEF LevelChanges, Signalled, BatteryLevel
  <1>2. BatteryLevel(state) \in Signals
    BY DEF Signals
  <1>3. o \in Seq(Signals) /\ Len(o) = 1 /\ o[1] = BatteryLevel(state)
    BY <1>2
  <1>4. o[1].kind = "batteryStateChanged" /\ o[1] = Signal("batteryStateChanged", state)
    BY <1>3, SignalParts DEF BatteryLevel
  <1>5. Announces(o)
    BY <1>1, <1>3, <1>4 DEF Announces, TellsChange, OneCharger, Awaited
  <1>6. /\ charger \in ChargerTypes /\ charging \in ChargingStates
        /\ charger = "None" => charging = "StateNotCharging"
        /\ weakUsb \in BOOLEAN
        /\ charger = "USB_100mA" => weakUsb
    BY DEF BatteryInv, HardwareType, SignalsCatchUp, StrongSupply
  <1>7. weakUsb' = (weakUsb \/ charger' = "USB_100mA")
    BY <1>1, <1>6
  <1> QED
    BY <1>1, <1>5, <1>6, <1>7, HardwareKeeps

-----------------------------------------------------------------------------
(* What is told of the display, the call, the lock and the time.           *)

LEMMA NotifierGood ==
    ASSUME BatteryInv, lowBatteryNotifier # <<>>
    PROVE  /\ lowBatteryNotifier = <<lowBatteryNotifier[1]>>
           /\ lowBatteryNotifier[1] \in Notifiers
           /\ IntervalNoticed(lowBatteryNotifier[1]) /\ PeriodWhole(lowBatteryNotifier[1])
           /\ lowBatteryNotifier[1].touchScreenLockActive = battery.touchScreenLockActive
           /\ ~displaySignal => Noticed(lowBatteryNotifier[1])
  BY DEF BatteryInv, GoodLogic, RemindsInTime, InTime, Logic

LEMMA BecomesKeeps ==
    ASSUME BatteryInv, NEW l, GoodLogic(l), Becomes(l),
           l.notifier # <<>> <=> Reminding,
           SaysCharging(l) => SaysCharging(Logic),
           l.members.chargerType = battery.chargerType,
           UNCHANGED <<hardwareVars, batterySignals, call, displayOff>>,
           displaySignal' \in BOOLEAN,
           \/ displaySignal' = displaySignal
           \/ l.notifier # <<>> => Noticed(l.notifier[1])
    PROVE  BatteryInv'
  <1>1. GoodLogic(Logic)'
    BY GoodBecomes
  <1>2. /\ battery' = l.members /\ lowBatteryNotifier' = l.notifier /\ Logic' = l
    BY DEF Becomes, Logic, GoodLogic, IsLogic
  <1>3. call' \in BOOLEAN /\ displayOff' \in BOOLEAN
    BY DEF BatteryInv, HardwareType
  <1>4. Reminding' <=> Reminding
    BY <1>2 DEF Reminding
  <1> QED
    BY <1>1, <1>2, <1>3, <1>4, MembersFollow

LEMMA ModeKeeps ==
    ASSUME BatteryInv, NEW state \in {"PSMStateOn", "PSMStateOff"}, DevicePSMStateChanged(state)
    PROVE  BatteryInv'
  <1> PICK type : type = IF state = "PSMStateOn" THEN "enterpsm" ELSE "exitpsm"
    OBVIOUS
  <1> PICK l : l = Sent(Logic, type)
    OBVIOUS
  <1>1. type \in Banners /\ type # "charging"
    BY DEF Banners
  <1>2. Tells(Logic, l, type)
    BY <1>1, SentGood DEF BatteryInv
  <1>3. /\ GoodLogic(l) /\ l.notifier = lowBatteryNotifier
        /\ l.members.chargerType = battery.chargerType
        /\ SaysCharging(l) => SaysCharging(Logic)
    BY <1>1, <1>2 DEF Tells, SaysCharging, Logic
  <1>4. Becomes(l) /\ UNCHANGED <<hardwareVars, batterySignals, call, displayOff, displaySignal>>
    BY DEF DevicePSMStateChanged, activityVars
  <1>5. displaySignal' = displaySignal /\ displaySignal' \in BOOLEAN
    BY <1>4 DEF BatteryInv, HardwareType
  <1> QED
    BY <1>3, <1>4, <1>5, BecomesKeeps DEF Reminding

LEMMA DisplayKeeps ==
    ASSUME BatteryInv, DisplayChanges
    PROVE  BatteryInv'
  <1>1. /\ Logic' = Logic /\ displaySignal' = TRUE
        /\ battery' = battery /\ lowBatteryNotifier' = lowBatteryNotifier
        /\ UNCHANGED <<hardwareVars, batterySignals>> /\ call' = call
    BY DEF DisplayChanges, Logic
  <1>2. GoodLogic(Logic)'
    BY <1>1 DEF BatteryInv, GoodLogic, IsLogic, RemindsInTime, InTime
  <1>3. displayOff' \in BOOLEAN /\ call' \in BOOLEAN
    BY <1>1 DEF DisplayChanges, BatteryInv, HardwareType
  <1>4. Reminding' <=> Reminding
    BY <1>1 DEF Reminding
  <1> QED
    BY <1>1, <1>2, <1>3, <1>4, MembersFollow

(* The notifier is told so.                                                *)
LEMMA ReconsideredKeeps ==
    ASSUME BatteryInv, lowBatteryNotifier # <<>>,
           NEW l, IsLogic(l), l.members.chargerType = battery.chargerType,
           SaysCharging(l) => SaysCharging(Logic),
           NEW n \in Notifiers, IntervalNoticed(n), PeriodWhole(n),
           n.touchScreenLockActive = l.members.touchScreenLockActive,
           Becomes(Reconsidered(l, n)),
           UNCHANGED <<hardwareVars, batterySignals, call, displayOff>>,
           displaySignal' \in BOOLEAN
    PROVE  BatteryInv'
  <1> PICK h : h = Reconsidered(l, n)
    OBVIOUS
  <1>1. displayOff \in BOOLEAN
    BY DEF BatteryInv, HardwareType
  <1>2. /\ GoodLogic(h) /\ h.notifier # <<>> /\ Noticed(h.notifier[1])
        /\ h.members.leds = l.members.leds
        /\ h.members.notification \in {"lowbattery", l.members.notification}
        /\ h.members.chargerType = l.members.chargerType
    BY <1>1, ReconsideredGood
  <1>3. SaysCharging(h) => SaysCharging(Logic)
    BY <1>2 DEF SaysCharging
  <1>4. Becomes(h)
    OBVIOUS
  <1> QED
    BY <1>2, <1>3, <1>4, BecomesKeeps DEF Reminding

LEMMA DisplayStateKeeps ==
    ASSUME BatteryInv, DisplayStateChanged
    PROVE  BatteryInv'
  <1>1. /\ displaySignal' = FALSE
        /\ UNCHANGED <<hardwareVars, batterySignals, call, displayOff>>
    BY DEF DisplayStateChanged
  <1>2. CASE lowBatteryNotifier = <<>>
    <2>1. Becomes(Logic)
      BY <1>2 DEF DisplayStateChanged, Becomes, Logic
    <2>2. GoodLogic(Logic) /\ Logic.notifier = <<>> /\ ~Reminding
          /\ Logic.members.chargerType = battery.chargerType
      BY <1>2 DEF BatteryInv, Logic, Reminding
    <2>3. displaySignal' \in BOOLEAN
      BY <1>1
    <2> QED
      BY <1>1, <2>1, <2>2, <2>3, BecomesKeeps
  <1>3. CASE lowBatteryNotifier # <<>>
    <2>1. Becomes(Reconsidered(Logic, lowBatteryNotifier[1]))
      BY <1>3 DEF DisplayStateChanged
    <2>2. /\ IsLogic(Logic) /\ Logic.members.chargerType = battery.chargerType
          /\ Logic.members.touchScreenLockActive = battery.touchScreenLockActive
      BY DEF BatteryInv, GoodLogic, Logic
    <2>3. displaySignal' \in BOOLEAN
      BY <1>1
    <2> QED
      BY <1>1, <1>3, <2>1, <2>2, <2>3, NotifierGood, ReconsideredKeeps
  <1> QED
    BY <1>2, <1>3

LEMMA CallKeeps ==
    ASSUME BatteryInv, CallChanges
    PROVE  BatteryInv'
  <1>1. /\ Becomes(Logic) /\ displaySignal' = displaySignal /\ displayOff' = displayOff
        /\ battery' = battery /\ lowBatteryNotifier' = lowBatteryNotifier /\ Logic' = Logic
        /\ UNCHANGED <<hardwareVars, batterySignals>>
    BY DEF CallChanges, Becomes, Logic
  <1>2. GoodLogic(Logic)'
    BY <1>1, GoodBecomes DEF BatteryInv
  <1>3. call' \in BOOLEAN /\ displayOff' \in BOOLEAN /\ displaySignal' \in BOOLEAN
    BY <1>1 DEF BatteryInv, HardwareType, CallChanges
  <1>4. Reminding' <=> Reminding
    BY <1>1 DEF Reminding
  <1> QED
    BY <1>1, <1>2, <1>3, <1>4, MembersFollow

LEMMA CallContextKeeps ==
    ASSUME BatteryInv, CallContextChanged
    PROVE  BatteryInv'
  <1> PICK old : old = lowBatteryNotifier[1]
    OBVIOUS
  <1> PICK n : n = [old EXCEPT !.callContextItem = call]
    OBVIOUS
  <1>1. /\ lowBatteryNotifier # <<>> /\ Becomes(Reconsidered(Logic, n))
        /\ UNCHANGED <<hardwareVars, batterySignals, call, displayOff, displaySignal>>
    BY DEF CallContextChanged, activityVars
  <1>2. /\ old \in Notifiers /\ IntervalNoticed(old) /\ PeriodWhole(old)
        /\ old.touchScreenLockActive = battery.touchScreenLockActive
        /\ call \in BOOLEAN /\ displaySignal' \in BOOLEAN
    BY <1>1, NotifierGood DEF BatteryInv, HardwareType
  <1>3. /\ n \in Notifiers
        /\ n.touchScreenLockActive = old.touchScreenLockActive
        /\ n.notificationInterval = old.notificationInterval
        /\ n.deviceInactive = old.deviceInactive /\ n.callActive = old.callActive
        /\ n.elapsed = old.elapsed /\ n.left = old.left
    BY <1>2 DEF Notifiers
  <1>4. IntervalNoticed(n) /\ PeriodWhole(n)
    BY <1>2, <1>3 DEF IntervalNoticed, PeriodWhole
  <1>5. /\ IsLogic(Logic) /\ Logic.members.chargerType = battery.chargerType
        /\ n.touchScreenLockActive = Logic.members.touchScreenLockActive
    BY <1>2, <1>3 DEF BatteryInv, GoodLogic, Logic
  <1> QED
    BY <1>1, <1>2, <1>3, <1>4, <1>5, ReconsideredKeeps

LEMMA LockKeeps ==
    ASSUME BatteryInv, NEW active \in BOOLEAN, SetTouchScreenLockActive(active)
    PROVE  BatteryInv'
  <1> PICK m : m = [battery EXCEPT !.touchScreenLockActive = active]
    OBVIOUS
  <1> PICK l : l = [members |-> m, notifier |-> lowBatteryNotifier]
    OBVIOUS
  <1>1. l = [Logic EXCEPT !.members.touchScreenLockActive = active]
    BY DEF Logic
  <1>2. /\ l.members = m /\ l.notifier = lowBatteryNotifier
    OBVIOUS
  <1>3. battery \in Members
    BY DEF BatteryInv, GoodLogic, IsLogic, Logic
  <1>4. /\ m \in Members /\ m.touchScreenLockActive = active
        /\ m.notification = battery.notification /\ m.leds = battery.leds
        /\ m.chargerType = battery.chargerType
    BY <1>3 DEF Members
  <1>5. /\ SaysCharging(l) => SaysCharging(Logic)
        /\ l.members.chargerType = battery.chargerType
    BY <1>2, <1>4 DEF SaysCharging, Logic
  <1>6. UNCHANGED <<hardwareVars, batterySignals, call, displayOff, displaySignal>>
    BY DEF SetTouchScreenLockActive, activityVars
  <1>7. displaySignal' = displaySignal /\ displaySignal' \in BOOLEAN
    BY <1>6 DEF BatteryInv, HardwareType
  <1>8. CASE lowBatteryNotifier = <<>>
    <2>1. Becomes(l)
      BY <1>1, <1>2, <1>8 DEF SetTouchScreenLockActive
    <2>2. GoodLogic(l)
      BY <1>2, <1>4, <1>8 DEF GoodLogic, IsLogic, RemindsInTime
    <2> QED
      BY <1>2, <1>5, <1>6, <1>7, <1>8, <2>1, <2>2, BecomesKeeps DEF Reminding
  <1>9. CASE lowBatteryNotifier # <<>>
    <2> PICK old : old = lowBatteryNotifier[1]
      OBVIOUS
    <2> PICK n : n = [old EXCEPT !.touchScreenLockActive = active]
      OBVIOUS
    <2>1. Becomes(Reconsidered(l, n))
      BY <1>1, <1>2, <1>9 DEF SetTouchScreenLockActive
    <2>2. old \in Notifiers /\ IntervalNoticed(old) /\ PeriodWhole(old)
      BY <1>9, NotifierGood
    <2>3. /\ n \in Notifiers
          /\ n.touchScreenLockActive = active
          /\ n.notificationInterval = old.notificationInterval
          /\ n.deviceInactive = old.deviceInactive /\ n.callActive = old.callActive
          /\ n.elapsed = old.elapsed /\ n.left = old.left
      BY <2>2 DEF Notifiers
    <2>4. IntervalNoticed(n) /\ PeriodWhole(n)
      BY <2>2, <2>3 DEF IntervalNoticed, PeriodWhole
    <2>5. IsLogic(l) /\ n.touchScreenLockActive = l.members.touchScreenLockActive
      BY <1>2, <1>4, <2>3 DEF IsLogic
    <2> QED
      BY <1>5, <1>6, <1>7, <1>9, <2>1, <2>3, <2>4, <2>5, ReconsideredKeeps
  <1> QED
    BY <1>8, <1>9

LEMMA MinuteKeeps ==
    ASSUME BatteryInv, MinutePasses
    PROVE  BatteryInv'
  <1> PICK old : old = lowBatteryNotifier[1]
    OBVIOUS
  <1>1. /\ lowBatteryNotifier # <<>> /\ old.left > 0
        /\ UNCHANGED <<hardwareVars, batterySignals, call, displayOff, displaySignal>>
        /\ lowBatteryNotifier' = <<[old EXCEPT !.elapsed = old.elapsed + 1, !.left = old.left - 1]>>
        /\ battery' = [battery EXCEPT !.notification = NoBanner]
    BY DEF MinutePasses, activityVars
  <1>2. /\ old \in Notifiers /\ IntervalNoticed(old) /\ PeriodWhole(old)
        /\ old.touchScreenLockActive = battery.touchScreenLockActive
        /\ ~displaySignal => Noticed(old)
    BY <1>1, NotifierGood
  <1>3. old.elapsed \in Nat /\ old.left \in Nat
    BY <1>2 DEF Notifiers
  <1>4. /\ old.elapsed + 1 \in Nat /\ old.left - 1 \in Nat
        /\ (old.elapsed + 1) + (old.left - 1) = old.elapsed + old.left
    BY <1>1, <1>3
  <1>5. PICK elapsed \in Nat, left \in Nat :
            /\ elapsed + left = old.elapsed + old.left
            /\ lowBatteryNotifier' = <<WithPeriod(old, elapsed, left)>>
    BY <1>1, <1>4 DEF WithPeriod
  <1> PICK n : n = WithPeriod(old, elapsed, left)
    OBVIOUS
  <1>6. InTime(old, battery.touchScreenLockActive)
    BY <1>2 DEF InTime
  <1>7. InTime(n, battery.touchScreenLockActive)
    BY <1>5, <1>6, LaterInTime
  <1> PICK m : m = [battery EXCEPT !.notification = NoBanner]
    OBVIOUS
  <1>8. battery \in Members /\ NoBanner \in Banners /\ NoBanner # "charging"
    BY DEF BatteryInv, GoodLogic, IsLogic, Logic, Banners, NoBanner
  <1>9. /\ m \in Members /\ m.touchScreenLockActive = battery.touchScreenLockActive
        /\ m.notification = NoBanner /\ m.leds = battery.leds
        /\ m.chargerType = battery.chargerType
    BY <1>8 DEF Members
  <1> PICK l : l = [members |-> m, notifier |-> <<n>>]
    OBVIOUS
  <1>10. l.members = m /\ l.notifier = <<n>> /\ <<n>>[1] = n /\ <<n>> # <<>>
    OBVIOUS
  <1>11. GoodLogic(l)
    BY <1>7, <1>9, <1>10 DEF GoodLogic, IsLogic, RemindsInTime
  <1>12. Becomes(l)
    BY <1>1, <1>5, <1>10 DEF Becomes
  <1>13. /\ SaysCharging(l) => SaysCharging(Logic)
         /\ l.members.chargerType = battery.chargerType
         /\ l.notifier # <<>> /\ Reminding
    BY <1>1, <1>8, <1>9, <1>10 DEF SaysCharging, Logic, Reminding
  <1>14. displaySignal' = displaySignal /\ displaySignal' \in BOOLEAN
    BY <1>1 DEF BatteryInv, HardwareType
  <1> QED
    BY <1>1, <1>11, <1>12, <1>13, <1>14, BecomesKeeps

LEMMA AlertKeeps ==
    ASSUME BatteryInv, SendLowBatteryAlert
    PROVE  BatteryInv'
  <1> PICK old : old = lowBatteryNotifier[1]
    OBVIOUS
  <1> PICK l : l = Alert(Logic, old)
    OBVIOUS
  <1>1. /\ lowBatteryNotifier # <<>> /\ Becomes(l)
        /\ UNCHANGED <<hardwareVars, batterySignals, call, displayOff, displaySignal>>
    BY DEF SendLowBatteryAlert, activityVars
  <1>2. /\ old \in Notifiers /\ IntervalNoticed(old) /\ (~displaySignal => Noticed(old))
        /\ old.touchScreenLockActive = battery.touchScreenLockActive
    BY <1>1, NotifierGood
  <1>3. GoodLogic(Logic) /\ Logic.members = battery
    BY DEF BatteryInv, Logic
  <1>4. /\ GoodLogic(l) /\ l.notifier # <<>>
        /\ l.members.notification = "lowbattery" /\ l.members.leds = battery.leds
        /\ l.members.chargerType = battery.chargerType
    BY <1>2, <1>3, AlertGood
  <1>5. (SaysCharging(l) => SaysCharging(Logic)) /\ Reminding
    BY <1>1, <1>3, <1>4 DEF SaysCharging, Reminding
  <1>6. displaySignal' = displaySignal /\ displaySignal' \in BOOLEAN
    BY <1>1 DEF BatteryInv, HardwareType
  <1> QED
    BY <1>1, <1>4, <1>5, <1>6, BecomesKeeps

LEMMA TimerKeeps ==
    ASSUME BatteryInv, NotificationTimerExpires
    PROVE  BatteryInv'
  <1> PICK l : l = Sent(Logic, NoBanner)
    OBVIOUS
  <1>1. UNCHANGED <<hardwareVars, batterySignals, call, displayOff, displaySignal>>
    BY DEF NotificationTimerExpires, activityVars
  <1>2. Becomes(l)
    BY DEF NotificationTimerExpires, Becomes, Sent, Logic
  <1>3. NoBanner \in Banners /\ NoBanner # "charging"
    BY DEF Banners, NoBanner
  <1>4. Tells(Logic, l, NoBanner)
    BY <1>3, SentGood DEF BatteryInv
  <1>5. /\ GoodLogic(l) /\ l.notifier = lowBatteryNotifier
        /\ l.members.chargerType = battery.chargerType
        /\ SaysCharging(l) => SaysCharging(Logic)
    BY <1>3, <1>4 DEF Tells, SaysCharging, Logic
  <1>6. displaySignal' = displaySignal /\ displaySignal' \in BOOLEAN
    BY <1>1 DEF BatteryInv, HardwareType
  <1> QED
    BY <1>1, <1>2, <1>5, <1>6, BecomesKeeps DEF Reminding

-----------------------------------------------------------------------------

LEMMA BatteryInitially ==
    ASSUME BatteryInit
    PROVE  BatteryInv
  <1> PICK q : q = batterySignals
    OBVIOUS
  <1> PICK one : one = Handled(NewLogic, Charge(charging))
    OBVIOUS
  <1> PICK l : l = Handled(one, BatteryLevel(level))
    OBVIOUS
  <1>1. /\ charger \in ChargerTypes /\ charging \in ChargingStates /\ level \in BatteryStates
        /\ charger = "None" => charging = "StateNotCharging"
        /\ weakUsb = (charger = "USB_100mA")
        /\ call = FALSE /\ displayOff = FALSE /\ displaySignal = FALSE
        /\ q = <<>>
    BY DEF BatteryInit
  <1>2. Charge(charging) \in Signals /\ BatteryLevel(level) \in Signals
    BY <1>1 DEF Signals
  <1>3. /\ GoodLogic(NewLogic) /\ NewLogic.notifier = <<>> /\ ~SaysCharging(NewLogic)
        /\ NewLogic.members.chargerType = "Unknown"
    BY DEF GoodLogic, IsLogic, RemindsInTime, NewLogic, Members, Banners, Patterns,
           KnownChargers, SaysCharging, NoBanner
  <1>4. /\ one = ChargingStateChanged(NewLogic, charging)
        /\ l = BatteryStateChanged(one, level)
    BY SignalParts DEF Handled
  <1>5. /\ Handling(NewLogic, one, Charge(charging))
        /\ one.members.chargerType = "Unknown"
    BY <1>1, <1>3, <1>4, ChargingHandled
  <1>6. GoodLogic(one) /\ displayOff \in BOOLEAN
    BY <1>1, <1>5 DEF Handling
  <1>7. /\ Handling(one, l, BatteryLevel(level))
        /\ l.members.chargerType = "Unknown"
    BY <1>1, <1>4, <1>5, <1>6, LevelHandled
  <1>8. GoodLogic(l) /\ battery = l.members /\ lowBatteryNotifier = l.notifier /\ Logic = l
    BY <1>4, <1>7 DEF BatteryInit, Logic, Handling, GoodLogic, IsLogic
  <1>9. Len(q) = 0 /\ q \in Seq(Signals)
    BY <1>1
  <1>10. HardwareType
    BY <1>1, <1>9 DEF HardwareType
  <1>11. StrongSupply
    <2>1. ~weakUsb => charger # "USB_100mA"
      BY <1>1
    <2>2. battery.chargerType = "Unknown"
      BY <1>7, <1>8
    <2>3. batterySignals = q /\ \A s : ~Awaited(q, s)
      BY <1>9 DEF Awaited
    <2> QED
      BY <2>1, <2>2, <2>3 DEF StrongSupply
  <1>12. SignalsCatchUp
    BY <1>1, <1>7, <1>8, <1>9 DEF SignalsCatchUp, UnpluggedSignalled, Superseded,
           NoneAfterCharger, LastToldCharger, ChargerBefore
  <1>13. /\ one.notifier = <<>>
         /\ l.notifier # <<>> <=> level = "StateLow" /\ charging # "StateCharging"
    <2>1. one.notifier = <<>>
      BY <1>3, <1>5 DEF Handling, Starts, Charge, BatteryLevel, ChargerIs, Signal
    <2>2. l.notifier # <<>> <=> Starts(one, BatteryLevel(level))
      BY <1>7, <2>1 DEF Handling
    <2>3. Starts(one, BatteryLevel(level)) <=> level = "StateLow" /\ charging # "StateCharging"
      BY DEF Starts, Charge, BatteryLevel, ChargerIs, Signal
    <2> QED
      BY <2>1, <2>2, <2>3
  <1>14. ReminderCatchesUp
    BY <1>1, <1>8, <1>13 DEF ReminderCatchesUp, Reminding
  <1>15. SaysCharging(l) => charging = "StateCharging"
    <2>1. SaysCharging(l) => BatteryLevel(level) = Charge("StateCharging") \/ SaysCharging(one)
      BY <1>7 DEF Handling
    <2>2. SaysCharging(one) => Charge(charging) = Charge("StateCharging")
      BY <1>3, <1>5 DEF Handling
    <2> QED
      BY <2>1, <2>2 DEF Charge, BatteryLevel, Signal
  <1>16. IndicationCatchesUp
    BY <1>8, <1>15 DEF IndicationCatchesUp
  <1> QED
    BY <1>8, <1>10, <1>11, <1>12, <1>14, <1>16 DEF BatteryInv

LEMMA BatteryStep ==
    ASSUME BatteryInv, [BatteryNext]_batteryVars
    PROVE  BatteryInv'
  <1>1. ASSUME NEW type \in ChargerTypes, Plug(type)
        PROVE  BatteryInv'
    BY <1>1, PowerKeeps DEF Plug
  <1>2. ASSUME NEW type \in ChargerTypes, Renegotiate(type)
        PROVE  BatteryInv'
    <2>1. PowerChanges(type, charging) /\ type # "None" /\ charging \in ChargingStates
      BY <1>2 DEF Renegotiate, BatteryInv, HardwareType
    <2> QED
      BY <2>1, PowerKeeps
  <1>3. CASE Unplug
    <2>1. "None" \in ChargerTypes /\ "StateNotCharging" \in ChargingStates
      BY ChargerTypesAssumption DEF ChargingStates
    <2> QED
      BY <1>3, <2>1, PowerKeeps DEF Unplug
  <1>4. ASSUME NEW state \in ChargingStates, ChargingChanges(state)
        PROVE  BatteryInv'
    <2>1. PowerChanges(charger, state) /\ charger # "None" /\ charger \in ChargerTypes
      BY <1>4 DEF ChargingChanges, BatteryInv, HardwareType
    <2> QED
      BY <2>1, PowerKeeps
  <1>5. CASE UNCHANGED batteryVars
    <2>1. /\ Logic' = Logic /\ Becomes(Logic)
          /\ battery' = battery /\ lowBatteryNotifier' = lowBatteryNotifier
          /\ UNCHANGED <<hardwareVars, batterySignals, call, displayOff, displaySignal>>
      BY <1>5 DEF batteryVars, activityVars, Logic, Becomes
    <2>2. /\ GoodLogic(Logic) /\ displaySignal' = displaySignal /\ displaySignal' \in BOOLEAN
          /\ Logic.notifier = lowBatteryNotifier /\ Logic.members.chargerType = battery.chargerType
      BY <2>1 DEF BatteryInv, HardwareType, Logic
    <2> QED
      BY <2>1, <2>2, BecomesKeeps DEF Reminding
  <1> QED
    BY <1>1, <1>2, <1>3, <1>4, <1>5, LevelKeeps, ModeKeeps, DeliveryKeeps, DisplayKeeps,
       DisplayStateKeeps, CallKeeps, CallContextKeeps, LockKeeps, MinuteKeeps, AlertKeeps,
       TimerKeeps DEF BatteryNext

LEMMA BatteryInvSuffices ==
    ASSUME BatteryInv
    PROVE  UserKnowsBattery
  <1>1. ReminderOnTime
    <2> SUFFICES ASSUME NEW i \in DOMAIN lowBatteryNotifier, NEW n, n = lowBatteryNotifier[i]
                 PROVE  /\ n.elapsed + n.left = n.notificationInterval
                        /\ n.touchScreenLockActive = battery.touchScreenLockActive
                        /\ ~displaySignal => n.notificationInterval =
                                                IntervalFor(n.callContextItem, Inactive(n))
      BY DEF ReminderOnTime
    <2>1. lowBatteryNotifier # <<>>
      OBVIOUS
    <2>2. n = lowBatteryNotifier[1]
      <3>1. lowBatteryNotifier = <<lowBatteryNotifier[1]>>
        BY <2>1, NotifierGood
      <3>2. i = 1
        BY <3>1
      <3> QED
        BY <3>2
    <2>3. /\ IntervalNoticed(n) /\ PeriodWhole(n) /\ (~displaySignal => Noticed(n))
          /\ n.touchScreenLockActive = battery.touchScreenLockActive
      BY <2>1, <2>2, NotifierGood
    <2> QED
      BY <2>3 DEF IntervalNoticed, PeriodWhole, Noticed
  <1>2. ASSUME Quiet, NEW s
        PROVE  ~Awaited(batterySignals, s)
    BY <1>2 DEF Quiet, Awaited
  <1>3. RemindersFollowBattery
    <2> SUFFICES ASSUME Quiet, ~weakUsb
                 PROVE  /\ Reminding => level \in {"StateLow", "StateEmpty"} /\ charging # "StateCharging"
                        /\ level = "StateLow" /\ charger = "None" => Reminding
      BY DEF RemindersFollowBattery
    <2>1. level \in BatteryStates
      BY DEF BatteryInv, HardwareType
    <2> QED
      BY <1>2, <2>1 DEF BatteryInv, ReminderCatchesUp, BatteryStates
  <1>4. ChargingIndicationHonest
    BY <1>2 DEF BatteryInv, IndicationCatchesUp, ChargingIndicationHonest, SaysCharging, Logic
  <1> QED
    BY <1>1, <1>3, <1>4 DEF UserKnowsBattery

\* In every state that the hardware, its signals in whatever order they are
\* delivered, the phone, the display and the lock lead to, the next reminder is due one
\* interval after the previous one, and once all signals are delivered the reminder,
\* the light and the notification tell of the battery and of the charger there are
\* (batterybusinesslogic.cpp:71-186, lowbatterynotifier.cpp:64-94).
THEOREM UserAlwaysKnowsBattery == BatterySpec => []UserKnowsBattery
  <1>1. BatteryInit => BatteryInv
    BY BatteryInitially
  <1>2. BatteryInv /\ [BatteryNext]_batteryVars => BatteryInv'
    BY BatteryStep
  <1>3. BatteryInv => UserKnowsBattery
    BY BatteryInvSuffices
  <1> QED
    BY <1>1, <1>2, <1>3, PTL DEF BatterySpec

-----------------------------------------------------------------------------
(* The bus: dbusinterfacenotificationsource.cpp, mnotificationproxy.cpp,   *)
(* dbusinterfacenotificationsink.cpp.                                      *)

(* What is written to the bus is read as it was.                           *)
LEMMA ReadAsWritten ==
    ASSUME NEW fields, NEW x
    PROVE  OverTheBus(fields, x) = [f \in Range(fields) |-> x[f]]
  <1>1. ASSUME NEW f \in Range(fields)
        PROVE  /\ (CHOOSE i \in DOMAIN fields : fields[i] = f) \in DOMAIN fields
               /\ fields[CHOOSE i \in DOMAIN fields : fields[i] = f] = f
    BY <1>1 DEF Range
  <1>2. OverTheBus(fields, x) =
            [f \in Range(fields) |->
                [i \in DOMAIN fields |-> x[fields[i]]][CHOOSE i \in DOMAIN fields : fields[i] = f]]
    BY DEF OverTheBus, Read, Write, ReadOrder
  <1>3. ASSUME NEW f \in Range(fields)
        PROVE  [i \in DOMAIN fields |-> x[fields[i]]][CHOOSE i \in DOMAIN fields : fields[i] = f]
                   = x[f]
    BY <1>1
  <1> QED
    BY <1>2, <1>3

NotificationMembers == {"notificationId", "groupId", "userId", "type", "timeout", "parameters"}
GroupMembers == {"groupId", "userId", "parameters"}

(* A notification or a group is kept under its own id.                     *)
IsNotification(n, id) ==
    /\ n = [f \in NotificationMembers |-> n[f]]
    /\ n.notificationId = id
IsGroup(g, id) ==
    /\ g = [f \in GroupMembers |-> g[f]]
    /\ g.groupId = id

NotificationsStored(things) ==
    /\ DOMAIN things \subseteq BusIds
    /\ \A id \in DOMAIN things : IsNotification(things[id], id)
GroupsStored(things) ==
    /\ DOMAIN things \subseteq BusIds
    /\ \A id \in DOMAIN things : IsGroup(things[id], id)

(* What was last said of each text is what the parameters have.            *)
SaysOf(texts, parameters) == texts = [key \in TextKeys |-> ValueOf(parameters, key)]
SaidAsStored(texts, things) ==
    /\ DOMAIN texts = DOMAIN things
    /\ \A id \in DOMAIN things : SaysOf(texts[id], things[id].parameters)

ApplicationsIn(things) == [id \in {i \in DOMAIN things : IsApplication(things[i])} |-> things[id]]
GroupsIn(groups) == [id \in DOMAIN groups |-> groups[id].parameters]

Pair(notifications, groups) == [notifications |-> notifications, groups |-> groups]

(* Registered sinks know what there is, the others know nothing.           *)
Follow(r, registered, things, groups) ==
    r = [a \in SinkAddresses |->
            IF a \in registered THEN Pair(ApplicationsIn(things), GroupsIn(groups))
            ELSE Pair(NoEntries, NoEntries)]

BusInvariant ==
    /\ stored = Pair(stored.notifications, stored.groups)
    /\ said = Pair(said.notifications, said.groups)
    /\ NotificationsStored(stored.notifications) /\ GroupsStored(stored.groups)
    /\ SaidAsStored(said.notifications, stored.notifications)
    /\ SaidAsStored(said.groups, stored.groups)
    /\ proxies \subseteq SinkAddresses
    /\ Follow(remote, proxies, stored.notifications, stored.groups)
    /\ ListsTellWhatWasSaid

LEMMA RangeOfConcat ==
    ASSUME NEW S, NEW s \in Seq(S), NEW t \in Seq(S)
    PROVE  Range(s \o t) = Range(s) \cup Range(t)
  <1>1. ASSUME NEW i \in 1..Len(s)
        PROVE  i \in 1..(Len(s) + Len(t)) /\ (s \o t)[i] = s[i]
    BY ConcatProperties
  <1>2. ASSUME NEW i \in 1..Len(t)
        PROVE  Len(s) + i \in 1..(Len(s) + Len(t)) /\ (s \o t)[Len(s) + i] = t[i]
    BY ConcatProperties
  <1>3. ASSUME NEW i \in 1..(Len(s) + Len(t)), i > Len(s)
        PROVE  i - Len(s) \in 1..Len(t) /\ (s \o t)[i] = t[i - Len(s)]
    BY <1>3, ConcatProperties
  <1>4. DOMAIN (s \o t) = 1..(Len(s) + Len(t)) /\ DOMAIN s = 1..Len(s) /\ DOMAIN t = 1..Len(t)
    BY ConcatProperties
  <1>5. ASSUME NEW x \in Range(s \o t)
        PROVE  x \in Range(s) \cup Range(t)
    <2>1. PICK i \in 1..(Len(s) + Len(t)) : x = (s \o t)[i]
      BY <1>4, <1>5 DEF Range
    <2>2. CASE i > Len(s)
      BY <1>3, <1>4, <2>1, <2>2 DEF Range
    <2>3. CASE i \in 1..Len(s)
      BY <1>1, <1>4, <2>1, <2>3 DEF Range
    <2> QED
      BY <2>2, <2>3
  <1>6. Range(s) \subseteq Range(s \o t)
    BY <1>1, <1>4 DEF Range
  <1>7. Range(t) \subseteq Range(s \o t)
    BY <1>2, <1>4 DEF Range
  <1> QED
    BY <1>5, <1>6, <1>7

\* A nonempty set of natural numbers has a least element.
LEMMA LeastExists ==
    ASSUME NEW T, T \subseteq Nat, T # {}
    PROVE  \E m \in T : \A k \in T : m <= k
  <1>1. PICK m \in T : \A k \in T : <<k, m>> \notin OpToRel(<, Nat)
    BY WFMin, NatLessThanWellFounded, Zenon
  <1>2. \A k \in T : ~(k < m)
    BY <1>1, Zenon DEF OpToRel
  <1> QED
    BY <1>2

LEMMA LowestIsFree ==
    ASSUME NEW used, used # BusIds, used \subseteq BusIds
    PROVE  LowestFreeId(used) \in BusIds \ used
  <1>1. BusIds \subseteq Nat
    BY BusAssumption, FS_CardinalityType
  <1>2. \E id \in BusIds \ used : \A i \in BusIds \ used : id <= i
    BY <1>1, LeastExists
  <1> QED
    BY <1>2 DEF LowestFreeId

LEMMA LayoutsKnown ==
    /\ \A fields \in {ProxyFields, WithIdentifierFields, WithParametersFields} :
           "notificationId" \in Range(fields)
    /\ \A fields \in {GroupProxyFields, GroupWithIdentifierFields, GroupWithParametersFields} :
           "groupId" \in Range(fields) /\ "notificationId" \notin Range(fields)
  <1> DEFINE names == TextKeys \cup {"notificationId", "groupId", "parameters", "count"}
  <1>1. ProxyTexts \in Seq(names) /\ Range(ProxyTexts) = (TextKeys \ {"identifier"}) \cup {"count"}
    BY DEF ProxyTexts, Range, TextKeys
  <1>2. <<"notificationId", "groupId">> \in Seq(names) /\ <<"groupId">> \in Seq(names)
        /\ <<"identifier">> \in Seq(names)
    BY DEF TextKeys
  <1>3. /\ Range(<<"notificationId", "groupId">>) = {"notificationId", "groupId"}
        /\ Range(<<"groupId">>) = {"groupId"} /\ Range(<<"identifier">>) = {"identifier"}
    BY DEF Range
  <1>4. ProxyFields \in Seq(names) /\ GroupProxyFields \in Seq(names)
    BY <1>1, <1>2, ConcatProperties DEF ProxyFields, GroupProxyFields
  <1> HIDE DEF names
  <1>5. "notificationId" \in Range(ProxyFields)
    <2>1. Range(ProxyFields) = Range(<<"notificationId", "groupId">>) \cup Range(ProxyTexts)
      BY <1>1, <1>2, RangeOfConcat DEF ProxyFields
    <2> QED
      BY <1>3, <2>1
  <1>6. "groupId" \in Range(GroupProxyFields) /\ "notificationId" \notin Range(GroupProxyFields)
    <2>1. Range(GroupProxyFields) = Range(<<"groupId">>) \cup Range(ProxyTexts)
      BY <1>1, <1>2, RangeOfConcat DEF GroupProxyFields
    <2> QED
      BY <1>1, <1>3, <2>1 DEF TextKeys
  <1>7. "notificationId" \in Range(WithIdentifierFields)
    <2>1. Range(WithIdentifierFields) = Range(ProxyFields) \cup Range(<<"identifier">>)
      BY <1>2, <1>4, RangeOfConcat DEF WithIdentifierFields
    <2> QED
      BY <1>5, <2>1
  <1>8. "groupId" \in Range(GroupWithIdentifierFields)
        /\ "notificationId" \notin Range(GroupWithIdentifierFields)
    <2>1. Range(GroupWithIdentifierFields) = Range(GroupProxyFields) \cup Range(<<"identifier">>)
      BY <1>2, <1>4, RangeOfConcat DEF GroupWithIdentifierFields
    <2> QED
      BY <1>3, <1>6, <2>1
  <1>9. "notificationId" \in Range(WithParametersFields)
    BY DEF WithParametersFields, Range
  <1>10. "groupId" \in Range(GroupWithParametersFields)
         /\ "notificationId" \notin Range(GroupWithParametersFields)
    BY DEF GroupWithParametersFields, Range
  <1> QED
    BY <1>5, <1>6, <1>7, <1>8, <1>9, <1>10

(* An entry of a list tells the texts of what it was made of.              *)
LEMMA EntryTells ==
    ASSUME NEW fields, NEW x, NEW key \in TextKeys,
           TextKeys \cap DOMAIN x = {}, "parameters" \in DOMAIN x,
           NEW e, e = OverTheBus(fields, ProxyOf(fields, x)),
           key \in DOMAIN e \/ "parameters" \in DOMAIN e
    PROVE  (IF "parameters" \in DOMAIN e THEN ValueOf(e.parameters, key) ELSE e[key])
               = ValueOf(x.parameters, key)
  <1>1. e = [f \in Range(fields) |-> ProxyOf(fields, x)[f]]
    BY ReadAsWritten
  <1>2. DOMAIN e = Range(fields)
    BY <1>1
  <1>3. ASSUME NEW f \in Range(fields)
        PROVE  e[f] = IF f \in DOMAIN x THEN x[f] ELSE ValueOf(x.parameters, f)
    BY <1>1 DEF ProxyOf
  <1> QED
    BY <1>2, <1>3

LEMMA EntryKnows ==
    ASSUME NEW fields, NEW x, NEW f \in Range(fields), f \in DOMAIN x
    PROVE  OverTheBus(fields, ProxyOf(fields, x))[f] = x[f]
  <1>1. OverTheBus(fields, ProxyOf(fields, x)) = [g \in Range(fields) |-> ProxyOf(fields, x)[g]]
    BY ReadAsWritten
  <1> QED
    BY <1>1 DEF ProxyOf

(* What the sinks are sent is what is stored.                              *)
LEMMA SentAsStored ==
    ASSUME NEW n, NEW id, IsNotification(n, id)
    PROVE  SentNotification(n) = n
  <1>1. Range(NotificationFields) = NotificationMembers
    BY DEF Range, NotificationFields, NotificationMembers
  <1>2. SentNotification(n) = [f \in NotificationMembers |-> n[f]]
    BY <1>1, ReadAsWritten DEF SentNotification
  <1> QED
    BY <1>2 DEF IsNotification

LEMMA CurrentApplications ==
    ASSUME NEW things, NotificationsStored(things)
    PROVE  [id \in {i \in DOMAIN things : IsApplication(things[i])} |-> SentNotification(things[id])]
               = ApplicationsIn(things)
  <1>1. \A id \in DOMAIN things : SentNotification(things[id]) = things[id]
    BY SentAsStored DEF NotificationsStored
  <1> QED
    BY <1>1 DEF ApplicationsIn

LEMMA ApplicationPut ==
    ASSUME NEW things, NEW id, NEW n, IsApplication(n)
    PROVE  ApplicationsIn(Put(things, id, n)) = Put(ApplicationsIn(things), id, n)
  <1> DEFINE held == Put(things, id, n)
  <1>1. /\ DOMAIN held = DOMAIN things \cup {id}
        /\ \A i \in DOMAIN held : held[i] = IF i = id THEN n ELSE things[i]
    BY DEF Put
  <1>2. {i \in DOMAIN held : IsApplication(held[i])}
            = {i \in DOMAIN things : IsApplication(things[i])} \cup {id}
    BY <1>1
  <1> HIDE DEF held
  <1>3. ApplicationsIn(held) = [i \in {j \in DOMAIN things : IsApplication(things[j])} \cup {id} |->
                                  IF i = id THEN n ELSE things[i]]
    BY <1>1, <1>2 DEF ApplicationsIn
  <1>4. Put(ApplicationsIn(things), id, n)
            = [i \in {j \in DOMAIN things : IsApplication(things[j])} \cup {id} |->
                                  IF i = id THEN n ELSE things[i]]
    BY DEF Put, ApplicationsIn
  <1> QED
    BY <1>3, <1>4 DEF held

LEMMA OtherPut ==
    ASSUME NEW things, NEW id, NEW n, ~IsApplication(n),
           id \in DOMAIN things => ~IsApplication(things[id])
    PROVE  ApplicationsIn(Put(things, id, n)) = ApplicationsIn(things)
  <1> DEFINE held == Put(things, id, n)
  <1>1. /\ DOMAIN held = DOMAIN things \cup {id}
        /\ \A i \in DOMAIN held : held[i] = IF i = id THEN n ELSE things[i]
    BY DEF Put
  <1>2. {i \in DOMAIN held : IsApplication(held[i])} = {i \in DOMAIN things : IsApplication(things[i])}
    BY <1>1
  <1> HIDE DEF held
  <1>3. ApplicationsIn(held) = ApplicationsIn(things)
    BY <1>1, <1>2 DEF ApplicationsIn
  <1> QED
    BY <1>3 DEF held

LEMMA ApplicationsDropped ==
    ASSUME NEW things, NEW ids
    PROVE  ApplicationsIn(Drop(things, ids)) = Drop(ApplicationsIn(things), ids)
  <1> DEFINE held == Drop(things, ids)
  <1>1. /\ DOMAIN held = DOMAIN things \ ids
        /\ \A i \in DOMAIN held : held[i] = things[i]
    BY DEF Drop, Restrict
  <1>2. {i \in DOMAIN held : IsApplication(held[i])}
            = {i \in DOMAIN things : IsApplication(things[i])} \ ids
    BY <1>1
  <1> HIDE DEF held
  <1>3. ApplicationsIn(held)
            = [i \in {j \in DOMAIN things : IsApplication(things[j])} \ ids |-> things[i]]
    BY <1>1, <1>2 DEF ApplicationsIn
  <1>4. Drop(ApplicationsIn(things), ids)
            = [i \in {j \in DOMAIN things : IsApplication(things[j])} \ ids |-> things[i]]
    BY DEF Drop, Restrict, ApplicationsIn
  <1> QED
    BY <1>3, <1>4 DEF held

LEMMA GroupPut ==
    ASSUME NEW groups, NEW id, NEW g
    PROVE  GroupsIn(Put(groups, id, g)) = Put(GroupsIn(groups), id, g.parameters)
  BY DEF GroupsIn, Put

LEMMA GroupsDropped ==
    ASSUME NEW groups, NEW ids
    PROVE  GroupsIn(Drop(groups, ids)) = Drop(GroupsIn(groups), ids)
  BY DEF GroupsIn, Drop, Restrict

-----------------------------------------------------------------------------
(* What is said.                                                           *)

LEMMA PutSaid ==
    ASSUME NEW texts, NEW things, SaidAsStored(texts, things), NEW id, NEW words, NEW thing,
           SaysOf(words, thing.parameters)
    PROVE  SaidAsStored(Put(texts, id, words), Put(things, id, thing))
  BY DEF SaidAsStored, Put

LEMMA DroppedSaid ==
    ASSUME NEW texts, NEW things, SaidAsStored(texts, things), NEW ids
    PROVE  SaidAsStored(Drop(texts, ids), Drop(things, ids))
  BY DEF SaidAsStored, Drop, Restrict

NewWords(form, version) ==
    [key \in TextKeys |-> IF key \in Mentions(form, version) THEN Value(key, version) ELSE Empty(key)]
ChangedWords(words, form, version) ==
    [key \in TextKeys |-> IF key \in Mentions(form, version) THEN Value(key, version) ELSE words[key]]

LEMMA NewSaid ==
    ASSUME NEW form, NEW version
    PROVE  SaysOf(NewWords(form, version), NotificationParametersOf(form, version))
  <1>1. TextKeys \cap OwnKeys = {}
    BY DEF TextKeys, OwnKeys
  <1>2. ASSUME NEW key \in TextKeys
        PROVE  ValueOf(NotificationParametersOf(form, version), key)
                   = IF key \in Mentions(form, version) THEN Value(key, version) ELSE Empty(key)
    BY <1>1 DEF ValueOf, NotificationParametersOf
  <1> QED
    BY <1>2 DEF SaysOf, NewWords

LEMMA ChangedSaid ==
    ASSUME NEW form, NEW version, NEW words, NEW parameters, SaysOf(words, parameters)
    PROVE  SaysOf(ChangedWords(words, form, version),
                  Update(parameters, NotificationParametersOf(form, version)))
  <1>1. TextKeys \cap OwnKeys = {}
    BY DEF TextKeys, OwnKeys
  <1>2. ASSUME NEW key \in TextKeys
        PROVE  ValueOf(Update(parameters, NotificationParametersOf(form, version)), key)
                   = IF key \in Mentions(form, version) THEN Value(key, version)
                     ELSE ValueOf(parameters, key)
    BY <1>1 DEF ValueOf, NotificationParametersOf, Update
  <1>3. \A key \in TextKeys : words[key] = ValueOf(parameters, key)
    BY DEF SaysOf
  <1> QED
    BY <1>2, <1>3 DEF SaysOf, ChangedWords

WithNotifications(p, x) == [p EXCEPT !.notifications = x]
WithGroups(p, x) == [p EXCEPT !.groups = x]

LEMMA PairChanged ==
    ASSUME NEW p, NEW n, NEW g, p = Pair(n, g), NEW x
    PROVE  /\ WithNotifications(p, x) = Pair(x, g)
           /\ WithGroups(p, x) = Pair(n, x)
           /\ p.notifications = n /\ p.groups = g
  BY DEF Pair, WithNotifications, WithGroups

LEMMA BothChanged ==
    ASSUME NEW p, NEW n, NEW g, p = Pair(n, g), NEW x, NEW y
    PROVE  WithNotifications(WithGroups(p, y), x) = Pair(x, y)
  <1>1. WithGroups(p, y) = Pair(n, y)
    BY PairChanged
  <1> QED
    BY <1>1, PairChanged

LEMMA SaidOfNew ==
    ASSUME BusInvariant, NEW id, NEW form, NEW version
    PROVE  /\ id \notin DOMAIN said.notifications =>
                  SaidOf("notifications", id, form, version)
                      = WithNotifications(said, Put(said.notifications, id, NewWords(form, version)))
           /\ id \notin DOMAIN said.groups =>
                  SaidOf("groups", id, form, version)
                      = WithGroups(said, Put(said.groups, id, NewWords(form, version)))
  <1>1. ASSUME NEW kind, id \notin DOMAIN said[kind]
        PROVE  [key \in TextKeys |-> IF key \in Mentions(form, version) THEN Value(key, version)
                                     ELSE IF id \in DOMAIN said[kind] THEN said[kind][id][key]
                                     ELSE Empty(key)]
                   = NewWords(form, version)
    BY <1>1 DEF NewWords
  <1> QED
    BY <1>1 DEF SaidOf, BusInvariant, Pair, WithNotifications, WithGroups

LEMMA SaidOfKnown ==
    ASSUME BusInvariant, NEW id, NEW form, NEW version
    PROVE  /\ id \in DOMAIN said.notifications =>
                  SaidOf("notifications", id, form, version)
                      = WithNotifications(said, Put(said.notifications, id,
                                           ChangedWords(said.notifications[id], form, version)))
           /\ id \in DOMAIN said.groups =>
                  SaidOf("groups", id, form, version)
                      = WithGroups(said, Put(said.groups, id,
                                           ChangedWords(said.groups[id], form, version)))
  <1>1. ASSUME NEW kind, id \in DOMAIN said[kind]
        PROVE  [key \in TextKeys |-> IF key \in Mentions(form, version) THEN Value(key, version)
                                     ELSE IF id \in DOMAIN said[kind] THEN said[kind][id][key]
                                     ELSE Empty(key)]
                   = ChangedWords(said[kind][id], form, version)
    BY <1>1 DEF ChangedWords
  <1> QED
    BY <1>1 DEF SaidOf, BusInvariant, Pair, WithNotifications, WithGroups

LEMMA NothingListed == ASSUME reply = NoReply PROVE ListsTellWhatWasSaid
  BY DEF NoReply, ListsTellWhatWasSaid

(* What a call leaves behind.                                              *)
Kept(notifications, groups, saidOfNotifications, saidOfGroups) ==
    /\ stored' = Pair(notifications, groups)
    /\ said' = Pair(saidOfNotifications, saidOfGroups)
    /\ NotificationsStored(notifications) /\ GroupsStored(groups)
    /\ SaidAsStored(saidOfNotifications, notifications)
    /\ SaidAsStored(saidOfGroups, groups)
    /\ Follow(remote', proxies, notifications, groups)

LEMMA CallKept ==
    ASSUME BusInvariant, Called, NEW n, NEW g, NEW w, NEW v, Kept(n, g, w, v)
    PROVE  BusInvariant'
  <1>1. /\ stored' = Pair(stored'.notifications, stored'.groups)
        /\ stored'.notifications = n /\ stored'.groups = g
        /\ said' = Pair(said'.notifications, said'.groups)
        /\ said'.notifications = w /\ said'.groups = v
    BY DEF Kept, Pair
  <1>2. ListsTellWhatWasSaid'
    BY DEF Called, NoReply, ListsTellWhatWasSaid
  <1>3. proxies' = proxies
    BY DEF Called
  <1> QED
    BY <1>1, <1>2, <1>3 DEF BusInvariant, Kept

(* The parts of the invariant, by the names the proofs below give them.    *)
LEMMA Parts ==
    ASSUME BusInvariant, NEW n, NEW g, NEW w, NEW v,
           n = stored.notifications, g = stored.groups,
           w = said.notifications, v = said.groups
    PROVE  /\ stored = Pair(n, g) /\ said = Pair(w, v)
           /\ NotificationsStored(n) /\ GroupsStored(g)
           /\ SaidAsStored(w, n) /\ SaidAsStored(v, g)
           /\ Follow(remote, proxies, n, g)
  BY DEF BusInvariant

-----------------------------------------------------------------------------
(* The sinks are told.                                                     *)

LEMMA ToldOfNotification ==
    ASSUME NEW things, NEW groups, Follow(remote, proxies, things, groups),
           NEW id, NEW n, IsNotification(n, id), TellNotification(n),
           ~IsApplication(n) /\ id \in DOMAIN things => ~IsApplication(things[id])
    PROVE  Follow(remote', proxies, Put(things, id, n), groups)
  <1>1. SentNotification(n) = n /\ n.notificationId = id
    BY SentAsStored DEF IsNotification
  <1>2. CASE IsApplication(n)
    <2>1. ApplicationsIn(Put(things, id, n)) = Put(ApplicationsIn(things), id, n)
      BY <1>2, ApplicationPut
    <2>2. remote' = [a \in SinkAddresses |->
                        IF a \in proxies
                        THEN [remote[a] EXCEPT !.notifications = Put(remote[a].notifications, id, n)]
                        ELSE remote[a]]
      BY <1>1, <1>2 DEF TellNotification, TellSinks
    <2>3. ASSUME NEW a \in SinkAddresses
          PROVE  remote[a] = IF a \in proxies THEN Pair(ApplicationsIn(things), GroupsIn(groups))
                             ELSE Pair(NoEntries, NoEntries)
      BY DEF Follow
    <2>4. ASSUME NEW a \in SinkAddresses, a \in proxies
          PROVE  [remote[a] EXCEPT !.notifications = Put(remote[a].notifications, id, n)]
                     = Pair(Put(ApplicationsIn(things), id, n), GroupsIn(groups))
      BY <2>3, <2>4 DEF Pair
    <2> QED
      BY <2>1, <2>2, <2>3, <2>4 DEF Follow
  <1>3. CASE ~IsApplication(n)
    <2>1. ApplicationsIn(Put(things, id, n)) = ApplicationsIn(things)
      BY <1>3, OtherPut
    <2>2. remote' = remote
      BY <1>3 DEF TellNotification
    <2> QED
      BY <2>1, <2>2 DEF Follow
  <1> QED
    BY <1>2, <1>3

LEMMA ToldOfRemoval ==
    ASSUME NEW things, NEW groups, Follow(remote, proxies, things, groups),
           NEW ids, TellRemoval(ids)
    PROVE  Follow(remote', proxies, Drop(things, ids), groups)
  <1>1. ApplicationsIn(Drop(things, ids)) = Drop(ApplicationsIn(things), ids)
    BY ApplicationsDropped
  <1>2. remote' = [a \in SinkAddresses |->
                      IF a \in proxies
                      THEN [remote[a] EXCEPT !.notifications = Drop(remote[a].notifications, ids)]
                      ELSE remote[a]]
    BY DEF TellRemoval, TellSinks
  <1>3. ASSUME NEW a \in SinkAddresses
        PROVE  remote[a] = IF a \in proxies THEN Pair(ApplicationsIn(things), GroupsIn(groups))
                           ELSE Pair(NoEntries, NoEntries)
    BY DEF Follow
  <1>4. ASSUME NEW a \in SinkAddresses, a \in proxies
        PROVE  [remote[a] EXCEPT !.notifications = Drop(remote[a].notifications, ids)]
                   = Pair(Drop(ApplicationsIn(things), ids), GroupsIn(groups))
    BY <1>3, <1>4 DEF Pair
  <1> QED
    BY <1>1, <1>2, <1>3, <1>4 DEF Follow

LEMMA ToldOfGroup ==
    ASSUME NEW things, NEW groups, Follow(remote, proxies, things, groups),
           NEW id, NEW g, IsGroup(g, id), TellGroup(g)
    PROVE  Follow(remote', proxies, things, Put(groups, id, g))
  <1>1. GroupsIn(Put(groups, id, g)) = Put(GroupsIn(groups), id, g.parameters)
    BY GroupPut
  <1>2. remote' = [a \in SinkAddresses |->
                      IF a \in proxies
                      THEN [remote[a] EXCEPT !.groups = Put(remote[a].groups, id, g.parameters)]
                      ELSE remote[a]]
    BY DEF TellGroup, TellSinks, IsGroup
  <1>3. ASSUME NEW a \in SinkAddresses
        PROVE  remote[a] = IF a \in proxies THEN Pair(ApplicationsIn(things), GroupsIn(groups))
                           ELSE Pair(NoEntries, NoEntries)
    BY DEF Follow
  <1>4. ASSUME NEW a \in SinkAddresses, a \in proxies
        PROVE  [remote[a] EXCEPT !.groups = Put(remote[a].groups, id, g.parameters)]
                   = Pair(ApplicationsIn(things), Put(GroupsIn(groups), id, g.parameters))
    BY <1>3, <1>4 DEF Pair
  <1> QED
    BY <1>1, <1>2, <1>3, <1>4 DEF Follow

LEMMA ToldOfGroupRemoval ==
    ASSUME NEW things, NEW groups, Follow(remote, proxies, things, groups),
           NEW id, NEW members, TellGroupRemoval(id, members)
    PROVE  Follow(remote', proxies, Drop(things, members), Drop(groups, {id}))
  <1>1. /\ ApplicationsIn(Drop(things, members)) = Drop(ApplicationsIn(things), members)
        /\ GroupsIn(Drop(groups, {id})) = Drop(GroupsIn(groups), {id})
    BY ApplicationsDropped, GroupsDropped
  <1>2. remote' = [a \in SinkAddresses |->
                      IF a \in proxies
                      THEN WithNotifications(WithGroups(remote[a], Drop(remote[a].groups, {id})),
                                             Drop(remote[a].notifications, members))
                      ELSE remote[a]]
    BY DEF TellGroupRemoval, TellSinks, WithNotifications, WithGroups
  <1>3. ASSUME NEW a \in SinkAddresses
        PROVE  remote[a] = IF a \in proxies THEN Pair(ApplicationsIn(things), GroupsIn(groups))
                           ELSE Pair(NoEntries, NoEntries)
    BY DEF Follow
  <1>4. ASSUME NEW a \in SinkAddresses, a \in proxies
        PROVE  WithNotifications(WithGroups(remote[a], Drop(remote[a].groups, {id})),
                                 Drop(remote[a].notifications, members))
                   = Pair(Drop(ApplicationsIn(things), members), Drop(GroupsIn(groups), {id}))
    <2>1. remote[a] = Pair(ApplicationsIn(things), GroupsIn(groups))
      BY <1>3, <1>4
    <2>2. /\ remote[a].groups = GroupsIn(groups)
          /\ remote[a].notifications = ApplicationsIn(things)
      BY <2>1 DEF Pair
    <2> QED
      BY <2>1, <2>2, BothChanged
  <1> QED
    BY <1>1, <1>2, <1>3, <1>4 DEF Follow

-----------------------------------------------------------------------------
(* The calls of applications.                                              *)

LEMMA NewNotificationStored ==
    ASSUME NEW id, NEW group, NEW user, NEW type, NEW parameters,
           NEW n, n = NewNotification(id, group, user, type, parameters)
    PROVE  IsNotification(n, id) /\ n.parameters = parameters
  BY DEF NewNotification, IsNotification, NotificationMembers

LEMMA ChangedNotificationStored ==
    ASSUME NEW id, NEW old, IsNotification(old, id), NEW parameters,
           NEW n, n = [old EXCEPT !.parameters = parameters]
    PROVE  /\ IsNotification(n, id) /\ n.parameters = parameters
           /\ IsApplication(n) <=> IsApplication(old)
  BY DEF IsNotification, NotificationMembers, IsApplication

LEMMA NewGroupStored ==
    ASSUME NEW id, NEW user, NEW parameters, NEW g, g = NewGroup(id, user, parameters)
    PROVE  IsGroup(g, id) /\ g.parameters = parameters
  BY DEF NewGroup, IsGroup, GroupMembers

LEMMA ChangedGroupStored ==
    ASSUME NEW id, NEW old, IsGroup(old, id), NEW parameters,
           NEW g, g = [old EXCEPT !.parameters = parameters]
    PROVE  IsGroup(g, id) /\ g.parameters = parameters
  BY DEF IsGroup, GroupMembers

LEMMA PutStored ==
    ASSUME NEW id \in BusIds, NEW thing
    PROVE  /\ \A things : NotificationsStored(things) /\ IsNotification(thing, id)
                             => NotificationsStored(Put(things, id, thing))
           /\ \A things : GroupsStored(things) /\ IsGroup(thing, id)
                             => GroupsStored(Put(things, id, thing))
  BY DEF NotificationsStored, GroupsStored, Put

LEMMA DroppedStored ==
    ASSUME NEW ids
    PROVE  /\ \A things : NotificationsStored(things) => NotificationsStored(Drop(things, ids))
           /\ \A things : GroupsStored(things) => GroupsStored(Drop(things, ids))
  BY DEF NotificationsStored, GroupsStored, Drop, Restrict

LEMMA AddedNotificationKept ==
    ASSUME BusInvariant, NEW user, NEW group, NEW form, NEW version,
           SourceAddsNotification(user, group, form, version)
    PROVE  BusInvariant'
  <1> DEFINE words == NewWords(form, version)
             parameters == NotificationParametersOf(form, version)
  <1>1. PICK n, g, w, v : n = stored.notifications /\ g = stored.groups
                          /\ w = said.notifications /\ v = said.groups
    OBVIOUS
  <1>2. /\ stored = Pair(n, g) /\ said = Pair(w, v)
        /\ NotificationsStored(n) /\ GroupsStored(g)
        /\ SaidAsStored(w, n) /\ SaidAsStored(v, g)
        /\ Follow(remote, proxies, n, g)
    BY <1>1, Parts
  <1>3. PICK id, type, new :
            /\ id = LowestFreeId(DOMAIN n)
            /\ new = NewNotification(id, group, user, type, parameters)
            /\ stored' = WithNotifications(stored, Put(n, id, new))
            /\ TellNotification(new)
            /\ said' = SaidOf("notifications", id, form, version)
    BY <1>1, <1>2 DEF SourceAddsNotification, WithNotifications
  <1>4. id \in BusIds \ DOMAIN n
    <2>1. DOMAIN n # BusIds /\ DOMAIN n \subseteq BusIds
      BY <1>1, <1>2 DEF SourceAddsNotification, NotificationsStored
    <2> QED
      BY <1>3, <2>1, LowestIsFree
  <1>5. IsNotification(new, id) /\ new.parameters = parameters
    BY <1>3, NewNotificationStored
  <1>6. stored' = Pair(Put(n, id, new), g)
    BY <1>2, <1>3, PairChanged
  <1>7. said' = Pair(Put(w, id, words), v)
    <2>1. said.notifications = w /\ id \notin DOMAIN said.notifications
      BY <1>1, <1>2, <1>4 DEF SaidAsStored
    <2>2. said' = WithNotifications(said, Put(said.notifications, id, words))
      BY <1>3, <2>1, SaidOfNew
    <2> QED
      BY <1>2, <2>1, <2>2, PairChanged
  <1>8. NotificationsStored(Put(n, id, new))
    BY <1>2, <1>4, <1>5, PutStored
  <1>9. SaidAsStored(Put(w, id, words), Put(n, id, new))
    <2>1. SaysOf(words, new.parameters)
      BY <1>5, NewSaid
    <2> QED
      BY <1>2, <2>1, PutSaid
  <1>10. Follow(remote', proxies, Put(n, id, new), g)
    BY <1>2, <1>3, <1>4, <1>5, ToldOfNotification
  <1>11. Kept(Put(n, id, new), g, Put(w, id, words), v)
    BY <1>2, <1>6, <1>7, <1>8, <1>9, <1>10 DEF Kept
  <1>12. Called
    BY DEF SourceAddsNotification
  <1> QED
    BY <1>11, <1>12, CallKept

LEMMA UpdatedNotificationKept ==
    ASSUME BusInvariant, NEW id \in BusIds, NEW form, NEW version,
           SourceUpdatesNotification(id, form, version)
    PROVE  BusInvariant'
  <1>1. PICK n, g, w, v : n = stored.notifications /\ g = stored.groups
                          /\ w = said.notifications /\ v = said.groups
    OBVIOUS
  <1>2. /\ stored = Pair(n, g) /\ said = Pair(w, v)
        /\ NotificationsStored(n) /\ GroupsStored(g)
        /\ SaidAsStored(w, n) /\ SaidAsStored(v, g)
        /\ Follow(remote, proxies, n, g)
    BY <1>1, Parts
  <1> DEFINE words == ChangedWords(w[id], form, version)
             parameters == Update(n[id].parameters, NotificationParametersOf(form, version))
  <1>3. PICK new :
            /\ new = [n[id] EXCEPT !.parameters = parameters]
            /\ stored' = WithNotifications(stored, Put(n, id, new))
            /\ TellNotification(new)
            /\ said' = SaidOf("notifications", id, form, version)
    BY <1>1, <1>2 DEF SourceUpdatesNotification, WithNotifications
  <1>4. id \in DOMAIN n /\ IsNotification(n[id], id)
    BY <1>1, <1>2 DEF SourceUpdatesNotification, NotificationsStored
  <1>5. /\ IsNotification(new, id) /\ new.parameters = parameters
        /\ IsApplication(new) <=> IsApplication(n[id])
    BY <1>3, <1>4, ChangedNotificationStored
  <1>6. stored' = Pair(Put(n, id, new), g)
    BY <1>2, <1>3, PairChanged
  <1>7. said' = Pair(Put(w, id, words), v)
    <2>1. said.notifications = w /\ id \in DOMAIN said.notifications
      BY <1>1, <1>2, <1>4 DEF SaidAsStored
    <2>2. said' = WithNotifications(said, Put(said.notifications, id, words))
      BY <1>3, <2>1, SaidOfKnown
    <2> QED
      BY <1>2, <2>1, <2>2, PairChanged
  <1>8. NotificationsStored(Put(n, id, new))
    BY <1>2, <1>4, <1>5, PutStored
  <1>9. SaidAsStored(Put(w, id, words), Put(n, id, new))
    <2>1. SaysOf(w[id], n[id].parameters)
      BY <1>2, <1>4 DEF SaidAsStored
    <2>2. SaysOf(words, new.parameters)
      BY <1>5, <2>1, ChangedSaid
    <2> QED
      BY <1>2, <2>2, PutSaid
  <1>10. Follow(remote', proxies, Put(n, id, new), g)
    BY <1>2, <1>3, <1>5, ToldOfNotification
  <1>11. Kept(Put(n, id, new), g, Put(w, id, words), v)
    BY <1>2, <1>6, <1>7, <1>8, <1>9, <1>10 DEF Kept
  <1>12. Called
    BY DEF SourceUpdatesNotification
  <1> QED
    BY <1>11, <1>12, CallKept

LEMMA AddedGroupKept ==
    ASSUME BusInvariant, NEW user, NEW form, NEW version, SourceAddsGroup(user, form, version)
    PROVE  BusInvariant'
  <1> DEFINE words == NewWords(form, version)
             parameters == NotificationParametersOf(form, version)
  <1>1. PICK n, g, w, v : n = stored.notifications /\ g = stored.groups
                          /\ w = said.notifications /\ v = said.groups
    OBVIOUS
  <1>2. /\ stored = Pair(n, g) /\ said = Pair(w, v)
        /\ NotificationsStored(n) /\ GroupsStored(g)
        /\ SaidAsStored(w, n) /\ SaidAsStored(v, g)
        /\ Follow(remote, proxies, n, g)
    BY <1>1, Parts
  <1>3. PICK id, new :
            /\ id = LowestFreeId(DOMAIN g)
            /\ new = NewGroup(id, user, parameters)
            /\ stored' = WithGroups(stored, Put(g, id, new))
            /\ TellGroup(new)
            /\ said' = SaidOf("groups", id, form, version)
    BY <1>1, <1>2 DEF SourceAddsGroup, WithGroups
  <1>4. id \in BusIds \ DOMAIN g
    <2>1. DOMAIN g # BusIds /\ DOMAIN g \subseteq BusIds
      BY <1>1, <1>2 DEF SourceAddsGroup, GroupsStored
    <2> QED
      BY <1>3, <2>1, LowestIsFree
  <1>5. IsGroup(new, id) /\ new.parameters = parameters
    BY <1>3, NewGroupStored
  <1>6. stored' = Pair(n, Put(g, id, new))
    BY <1>2, <1>3, PairChanged
  <1>7. said' = Pair(w, Put(v, id, words))
    <2>1. said.groups = v /\ id \notin DOMAIN said.groups
      BY <1>1, <1>2, <1>4 DEF SaidAsStored
    <2>2. said' = WithGroups(said, Put(said.groups, id, words))
      BY <1>3, <2>1, SaidOfNew
    <2> QED
      BY <1>2, <2>1, <2>2, PairChanged
  <1>8. GroupsStored(Put(g, id, new))
    BY <1>2, <1>4, <1>5, PutStored
  <1>9. SaidAsStored(Put(v, id, words), Put(g, id, new))
    <2>1. SaysOf(words, new.parameters)
      BY <1>5, NewSaid
    <2> QED
      BY <1>2, <2>1, PutSaid
  <1>10. Follow(remote', proxies, n, Put(g, id, new))
    BY <1>2, <1>3, <1>5, ToldOfGroup
  <1>11. Kept(n, Put(g, id, new), w, Put(v, id, words))
    BY <1>2, <1>6, <1>7, <1>8, <1>9, <1>10 DEF Kept
  <1>12. Called
    BY DEF SourceAddsGroup
  <1> QED
    BY <1>11, <1>12, CallKept

LEMMA UpdatedGroupKept ==
    ASSUME BusInvariant, NEW id \in BusIds, NEW form, NEW version,
           SourceUpdatesGroup(id, form, version)
    PROVE  BusInvariant'
  <1>1. PICK n, g, w, v : n = stored.notifications /\ g = stored.groups
                          /\ w = said.notifications /\ v = said.groups
    OBVIOUS
  <1>2. /\ stored = Pair(n, g) /\ said = Pair(w, v)
        /\ NotificationsStored(n) /\ GroupsStored(g)
        /\ SaidAsStored(w, n) /\ SaidAsStored(v, g)
        /\ Follow(remote, proxies, n, g)
    BY <1>1, Parts
  <1> DEFINE words == ChangedWords(v[id], form, version)
             parameters == Update(g[id].parameters, NotificationParametersOf(form, version))
  <1>3. PICK new :
            /\ new = [g[id] EXCEPT !.parameters = parameters]
            /\ stored' = WithGroups(stored, Put(g, id, new))
            /\ TellGroup(new)
            /\ said' = SaidOf("groups", id, form, version)
    BY <1>1, <1>2 DEF SourceUpdatesGroup, WithGroups
  <1>4. id \in DOMAIN g /\ IsGroup(g[id], id)
    BY <1>1, <1>2 DEF SourceUpdatesGroup, GroupsStored
  <1>5. IsGroup(new, id) /\ new.parameters = parameters
    BY <1>3, <1>4, ChangedGroupStored
  <1>6. stored' = Pair(n, Put(g, id, new))
    BY <1>2, <1>3, PairChanged
  <1>7. said' = Pair(w, Put(v, id, words))
    <2>1. said.groups = v /\ id \in DOMAIN said.groups
      BY <1>1, <1>2, <1>4 DEF SaidAsStored
    <2>2. said' = WithGroups(said, Put(said.groups, id, words))
      BY <1>3, <2>1, SaidOfKnown
    <2> QED
      BY <1>2, <2>1, <2>2, PairChanged
  <1>8. GroupsStored(Put(g, id, new))
    BY <1>2, <1>4, <1>5, PutStored
  <1>9. SaidAsStored(Put(v, id, words), Put(g, id, new))
    <2>1. SaysOf(v[id], g[id].parameters)
      BY <1>2, <1>4 DEF SaidAsStored
    <2>2. SaysOf(words, new.parameters)
      BY <1>5, <2>1, ChangedSaid
    <2> QED
      BY <1>2, <2>2, PutSaid
  <1>10. Follow(remote', proxies, n, Put(g, id, new))
    BY <1>2, <1>3, <1>5, ToldOfGroup
  <1>11. Kept(n, Put(g, id, new), w, Put(v, id, words))
    BY <1>2, <1>6, <1>7, <1>8, <1>9, <1>10 DEF Kept
  <1>12. Called
    BY DEF SourceUpdatesGroup
  <1> QED
    BY <1>11, <1>12, CallKept

LEMMA RemovedNotificationKept ==
    ASSUME BusInvariant, NEW id \in BusIds, SourceRemovesNotification(id)
    PROVE  BusInvariant'
  <1>1. PICK n, g, w, v : n = stored.notifications /\ g = stored.groups
                          /\ w = said.notifications /\ v = said.groups
    OBVIOUS
  <1>2. /\ stored = Pair(n, g) /\ said = Pair(w, v)
        /\ NotificationsStored(n) /\ GroupsStored(g)
        /\ SaidAsStored(w, n) /\ SaidAsStored(v, g)
        /\ Follow(remote, proxies, n, g)
    BY <1>1, Parts
  <1>3. stored' = Pair(Drop(n, {id}), g)
    <2>1. stored' = WithNotifications(stored, Drop(n, {id}))
      BY <1>1 DEF SourceRemovesNotification, WithNotifications
    <2> QED
      BY <1>2, <2>1, PairChanged
  <1>4. said' = Pair(Drop(w, {id}), v)
    <2>1. said' = WithNotifications(said, Drop(w, {id}))
      BY <1>1, <1>2 DEF SourceRemovesNotification, Unsaid, WithNotifications, Pair
    <2> QED
      BY <1>2, <2>1, PairChanged
  <1>5. NotificationsStored(Drop(n, {id})) /\ SaidAsStored(Drop(w, {id}), Drop(n, {id}))
    BY <1>2, DroppedStored, DroppedSaid
  <1>6. Follow(remote', proxies, Drop(n, {id}), g)
    <2>1. TellRemoval({id})
      BY DEF SourceRemovesNotification
    <2> QED
      BY <1>2, <2>1, ToldOfRemoval
  <1>7. Kept(Drop(n, {id}), g, Drop(w, {id}), v)
    BY <1>2, <1>3, <1>4, <1>5, <1>6 DEF Kept
  <1>8. Called
    BY DEF SourceRemovesNotification
  <1> QED
    BY <1>7, <1>8, CallKept

LEMMA RemovedGroupKept ==
    ASSUME BusInvariant, NEW id \in BusIds, SourceRemovesGroup(id)
    PROVE  BusInvariant'
  <1>1. PICK n, g, w, v : n = stored.notifications /\ g = stored.groups
                          /\ w = said.notifications /\ v = said.groups
    OBVIOUS
  <1>2. /\ stored = Pair(n, g) /\ said = Pair(w, v)
        /\ NotificationsStored(n) /\ GroupsStored(g)
        /\ SaidAsStored(w, n) /\ SaidAsStored(v, g)
        /\ Follow(remote, proxies, n, g)
    BY <1>1, Parts
  <1>3. PICK members :
            /\ stored' = Pair(Drop(n, members), Drop(g, {id}))
            /\ TellGroupRemoval(id, members)
            /\ said' = Pair(Drop(w, members), Drop(v, {id}))
    BY <1>1 DEF SourceRemovesGroup, Pair
  <1>4. /\ NotificationsStored(Drop(n, members)) /\ GroupsStored(Drop(g, {id}))
        /\ SaidAsStored(Drop(w, members), Drop(n, members))
        /\ SaidAsStored(Drop(v, {id}), Drop(g, {id}))
    BY <1>2, DroppedStored, DroppedSaid
  <1>5. Follow(remote', proxies, Drop(n, members), Drop(g, {id}))
    BY <1>2, <1>3, ToldOfGroupRemoval
  <1>6. Kept(Drop(n, members), Drop(g, {id}), Drop(w, members), Drop(v, {id}))
    BY <1>3, <1>4, <1>5 DEF Kept
  <1>7. Called
    BY DEF SourceRemovesGroup
  <1> QED
    BY <1>6, <1>7, CallKept

-----------------------------------------------------------------------------
(* Sinks come and go, and lists are sent.                                  *)

LEMMA CurrentIs ==
    ASSUME BusInvariant
    PROVE  Current = Pair(ApplicationsIn(stored.notifications), GroupsIn(stored.groups))
  <1>1. NotificationsStored(stored.notifications)
    BY DEF BusInvariant
  <1>2. Current.notifications = ApplicationsIn(stored.notifications)
    BY <1>1, CurrentApplications DEF Current
  <1> QED
    BY <1>2 DEF Current, GroupsIn, Pair

LEMMA Learnt ==
    ASSUME NEW S, NEW f, DOMAIN f = S, f = [x \in S |-> f[x]]
    PROVE  Update(NoEntries, f) = f /\ Update(f, f) = f
  BY DEF Update, NoEntries

LEMMA RegisteredKept ==
    ASSUME BusInvariant, NEW address \in SinkAddresses, RegisterSink(address)
    PROVE  BusInvariant'
  <1> DEFINE things == ApplicationsIn(stored.notifications)
             groups == GroupsIn(stored.groups)
             registered == proxies \cup {address}
  <1>1. UNCHANGED <<stored, reply, said>> /\ proxies' = registered
    BY DEF RegisterSink
  <1>2. /\ Update(NoEntries, things) = things /\ Update(things, things) = things
        /\ Update(NoEntries, groups) = groups /\ Update(groups, groups) = groups
    BY Learnt DEF ApplicationsIn, GroupsIn
  <1>3. /\ remote = [a \in SinkAddresses |->
                        IF a \in proxies THEN Pair(things, groups) ELSE Pair(NoEntries, NoEntries)]
        /\ Current = Pair(things, groups)
    BY CurrentIs DEF BusInvariant, Follow
  <1> HIDE DEF things, groups
  <1>4. Current.notifications = things /\ Current.groups = groups
    BY <1>3 DEF Pair
  <1>5. Pair(Update(remote[address].notifications, Current.notifications),
             Update(remote[address].groups, Current.groups)) = Pair(things, groups)
    <2>1. CASE address \in proxies
      <3>1. remote[address].notifications = things /\ remote[address].groups = groups
        BY <1>3, <2>1 DEF Pair
      <3> QED
        BY <1>2, <1>4, <3>1
    <2>2. CASE address \notin proxies
      <3>1. remote[address].notifications = NoEntries /\ remote[address].groups = NoEntries
        BY <1>3, <2>2 DEF Pair
      <3> QED
        BY <1>2, <1>4, <3>1
    <2> QED
      BY <2>1, <2>2
  <1>6. remote' = [remote EXCEPT ![address] = Pair(things, groups)]
    BY <1>5 DEF RegisterSink, Pair
  <1>7. remote' = [a \in SinkAddresses |->
                      IF a \in registered THEN Pair(things, groups) ELSE Pair(NoEntries, NoEntries)]
    BY <1>3, <1>6
  <1>8. Follow(remote, proxies, stored.notifications, stored.groups)'
    BY <1>1, <1>7 DEF Follow, things, groups
  <1>9. ListsTellWhatWasSaid'
    BY <1>1 DEF BusInvariant, ListsTellWhatWasSaid
  <1> QED
    BY <1>1, <1>8, <1>9 DEF BusInvariant

LEMMA UnregisteredKept ==
    ASSUME BusInvariant, NEW address \in SinkAddresses, UnregisterSink(address)
    PROVE  BusInvariant'
  <1> DEFINE things == ApplicationsIn(stored.notifications)
             groups == GroupsIn(stored.groups)
  <1>1. UNCHANGED <<stored, reply, said>> /\ proxies' = proxies \ {address}
    BY DEF UnregisterSink
  <1>2. remote = [a \in SinkAddresses |->
                     IF a \in proxies THEN Pair(things, groups) ELSE Pair(NoEntries, NoEntries)]
    BY DEF BusInvariant, Follow
  <1> HIDE DEF things, groups
  <1>3. remote' = [remote EXCEPT ![address] = Pair(NoEntries, NoEntries)]
    BY DEF UnregisterSink, Pair
  <1>4. remote' = [a \in SinkAddresses |->
                      IF a \in proxies \ {address} THEN Pair(things, groups)
                      ELSE Pair(NoEntries, NoEntries)]
    BY <1>2, <1>3
  <1>5. Follow(remote, proxies, stored.notifications, stored.groups)'
    BY <1>1, <1>4 DEF Follow, things, groups
  <1>6. ListsTellWhatWasSaid'
    BY <1>1 DEF BusInvariant, ListsTellWhatWasSaid
  <1> QED
    BY <1>1, <1>5, <1>6 DEF BusInvariant

(* The list that is sent tells what was said.                              *)
LEMMA ListedKept ==
    ASSUME BusInvariant, NEW fields, NEW user,
           \/ /\ Replies(fields, stored.notifications, user)
              /\ "notificationId" \in Range(fields)
           \/ /\ Replies(fields, stored.groups, user)
              /\ "groupId" \in Range(fields) /\ "notificationId" \notin Range(fields)
    PROVE  BusInvariant'
  <1>1. UNCHANGED <<stored, proxies, remote, said, busCalls>> /\ reply'.fields = fields
    BY DEF Replies
  <1>2. ASSUME NEW e \in reply'.entries, NEW key \in TextKeys,
               key \in DOMAIN e \/ "parameters" \in DOMAIN e
        PROVE  (IF "parameters" \in DOMAIN e THEN ValueOf(e.parameters, key) ELSE e[key])
                   = (IF "notificationId" \in Range(fields) THEN said.notifications[e.notificationId]
                      ELSE said.groups[e.groupId])[key]
    <2>1. CASE Replies(fields, stored.notifications, user) /\ "notificationId" \in Range(fields)
      <3>1. PICK n \in Range(stored.notifications) : e = OverTheBus(fields, ProxyOf(fields, n))
        BY <1>2, <2>1 DEF Replies
      <3>2. PICK id \in DOMAIN stored.notifications : n = stored.notifications[id]
        BY <3>1 DEF Range
      <3>3. /\ IsNotification(n, id) /\ id \in DOMAIN said.notifications
            /\ SaysOf(said.notifications[id], n.parameters)
        BY <3>2 DEF BusInvariant, NotificationsStored, SaidAsStored
      <3>4. DOMAIN n = NotificationMembers /\ n.notificationId = id
        BY <3>3 DEF IsNotification
      <3>5. e.notificationId = id
        BY <2>1, <3>1, <3>4, EntryKnows DEF NotificationMembers
      <3>6. (IF "parameters" \in DOMAIN e THEN ValueOf(e.parameters, key) ELSE e[key])
                = ValueOf(n.parameters, key)
        <4>1. TextKeys \cap DOMAIN n = {} /\ "parameters" \in DOMAIN n
          BY <3>4 DEF TextKeys, NotificationMembers
        <4> QED
          BY <1>2, <3>1, <4>1, EntryTells
      <3>7. said.notifications[id][key] = ValueOf(n.parameters, key)
        BY <3>3 DEF SaysOf
      <3> QED
        BY <2>1, <3>5, <3>6, <3>7
    <2>2. CASE /\ Replies(fields, stored.groups, user)
               /\ "groupId" \in Range(fields) /\ "notificationId" \notin Range(fields)
      <3>1. PICK g \in Range(stored.groups) : e = OverTheBus(fields, ProxyOf(fields, g))
        BY <1>2, <2>2 DEF Replies
      <3>2. PICK id \in DOMAIN stored.groups : g = stored.groups[id]
        BY <3>1 DEF Range
      <3>3. /\ IsGroup(g, id) /\ id \in DOMAIN said.groups
            /\ SaysOf(said.groups[id], g.parameters)
        BY <3>2 DEF BusInvariant, GroupsStored, SaidAsStored
      <3>4. DOMAIN g = GroupMembers /\ g.groupId = id
        BY <3>3 DEF IsGroup
      <3>5. e.groupId = id
        BY <2>2, <3>1, <3>4, EntryKnows DEF GroupMembers
      <3>6. (IF "parameters" \in DOMAIN e THEN ValueOf(e.parameters, key) ELSE e[key])
                = ValueOf(g.parameters, key)
        <4>1. TextKeys \cap DOMAIN g = {} /\ "parameters" \in DOMAIN g
          BY <3>4 DEF TextKeys, GroupMembers
        <4> QED
          BY <1>2, <3>1, <4>1, EntryTells
      <3>7. said.groups[id][key] = ValueOf(g.parameters, key)
        BY <3>3 DEF SaysOf
      <3> QED
        BY <2>2, <3>5, <3>6, <3>7
    <2> QED
      BY <2>1, <2>2
  <1>3. ListsTellWhatWasSaid'
    BY <1>1, <1>2 DEF ListsTellWhatWasSaid
  <1> QED
    BY <1>1, <1>3 DEF BusInvariant

LEMMA BusStarts == BusInit => BusInvariant
  <1> SUFFICES ASSUME BusInit PROVE BusInvariant
    OBVIOUS
  <1>1. /\ stored = Pair(NoEntries, NoEntries) /\ said = Pair(NoEntries, NoEntries)
        /\ stored.notifications = NoEntries /\ stored.groups = NoEntries
        /\ said.notifications = NoEntries /\ said.groups = NoEntries
    BY DEF BusInit, Pair
  <1>2. NotificationsStored(NoEntries) /\ GroupsStored(NoEntries) /\ SaidAsStored(NoEntries, NoEntries)
    BY DEF NotificationsStored, GroupsStored, SaidAsStored, NoEntries
  <1>3. Follow(remote, proxies, NoEntries, NoEntries)
    BY DEF BusInit, Follow, Pair
  <1>4. ListsTellWhatWasSaid
    BY NothingListed DEF BusInit
  <1> QED
    BY <1>1, <1>2, <1>3, <1>4 DEF BusInvariant, BusInit

LEMMA BusKept == BusInvariant /\ [BusNext]_busVars => BusInvariant'
  <1> SUFFICES ASSUME BusInvariant, [BusNext]_busVars
               PROVE  BusInvariant'
    OBVIOUS
  <1>1. ASSUME NEW form \in Forms, NEW version \in BusVersions, SourceCalls(form, version)
        PROVE  BusInvariant'
    BY <1>1, AddedNotificationKept, UpdatedNotificationKept, AddedGroupKept, UpdatedGroupKept
       DEF SourceCalls
  <1>2. ASSUME NEW id \in BusIds, SourceRemovesNotification(id) \/ SourceRemovesGroup(id)
        PROVE  BusInvariant'
    BY <1>2, RemovedNotificationKept, RemovedGroupKept
  <1>3. ASSUME NEW user \in BusUsers, NotificationLists(user) \/ GroupLists(user)
        PROVE  BusInvariant'
    BY <1>3, ListedKept, LayoutsKnown DEF NotificationLists, GroupLists
  <1>4. ASSUME NEW address \in SinkAddresses, RegisterSink(address) \/ UnregisterSink(address)
        PROVE  BusInvariant'
    BY <1>4, RegisteredKept, UnregisteredKept
  <1>5. CASE UNCHANGED busVars
    BY <1>5 DEF busVars, BusInvariant, ListsTellWhatWasSaid
  <1> QED
    BY <1>1, <1>2, <1>3, <1>4, <1>5 DEF BusNext

LEMMA BusInvariantSuffices == BusInvariant => BusTellsWhatThereIs
  <1> SUFFICES ASSUME BusInvariant, NEW address \in proxies
               PROVE  remote[address] = Current
    BY DEF BusTellsWhatThereIs, BusInvariant, SinksKnowWhatThereIs
  <1>1. /\ address \in SinkAddresses
        /\ Follow(remote, proxies, stored.notifications, stored.groups)
    BY DEF BusInvariant
  <1> QED
    BY <1>1, CurrentIs DEF Follow

\* In whatever order applications make, update and remove notifications and groups, by
\* whatever form of the calls, and sinks register and go away, a list tells what was
\* last said and every registered sink knows exactly what there is
\* (dbusinterfacenotificationsource.cpp:140-192, mnotificationproxy.cpp,
\* dbusinterfacenotificationsink.cpp).
THEOREM BusAlwaysTellsWhatThereIs == BusSpec => []BusTellsWhatThereIs
  <1> QED
    BY BusStarts, BusKept, BusInvariantSuffices, PTL DEF BusSpec

=============================================================================
