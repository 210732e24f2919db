---------------------- MODULE NotificationSinksProofs -----------------------
(***************************************************************************)
(* What the sinks know, for every value of the constants: nobody who can   *)
(* wait is forgotten or overtaken, and no sink keeps a notification that   *)
(* is gone or has changed.  And the groups: between events a group's       *)
(* timestamp is the latest of its notifications', a registered D-Bus sink  *)
(* knows exactly the groups there are, and the data files hold no          *)
(* notification whose group is gone, across crashes.                       *)
(***************************************************************************)
EXTENDS NotificationManagerProofs, FiniteSetTheorems

-----------------------------------------------------------------------------
(* The frames of a stack, in whatever order.                               *)

FramesOf(stk) == {stk[i] : i \in DOMAIN stk}

LEMMA ConcatElements ==
    ASSUME NEW a \in Seq(Frame), NEW b \in Seq(Frame)
    PROVE  /\ Len(a) \in Nat /\ Len(b) \in Nat
           /\ DOMAIN a = 1 .. Len(a) /\ DOMAIN b = 1 .. Len(b)
           /\ DOMAIN (a \o b) = 1 .. Len(a) + Len(b)
           /\ \A i \in 1 .. Len(a) + Len(b) :
                  (a \o b)[i] = IF i <= Len(a) THEN a[i] ELSE b[i - Len(a)]
OBVIOUS

LEMMA FramesOfConcat ==
    ASSUME NEW a \in Seq(Frame), NEW b \in Seq(Frame)
    PROVE  FramesOf(a \o b) = FramesOf(a) \cup FramesOf(b)
<1>1. /\ Len(a) \in Nat /\ Len(b) \in Nat
      /\ DOMAIN a = 1 .. Len(a) /\ DOMAIN b = 1 .. Len(b)
      /\ DOMAIN (a \o b) = 1 .. Len(a) + Len(b)
  BY ConcatElements
<1>2. \A i \in 1 .. Len(a) + Len(b) : (a \o b)[i] = IF i <= Len(a) THEN a[i] ELSE b[i - Len(a)]
  BY ConcatElements
<1>3. ASSUME NEW i \in DOMAIN (a \o b)
      PROVE  (a \o b)[i] \in FramesOf(a) \cup FramesOf(b)
  <2>1. CASE i <= Len(a)
    BY <1>1, <1>2, <2>1 DEF FramesOf
  <2>2. CASE ~(i <= Len(a))
    <3>1. i - Len(a) \in DOMAIN b /\ (a \o b)[i] = b[i - Len(a)]
      BY <1>1, <1>2, <2>2
    <3>2. QED
      BY <3>1 DEF FramesOf
  <2>3. QED
    BY <2>1, <2>2
<1>4. ASSUME NEW i \in DOMAIN a
      PROVE  a[i] \in FramesOf(a \o b)
  <2>1. i \in DOMAIN (a \o b) /\ (a \o b)[i] = a[i]
    BY <1>1, <1>2
  <2>2. QED
    BY <2>1 DEF FramesOf
<1>5. ASSUME NEW i \in DOMAIN b
      PROVE  b[i] \in FramesOf(a \o b)
  <2>1. Len(a) + i \in DOMAIN (a \o b) /\ (a \o b)[Len(a) + i] = b[i]
    BY <1>1, <1>2
  <2>2. QED
    BY <2>1 DEF FramesOf
<1>6. QED
  BY <1>3, <1>4, <1>5 DEF FramesOf

LEMMA FramesOfFew ==
    /\ FramesOf(<<>>) = {}
    /\ \A f : FramesOf(<<f>>) = {f}
    /\ \A f, g : FramesOf(<<f, g>>) = {f, g}
BY DEF FramesOf

LEMMA FramesOfTail ==
    ASSUME NEW stk \in Seq(Frame), stk # <<>>
    PROVE  FramesOf(stk) = {Head(stk)} \cup FramesOf(Tail(stk))
<1>1. /\ Len(stk) \in Nat \ {0} /\ DOMAIN stk = 1 .. Len(stk)
      /\ Head(stk) = stk[1]
      /\ DOMAIN Tail(stk) = 1 .. Len(stk) - 1
      /\ \A i \in 1 .. Len(stk) - 1 : Tail(stk)[i] = stk[i + 1]
  OBVIOUS
<1>2. ASSUME NEW i \in DOMAIN stk, i # 1
      PROVE  stk[i] \in FramesOf(Tail(stk))
  <2>1. i - 1 \in DOMAIN Tail(stk) /\ Tail(stk)[i - 1] = stk[i]
    BY <1>1, <1>2
  <2>2. QED
    BY <2>1 DEF FramesOf
<1>3. ASSUME NEW i \in DOMAIN Tail(stk)
      PROVE  Tail(stk)[i] \in FramesOf(stk)
  <2>1. i + 1 \in DOMAIN stk /\ Tail(stk)[i] = stk[i + 1]
    BY <1>1
  <2>2. QED
    BY <2>1 DEF FramesOf
<1>4. stk[1] \in FramesOf(stk)
  BY <1>1 DEF FramesOf
<1>5. QED
  BY <1>1, <1>2, <1>3, <1>4 DEF FramesOf

EmissionOf(n) == {[op |-> "updated", sink |-> s, note |-> n] : s \in Sinks}

LEMMA FramesOfUpdated ==
    ASSUME NEW n
    PROVE  FramesOf(UpdatedFrames(n)) = EmissionOf(n)
<1>1. /\ DOMAIN UpdatedFrames(n) = 1 .. 4
      /\ \A i \in 1 .. 4 : UpdatedFrames(n)[i] = [op |-> "updated", sink |-> SinkOrder[i], note |-> n]
  BY DEF UpdatedFrames, SinkOrder
<1>2. /\ \A i \in 1 .. 4 : SinkOrder[i] \in Sinks
      /\ \A s \in Sinks : \E i \in 1 .. 4 : SinkOrder[i] = s
  <2>1. SinkOrder[1] = "dbus" /\ SinkOrder[2] = "compositor" /\ SinkOrder[3] = "ngf"
        /\ SinkOrder[4] = "indicator"
    BY DEF SinkOrder
  <2>2. \A i \in 1 .. 4 : i = 1 \/ i = 2 \/ i = 3 \/ i = 4
    OBVIOUS
  <2>3. QED
    BY <2>1, <2>2 DEF Sinks
<1>3. QED
  BY <1>1, <1>2 DEF FramesOf, EmissionOf

LEMMA FramesOfTimestamp ==
    ASSUME NEW g
    PROVE  FramesOf(TimestampFrames(g)) = IF g = 0 THEN {} ELSE {[op |-> "timestamp", group |-> g]}
BY FramesOfFew DEF TimestampFrames

\* What an emission with `f' as its continuation leaves to be run.
LEMMA FramesOfEmission ==
    ASSUME NEW n \in Notification, NEW f \in Frame, NEW rest \in Seq(Frame)
    PROVE  FramesOf(UpdatedFrames(n) \o <<f>> \o rest) =
              EmissionOf(n) \cup {f} \cup FramesOf(rest)
<1>1. UpdatedFrames(n) \in Seq(Frame) /\ <<f>> \in Seq(Frame)
  BY UpdatedFramesType
<1>2. UpdatedFrames(n) \o <<f>> \in Seq(Frame)
  BY <1>1, ConcatProperties
<1>3. QED
  BY <1>1, <1>2, FramesOfConcat, FramesOfFew, FramesOfUpdated

-----------------------------------------------------------------------------
(* The order of the frames.  The D-Bus sink and the compositor are told    *)
(* before anything else can run, and nothing that touches an application   *)
(* notification runs while there is still somebody to be told of one.      *)

Silent(f) == f.op # "updated"
Early(f) == f.op = "updated" /\ f.sink \in {"dbus", "compositor"}

Calm(f, nc) ==
    \/ f.op \in {"updated", "submitted", "timestamp"}
    \/ f.op = "removeEach" /\ \A id \in f.ids \cap DOMAIN nc : nc[id].type = "system"

EarlyOnTop(stk) ==
    \A i \in DOMAIN stk : Early(stk[i]) =>
        i = 1 \/ (i = 2 /\ stk[1].op = "updated" /\ stk[1].sink = "dbus")

CalmAbove(stk, nc) ==
    \A i, j \in DOMAIN stk : i < j /\ stk[j].op = "updated" => Calm(stk[i], nc)

NoneEarly(stk) == \A f \in FramesOf(stk) : ~Early(f)
AllSilent(stk) == \A f \in FramesOf(stk) : Silent(f)

\* Once the D-Bus sink has been told, or somebody else, only later sinks are left.
LEMMA BelowTop ==
    ASSUME stack \in Seq(Frame), stack # <<>>, EarlyOnTop(stack),
           CalmAbove(stack, notificationContainer)
    PROVE  /\ Tail(stack) \in Seq(Frame)
           /\ EarlyOnTop(Tail(stack))
           /\ CalmAbove(Tail(stack), notificationContainer)
           /\ ~(Head(stack).op = "updated" /\ Head(stack).sink = "dbus") => NoneEarly(Tail(stack))
           /\ Calm(Head(stack), notificationContainer) \/ AllSilent(Tail(stack))
<1> DEFINE below == Tail(stack)
<1>1. /\ Len(stack) \in Nat \ {0} /\ DOMAIN stack = 1 .. Len(stack) /\ Head(stack) = stack[1]
      /\ below \in Seq(Frame) /\ Len(below) = Len(stack) - 1
      /\ DOMAIN below = 1 .. Len(stack) - 1
      /\ \A i \in 1 .. Len(stack) - 1 : below[i] = stack[i + 1]
  OBVIOUS
<1> HIDE DEF below
<1>2. EarlyOnTop(below)
  <2>1. SUFFICES ASSUME NEW i \in DOMAIN below, Early(below[i])
                 PROVE  i = 1
    BY DEF EarlyOnTop
  <2>2. i + 1 \in DOMAIN stack /\ Early(stack[i + 1])
    BY <1>1, <2>1
  <2>3. i + 1 = 1 \/ i + 1 = 2
    BY <2>2 DEF EarlyOnTop
  <2>4. QED
    BY <1>1, <2>3
<1>3. CalmAbove(below, notificationContainer)
  <2>1. SUFFICES ASSUME NEW i \in DOMAIN below, NEW j \in DOMAIN below, i < j,
                        below[j].op = "updated"
                 PROVE  Calm(below[i], notificationContainer)
    BY DEF CalmAbove
  <2>2. /\ i + 1 \in DOMAIN stack /\ j + 1 \in DOMAIN stack /\ i + 1 < j + 1
        /\ below[i] = stack[i + 1] /\ below[j] = stack[j + 1]
    BY <1>1, <2>1
  <2>3. QED
    BY <2>1, <2>2 DEF CalmAbove
<1>4. ASSUME ~(Head(stack).op = "updated" /\ Head(stack).sink = "dbus")
      PROVE  NoneEarly(below)
  <2>1. SUFFICES ASSUME NEW i \in DOMAIN below, Early(below[i])
                 PROVE  FALSE
    BY DEF NoneEarly, FramesOf
  <2>2. i + 1 \in DOMAIN stack /\ Early(stack[i + 1]) /\ i + 1 # 1
    BY <1>1, <2>1
  <2>3. stack[1].op = "updated" /\ stack[1].sink = "dbus"
    BY <2>2 DEF EarlyOnTop
  <2>4. QED
    BY <1>1, <1>4, <2>3
<1>5. Calm(Head(stack), notificationContainer) \/ AllSilent(below)
  <2>1. SUFFICES ASSUME NEW i \in DOMAIN below, below[i].op = "updated"
                 PROVE  Calm(Head(stack), notificationContainer)
    BY DEF AllSilent, Silent, FramesOf
  <2>2. 1 \in DOMAIN stack /\ i + 1 \in DOMAIN stack /\ 1 < i + 1 /\ stack[i + 1].op = "updated"
    BY <1>1, <2>1
  <2>3. QED
    BY <1>1, <2>2 DEF CalmAbove
<1>6. QED
  BY <1>1, <1>2, <1>3, <1>4, <1>5 DEF below

\* Frames that tell nobody anything are put on top.
LEMMA SilentOnTop ==
    ASSUME NEW nc, NEW pre \in Seq(Frame), NEW rest \in Seq(Frame), AllSilent(pre),
           NoneEarly(rest), CalmAbove(rest, nc),
           AllSilent(rest) \/ \A f \in FramesOf(pre) : Calm(f, nc)
    PROVE  /\ pre \o rest \in Seq(Frame)
           /\ NoneEarly(pre \o rest)
           /\ EarlyOnTop(pre \o rest)
           /\ CalmAbove(pre \o rest, nc)
           /\ AllSilent(rest) => AllSilent(pre \o rest)
<1> DEFINE stk == pre \o rest
<1>1. stk \in Seq(Frame) /\ FramesOf(stk) = FramesOf(pre) \cup FramesOf(rest)
  BY FramesOfConcat, ConcatProperties
<1>2. NoneEarly(stk)
  BY <1>1 DEF NoneEarly, AllSilent, Silent, Early
<1>3. EarlyOnTop(stk)
  BY <1>2 DEF EarlyOnTop, NoneEarly, FramesOf
<1>4. /\ Len(pre) \in Nat /\ Len(rest) \in Nat /\ DOMAIN stk = 1 .. Len(pre) + Len(rest)
      /\ DOMAIN pre = 1 .. Len(pre) /\ DOMAIN rest = 1 .. Len(rest)
      /\ \A i \in 1 .. Len(pre) + Len(rest) :
            stk[i] = IF i <= Len(pre) THEN pre[i] ELSE rest[i - Len(pre)]
  OBVIOUS
<1> HIDE DEF stk
<1>5. CalmAbove(stk, nc)
  <2>1. SUFFICES ASSUME NEW i \in DOMAIN stk, NEW j \in DOMAIN stk, i < j,
                        stk[j].op = "updated"
                 PROVE  Calm(stk[i], nc)
    BY DEF CalmAbove
  <2>2. ~(j <= Len(pre))
    <3>1. SUFFICES ASSUME j <= Len(pre)
                   PROVE  FALSE
      OBVIOUS
    <3>2. j \in DOMAIN pre /\ pre[j].op = "updated"
      BY <1>4, <2>1, <3>1
    <3>3. QED
      BY <3>2 DEF AllSilent, Silent, FramesOf
  <2>3. j - Len(pre) \in DOMAIN rest /\ rest[j - Len(pre)].op = "updated"
    BY <1>4, <2>1, <2>2
  <2>4. CASE i <= Len(pre)
    <3>1. i \in DOMAIN pre /\ stk[i] = pre[i]
      BY <1>4, <2>4
    <3>2. \A f \in FramesOf(pre) : Calm(f, nc)
      BY <2>3 DEF AllSilent, Silent, FramesOf
    <3>3. QED
      BY <3>1, <3>2 DEF FramesOf
  <2>5. CASE ~(i <= Len(pre))
    <3>1. i - Len(pre) \in DOMAIN rest /\ stk[i] = rest[i - Len(pre)]
          /\ i - Len(pre) < j - Len(pre)
      BY <1>4, <2>1, <2>5
    <3>2. QED
      BY <2>3, <3>1 DEF CalmAbove
  <2>6. QED
    BY <2>4, <2>5
<1>6. AllSilent(rest) => AllSilent(stk)
  BY <1>1 DEF AllSilent
<1>7. QED
  BY <1>1, <1>2, <1>3, <1>5, <1>6 DEF stk

\* An emission is put on top.
LEMMA EmissionOnTop ==
    ASSUME NEW nc, NEW n \in Notification, NEW rest \in Seq(Frame), NoneEarly(rest), CalmAbove(rest, nc)
    PROVE  /\ EarlyOnTop(UpdatedFrames(n) \o rest)
           /\ CalmAbove(UpdatedFrames(n) \o rest, nc)
<1> DEFINE pre == UpdatedFrames(n)
           stk == pre \o rest
<1>1. /\ pre \in Seq(Frame) /\ Len(pre) = 4 /\ \A i \in 1 .. 4 : pre[i].op = "updated"
      /\ pre[1].sink = "dbus" /\ ~Early(pre[3]) /\ ~Early(pre[4])
  <2>1. \A i \in 1 .. 4 : pre[i].sink = SinkOrder[i]
    BY DEF UpdatedFrames, SinkOrder
  <2>2. SinkOrder[1] = "dbus" /\ SinkOrder[3] = "ngf" /\ SinkOrder[4] = "indicator"
    BY DEF SinkOrder
  <2>3. pre[1].sink = "dbus" /\ pre[3].sink = "ngf" /\ pre[4].sink = "indicator"
    BY <2>1, <2>2
  <2> HIDE DEF pre
  <2>4. ~Early(pre[3]) /\ ~Early(pre[4])
    BY <2>3 DEF Early
  <2>5. pre \in Seq(Frame) /\ Len(pre) = 4 /\ \A i \in 1 .. 4 : pre[i].op = "updated"
    BY UpdatedFramesType DEF pre
  <2>6. QED
    BY <2>3, <2>4, <2>5
<1> HIDE DEF pre
<1>2. /\ Len(rest) \in Nat /\ DOMAIN stk = 1 .. 4 + Len(rest) /\ DOMAIN rest = 1 .. Len(rest)
      /\ \A i \in 1 .. 4 + Len(rest) : stk[i] = IF i <= 4 THEN pre[i] ELSE rest[i - 4]
  <2>1. pre \in Seq(Frame) /\ Len(pre) = 4
    BY <1>1
  <2>2. /\ Len(rest) \in Nat /\ DOMAIN rest = 1 .. Len(rest)
        /\ DOMAIN stk = 1 .. Len(pre) + Len(rest)
        /\ \A i \in 1 .. Len(pre) + Len(rest) :
              stk[i] = IF i <= Len(pre) THEN pre[i] ELSE rest[i - Len(pre)]
    BY <2>1, ConcatElements
  <2> HIDE DEF stk
  <2>3. QED
    BY <2>1, <2>2
<1> HIDE DEF stk
<1>3. EarlyOnTop(stk)
  <2>1. SUFFICES ASSUME NEW i \in DOMAIN stk, Early(stk[i])
                 PROVE  i = 1 \/ (i = 2 /\ stk[1].op = "updated" /\ stk[1].sink = "dbus")
    BY DEF EarlyOnTop
  <2>2. CASE i <= 4
    <3>1. i = 1 \/ i = 2 \/ i = 3 \/ i = 4
      BY <1>2, <2>2
    <3>2. stk[i] = pre[i] /\ stk[1] = pre[1]
      BY <1>2, <2>2
    <3>3. QED
      BY <1>1, <2>1, <3>1, <3>2
  <2>3. CASE ~(i <= 4)
    <3>1. i - 4 \in DOMAIN rest /\ stk[i] = rest[i - 4]
      BY <1>2, <2>3
    <3>2. QED
      BY <2>1, <3>1 DEF NoneEarly, FramesOf
  <2>4. QED
    BY <2>2, <2>3
<1>4. CalmAbove(stk, nc)
  <2>1. SUFFICES ASSUME NEW i \in DOMAIN stk, NEW j \in DOMAIN stk, i < j,
                        stk[j].op = "updated"
                 PROVE  Calm(stk[i], nc)
    BY DEF CalmAbove
  <2>2. CASE i <= 4
    <3>1. i \in 1 .. 4 /\ stk[i] = pre[i]
      BY <1>2, <2>2
    <3>2. QED
      BY <1>1, <3>1 DEF Calm
  <2>3. CASE ~(i <= 4)
    <3>1. /\ i - 4 \in DOMAIN rest /\ stk[i] = rest[i - 4]
          /\ j - 4 \in DOMAIN rest /\ stk[j] = rest[j - 4] /\ i - 4 < j - 4
      BY <1>2, <2>1, <2>3
    <3>2. QED
      BY <2>1, <3>1 DEF CalmAbove
  <2>4. QED
    BY <2>2, <2>3
<1>5. QED
  BY <1>3, <1>4 DEF pre, stk

-----------------------------------------------------------------------------
(* Who waits, after what the manager's functions do to the wait queue.     *)

LEMMA WaitingHasIndex ==
    ASSUME NEW id
    PROVE  id \in WaitingIds <=> WaitQueueIndices(id) # {}
BY DEF WaitingIds, WaitQueueIndices

LEMMA EnqueueIds ==
    ASSUME waitQueue \in Seq(Notification), NEW n \in Notification, waitQueue' = Enqueue(n)
    PROVE  /\ WaitingIds' \subseteq WaitingIds \cup {n.id}
           /\ WaitingIds \subseteq WaitingIds'
           /\ Len(waitQueue) < MaxWaitQueueSize => n.id \in WaitingIds'
<1>1. CASE Len(waitQueue) < MaxWaitQueueSize
  <2>1. PICK p \in 1 .. Len(waitQueue) + 1 : waitQueue' = InsertAt(waitQueue, p, n)
    BY <1>1, InsertPositionType DEF Enqueue
  <2>2. Len(waitQueue) \in Nat /\ DOMAIN waitQueue = 1 .. Len(waitQueue)
    OBVIOUS
  <2>3. /\ waitQueue' \in Seq(Notification)
        /\ Len(waitQueue') = Len(waitQueue) + 1
        /\ \A k \in 1 .. Len(waitQueue) + 1 : waitQueue'[k] =
                IF k < p THEN waitQueue[k] ELSE IF k = p THEN n ELSE waitQueue[k - 1]
    <3> DEFINE q == InsertAt(waitQueue, p, n)
    <3>1. q \in Seq(Notification)
      BY InsertAtProperties
    <3>2. Len(q) = Len(waitQueue) + 1
      BY InsertAtProperties
    <3>3. \A k \in 1 .. Len(waitQueue) + 1 : q[k] =
                IF k < p THEN waitQueue[k] ELSE IF k = p THEN n ELSE waitQueue[k - 1]
      BY InsertAtProperties
    <3> HIDE DEF q
    <3>4. waitQueue' = q
      BY <2>1 DEF q
    <3>5. QED
      BY <3>1, <3>2, <3>3, <3>4
  <2>4. DOMAIN waitQueue' = 1 .. Len(waitQueue) + 1
    <3>1. waitQueue' \in Seq(Notification) /\ Len(waitQueue') = Len(waitQueue) + 1
      BY <2>3
    <3>2. DOMAIN waitQueue' = 1 .. Len(waitQueue')
      BY <3>1
    <3>3. QED
      BY <3>1, <3>2
  <2>5. ASSUME NEW k \in DOMAIN waitQueue'
        PROVE  waitQueue'[k].id \in WaitingIds \cup {n.id}
    <3>1. CASE k = p
      BY <2>3, <2>4, <3>1
    <3>2. CASE k < p
      <4>1. k \in DOMAIN waitQueue /\ waitQueue'[k] = waitQueue[k]
        BY <2>1, <2>2, <2>3, <2>4, <3>2
      <4>2. QED
        BY <4>1 DEF WaitingIds
    <3>3. CASE k > p
      <4>1. k - 1 \in DOMAIN waitQueue /\ waitQueue'[k] = waitQueue[k - 1]
        BY <2>1, <2>2, <2>3, <2>4, <3>3
      <4>2. QED
        BY <4>1 DEF WaitingIds
    <3>4. QED
      BY <2>1, <2>2, <2>4, <3>1, <3>2, <3>3
  <2>6. ASSUME NEW k \in DOMAIN waitQueue
        PROVE  waitQueue[k].id \in WaitingIds'
    <3>1. CASE k < p
      <4>1. k \in DOMAIN waitQueue' /\ waitQueue'[k] = waitQueue[k]
        BY <2>1, <2>2, <2>3, <2>4, <3>1
      <4>2. QED
        BY <4>1 DEF WaitingIds
    <3>2. CASE ~(k < p)
      <4>1. k + 1 \in DOMAIN waitQueue' /\ waitQueue'[k + 1] = waitQueue[k]
        BY <2>1, <2>2, <2>3, <2>4, <3>2
      <4>2. QED
        BY <4>1 DEF WaitingIds
    <3>3. QED
      BY <3>1, <3>2
  <2>7. p \in DOMAIN waitQueue' /\ waitQueue'[p] = n
    BY <2>1, <2>2, <2>3, <2>4
  <2>8. n.id \in WaitingIds'
    BY <2>7 DEF WaitingIds
  <2>9. QED
    BY <2>5, <2>6, <2>8 DEF WaitingIds
<1>2. CASE ~(Len(waitQueue) < MaxWaitQueueSize)
  BY <1>2 DEF Enqueue, WaitingIds
<1>3. QED
  BY <1>1, <1>2

LEMMA TakeIds ==
    ASSUME waitQueue \in Seq(Notification), WaitQueueConsistent, NEW id,
           WaitQueueIndices(id) # {}, waitQueue' = TakeFromWaitQueue(id)
    PROVE  WaitingIds' = WaitingIds \ {id}
<1>1. PICK p \in 1 .. Len(waitQueue) :
        waitQueue[p].id = id /\ waitQueue' = RemoveAt(waitQueue, p)
  BY TakeFromWaitQueueProperties
<1>2. /\ Len(waitQueue) \in Nat /\ DOMAIN waitQueue = 1 .. Len(waitQueue)
      /\ waitQueue' \in Seq(Notification) /\ Len(waitQueue') = Len(waitQueue) - 1
      /\ DOMAIN waitQueue' = 1 .. Len(waitQueue) - 1
      /\ \A k \in 1 .. Len(waitQueue) - 1 :
            waitQueue'[k] = IF k < p THEN waitQueue[k] ELSE waitQueue[k + 1]
  <2>1. /\ waitQueue' \in Seq(Notification) /\ Len(waitQueue') = Len(waitQueue) - 1
        /\ \A k \in 1 .. Len(waitQueue) - 1 :
              waitQueue'[k] = IF k < p THEN waitQueue[k] ELSE waitQueue[k + 1]
    BY <1>1, RemoveAtProperties
  <2>2. QED
    BY <2>1
<1>3. ASSUME NEW k \in DOMAIN waitQueue'
      PROVE  waitQueue'[k].id \in WaitingIds \ {id}
  <2>1. PICK j \in DOMAIN waitQueue : j # p /\ waitQueue'[k] = waitQueue[j]
    <3>1. CASE k < p
      BY <1>2, <3>1
    <3>2. CASE ~(k < p)
      <4>1. k + 1 \in DOMAIN waitQueue /\ k + 1 # p /\ waitQueue'[k] = waitQueue[k + 1]
        BY <1>2, <3>2
      <4>2. QED
        BY <4>1
    <3>3. QED
      BY <3>1, <3>2
  <2>2. waitQueue[j].id # id
    BY <1>1, <1>2, <2>1 DEF WaitQueueConsistent
  <2>3. QED
    BY <2>1, <2>2 DEF WaitingIds
<1>4. ASSUME NEW j \in DOMAIN waitQueue, waitQueue[j].id # id
      PROVE  waitQueue[j].id \in WaitingIds'
  <2>1. CASE j < p
    <3>1. j \in DOMAIN waitQueue' /\ waitQueue'[j] = waitQueue[j]
      BY <1>2, <2>1
    <3>2. QED
      BY <3>1 DEF WaitingIds
  <2>2. CASE j > p
    <3>1. j - 1 \in DOMAIN waitQueue' /\ waitQueue'[j - 1] = waitQueue[j]
      BY <1>2, <2>2
    <3>2. QED
      BY <3>1 DEF WaitingIds
  <2>3. QED
    BY <1>1, <1>2, <1>4, <2>1, <2>2
<1>5. QED
  BY <1>3, <1>4 DEF WaitingIds

\* relayNextNotification: nobody waits, or the one at the head is signalled.
Relays(rest) ==
    \/ WaitingIds' = WaitingIds /\ stack' = rest
    \/ \E n \in Notification :
            /\ n.id \in WaitingIds
            /\ n.id \in DOMAIN notificationContainer
            /\ notificationContainer[n.id] = n
            /\ WaitingIds' = WaitingIds \ {n.id}
            /\ Emit(n, rest)

LEMMA RelayRelays ==
    ASSUME waitQueue \in Seq(Notification), WaitQueueConsistent, NEW rest, Relay(rest)
    PROVE  Relays(rest)
<1>1. CASE waitQueue = <<>>
  BY <1>1 DEF Relay, Relays, WaitingIds
<1>2. CASE waitQueue # <<>>
  <2>1. waitQueue' = Tail(waitQueue) /\ Emit(Head(waitQueue), rest)
    BY <1>2 DEF Relay
  <2>2. /\ Len(waitQueue) \in Nat /\ 1 \in DOMAIN waitQueue
        /\ DOMAIN waitQueue = 1 .. Len(waitQueue)
        /\ Head(waitQueue) = waitQueue[1] /\ Head(waitQueue) \in Notification
        /\ DOMAIN waitQueue' = 1 .. Len(waitQueue) - 1
        /\ \A k \in 1 .. Len(waitQueue) - 1 : waitQueue'[k] = waitQueue[k + 1]
    BY <1>2, <2>1
  <2> DEFINE n == Head(waitQueue)
  <2>3. /\ n.id \in WaitingIds
        /\ n.id \in DOMAIN notificationContainer
        /\ notificationContainer[n.id] = n
    BY <2>2 DEF WaitQueueConsistent, WaitingIds
  <2>4. ASSUME NEW k \in DOMAIN waitQueue'
        PROVE  waitQueue'[k].id \in WaitingIds \ {n.id}
    <3>1. k + 1 \in DOMAIN waitQueue /\ k + 1 # 1 /\ waitQueue'[k] = waitQueue[k + 1]
      BY <2>2
    <3>2. waitQueue[k + 1].id # waitQueue[1].id
      BY <2>2, <3>1 DEF WaitQueueConsistent
    <3>3. QED
      BY <2>2, <3>1, <3>2 DEF WaitingIds
  <2>5. ASSUME NEW k \in DOMAIN waitQueue, waitQueue[k].id # n.id
        PROVE  waitQueue[k].id \in WaitingIds'
    <3>1. k - 1 \in DOMAIN waitQueue' /\ waitQueue'[k - 1] = waitQueue[k]
      BY <2>2, <2>5
    <3>2. QED
      BY <3>1 DEF WaitingIds
  <2>6. WaitingIds' = WaitingIds \ {n.id}
    BY <2>4, <2>5 DEF WaitingIds
  <2>7. QED
    BY <2>1, <2>2, <2>3, <2>6 DEF Relays
<1>3. QED
  BY <1>1, <1>2

LEMMA UpdateIds ==
    ASSUME waitQueue \in Seq(Notification), NEW id, NEW p, NEW t \in Times,
           p.class \in Class, p.persistent \in Flag, p.eventType \in EventTypeRef,
           waitQueue' = UpdateWaiting(id, p, t)
    PROVE  WaitingIds' = WaitingIds
<1>1. DOMAIN waitQueue' = DOMAIN waitQueue
  BY DEF UpdateWaiting
<1>2. ASSUME NEW i \in DOMAIN waitQueue
      PROVE  waitQueue'[i].id = waitQueue[i].id
  <2>1. waitQueue'[i] = IF i \in WaitQueueIndices(id)
                        THEN Updated(waitQueue[i], p, t) ELSE waitQueue[i]
    BY DEF UpdateWaiting
  <2>2. Updated(waitQueue[i], p, t).id = waitQueue[i].id
    BY UpdatedType
  <2>3. QED
    BY <2>1, <2>2
<1>3. QED
  BY <1>1, <1>2 DEF WaitingIds

-----------------------------------------------------------------------------
(* The steps of the specification, by what they do to the notifications    *)
(* and to what the sinks are told of them.                                 *)

\* The top frame has been taken, or there was none, and silent frames put in its
\* place: calm ones if it was calm.
Resumes(rest) ==
    \/ stack = <<>> /\ rest \in Seq(Frame) /\ AllSilent(rest)
    \/ /\ stack # <<>>
       /\ Silent(Head(stack))
       /\ \E pre \in Seq(Frame) :
            /\ AllSilent(pre)
            /\ Calm(Head(stack), notificationContainer) =>
                    \A f \in FramesOf(pre) : Calm(f, notificationContainer)
            /\ rest = pre \o Tail(stack)

Silently ==
    /\ Resumes(stack')
    /\ UNCHANGED <<notificationContainer, waitQueue, told, dbusRegistered, running>>

Removes(id, rest) ==
    /\ id \in DOMAIN notificationContainer
    /\ stack # <<>>
    /\ \/ Head(stack).op = "remove"
       \/ Head(stack).op = "removeEach" /\ id \in Head(stack).ids
    /\ Resumes(rest)
    /\ RemoveNotification(id, rest)
    /\ UNCHANGED <<dbusRegistered, running>>

Updates(id, p, t, rest) ==
    /\ id \in DOMAIN notificationContainer
    /\ t \in Times /\ p.class \in Class /\ p.persistent \in Flag /\ p.eventType \in EventTypeRef
    /\ p \in UpdateParams \/ p = AppendEventTypeParameters(notificationContainer[id])
    /\ stack # <<>> => Head(stack).op = "updateEach"
    /\ Resumes(rest)
    /\ UpdateNotification(id, p, t, rest)
    /\ UNCHANGED <<told, dbusRegistered, running>>

Adds(n, rest) ==
    /\ n \in Notification
    /\ n.id \notin DOMAIN notificationContainer
    /\ stack = <<>>
    /\ Resumes(rest)
    /\ notificationContainer' = Insert(notificationContainer, n.id, n)
    /\ Submit(n, rest)
    /\ UNCHANGED <<told, dbusRegistered, running>>

\* A call that waits for the event loop is a removal.
PostedRemovals == \A f \in FramesOf(posted) : f.op \in {"remove", "removeGroup"}

LEMMA TailResumes ==
    ASSUME TypeOK, NEW op, Top(op), op # "updated"
    PROVE  Resumes(Tail(stack))
<1>1. Tail(stack) \in Seq(Frame) /\ stack # <<>> /\ Silent(Head(stack))
  BY TopType DEF Top, Silent
<1>2. <<>> \in Seq(Frame) /\ <<>> \o Tail(stack) = Tail(stack) /\ FramesOf(<<>>) = {}
  BY <1>1, FramesOfFew
<1>3. QED
  BY <1>1, <1>2, Zenon DEF Resumes, AllSilent

LEMMA PrefixResumes ==
    ASSUME TypeOK, NEW op, Top(op), op # "updated", NEW pre \in Seq(Frame), AllSilent(pre),
           Calm(Head(stack), notificationContainer) =>
                \A f \in FramesOf(pre) : Calm(f, notificationContainer)
    PROVE  Resumes(pre \o Tail(stack))
BY DEF Top, Silent, Resumes

LEMMA RunFrameTells ==
    ASSUME TypeOK, RunFrame
    PROVE  \/ Silently
           \/ DeliverUpdated
           \/ \E id, rest : Removes(id, rest)
           \/ \E id, p, t, rest : Updates(id, p, t, rest)
<1>0. /\ \A g : FramesOf(<<[op |-> "timestamp", group |-> g]>>) = {[op |-> "timestamp", group |-> g]}
      /\ \A f : FramesOf(<<f>>) = {f}
      /\ \A f, g : FramesOf(<<f, g>>) = {f, g}
      /\ FramesOf(<<>>) = {}
  BY FramesOfFew
<1>1. CASE DeliverUpdated
  BY <1>1
<1>2. CASE FinishSubmit
  <2>1. Resumes(stack')
    BY <1>2, TailResumes DEF FinishSubmit
  <2>2. QED
    BY <1>2, <2>1 DEF FinishSubmit, Silently, sinkVars, processVars
<1>3. CASE FinishUpdate
  <2>1. PICK g \in GroupRef : stack' = TimestampFrames(g) \o Tail(stack)
    <3>1. \A id \in DOMAIN notificationContainer : notificationContainer[id].group \in GroupRef
      BY DEF TypeOK, StoresOK, IsStore, Notification
    <3>2. QED
      BY <1>3, <3>1 DEF FinishUpdate
  <2>2. /\ TimestampFrames(g) \in Seq(Frame) /\ AllSilent(TimestampFrames(g))
        /\ \A f \in FramesOf(TimestampFrames(g)) : Calm(f, notificationContainer)
    BY TimestampFramesType, FramesOfTimestamp DEF AllSilent, Silent, Calm
  <2>3. Resumes(stack')
    BY <1>3, <2>1, <2>2, PrefixResumes DEF FinishUpdate
  <2>4. QED
    BY <1>3, <2>3 DEF FinishUpdate, Silently, sinkVars, processVars
<1>4. CASE RunRemove
  <2>1. Resumes(Tail(stack)) /\ Head(stack).op = "remove" /\ stack # <<>>
    BY <1>4, TailResumes DEF RunRemove, Top
  <2>2. RemoveNotification(Head(stack).id, Tail(stack)) /\ UNCHANGED <<dbusRegistered, running>>
    BY <1>4 DEF RunRemove, processVars
  <2>3. CASE Head(stack).id \in DOMAIN notificationContainer
    <3>1. Removes(Head(stack).id, Tail(stack))
      BY <2>1, <2>2, <2>3, Zenon DEF Removes
    <3>2. QED
      BY <3>1, Zenon
  <2>4. CASE Head(stack).id \notin DOMAIN notificationContainer
    BY <2>1, <2>2, <2>4 DEF RemoveNotification, Silently
  <2>5. QED
    BY <2>3, <2>4
<1>5. CASE RunRemoveEach
  <2>1. /\ Top("removeEach") /\ Head(stack).op = "removeEach" /\ stack # <<>>
        /\ Head(stack).ids \in SUBSET NotificationId
        /\ UNCHANGED <<dbusRegistered, running>>
    BY <1>5, TopType, FrameFields DEF RunRemoveEach, Top, processVars
  <2>2. CASE stack' = Tail(stack) /\ UNCHANGED <<notificationContainer, waitQueue, told>>
    BY <2>1, <2>2, TailResumes DEF Silently
  <2>3. ASSUME NEW id \in Head(stack).ids,
               RemoveNotification(id, <<RemoveEachFrame(Head(stack).ids \ {id})>> \o Tail(stack))
        PROVE  Silently \/ \E rest : Removes(id, rest)
    <3> DEFINE f == RemoveEachFrame(Head(stack).ids \ {id})
               rest == <<f>> \o Tail(stack)
    <3>1. f \in Frame /\ f.op = "removeEach" /\ f.ids = Head(stack).ids \ {id}
      BY <2>1, FrameTypes DEF RemoveEachFrame
    <3>2. Calm(Head(stack), notificationContainer) => Calm(f, notificationContainer)
      BY <2>1, <3>1 DEF Calm
    <3> HIDE DEF f
    <3>3. <<f>> \in Seq(Frame) /\ AllSilent(<<f>>)
      BY <1>0, <3>1 DEF AllSilent, Silent
    <3>4. Resumes(rest)
      <4>1. FramesOf(<<f>>) = {f}
        BY <1>0
      <4>2. Calm(Head(stack), notificationContainer) =>
                \A g \in FramesOf(<<f>>) : Calm(g, notificationContainer)
        BY <3>2, <4>1
      <4>3. QED
        BY <2>1, <3>3, <4>2, PrefixResumes
    <3>5. RemoveNotification(id, rest)
      BY <2>3 DEF f
    <3> HIDE DEF rest
    <3>6. CASE id \in DOMAIN notificationContainer
      <4>1. Removes(id, rest)
        BY <2>1, <3>4, <3>5, <3>6, Zenon DEF Removes
      <4>2. QED
        BY <4>1, Zenon
    <3>7. CASE id \notin DOMAIN notificationContainer
      BY <2>1, <3>4, <3>5, <3>7 DEF RemoveNotification, Silently
    <3>8. QED
      BY <3>6, <3>7
  <2>4. QED
    BY <1>5, <2>2, <2>3 DEF RunRemoveEach
<1>6. CASE UpdateEach
  <2>1. /\ Top("updateEach") /\ Head(stack).op = "updateEach" /\ stack # <<>>
        /\ Head(stack).ids \in SUBSET NotificationId
        /\ UNCHANGED <<told, dbusRegistered, running>>
        /\ ~Calm(Head(stack), notificationContainer)
    BY <1>6, TopType, FrameFields DEF UpdateEach, Top, processVars, sinkVars, Calm
  <2>2. CASE stack' = Tail(stack) /\ UNCHANGED <<notificationContainer, waitQueue>>
    BY <2>1, <2>2, TailResumes DEF Silently
  <2>3. ASSUME NEW id \in Head(stack).ids
        PROVE  Resumes(<<UpdateEachFrame(Head(stack).ids \ {id})>> \o Tail(stack))
    <3> DEFINE f == UpdateEachFrame(Head(stack).ids \ {id})
    <3>1. f \in Frame /\ f.op = "updateEach"
      BY <2>1, FrameTypes DEF UpdateEachFrame
    <3> HIDE DEF f
    <3>2. <<f>> \in Seq(Frame) /\ AllSilent(<<f>>)
      BY <1>0, <3>1 DEF AllSilent, Silent
    <3>3. Resumes(<<f>> \o Tail(stack))
      BY <2>1, <3>2, PrefixResumes
    <3>4. QED
      BY <3>3 DEF f
  <2>4. ASSUME NEW id \in Head(stack).ids, id \in DOMAIN notificationContainer,
               UpdateNotification(id, AppendEventTypeParameters(notificationContainer[id]),
                                  notificationContainer[id].timestamp,
                                  <<UpdateEachFrame(Head(stack).ids \ {id})>> \o Tail(stack))
        PROVE  \E p, t, rest : Updates(id, p, t, rest)
    <3> DEFINE q == AppendEventTypeParameters(notificationContainer[id])
               t == notificationContainer[id].timestamp
               rest == <<UpdateEachFrame(Head(stack).ids \ {id})>> \o Tail(stack)
    <3>1. notificationContainer[id] \in Notification
      BY <2>4 DEF TypeOK, StoresOK, IsStore
    <3>2. q.class \in Class /\ q.persistent \in Flag /\ q.eventType \in EventTypeRef /\ t \in Times
      BY <3>1, AppendNotificationType DEF Notification
    <3>3. Resumes(rest)
      BY <2>3
    <3>7. q = AppendEventTypeParameters(notificationContainer[id])
      OBVIOUS
    <3> HIDE DEF q, t, rest
    <3>4. UpdateNotification(id, q, t, rest)
      BY <2>4 DEF q, t, rest
    <3>5. Updates(id, q, t, rest)
      BY <2>1, <2>4, <3>2, <3>3, <3>4, <3>7, Zenon DEF Updates
    <3>6. QED
      BY <3>5, Zenon
  <2>5. CASE \E id \in Head(stack).ids :
                /\ stack' = <<UpdateEachFrame(Head(stack).ids \ {id})>> \o Tail(stack)
                /\ UNCHANGED <<notificationContainer, waitQueue>>
    <3>1. Resumes(stack')
      BY <2>3, <2>5
    <3>2. QED
      BY <2>1, <2>5, <3>1 DEF Silently
  <2>6. QED
    BY <1>6, <2>2, <2>4, <2>5 DEF UpdateEach
<1>7. CASE DoRemoveGroup
  <2>1. /\ Top("removeGroup") /\ ~Calm(Head(stack), notificationContainer)
        /\ Head(stack).group \in GroupId
        /\ UNCHANGED <<notificationContainer, waitQueue, told, dbusRegistered, running>>
    BY <1>7, TopType, FrameFields DEF DoRemoveGroup, Top, processVars, sinkVars, Calm
  <2> DEFINE f == RemoveEachFrame(Members(Head(stack).group))
             h == GroupGoneFrame(Head(stack).group)
  <2>2. f \in Frame /\ f.op = "removeEach" /\ h \in Frame /\ h.op = "groupGone"
    <3>1. Members(Head(stack).group) \in SUBSET NotificationId
      BY DEF Members, TypeOK, StoresOK, IsStore
    <3>2. QED
      BY <2>1, <3>1, FrameTypes DEF RemoveEachFrame, GroupGoneFrame
  <2>3. stack' = Tail(stack) \/ stack' = <<f, h>> \o Tail(stack)
    BY <1>7 DEF DoRemoveGroup
  <2> HIDE DEF f, h
  <2>4. <<f, h>> \in Seq(Frame) /\ AllSilent(<<f, h>>)
    BY <1>0, <2>2 DEF AllSilent, Silent
  <2>5. Resumes(stack')
    BY <2>1, <2>3, <2>4, TailResumes, PrefixResumes
  <2>6. QED
    BY <2>1, <2>5 DEF Silently
<1>8. CASE RemoveGroups
  <2>1. /\ Top("removeGroups") /\ ~Calm(Head(stack), notificationContainer)
        /\ Head(stack).groups \in SUBSET GroupId
        /\ UNCHANGED <<notificationContainer, waitQueue, told, dbusRegistered, running>>
    BY <1>8, TopType, FrameFields DEF RemoveGroups, Top, processVars, sinkVars, Calm
  <2>2. ASSUME NEW g \in Head(stack).groups
        PROVE  Resumes(<<RemoveGroupFrame(g), RemoveGroupsFrame(Head(stack).groups \ {g})>> \o Tail(stack))
    <3> DEFINE f == RemoveGroupFrame(g)
               h == RemoveGroupsFrame(Head(stack).groups \ {g})
    <3>1. f \in Frame /\ f.op = "removeGroup" /\ h \in Frame /\ h.op = "removeGroups"
      BY <2>1, FrameTypes DEF RemoveGroupFrame, RemoveGroupsFrame
    <3> HIDE DEF f, h
    <3>2. <<f, h>> \in Seq(Frame) /\ AllSilent(<<f, h>>)
      BY <1>0, <3>1 DEF AllSilent, Silent
    <3>3. Resumes(<<f, h>> \o Tail(stack))
      BY <2>1, <3>2, PrefixResumes
    <3>4. QED
      BY <3>3 DEF f, h
  <2>3. Resumes(stack')
    BY <1>8, <2>1, <2>2, TailResumes DEF RemoveGroups
  <2>4. QED
    BY <2>1, <2>3 DEF Silently
<1>9. CASE UpdateGroupTimestamp \/ FinishRemoveGroup \/ UpdateGroups \/ Prune
  <2>1. Resumes(stack')
    BY <1>9, TailResumes DEF UpdateGroupTimestamp, FinishRemoveGroup, UpdateGroups, Prune
  <2>2. UNCHANGED <<notificationContainer, waitQueue, told, dbusRegistered, running>>
    BY <1>9 DEF UpdateGroupTimestamp, FinishRemoveGroup, UpdateGroups, Prune, sinkVars, processVars
  <2>3. QED
    BY <2>1, <2>2 DEF Silently
<1>10. QED
  BY <1>1, <1>2, <1>3, <1>4, <1>5, <1>6, <1>7, <1>8, <1>9 DEF RunFrame

LEMMA CallTells ==
    ASSUME TypeOK, NEW frames \in Seq(Frame), AllSilent(frames), Call(frames)
    PROVE  Silently
BY DEF Call, Idle, Silently, Resumes, sinkVars, processVars

LEMMA IdleTells ==
    ASSUME Idle \/ (DownIsIdle /\ ~running),
           UNCHANGED <<notificationContainer, waitQueue, told, dbusRegistered, running, stack>>
    PROVE  Silently
<1>1. stack = <<>>
  BY DEF Idle, DownIsIdle
<1>2. <<>> \in Seq(Frame) /\ AllSilent(<<>>)
  BY FramesOfFew DEF AllSilent
<1>3. QED
  BY <1>1, <1>2 DEF Silently, Resumes

LEMMA AddTells ==
    ASSUME TypeOK, NEW p \in AddParams, NEW g \in GroupRef, NEW t \in Times, AddNotification(p, g, t)
    PROVE  \E n, rest : Adds(n, rest)
<1>1. PICK n : /\ n.id = Smallest(FreeNotificationIds)
               /\ notificationContainer' = Insert(notificationContainer, n.id, n)
               /\ Submit(n, TimestampFrames(g))
  BY Zenon DEF AddNotification
<1>2. n \in Notification
  <2>1. TypeOK'
    BY AddNotificationType
  <2>2. QED
    BY <1>1, <2>1 DEF TypeOK, StoresOK, IsStore, Insert
<1>3. n.id \notin DOMAIN notificationContainer
  <2>1. FreeNotificationIds \subseteq Nat /\ FreeNotificationIds # {}
    BY ConstantsAssumption DEF AddNotification, FreeNotificationIds, NotificationId, ConstantsAssumption
  <2>2. Smallest(FreeNotificationIds) \in FreeNotificationIds
    BY <2>1, SmallestProperties
  <2>3. QED
    BY <1>1, <2>2 DEF FreeNotificationIds
<1>4. Resumes(TimestampFrames(g)) /\ stack = <<>>
  BY TimestampFramesType, FramesOfTimestamp DEF AddNotification, Idle, Resumes, AllSilent, Silent
<1>5. UNCHANGED <<told, dbusRegistered, running>>
  BY DEF AddNotification, sinkVars, processVars
<1>6. Adds(n, TimestampFrames(g))
  BY <1>1, <1>2, <1>3, <1>4, <1>5, Zenon DEF Adds
<1>7. QED
  BY <1>6, Zenon

\* What any step may do to the notifications and to what is known of them.
LEMMA StepTells ==
    ASSUME TypeOK, DownIsIdle, PostedRemovals, Next
    PROVE  \/ Silently
           \/ DeliverUpdated
           \/ \E id, rest : Removes(id, rest)
           \/ \E id, p, t, rest : Updates(id, p, t, rest)
           \/ \E n, rest : Adds(n, rest)
           \/ RelayNextNotification \/ RegisterSink \/ UnregisterSink \/ Start \/ Crash
<1>0. /\ \A f : FramesOf(<<f>>) = {f}
      /\ \A f, g : FramesOf(<<f, g>>) = {f, g}
  BY FramesOfFew
<1>1. CASE RunFrame
  BY <1>1, RunFrameTells
<1>2. ASSUME NEW p \in AddParams, NEW g \in GroupRef, NEW t \in Times, AddNotification(p, g, t)
      PROVE  \E n, rest : Adds(n, rest)
  BY <1>2, AddTells
<1>3. ASSUME NEW id \in NotificationId, NEW p \in UpdateParams, NEW t \in Times,
             ClientUpdatesNotification(id, p, t)
      PROVE  \E i, q, u, rest : Updates(i, q, u, rest)
  <2>1. p.class \in Class /\ p.persistent \in Flag /\ p.eventType \in EventTypeRef
    BY ConstantsAssumption DEF ConstantsAssumption, Params
  <2>2. stack = <<>> /\ Resumes(<<>>)
    BY <1>3, FramesOfFew DEF ClientUpdatesNotification, Idle, Resumes, AllSilent
  <2>3. /\ id \in DOMAIN notificationContainer
        /\ UpdateNotification(id, p, t, <<>>)
        /\ UNCHANGED <<told, dbusRegistered, running>>
    BY <1>3 DEF ClientUpdatesNotification, sinkVars, processVars
  <2>4. Updates(id, p, t, <<>>)
    BY <2>1, <2>2, <2>3 DEF Updates
  <2>5. QED
    BY <2>4, Zenon
<1>4. ASSUME NEW frame, Post(frame)
      PROVE  Silently
  BY <1>4, IdleTells DEF Post, sinkVars, processVars
<1>5. CASE DeliverPosted
  <2>1. Head(posted) \in Frame /\ Head(posted) \in FramesOf(posted)
    BY <1>5, FramesOfTail DEF DeliverPosted, TypeOK, CallsOK
  <2>2. <<Head(posted)>> \in Seq(Frame) /\ AllSilent(<<Head(posted)>>)
    BY <1>0, <2>1 DEF PostedRemovals, AllSilent, Silent
  <2>3. QED
    BY <1>5, <2>2, CallTells DEF DeliverPosted
<1>6. ASSUME NEW s, NEW id \in NotificationId, SinkRemovesNotification(s, id)
      PROVE  Silently
  <2>1. <<RemoveFrame(id)>> \in Seq(Frame) /\ AllSilent(<<RemoveFrame(id)>>)
    BY <1>0, FrameTypes DEF AllSilent, Silent, RemoveFrame
  <2>2. QED
    BY <1>6, <2>1, CallTells DEF SinkRemovesNotification
<1>7. ASSUME NEW s, NEW g, SinkClearsGroup(s, g)
      PROVE  Silently
  <2>1. Members(g) \in SUBSET NotificationId
    BY DEF Members, TypeOK, StoresOK, IsStore
  <2>2. <<RemoveEachFrame(Members(g))>> \in Seq(Frame) /\ AllSilent(<<RemoveEachFrame(Members(g))>>)
    BY <1>0, <2>1, FrameTypes DEF AllSilent, Silent, RemoveEachFrame
  <2>3. QED
    BY <1>7, <2>2, CallTells DEF SinkClearsGroup
<1>8. ASSUME NEW et, NEW settings, EventTypeModified(et, settings)
      PROVE  Silently
  <2> DEFINE f == UpdateEachFrame(OfEventType(notificationContainer, et))
             h == UpdateGroupsFrame(OfEventType(groupContainer, et))
  <2>1. f \in Frame /\ h \in Frame /\ f.op = "updateEach" /\ h.op = "updateGroups"
    BY OfEventTypeTypes, FrameTypes DEF UpdateEachFrame, UpdateGroupsFrame
  <2>2. Call(<<f, h>>)
    BY <1>8 DEF EventTypeModified
  <2> HIDE DEF f, h
  <2>3. <<f, h>> \in Seq(Frame) /\ AllSilent(<<f, h>>)
    BY <1>0, <2>1 DEF AllSilent, Silent
  <2>4. QED
    BY <2>2, <2>3, CallTells
<1>9. ASSUME NEW et, EventTypeUninstalled(et)
      PROVE  Silently
  <2> DEFINE f == RemoveEachFrame(OfEventType(notificationContainer, et))
             h == RemoveGroupsFrame(OfEventType(groupContainer, et))
  <2>1. f \in Frame /\ h \in Frame /\ f.op = "removeEach" /\ h.op = "removeGroups"
    BY OfEventTypeTypes, FrameTypes DEF RemoveEachFrame, RemoveGroupsFrame
  <2>2. Call(<<f, h>>)
    BY <1>9 DEF EventTypeUninstalled
  <2> HIDE DEF f, h
  <2>3. <<f, h>> \in Seq(Frame) /\ AllSilent(<<f, h>>)
    BY <1>0, <2>1 DEF AllSilent, Silent
  <2>4. QED
    BY <2>2, <2>3, CallTells
<1>10. ASSUME \/ \E et \in EventTypeRef : AddGroup(et)
              \/ \E g \in GroupId, et \in EventTypeRef : UpdateGroup(g, et)
              \/ NotificationUserId
       PROVE  Silently
  BY <1>10, IdleTells DEF AddGroup, UpdateGroup, NotificationUserId, sinkVars, processVars
<1>11. ASSUME \/ \E et \in EventTypes, settings \in EventTypeSettings :
                    EventTypeChangesUnseen(et, settings)
              \/ Reboot
       PROVE  Silently
  BY <1>11, IdleTells DEF EventTypeChangesUnseen, Reboot, sinkVars, processVars
<1>12. QED
  BY <1>1, <1>2, <1>3, <1>4, <1>5, <1>6, <1>7, <1>8, <1>9, <1>10, <1>11
     DEF Next, ClientRemovesNotification, ClientRemovesGroup, BannerDone

-----------------------------------------------------------------------------
(* What the proofs below take for granted of every reachable state.        *)

\* A notification is kept under its own identifier, in memory and on the disk.
KeyedById ==
    /\ \A id \in DOMAIN notificationContainer : notificationContainer[id].id = id
    /\ \A id \in DOMAIN disk.notifications : disk.notifications[id].id = id

\* Nobody knows anything while the daemon is down.
NothingToldWhileDown ==
    ~running => /\ ~dbusRegistered
                /\ \A s \in Sinks : DOMAIN told[s] = {}
                /\ \A s \in GroupSinks : toldGroups[s] = {}

Ground == DownIsIdle /\ WaitQueueConsistent /\ PostedRemovals /\ KeyedById /\ NothingToldWhileDown

LEMMA PostedRemovalsStep ==
    ASSUME TypeOK, PostedRemovals, [Next]_vars
    PROVE  PostedRemovals'
<1>0. posted \in Seq(Frame)
  BY DEF TypeOK, CallsOK
<1>1. CASE posted' = posted
  BY <1>1 DEF PostedRemovals, FramesOf
<1>2. ASSUME NEW f \in Frame, f.op \in {"remove", "removeGroup"}, Post(f)
      PROVE  PostedRemovals'
  <2>1. posted' = posted \o <<f>> /\ <<f>> \in Seq(Frame)
    BY <1>0, <1>2 DEF Post
  <2>2. FramesOf(posted') = FramesOf(posted) \cup {f}
    BY <1>0, <2>1, FramesOfConcat, FramesOfFew
  <2>3. QED
    BY <1>2, <2>2 DEF PostedRemovals
<1>3. ASSUME NEW id \in NotificationId, ClientRemovesNotification(id)
      PROVE  PostedRemovals'
  BY <1>2, <1>3, FrameTypes DEF ClientRemovesNotification, RemoveFrame
<1>4. ASSUME NEW g \in GroupId, ClientRemovesGroup(g)
      PROVE  PostedRemovals'
  BY <1>2, <1>4, FrameTypes DEF ClientRemovesGroup, RemoveGroupFrame
<1>5. CASE DeliverPosted
  <2>1. FramesOf(posted') \subseteq FramesOf(posted)
    BY <1>0, <1>5, FramesOfTail DEF DeliverPosted
  <2>2. QED
    BY <2>1 DEF PostedRemovals
<1>6. CASE Crash
  BY <1>6, FramesOfFew DEF Crash, PostedRemovals
<1>7. QED
  BY <1>1, <1>3, <1>4, <1>5, <1>6 DEF Next, vars, RunFrame, DeliverUpdated, FinishSubmit,
     FinishUpdate, RunRemove, RunRemoveEach, UpdateEach, UpdateGroupTimestamp, DoRemoveGroup,
     FinishRemoveGroup, RemoveGroups, UpdateGroups, Prune, AddNotification,
     ClientUpdatesNotification, SinkRemovesNotification, BannerDone, SinkClearsGroup,
     RelayNextNotification, AddGroup, UpdateGroup, NotificationUserId, EventTypeModified,
     EventTypeUninstalled, EventTypeChangesUnseen, RegisterSink, UnregisterSink, Start, Reboot

\* An update changes neither whose notification it is nor whom it is shown to.
LEMMA UpdatedKeeps ==
    ASSUME NEW n \in Notification, NEW p, NEW t \in Times,
           p.class \in Class, p.persistent \in Flag, p.eventType \in EventTypeRef
    PROVE  /\ Updated(n, p, t) \in Notification
           /\ Updated(n, p, t).id = n.id
           /\ Updated(n, p, t).group = n.group
           /\ Updated(n, p, t).type = n.type
BY UpdatedType DEF Updated, UpdateParameters, Notification

LEMMA AppendKeeps ==
    ASSUME NEW n \in Notification
    PROVE  /\ AppendEventTypeParameters(n).id = n.id
           /\ AppendEventTypeParameters(n).type = n.type
BY DEF AppendEventTypeParameters, Notification

\* The container after an update.
LEMMA UpdatesContainer ==
    ASSUME TypeOK, KeyedById, NEW id, NEW p, NEW t, NEW rest, Updates(id, p, t, rest)
    PROVE  /\ DOMAIN notificationContainer' = DOMAIN notificationContainer
           /\ \A i \in DOMAIN notificationContainer : i # id =>
                    notificationContainer'[i] = notificationContainer[i]
           /\ notificationContainer'[id] = Updated(notificationContainer[id], p, t)
           /\ notificationContainer'[id] \in Notification
           /\ notificationContainer'[id].id = id
           /\ notificationContainer'[id].group = notificationContainer[id].group
           /\ notificationContainer'[id].type = notificationContainer[id].type
<1>1. id \in DOMAIN notificationContainer /\ UpdateNotification(id, p, t, rest)
  BY DEF Updates
<1>2. notificationContainer' =
        [notificationContainer EXCEPT ![id] = Updated(notificationContainer[id], p, t)]
  BY <1>1 DEF UpdateNotification
<1>3. notificationContainer[id] \in Notification /\ notificationContainer[id].id = id
  BY <1>1 DEF TypeOK, StoresOK, IsStore, KeyedById
<1>4. /\ Updated(notificationContainer[id], p, t) \in Notification
      /\ Updated(notificationContainer[id], p, t).id = id
      /\ Updated(notificationContainer[id], p, t).group = notificationContainer[id].group
      /\ Updated(notificationContainer[id], p, t).type = notificationContainer[id].type
  BY <1>3, UpdatedKeeps DEF Updates
<1>5. QED
  BY <1>1, <1>2, <1>4

LEMMA RemovesContainer ==
    ASSUME NEW id, NEW rest, Removes(id, rest)
    PROVE  /\ DOMAIN notificationContainer' = DOMAIN notificationContainer \ {id}
           /\ \A i \in DOMAIN notificationContainer' :
                    notificationContainer'[i] = notificationContainer[i]
BY DEF Removes, RemoveNotification, Without, Restrict

LEMMA AddsContainer ==
    ASSUME NEW n, NEW rest, Adds(n, rest)
    PROVE  /\ DOMAIN notificationContainer' = DOMAIN notificationContainer \cup {n.id}
           /\ \A i \in DOMAIN notificationContainer :
                    i # n.id /\ notificationContainer'[i] = notificationContainer[i]
           /\ notificationContainer'[n.id] = n
BY DEF Adds, Insert

LEMMA StartContainer ==
    ASSUME Start
    PROVE  /\ DOMAIN notificationContainer' \subseteq DOMAIN disk.notifications
           /\ \A i \in DOMAIN notificationContainer' : notificationContainer'[i] =
                    AppendEventTypeParameters(disk.notifications[i])
BY DEF Start

LEMMA KeyedByIdStep ==
    ASSUME TypeOK, DownIsIdle, PostedRemovals, KeyedById, [Next]_vars
    PROVE  KeyedById'
<1>1. \A id \in DOMAIN notificationContainer' : notificationContainer'[id].id = id
  <2>1. ASSUME NEW id, NEW rest, Removes(id, rest)
        PROVE  \A i \in DOMAIN notificationContainer' : notificationContainer'[i].id = i
    BY <2>1, RemovesContainer DEF KeyedById
  <2>2. ASSUME NEW id, NEW p, NEW t, NEW rest, Updates(id, p, t, rest)
        PROVE  \A i \in DOMAIN notificationContainer' : notificationContainer'[i].id = i
    BY <2>2, UpdatesContainer DEF KeyedById
  <2>3. ASSUME NEW n, NEW rest, Adds(n, rest)
        PROVE  \A i \in DOMAIN notificationContainer' : notificationContainer'[i].id = i
    <3>1. /\ DOMAIN notificationContainer' = DOMAIN notificationContainer \cup {n.id}
          /\ notificationContainer'[n.id] = n
          /\ \A i \in DOMAIN notificationContainer :
                 notificationContainer'[i] = notificationContainer[i]
      BY <2>3, AddsContainer
    <3>2. QED
      BY <3>1 DEF KeyedById
  <2>4. CASE Start
    <3>1. \A i \in DOMAIN disk.notifications : disk.notifications[i] \in Notification
      BY DEF TypeOK, DiskOK, IsStore
    <3>2. QED
      BY <2>4, <3>1, StartContainer, AppendKeeps DEF KeyedById
  <2>5. CASE Crash
    BY <2>5 DEF Crash, Empty
  <2>6. CASE UNCHANGED notificationContainer
    BY <2>6 DEF KeyedById
  <2>7. QED
    BY <2>1, <2>2, <2>3, <2>4, <2>5, <2>6, StepTells DEF Silently, DeliverUpdated,
       RelayNextNotification, RegisterSink, UnregisterSink, vars
<1>2. \A id \in DOMAIN disk'.notifications : disk'.notifications[id].id = id
  <2>1. CASE RunningStep
    <3>1. \/ disk'.notifications = notificationContainer'
          \/ disk'.notifications = disk.notifications
      BY <2>1, RunningStepSaves DEF StepSaves, SaveNotifications, SaveStateData, NoSave, TypeOK, DiskOK
    <3>2. QED
      BY <1>1, <3>1 DEF KeyedById
  <2>2. CASE UnseenStep \/ Start \/ UNCHANGED vars
    BY <2>2 DEF UnseenStep, EventTypeChangesUnseen, Reboot, Start, NoSave, vars, diskVars, KeyedById
  <2>3. CASE Crash
    <3>1. \/ disk'.notifications = disk.notifications
          \/ \E S \in SUBSET DOMAIN disk.notifications :
                disk'.notifications = Restrict(disk.notifications, S)
      BY <2>3 DEF Crash, SpoiledDisks, TypeOK, DiskOK
    <3>2. QED
      BY <3>1 DEF KeyedById, Restrict
  <2>4. QED
    BY <2>1, <2>2, <2>3, NextCases
<1>3. QED
  BY <1>1, <1>2 DEF KeyedById

LEMMA NothingToldStep ==
    ASSUME TypeOK, NothingToldWhileDown, [Next]_vars
    PROVE  NothingToldWhileDown'
<1>1. CASE RunningStep
  BY <1>1, RunningStaysUp DEF NothingToldWhileDown
<1>2. CASE UnseenStep
  BY <1>2 DEF UnseenStep, EventTypeChangesUnseen, Reboot, sinkVars, processVars, NothingToldWhileDown
<1>3. CASE Start
  BY <1>3 DEF Start, NothingToldWhileDown
<1>4. CASE Crash
  BY <1>4 DEF Crash, NothingToldWhileDown, Empty
<1>5. CASE UNCHANGED vars
  BY <1>5 DEF vars, sinkVars, processVars, NothingToldWhileDown
<1>6. QED
  BY <1>1, <1>2, <1>3, <1>4, <1>5, NextCases

LEMMA GroundHolds == Spec => []Ground
<1>1. Init => Ground
  <2> SUFFICES ASSUME Init
               PROVE  Ground
    OBVIOUS
  <2>1. DownIsIdle /\ WaitQueueConsistent
    BY WaitQueueConsistentInit
  <2>2. PostedRemovals
    BY FramesOfFew DEF Init, PostedRemovals
  <2>3. KeyedById /\ NothingToldWhileDown
    BY DEF Init, KeyedById, NothingToldWhileDown, Empty
  <2>4. QED
    BY <2>1, <2>2, <2>3 DEF Ground
<1>2. TypeOK /\ Ground /\ [Next]_vars => Ground'
  BY DownIsIdleStep, WaitQueueConsistentStep, PostedRemovalsStep, KeyedByIdStep, NothingToldStep DEF Ground
<1>3. QED
  BY <1>1, <1>2, TypeCorrect, PTL DEF Spec

-----------------------------------------------------------------------------
(* What the sinks were told.                                               *)

\* What is still to be signalled, early or of an application notification, is what
\* the container holds and the wait queue does not.
FreshNotes ==
    \A f \in FramesOf(stack) :
        f.op = "updated" /\ (Early(f) \/ f.note.type = "application") =>
            /\ f.note.id \in DOMAIN notificationContainer \ WaitingIds
            /\ notificationContainer[f.note.id] = f.note

\* The compositor knows only what is there, and whom it is shown to.
CompositorKnows ==
    \A id \in DOMAIN told["compositor"] :
        /\ id \in DOMAIN notificationContainer \ WaitingIds
        /\ notificationContainer[id].type = told["compositor"][id].type

ToBeTold(s, id) ==
    \E f \in FramesOf(stack) : f.op = "updated" /\ f.sink = s /\ f.note.id = id

\* A sink knows the present state of an application notification, or is about to.
ToldSoon ==
    \A s \in Sinks : \A id \in DOMAIN told[s] :
        told[s][id].type = "application" =>
            /\ id \in DOMAIN notificationContainer \ WaitingIds
            /\ notificationContainer[id].type = "application"
            /\ told[s][id] = notificationContainer[id] \/ ToBeTold(s, id)

DBusTold == ~dbusRegistered => DOMAIN told["dbus"] = {}

StackOrder == EarlyOnTop(stack) /\ CalmAbove(stack, notificationContainer)

SinksInvariant == StackOrder /\ FreshNotes /\ CompositorKnows /\ ToldSoon /\ DBusTold

\* Silent frames are put on, or taken off: the signals that are due stay due.
LEMMA ResumesFrames ==
    ASSUME TypeOK, NEW rest, Resumes(rest)
    PROVE  /\ rest \in Seq(Frame)
           /\ \A f : f.op = "updated" => (f \in FramesOf(rest) <=> f \in FramesOf(stack))
<1>0. stack \in Seq(Frame)
  BY DEF TypeOK, CallsOK
<1>1. CASE stack = <<>>
  BY <1>1, FramesOfFew DEF Resumes, AllSilent, Silent
<1>2. CASE stack # <<>>
  <2>1. PICK pre \in Seq(Frame) : AllSilent(pre) /\ rest = pre \o Tail(stack)
    BY <1>2 DEF Resumes
  <2>2. Silent(Head(stack)) /\ Tail(stack) \in Seq(Frame)
    BY <1>0, <1>2 DEF Resumes
  <2>3. /\ FramesOf(rest) = FramesOf(pre) \cup FramesOf(Tail(stack))
        /\ FramesOf(stack) = {Head(stack)} \cup FramesOf(Tail(stack))
        /\ rest \in Seq(Frame)
    BY <1>0, <1>2, <2>1, <2>2, FramesOfConcat, FramesOfTail, ConcatProperties
  <2>4. QED
    BY <2>1, <2>2, <2>3 DEF AllSilent, Silent
<1>3. QED
  BY <1>1, <1>2

\* What is below the top frame, with silent frames put on it.
LEMMA ResumesKeeps ==
    ASSUME TypeOK, StackOrder, NEW rest, Resumes(rest)
    PROVE  /\ rest \in Seq(Frame)
           /\ NoneEarly(rest)
           /\ CalmAbove(rest, notificationContainer)
           /\ \A f : f.op = "updated" => (f \in FramesOf(rest) <=> f \in FramesOf(stack))
           /\ stack = <<>> \/ ~Calm(Head(stack), notificationContainer) => AllSilent(rest)
<1>0. stack \in Seq(Frame)
  BY DEF TypeOK, CallsOK
<1>1. CASE stack = <<>>
  <2>1. rest \in Seq(Frame) /\ AllSilent(rest)
    BY <1>1 DEF Resumes
  <2>2. CalmAbove(rest, notificationContainer)
    BY <2>1 DEF CalmAbove, AllSilent, Silent, FramesOf
  <2>3. QED
    BY <2>1, <2>2, ResumesFrames DEF AllSilent, Silent, NoneEarly, Early
<1>2. CASE stack # <<>>
  <2>1. PICK pre \in Seq(Frame) :
            /\ AllSilent(pre)
            /\ Calm(Head(stack), notificationContainer) =>
                    \A f \in FramesOf(pre) : Calm(f, notificationContainer)
            /\ rest = pre \o Tail(stack)
    BY <1>2 DEF Resumes
  <2>2. Silent(Head(stack))
    BY <1>2 DEF Resumes
  <2>3. /\ Tail(stack) \in Seq(Frame)
        /\ CalmAbove(Tail(stack), notificationContainer)
        /\ NoneEarly(Tail(stack))
        /\ Calm(Head(stack), notificationContainer) \/ AllSilent(Tail(stack))
    BY <1>0, <1>2, <2>2, BelowTop DEF StackOrder, Silent
  <2>4. /\ rest \in Seq(Frame)
        /\ NoneEarly(rest)
        /\ CalmAbove(rest, notificationContainer)
        /\ AllSilent(Tail(stack)) => AllSilent(rest)
    BY <2>1, <2>3, SilentOnTop
  <2>5. QED
    BY <1>2, <2>3, <2>4, ResumesFrames
<1>3. QED
  BY <1>1, <1>2

\* An order without early frames is an order.
LEMMA NoneEarlyOrder ==
    ASSUME NEW stk, NoneEarly(stk)
    PROVE  EarlyOnTop(stk)
BY DEF NoneEarly, EarlyOnTop, FramesOf

\* With fewer notifications, and none of another type, what was calm stays calm.
LEMMA CalmStays ==
    ASSUME NEW nc, NEW nd, NEW stk, CalmAbove(stk, nc),
           \A id \in DOMAIN nd : id \in DOMAIN nc /\ nd[id].type = nc[id].type
    PROVE  CalmAbove(stk, nd)
BY DEF CalmAbove, Calm

\* An emission with its continuation, on top of what is left.
LEMMA EmissionOrder ==
    ASSUME NEW nc, NEW n \in Notification, NEW f \in Frame, NEW rest \in Seq(Frame),
           f.op \in {"submitted", "updateTail"}, NoneEarly(rest), CalmAbove(rest, nc),
           AllSilent(rest) \/ Calm(f, nc)
    PROVE  /\ EarlyOnTop(UpdatedFrames(n) \o <<f>> \o rest)
           /\ CalmAbove(UpdatedFrames(n) \o <<f>> \o rest, nc)
           /\ FramesOf(UpdatedFrames(n) \o <<f>> \o rest) =
                EmissionOf(n) \cup {f} \cup FramesOf(rest)
<1>1. UpdatedFrames(n) \in Seq(Frame) /\ <<f>> \in Seq(Frame) /\ FramesOf(<<f>>) = {f}
  BY UpdatedFramesType, FramesOfFew
<1>2. AllSilent(<<f>>)
  BY <1>1 DEF AllSilent, Silent
<1>3. <<f>> \o rest \in Seq(Frame) /\ NoneEarly(<<f>> \o rest) /\ CalmAbove(<<f>> \o rest, nc)
  BY <1>1, <1>2, SilentOnTop
<1>4. UpdatedFrames(n) \o <<f>> \o rest = UpdatedFrames(n) \o (<<f>> \o rest)
  BY <1>1, ConcatAssociative
<1>5. /\ EarlyOnTop(UpdatedFrames(n) \o (<<f>> \o rest))
      /\ CalmAbove(UpdatedFrames(n) \o (<<f>> \o rest), nc)
  BY <1>3, EmissionOnTop
<1>6. QED
  BY <1>4, <1>5, FramesOfEmission

\* Timestamp frames on top of what is left.
LEMMA TimestampOrder ==
    ASSUME NEW nc, NEW g \in GroupRef, NEW rest \in Seq(Frame), NoneEarly(rest), CalmAbove(rest, nc)
    PROVE  /\ TimestampFrames(g) \o rest \in Seq(Frame)
           /\ NoneEarly(TimestampFrames(g) \o rest)
           /\ CalmAbove(TimestampFrames(g) \o rest, nc)
           /\ AllSilent(rest) => AllSilent(TimestampFrames(g) \o rest)
           /\ \A f : f.op = "updated" =>
                (f \in FramesOf(TimestampFrames(g) \o rest) <=> f \in FramesOf(rest))
<1>1. /\ TimestampFrames(g) \in Seq(Frame)
      /\ AllSilent(TimestampFrames(g))
      /\ \A f \in FramesOf(TimestampFrames(g)) : Calm(f, nc)
  BY TimestampFramesType, FramesOfTimestamp DEF AllSilent, Silent, Calm
<1>2. FramesOf(TimestampFrames(g) \o rest) = FramesOf(TimestampFrames(g)) \cup FramesOf(rest)
  BY <1>1, FramesOfConcat
<1>3. \A f : f.op = "updated" =>
        (f \in FramesOf(TimestampFrames(g) \o rest) <=> f \in FramesOf(rest))
  BY <1>1, <1>2 DEF AllSilent, Silent
<1>4. QED
  BY <1>1, <1>3, SilentOnTop

LEMMA SilentlyKeepsSinks ==
    ASSUME TypeOK, SinksInvariant, Silently
    PROVE  SinksInvariant'
<1>1. StackOrder
  BY DEF SinksInvariant
<1>2. Resumes(stack') /\ UNCHANGED <<notificationContainer, waitQueue, told, dbusRegistered>>
  BY DEF Silently
<1>3. /\ NoneEarly(stack')
      /\ CalmAbove(stack', notificationContainer)
      /\ \A f : f.op = "updated" => (f \in FramesOf(stack') <=> f \in FramesOf(stack))
  BY <1>1, <1>2, ResumesKeeps
<1>4. StackOrder'
  BY <1>2, <1>3, NoneEarlyOrder DEF StackOrder
<1>5. FreshNotes' /\ ToldSoon'
  BY <1>2, <1>3 DEF SinksInvariant, FreshNotes, ToldSoon, ToBeTold, WaitingIds
<1>6. QED
  BY <1>2, <1>4, <1>5 DEF SinksInvariant, CompositorKnows, DBusTold, WaitingIds

\* notificationUpdated reaches a sink, which may ask for a removal.
LEMMA DeliverUpdatedKeepsSinks ==
    ASSUME TypeOK, SinksInvariant, DeliverUpdated
    PROVE  SinksInvariant'
<1> DEFINE f == Head(stack)
           s == f.sink
           n == f.note
<1>0. /\ f \in Frame /\ f.op = "updated" /\ s \in Sinks /\ n \in Notification
      /\ Tail(stack) \in Seq(Frame) /\ stack # <<>> /\ stack \in Seq(Frame)
  BY TopType, FrameFields DEF DeliverUpdated, Top, TypeOK, CallsOK
<1>1. /\ told' = IF HeardBy(s, n) THEN [told EXCEPT ![s] = Insert(@, n.id, n)] ELSE told
      /\ \/ stack' = Tail(stack)
         \/ \E ids \in SUBSET SystemIds(told'["compositor"]) \ {{}} :
                s = "compositor" /\ stack' = <<RemoveEachFrame(ids)>> \o Tail(stack)
      /\ UNCHANGED <<notificationContainer, waitQueue, dbusRegistered>>
  BY DEF DeliverUpdated, sinkVars
<1>2. DOMAIN told = Sinks
  BY DEF TypeOK, SinksOK
<1>3. FramesOf(stack) = {f} \cup FramesOf(Tail(stack)) /\ f \in FramesOf(stack)
  BY <1>0, FramesOfTail
<1> HIDE DEF f
<1>4. ASSUME NEW r \in Sinks
      PROVE  told'[r] = IF r = s /\ HeardBy(s, n) THEN Insert(told[s], n.id, n) ELSE told[r]
  BY <1>0, <1>1, <1>2
<1>5. CompositorKnows'
  <2>1. ASSUME NEW id \in DOMAIN told'["compositor"]
        PROVE  /\ id \in DOMAIN notificationContainer \ WaitingIds
               /\ notificationContainer[id].type = told'["compositor"][id].type
    <3>1. "compositor" \in Sinks
      BY DEF Sinks
    <3>2. CASE s = "compositor"
      <4>1. Early(f)
        BY <1>0, <3>2 DEF Early
      <4>2. n.id \in DOMAIN notificationContainer \ WaitingIds /\ notificationContainer[n.id] = n
        BY <1>0, <1>3, <4>1 DEF SinksInvariant, FreshNotes
      <4>3. \/ told'["compositor"] = told["compositor"]
            \/ told'["compositor"] = Insert(told["compositor"], n.id, n)
        BY <1>4, <3>1, <3>2
      <4>4. \/ id = n.id /\ told'["compositor"][id] = n
            \/ id \in DOMAIN told["compositor"] /\ told'["compositor"][id] = told["compositor"][id]
        BY <2>1, <4>3 DEF Insert
      <4>5. QED
        BY <4>2, <4>4 DEF SinksInvariant, CompositorKnows
    <3>3. CASE s # "compositor"
      BY <1>4, <2>1, <3>1, <3>3 DEF SinksInvariant, CompositorKnows
    <3>4. QED
      BY <3>2, <3>3
  <2>2. QED
    BY <1>1, <2>1 DEF CompositorKnows, WaitingIds
<1>6. StackOrder' /\ \A g : g.op = "updated" => (g \in FramesOf(stack') <=> g \in FramesOf(Tail(stack)))
  <2>1. /\ EarlyOnTop(Tail(stack))
        /\ CalmAbove(Tail(stack), notificationContainer)
        /\ s # "dbus" => NoneEarly(Tail(stack))
    BY <1>0, BelowTop DEF SinksInvariant, StackOrder, f
  <2>2. CASE stack' = Tail(stack)
    BY <1>1, <2>1, <2>2 DEF StackOrder
  <2>3. ASSUME NEW ids \in SUBSET SystemIds(told'["compositor"]), s = "compositor",
               stack' = <<RemoveEachFrame(ids)>> \o Tail(stack)
        PROVE  StackOrder' /\ \A g : g.op = "updated" =>
                    (g \in FramesOf(stack') <=> g \in FramesOf(Tail(stack)))
    <3> DEFINE h == RemoveEachFrame(ids)
    <3>1. ids \in SUBSET NotificationId
      BY <1>1, <1>5, <2>3 DEF CompositorKnows, SystemIds, TypeOK, StoresOK, IsStore
    <3>2. h \in Frame /\ h.op = "removeEach" /\ h.ids = ids
      BY <3>1, FrameTypes DEF RemoveEachFrame
    <3>3. \A id \in ids : notificationContainer[id].type = "system"
      BY <1>1, <1>5, <2>3 DEF CompositorKnows, SystemIds
    <3> HIDE DEF h
    <3>4. Calm(h, notificationContainer)
      BY <3>2, <3>3 DEF Calm
    <3>5. <<h>> \in Seq(Frame) /\ FramesOf(<<h>>) = {h}
      BY <3>2, FramesOfFew
    <3>6. AllSilent(<<h>>) /\ \A g \in FramesOf(<<h>>) : Calm(g, notificationContainer)
      BY <3>2, <3>4, <3>5 DEF AllSilent, Silent
    <3>7. stack' = <<h>> \o Tail(stack)
      BY <2>3 DEF h
    <3>8. EarlyOnTop(stack') /\ CalmAbove(stack', notificationContainer)
      <4>1. /\ Tail(stack) \in Seq(Frame)
            /\ NoneEarly(Tail(stack)) /\ CalmAbove(Tail(stack), notificationContainer)
        BY <1>0, <2>1, <2>3
      <4>2. /\ EarlyOnTop(<<h>> \o Tail(stack))
            /\ CalmAbove(<<h>> \o Tail(stack), notificationContainer)
        BY <3>5, <3>6, <4>1, SilentOnTop
      <4>3. QED
        BY <3>7, <4>2
    <3>9. FramesOf(stack') = {h} \cup FramesOf(Tail(stack))
      <4>1. Tail(stack) \in Seq(Frame)
        BY <1>0, <2>3
      <4>2. FramesOf(<<h>> \o Tail(stack)) = FramesOf(<<h>>) \cup FramesOf(Tail(stack))
        BY <3>5, <4>1, FramesOfConcat
      <4>3. QED
        BY <3>5, <3>7, <4>2
    <3>10. QED
      BY <1>1, <3>2, <3>8, <3>9 DEF StackOrder
  <2>4. QED
    BY <1>1, <2>2, <2>3
<1>7. FreshNotes'
  BY <1>1, <1>3, <1>6 DEF SinksInvariant, FreshNotes, WaitingIds
<1>8. ToldSoon'
  <2>1. SUFFICES ASSUME NEW r \in Sinks, NEW id \in DOMAIN told'[r], told'[r][id].type = "application"
                 PROVE  /\ id \in DOMAIN notificationContainer \ WaitingIds
                        /\ notificationContainer[id].type = "application"
                        /\ told'[r][id] = notificationContainer[id] \/ ToBeTold(r, id)'
    BY <1>1 DEF ToldSoon, WaitingIds
  <2>2. CASE r = s /\ id = n.id /\ HeardBy(s, n)
    <3>1. told'[r][id] = n
      BY <1>4, <2>2 DEF Insert
    <3>2. /\ n.id \in DOMAIN notificationContainer \ WaitingIds
          /\ notificationContainer[n.id] = n
      BY <1>0, <1>3, <2>1, <3>1 DEF SinksInvariant, FreshNotes
    <3>3. QED
      BY <2>1, <2>2, <3>1, <3>2
  <2>3. CASE ~(r = s /\ id = n.id /\ HeardBy(s, n))
    <3>1. id \in DOMAIN told[r] /\ told'[r][id] = told[r][id]
      <4>1. CASE r = s /\ HeardBy(s, n)
        <5>1. told'[r] = Insert(told[r], n.id, n) /\ id # n.id
          BY <1>4, <2>3, <4>1
        <5>2. QED
          BY <2>1, <5>1 DEF Insert
      <4>2. CASE ~(r = s /\ HeardBy(s, n))
        BY <1>4, <2>1, <4>2
      <4>3. QED
        BY <4>1, <4>2
    <3>2. /\ id \in DOMAIN notificationContainer \ WaitingIds
          /\ notificationContainer[id].type = "application"
          /\ told[r][id] = notificationContainer[id] \/ ToBeTold(r, id)
      BY <2>1, <3>1 DEF SinksInvariant, ToldSoon
    <3>3. ~(r = s /\ id = n.id)
      <4>1. SUFFICES ASSUME r = s, id = n.id, s = "dbus", ~dbusRegistered \/ n.type = "system"
                     PROVE  FALSE
        BY <2>3 DEF HeardBy
      <4>2. CASE ~dbusRegistered
        BY <3>1, <4>1, <4>2 DEF SinksInvariant, DBusTold
      <4>3. CASE n.type = "system"
        <5>1. Early(f)
          BY <1>0, <4>1 DEF Early
        <5>2. notificationContainer[n.id] = n
          BY <1>0, <1>3, <5>1 DEF SinksInvariant, FreshNotes
        <5>3. QED
          BY <3>2, <4>1, <4>3, <5>2
      <4>4. QED
        BY <4>1, <4>2, <4>3
    <3>4. ASSUME ToBeTold(r, id)
          PROVE  ToBeTold(r, id)'
      <4>1. PICK g \in FramesOf(stack) : g.op = "updated" /\ g.sink = r /\ g.note.id = id
        BY <3>4 DEF ToBeTold
      <4>2. g # f
        BY <3>3, <4>1
      <4>3. g \in FramesOf(stack')
        BY <1>3, <1>6, <4>1, <4>2
      <4>4. QED
        BY <4>1, <4>3 DEF ToBeTold
    <3>5. QED
      BY <3>1, <3>2, <3>4
  <2>4. QED
    BY <2>2, <2>3
<1>9. DBusTold'
  <2>1. "dbus" \in Sinks
    BY DEF Sinks
  <2>2. ~dbusRegistered => told'["dbus"] = told["dbus"]
    BY <1>4, <2>1 DEF HeardBy
  <2>3. QED
    BY <1>1, <2>2 DEF SinksInvariant, DBusTold
<1>10. QED
  BY <1>5, <1>6, <1>7, <1>8, <1>9 DEF SinksInvariant

\* An emission of what the container holds, to whom it is due, on top of what is left.
LEMMA EmitKeepsSinks ==
    ASSUME NEW n \in Notification, NEW f \in Frame, NEW rest \in Seq(Frame),
           f.op \in {"submitted", "updateTail"},
           NoneEarly(rest), CalmAbove(rest, notificationContainer'),
           AllSilent(rest) \/ Calm(f, notificationContainer'),
           stack' = UpdatedFrames(n) \o <<f>> \o rest,
           n.id \in DOMAIN notificationContainer' \ WaitingIds',
           notificationContainer'[n.id] = n,
           \A g \in FramesOf(rest) : g.op = "updated" /\ g.note.type = "application" =>
                /\ g.note.id \in DOMAIN notificationContainer' \ WaitingIds'
                /\ notificationContainer'[g.note.id] = g.note
    PROVE  /\ StackOrder'
           /\ FreshNotes'
           /\ \A s \in Sinks : ToBeTold(s, n.id)'
           /\ \A g : g.op = "updated" /\ g \in FramesOf(rest) => g \in FramesOf(stack')
<1>1. /\ EarlyOnTop(stack')
      /\ CalmAbove(stack', notificationContainer')
      /\ FramesOf(stack') =
            EmissionOf(n) \cup {f} \cup FramesOf(rest)
  <2> DEFINE stk == UpdatedFrames(n) \o <<f>> \o rest
  <2>1. EarlyOnTop(stk)
    BY EmissionOrder
  <2>2. CalmAbove(stk, notificationContainer')
    BY EmissionOrder
  <2>3. FramesOf(stk) = EmissionOf(n) \cup {f} \cup FramesOf(rest)
    BY FramesOfEmission
  <2>4. stack' = stk
    OBVIOUS
  <2> HIDE DEF stk
  <2>5. QED
    BY <2>1, <2>2, <2>3, <2>4
<1>2. FreshNotes'
  <2>1. SUFFICES ASSUME NEW g \in FramesOf(stack'), g.op = "updated",
                        Early(g) \/ g.note.type = "application"
                 PROVE  /\ g.note.id \in DOMAIN notificationContainer' \ WaitingIds'
                        /\ notificationContainer'[g.note.id] = g.note
    BY DEF FreshNotes
  <2>2. CASE g \in EmissionOf(n)
    <3>1. g.note = n
      BY <2>2 DEF EmissionOf
    <3>2. QED
      BY <3>1
  <2>3. CASE g = f
    BY <2>1, <2>3
  <2>4. CASE g \in FramesOf(rest)
    BY <2>1, <2>4 DEF NoneEarly
  <2>5. QED
    BY <1>1, <2>2, <2>3, <2>4
<1>3. ASSUME NEW s \in Sinks
      PROVE  ToBeTold(s, n.id)'
  <2>1. [op |-> "updated", sink |-> s, note |-> n] \in FramesOf(stack')
    BY <1>1 DEF EmissionOf
  <2>2. QED
    BY <2>1 DEF ToBeTold
<1>4. QED
  BY <1>1, <1>2, <1>3 DEF StackOrder

\* The wait queue holds nothing but notifications.
LEMMA WaitingAreThere ==
    ASSUME WaitQueueConsistent
    PROVE  WaitingIds \subseteq DOMAIN notificationContainer
BY DEF WaitQueueConsistent, WaitingIds

LEMMA RemovesKeepsSinks ==
    ASSUME TypeOK, WaitQueueConsistent, SinksInvariant, NEW id, NEW rest, Removes(id, rest)
    PROVE  SinksInvariant'
<1> DEFINE old == notificationContainer[id]
           after == TimestampFrames(old.group) \o rest
<1>1. /\ id \in DOMAIN notificationContainer /\ stack # <<>> /\ Resumes(rest)
      /\ RemoveNotification(id, rest)
      /\ dbusRegistered' = dbusRegistered
  BY DEF Removes
<1>2. /\ old \in Notification /\ old.group \in GroupRef /\ old.type \in {"system", "application"}
      /\ waitQueue \in Seq(Notification)
      /\ DOMAIN told = Sinks
  BY <1>1 DEF TypeOK, StoresOK, RelayOK, SinksOK, IsStore, Notification
<1>3. /\ DOMAIN notificationContainer' = DOMAIN notificationContainer \ {id}
      /\ \A i \in DOMAIN notificationContainer' :
            notificationContainer'[i] = notificationContainer[i]
  BY RemovesContainer
<1>4. /\ rest \in Seq(Frame) /\ NoneEarly(rest) /\ CalmAbove(rest, notificationContainer)
      /\ \A f : f.op = "updated" => (f \in FramesOf(rest) <=> f \in FramesOf(stack))
      /\ ~Calm(Head(stack), notificationContainer) => AllSilent(rest)
  BY <1>1, ResumesKeeps DEF SinksInvariant
<1>5. AllSilent(rest) \/ old.type = "system"
  BY <1>1, <1>4 DEF Removes, Calm
<1>6. CalmAbove(rest, notificationContainer')
  BY <1>3, <1>4, CalmStays
<1>7. /\ after \in Seq(Frame) /\ NoneEarly(after)
      /\ CalmAbove(after, notificationContainer')
      /\ \A f : f.op = "updated" => (f \in FramesOf(after) <=> f \in FramesOf(stack))
  <2>1. after \in Seq(Frame) /\ NoneEarly(after)
    BY <1>2, <1>4, TimestampOrder
  <2>2. CalmAbove(after, notificationContainer')
    BY <1>2, <1>4, <1>6, TimestampOrder
  <2>3. \A f : f.op = "updated" => (f \in FramesOf(after) <=> f \in FramesOf(rest))
    BY <1>2, <1>4, TimestampOrder
  <2>4. QED
    BY <1>4, <2>1, <2>2, <2>3
<1>8. ASSUME NEW f \in FramesOf(after), f.op = "updated", f.note.type = "application"
      PROVE  /\ f.note.id \in DOMAIN notificationContainer' \ WaitingIds
             /\ notificationContainer'[f.note.id] = f.note
  <2>1. f \in FramesOf(stack) /\ f \in FramesOf(rest)
    BY <1>4, <1>7, <1>8
  <2>2. /\ f.note.id \in DOMAIN notificationContainer \ WaitingIds
        /\ notificationContainer[f.note.id] = f.note
    BY <1>8, <2>1 DEF SinksInvariant, FreshNotes
  <2>3. old.type = "system"
    BY <1>5, <1>8, <2>1 DEF AllSilent, Silent
  <2>4. QED
    BY <1>3, <1>8, <2>2, <2>3
<1> HIDE DEF old
<1>9. \/ /\ WaitQueueIndices(id) # {}
         /\ waitQueue' = TakeFromWaitQueue(id)
         /\ stack' = after
         /\ told' = told
      \/ /\ WaitQueueIndices(id) = {}
         /\ TellRemoved(id)
         /\ Relay(after) \/ (stack' = after /\ waitQueue' = waitQueue)
  BY <1>1 DEF RemoveNotification, old
<1> HIDE DEF after
<1>10. CASE WaitQueueIndices(id) # {}
  <2>1. waitQueue' = TakeFromWaitQueue(id) /\ stack' = after /\ told' = told
    BY <1>9, <1>10
  <2>2. WaitingIds' = WaitingIds \ {id} /\ id \in WaitingIds
    BY <1>2, <1>10, <2>1, TakeIds, WaitingHasIndex
  <2>3. StackOrder'
    BY <1>7, <2>1, NoneEarlyOrder DEF StackOrder
  <2>4. FreshNotes'
    BY <1>7, <1>8, <2>1, <2>2 DEF FreshNotes, NoneEarly
  <2>5. CompositorKnows'
    BY <1>3, <2>1, <2>2 DEF SinksInvariant, CompositorKnows
  <2>6. ASSUME NEW s, NEW i, ToBeTold(s, i)
        PROVE  ToBeTold(s, i)'
    BY <1>7, <2>1, <2>6 DEF ToBeTold
  <2>7. ToldSoon'
    BY <1>3, <2>1, <2>2, <2>6 DEF SinksInvariant, ToldSoon
  <2>8. QED
    BY <1>1, <2>1, <2>3, <2>4, <2>5, <2>7 DEF SinksInvariant, DBusTold
<1>11. CASE WaitQueueIndices(id) = {}
  <2>1. \A s \in Sinks : /\ DOMAIN told'[s] = DOMAIN told[s] \ {id}
                         /\ \A i \in DOMAIN told'[s] : told'[s][i] = told[s][i]
    <3>1. \A f : /\ DOMAIN Without(f, id) = DOMAIN f \ {id}
                 /\ \A i \in DOMAIN Without(f, id) : Without(f, id)[i] = f[i]
      BY DEF Without, Restrict
    <3>2. \A s \in Sinks : told'[s] = Without(told[s], id)
      BY <1>9, <1>11 DEF TellRemoved
    <3>3. QED
      BY <3>1, <3>2
  <2>2. id \notin WaitingIds
    BY <1>11, WaitingHasIndex
  <2>3. /\ StackOrder' /\ FreshNotes'
        /\ WaitingIds' \subseteq WaitingIds
        /\ \A g : g.op = "updated" /\ g \in FramesOf(stack) => g \in FramesOf(stack')
    <3>1. CASE stack' = after /\ WaitingIds' = WaitingIds
      <4>1. StackOrder'
        BY <1>7, <3>1, NoneEarlyOrder DEF StackOrder
      <4>2. FreshNotes'
        BY <1>7, <1>8, <3>1 DEF FreshNotes, NoneEarly
      <4>3. QED
        BY <1>7, <3>1, <4>1, <4>2
    <3>2. ASSUME NEW n \in Notification, n.id \in WaitingIds, n.id \in DOMAIN notificationContainer,
                 notificationContainer[n.id] = n, WaitingIds' = WaitingIds \ {n.id}, Emit(n, after)
          PROVE  /\ StackOrder' /\ FreshNotes'
                 /\ \A g : g.op = "updated" /\ g \in FramesOf(stack) => g \in FramesOf(stack')
      <4> DEFINE f == SubmittedFrame(n.id)
      <4>1. f \in Frame /\ f.op = "submitted" /\ Calm(f, notificationContainer')
        BY FrameTypes DEF Notification, SubmittedFrame, Calm
      <4>2. stack' = UpdatedFrames(n) \o <<f>> \o after
        BY <3>2 DEF Emit
      <4> HIDE DEF f
      <4>3. /\ n.id \in DOMAIN notificationContainer' \ WaitingIds'
            /\ notificationContainer'[n.id] = n
        BY <1>3, <2>2, <3>2
      <4>4. \A g \in FramesOf(after) : g.op = "updated" /\ g.note.type = "application" =>
                /\ g.note.id \in DOMAIN notificationContainer' \ WaitingIds'
                /\ notificationContainer'[g.note.id] = g.note
        BY <1>8, <3>2
      <4>5. /\ StackOrder' /\ FreshNotes'
            /\ \A g : g.op = "updated" /\ g \in FramesOf(after) => g \in FramesOf(stack')
        BY <1>7, <4>1, <4>2, <4>3, <4>4, EmitKeepsSinks
      <4>6. QED
        BY <1>7, <4>5
    <3>3. Relays(after) \/ (stack' = after /\ waitQueue' = waitQueue)
      BY <1>2, <1>9, <1>11, RelayRelays
    <3>4. CASE stack' = after /\ waitQueue' = waitQueue
      BY <3>1, <3>4 DEF WaitingIds
    <3>5. CASE Relays(after)
      BY <3>1, <3>2, <3>5 DEF Relays
    <3>6. QED
      BY <3>3, <3>4, <3>5
  <2>4. CompositorKnows'
    <3>1. "compositor" \in Sinks
      BY DEF Sinks
    <3>2. QED
      BY <1>3, <2>1, <2>3, <3>1 DEF SinksInvariant, CompositorKnows
  <2>5. ASSUME NEW s, NEW i, ToBeTold(s, i)
        PROVE  ToBeTold(s, i)'
    BY <2>3, <2>5 DEF ToBeTold
  <2>6. ToldSoon'
    BY <1>3, <2>1, <2>3, <2>5 DEF SinksInvariant, ToldSoon
  <2>7. DBusTold'
    BY <1>1, <2>1 DEF SinksInvariant, DBusTold, Sinks
  <2>8. QED
    BY <2>3, <2>4, <2>6, <2>7 DEF SinksInvariant
<1>12. QED
  BY <1>10, <1>11

\* What silent frames leave: a stack in order, with nobody to be told.
LEMMA AllSilentOrder ==
    ASSUME NEW nc, NEW stk, AllSilent(stk)
    PROVE  NoneEarly(stk) /\ CalmAbove(stk, nc)
BY DEF AllSilent, Silent, NoneEarly, Early, CalmAbove, FramesOf

LEMMA UpdatesKeepsSinks ==
    ASSUME TypeOK, WaitQueueConsistent, KeyedById, SinksInvariant,
           NEW id, NEW p, NEW t, NEW rest, Updates(id, p, t, rest)
    PROVE  SinksInvariant'
<1>0. PICK n : n = Updated(notificationContainer[id], p, t)
  OBVIOUS
<1>1. /\ id \in DOMAIN notificationContainer /\ Resumes(rest)
      /\ UpdateNotification(id, p, t, rest)
      /\ t \in Times /\ p.class \in Class /\ p.persistent \in Flag /\ p.eventType \in EventTypeRef
      /\ UNCHANGED <<told, dbusRegistered>>
  BY DEF Updates
<1>2. waitQueue \in Seq(Notification)
  BY DEF TypeOK, RelayOK
<1>3. /\ DOMAIN notificationContainer' = DOMAIN notificationContainer
      /\ \A i \in DOMAIN notificationContainer : i # id =>
            notificationContainer'[i] = notificationContainer[i]
      /\ notificationContainer'[id] = n /\ n \in Notification /\ n.id = id
      /\ n.group = notificationContainer[id].group
      /\ n.type = notificationContainer[id].type
  <2>1. notificationContainer'[id] = n
    BY <1>0, UpdatesContainer
  <2>2. QED
    BY <2>1, UpdatesContainer
<1>4. n.group \in GroupRef /\ id \in NotificationId
  BY <1>3 DEF Notification
<1>5. rest \in Seq(Frame) /\ AllSilent(rest)
  BY <1>1, ResumesKeeps DEF SinksInvariant, Updates, Calm
<1>6. /\ waitQueue' = UpdateWaiting(id, p, t)
      /\ stack' = IF WaitQueueIndices(id) # {}
                  THEN TimestampFrames(n.group) \o rest
                  ELSE UpdatedFrames(n) \o <<UpdateTailFrame(id)>> \o rest
  BY <1>0, <1>1 DEF UpdateNotification
<1>7. WaitingIds' = WaitingIds
  BY <1>1, <1>2, <1>6, UpdateIds
<1>8. \A f \in FramesOf(stack) : f.op # "updated"
  BY <1>1, <1>5, ResumesKeeps DEF SinksInvariant, AllSilent, Silent
<1>9. \A i \in DOMAIN notificationContainer' : notificationContainer'[i].type = notificationContainer[i].type
  BY <1>3
<1>10. CompositorKnows' /\ DBusTold'
  BY <1>1, <1>3, <1>7, <1>9 DEF SinksInvariant, CompositorKnows, DBusTold
<1>11. ASSUME NEW s \in Sinks, NEW i \in DOMAIN told[s], told[s][i].type = "application"
       PROVE  /\ i \in DOMAIN notificationContainer' \ WaitingIds'
              /\ notificationContainer'[i].type = "application"
              /\ i # id => told[s][i] = notificationContainer'[i]
  <2>1. /\ i \in DOMAIN notificationContainer \ WaitingIds
        /\ notificationContainer[i].type = "application"
        /\ told[s][i] = notificationContainer[i]
    BY <1>8, <1>11 DEF SinksInvariant, ToldSoon, ToBeTold
  <2>2. QED
    BY <1>3, <1>7, <1>9, <2>1
<1>12. CASE WaitQueueIndices(id) # {}
  <2>1. AllSilent(stack')
    <3>1. stack' = TimestampFrames(n.group) \o rest
      BY <1>6, <1>12
    <3>2. NoneEarly(rest) /\ CalmAbove(rest, notificationContainer)
      BY <1>5, AllSilentOrder
    <3>3. QED
      BY <1>4, <1>5, <3>1, <3>2, TimestampOrder
  <2>2. StackOrder' /\ FreshNotes'
    BY <2>1, AllSilentOrder, NoneEarlyOrder DEF StackOrder, FreshNotes, AllSilent, Silent
  <2>3. id \in WaitingIds
    BY <1>12, WaitingHasIndex
  <2>4. ToldSoon'
    BY <1>1, <1>7, <1>11, <2>3 DEF ToldSoon
  <2>5. QED
    BY <1>10, <2>2, <2>4 DEF SinksInvariant
<1>13. CASE WaitQueueIndices(id) = {}
  <2> DEFINE f == UpdateTailFrame(id)
  <2>1. f \in Frame /\ f.op = "updateTail"
    BY <1>4, FrameTypes DEF UpdateTailFrame
  <2>2. stack' = UpdatedFrames(n) \o <<f>> \o rest
    BY <1>6, <1>13
  <2> HIDE DEF f
  <2>3. NoneEarly(rest) /\ CalmAbove(rest, notificationContainer')
    BY <1>5, AllSilentOrder
  <2>4. n.id \in DOMAIN notificationContainer' \ WaitingIds' /\ notificationContainer'[n.id] = n
    BY <1>1, <1>3, <1>7, <1>13, WaitingHasIndex
  <2>5. \A g \in FramesOf(rest) : g.op = "updated" /\ g.note.type = "application" =>
            /\ g.note.id \in DOMAIN notificationContainer' \ WaitingIds'
            /\ notificationContainer'[g.note.id] = g.note
    BY <1>5 DEF AllSilent, Silent
  <2>6. f.op \in {"submitted", "updateTail"} /\ n \in Notification /\ rest \in Seq(Frame)
        /\ (AllSilent(rest) \/ Calm(f, notificationContainer'))
    BY <1>3, <1>5, <2>1
  <2>7. StackOrder' /\ FreshNotes' /\ \A s \in Sinks : ToBeTold(s, n.id)'
    BY <2>1, <2>2, <2>3, <2>4, <2>5, <2>6, EmitKeepsSinks
  <2>8. ToldSoon'
    <3>1. SUFFICES ASSUME NEW s \in Sinks, NEW i \in DOMAIN told[s], told[s][i].type = "application"
                   PROVE  /\ i \in DOMAIN notificationContainer' \ WaitingIds'
                          /\ notificationContainer'[i].type = "application"
                          /\ told[s][i] = notificationContainer'[i] \/ ToBeTold(s, i)'
      BY <1>1 DEF ToldSoon
    <3>2. QED
      BY <1>3, <1>11, <2>7, <3>1
  <2>9. QED
    BY <1>10, <2>7, <2>8 DEF SinksInvariant
<1>14. QED
  BY <1>12, <1>13

LEMMA AddsKeepsSinks ==
    ASSUME TypeOK, WaitQueueConsistent, SinksInvariant, NEW n, NEW rest, Adds(n, rest)
    PROVE  SinksInvariant'
<1>1. /\ n \in Notification /\ n.id \notin DOMAIN notificationContainer
      /\ stack = <<>> /\ Resumes(rest) /\ Submit(n, rest)
      /\ UNCHANGED <<told, dbusRegistered>>
  BY DEF Adds
<1>2. waitQueue \in Seq(Notification)
  BY DEF TypeOK, RelayOK
<1>3. /\ DOMAIN notificationContainer' = DOMAIN notificationContainer \cup {n.id}
      /\ \A i \in DOMAIN notificationContainer :
            i # n.id /\ notificationContainer'[i] = notificationContainer[i]
      /\ notificationContainer'[n.id] = n
  BY AddsContainer
<1>4. rest \in Seq(Frame) /\ AllSilent(rest)
  BY <1>1, ResumesKeeps DEF SinksInvariant
<1>5. NoneEarly(rest) /\ CalmAbove(rest, notificationContainer') /\ \A g \in FramesOf(rest) : g.op # "updated"
  BY <1>4, AllSilentOrder DEF AllSilent, Silent
<1>6. \A s, i : ~ToBeTold(s, i)
  BY <1>1, FramesOfFew DEF ToBeTold
<1>7. n.id \notin WaitingIds
  BY <1>1, WaitingAreThere
<1>8. StackOrder' /\ FreshNotes' /\ WaitingIds' \subseteq WaitingIds \cup {n.id}
  <2>1. CASE waitQueue' = Enqueue(n) /\ stack' = rest
    <3>1. StackOrder' /\ FreshNotes'
      BY <1>5, <2>1, NoneEarlyOrder DEF StackOrder, FreshNotes
    <3>2. QED
      BY <1>1, <1>2, <2>1, <3>1, EnqueueIds
  <2>2. CASE waitQueue' = waitQueue /\ Emit(n, rest)
    <3> DEFINE f == SubmittedFrame(n.id)
    <3>1. f \in Frame /\ f.op = "submitted" /\ Calm(f, notificationContainer')
      BY <1>1, FrameTypes DEF Notification, SubmittedFrame, Calm
    <3>2. stack' = UpdatedFrames(n) \o <<f>> \o rest
      BY <2>2 DEF Emit
    <3> HIDE DEF f
    <3>3. WaitingIds' = WaitingIds
      BY <2>2 DEF WaitingIds
    <3>4. n.id \in DOMAIN notificationContainer' \ WaitingIds' /\ notificationContainer'[n.id] = n
      BY <1>3, <1>7, <3>3
    <3>5. StackOrder' /\ FreshNotes'
      BY <1>1, <1>4, <1>5, <3>1, <3>2, <3>4, EmitKeepsSinks
    <3>6. QED
      BY <3>3, <3>5
  <2>3. QED
    BY <1>1, <2>1, <2>2 DEF Submit
<1>9. CompositorKnows' /\ ToldSoon' /\ DBusTold'
  BY <1>1, <1>3, <1>6, <1>8 DEF SinksInvariant, CompositorKnows, ToldSoon, DBusTold
<1>10. QED
  BY <1>8, <1>9 DEF SinksInvariant

LEMMA RelayKeepsSinks ==
    ASSUME TypeOK, WaitQueueConsistent, SinksInvariant, RelayNextNotification
    PROVE  SinksInvariant'
<1>1. /\ stack = <<>> /\ Relay(<<>>)
      /\ UNCHANGED <<notificationContainer, told, dbusRegistered>>
  BY DEF RelayNextNotification, Idle, sinkVars
<1>2. Relays(<<>>)
  BY <1>1, RelayRelays DEF TypeOK, RelayOK
<1>3. <<>> \in Seq(Frame) /\ FramesOf(<<>>) = {}
  BY FramesOfFew
<1>4. NoneEarly(<<>>) /\ CalmAbove(<<>>, notificationContainer')
  BY <1>3, AllSilentOrder DEF AllSilent
<1>5. StackOrder' /\ FreshNotes' /\ WaitingIds' \subseteq WaitingIds
  <2>1. CASE stack' = <<>> /\ WaitingIds' = WaitingIds
    BY <1>3, <1>4, <2>1, NoneEarlyOrder DEF StackOrder, FreshNotes
  <2>2. ASSUME NEW n \in Notification, n.id \in WaitingIds, n.id \in DOMAIN notificationContainer,
               notificationContainer[n.id] = n, WaitingIds' = WaitingIds \ {n.id}, Emit(n, <<>>)
        PROVE  StackOrder' /\ FreshNotes'
    <3> DEFINE f == SubmittedFrame(n.id)
    <3>1. f \in Frame /\ f.op = "submitted" /\ Calm(f, notificationContainer')
      BY FrameTypes DEF Notification, SubmittedFrame, Calm
    <3>2. stack' = UpdatedFrames(n) \o <<f>> \o <<>>
      BY <2>2 DEF Emit
    <3> HIDE DEF f
    <3>3. n.id \in DOMAIN notificationContainer' \ WaitingIds' /\ notificationContainer'[n.id] = n
      BY <1>1, <2>2
    <3>4. QED
      BY <1>3, <1>4, <3>1, <3>2, <3>3, EmitKeepsSinks
  <2>3. QED
    BY <1>2, <2>1, <2>2 DEF Relays
<1>6. \A s, i : ~ToBeTold(s, i)
  BY <1>1, <1>3 DEF ToBeTold
<1>7. CompositorKnows' /\ ToldSoon' /\ DBusTold'
  BY <1>1, <1>5, <1>6 DEF SinksInvariant, CompositorKnows, ToldSoon, DBusTold
<1>8. QED
  BY <1>5, <1>7 DEF SinksInvariant

\* A sink that registers is sent everything; it is right when nothing waits.
LEMMA RegisterKeepsSinks ==
    ASSUME TypeOK, SinkRegistration # "any", SinksInvariant, RegisterSink
    PROVE  SinksInvariant'
<1> DEFINE sent == {id \in DOMAIN notificationContainer : notificationContainer[id].type # "system"}
<1>1. /\ stack = <<>> /\ stack' = <<>> /\ waitQueue = <<>>
      /\ UNCHANGED <<notificationContainer, waitQueue>>
      /\ dbusRegistered' = TRUE
      /\ told' = [told EXCEPT !["dbus"] =
            [id \in DOMAIN @ \cup sent |->
                IF id \in sent THEN notificationContainer[id] ELSE @[id]]]
  BY DEF RegisterSink, Idle
<1>2. DOMAIN told = Sinks /\ "dbus" \in Sinks /\ "compositor" \in Sinks
  BY DEF TypeOK, SinksOK, Sinks
<1>3. /\ \A s \in Sinks : s # "dbus" => told'[s] = told[s]
      /\ \A id \in DOMAIN told'["dbus"] :
            \/ id \in sent /\ told'["dbus"][id] = notificationContainer[id]
            \/ id \in DOMAIN told["dbus"] /\ told'["dbus"][id] = told["dbus"][id]
  BY <1>1, <1>2
<1>4. WaitingIds = {} /\ WaitingIds' = {}
  BY <1>1 DEF WaitingIds
<1>5. \A s, i : ~ToBeTold(s, i)
  BY <1>1, FramesOfFew DEF ToBeTold
<1>6. ToldSoon'
  <2>1. SUFFICES ASSUME NEW s \in Sinks, NEW id \in DOMAIN told'[s], told'[s][id].type = "application"
                 PROVE  /\ id \in DOMAIN notificationContainer
                        /\ notificationContainer[id].type = "application"
                        /\ told'[s][id] = notificationContainer[id]
    BY <1>1, <1>4 DEF ToldSoon
  <2>2. CASE id \in DOMAIN told[s] /\ told'[s][id] = told[s][id]
    BY <1>4, <1>5, <2>1, <2>2 DEF SinksInvariant, ToldSoon
  <2>3. CASE id \in sent /\ told'[s][id] = notificationContainer[id]
    BY <2>1, <2>3
  <2>4. QED
    BY <1>3, <2>1, <2>2, <2>3
<1>7. CompositorKnows' /\ DBusTold' /\ StackOrder' /\ FreshNotes'
  BY <1>1, <1>2, <1>3, <1>4 DEF SinksInvariant, CompositorKnows, DBusTold, StackOrder, FreshNotes
<1>8. QED
  BY <1>6, <1>7 DEF SinksInvariant

LEMMA UnregisterKeepsSinks ==
    ASSUME TypeOK, SinksInvariant, UnregisterSink
    PROVE  SinksInvariant'
<1>1. /\ stack' = stack /\ UNCHANGED <<notificationContainer, waitQueue>>
      /\ told' = [told EXCEPT !["dbus"] = Empty]
  BY DEF UnregisterSink, Idle
<1>2. DOMAIN told = Sinks /\ "dbus" \in Sinks /\ "compositor" \in Sinks
  BY DEF TypeOK, SinksOK, Sinks
<1>3. DOMAIN told'["dbus"] = {} /\ \A s \in Sinks : s # "dbus" => told'[s] = told[s]
  BY <1>1, <1>2 DEF Empty
<1>4. StackOrder' /\ FreshNotes' /\ CompositorKnows' /\ DBusTold'
  BY <1>1, <1>2, <1>3 DEF SinksInvariant, StackOrder, FreshNotes, CompositorKnows, DBusTold, WaitingIds
<1>5. ToldSoon'
  BY <1>1, <1>3 DEF SinksInvariant, ToldSoon, ToBeTold, WaitingIds
<1>6. QED
  BY <1>4, <1>5 DEF SinksInvariant

\* At a start only the status indicator is told, of everything.
LEMMA StartKeepsSinks ==
    ASSUME TypeOK, DownIsIdle, NothingToldWhileDown, Start
    PROVE  SinksInvariant'
<1>1. /\ stack' = <<PruneFrame>> /\ waitQueue' = <<>> /\ dbusRegistered' = FALSE
      /\ told' = [told EXCEPT !["indicator"] = notificationContainer']
  BY DEF Start, DownIsIdle, NothingToldWhileDown, SinksOK, TypeOK
<1>2. DOMAIN told = Sinks /\ \A s \in Sinks : DOMAIN told[s] = {}
  BY DEF TypeOK, SinksOK, Start, NothingToldWhileDown
<1>3. told'["indicator"] = notificationContainer' /\ \A s \in Sinks : s # "indicator" => DOMAIN told'[s] = {}
  BY <1>1, <1>2 DEF Sinks
<1>4. WaitingIds' = {}
  BY <1>1 DEF WaitingIds
<1>5. AllSilent(stack')
  BY <1>1, FramesOfFew DEF AllSilent, Silent, PruneFrame
<1>6. StackOrder' /\ FreshNotes'
  BY <1>5, AllSilentOrder, NoneEarlyOrder DEF StackOrder, FreshNotes, AllSilent, Silent
<1>7. "dbus" \in Sinks /\ "compositor" \in Sinks
  BY DEF Sinks
<1>8. CompositorKnows' /\ DBusTold' /\ ToldSoon'
  BY <1>3, <1>4, <1>7 DEF CompositorKnows, DBusTold, ToldSoon
<1>9. QED
  BY <1>6, <1>8 DEF SinksInvariant

\* Nobody was told anything: at the beginning and after a crash.
LEMMA NothingTold ==
    ASSUME stack = <<>>, \A s \in Sinks : DOMAIN told[s] = {}
    PROVE  SinksInvariant
<1>1. AllSilent(stack)
  BY FramesOfFew DEF AllSilent
<1>2. StackOrder /\ FreshNotes
  BY <1>1, AllSilentOrder, NoneEarlyOrder DEF StackOrder, FreshNotes, AllSilent, Silent
<1>3. QED
  BY <1>2 DEF SinksInvariant, CompositorKnows, DBusTold, ToldSoon, Sinks

LEMMA SinksInvariantStep ==
    ASSUME TypeOK, Ground, SinkRegistration # "any", SinksInvariant, [Next]_vars
    PROVE  SinksInvariant'
<1>1. CASE Crash
  <2>1. stack' = <<>> /\ \A s \in Sinks : DOMAIN told'[s] = {}
    BY <1>1 DEF Crash, Empty
  <2>2. StackOrder' /\ FreshNotes'
    <3>1. AllSilent(stack')
      BY <2>1, FramesOfFew DEF AllSilent
    <3>2. QED
      BY <3>1, AllSilentOrder, NoneEarlyOrder DEF StackOrder, FreshNotes, AllSilent, Silent
  <2>3. QED
    BY <2>1, <2>2 DEF SinksInvariant, CompositorKnows, DBusTold, ToldSoon, Sinks
<1>2. CASE UNCHANGED vars
  BY <1>2 DEF vars, sinkVars, SinksInvariant, StackOrder, FreshNotes, CompositorKnows, DBusTold,
              ToldSoon, ToBeTold, WaitingIds
<1>3. CASE Next
  BY <1>1, <1>3, StepTells, SilentlyKeepsSinks, DeliverUpdatedKeepsSinks, RemovesKeepsSinks,
     UpdatesKeepsSinks, AddsKeepsSinks, RelayKeepsSinks, RegisterKeepsSinks,
     UnregisterKeepsSinks, StartKeepsSinks DEF Ground
<1>4. QED
  BY <1>2, <1>3

\* Between events, every sink's knowledge of an application notification is the
\* container's, whatever calls were nested in which, as long as D-Bus sinks register
\* only when nothing waits (a sink that registers is sent what waits as well,
\* dbusinterfacenotificationsink.cpp:34-42, and then knows of it too early).
THEOREM SinksAlwaysConsistent == SinkRegistration # "any" /\ Spec => []SinksConsistent
<1>1. Init => SinksInvariant
  BY NothingTold DEF Init, Empty
<1>2. (SinkRegistration # "any") /\ TypeOK /\ Ground /\ SinksInvariant /\ [Next]_vars => SinksInvariant'
  BY SinksInvariantStep
<1>3. SinksInvariant => SinksConsistent
  <2>1. stack = <<>> => \A s, i : ~ToBeTold(s, i)
    BY FramesOfFew DEF ToBeTold
  <2>2. QED
    BY <2>1 DEF SinksInvariant, ToldSoon, SinksConsistent, Idle
<1>4. CASE SinkRegistration = "any"
  BY <1>4
<1>5. CASE SinkRegistration # "any"
  <2>1. TypeOK /\ Ground /\ SinksInvariant /\ [Next]_vars => SinksInvariant'
    BY <1>2, <1>5
  <2>2. QED
    BY <1>1, <1>3, <2>1, TypeCorrect, GroundHolds, PTL DEF Spec
<1>6. QED
  BY <1>4, <1>5

-----------------------------------------------------------------------------
(* Nobody is forgotten: whoever the container holds waits, or the status   *)
(* indicator knows of him or is about to be told.                          *)

NobodyForgotten ==
    \A id \in DOMAIN notificationContainer :
        id \in WaitingIds \cup DOMAIN told["indicator"] \/ ToBeTold("indicator", id)

\* A new notification finds the wait queue full only when there are more identifiers
\* than places: all that wait are in the container, and the new one is not.
LEMMA RoomForOneMore ==
    ASSUME TypeOK, WaitQueueConsistent, MaxNotificationId <= MaxWaitQueueSize,
           NEW id \in NotificationId, id \notin DOMAIN notificationContainer
    PROVE  Len(waitQueue) < MaxWaitQueueSize
<1> DEFINE others == NotificationId \ {id}
           idOf == [i \in 1 .. Len(waitQueue) |-> waitQueue[i].id]
<1>1. MaxNotificationId \in Nat /\ MaxWaitQueueSize \in Nat
  BY ConstantsAssumption DEF ConstantsAssumption
<1>2. Len(waitQueue) \in Nat /\ DOMAIN waitQueue = 1 .. Len(waitQueue)
  BY DEF TypeOK, RelayOK
<1>3. idOf \in Injection(1 .. Len(waitQueue), others)
  <2>1. \A i \in 1 .. Len(waitQueue) : waitQueue[i].id \in others
    BY <1>2 DEF WaitQueueConsistent, TypeOK, StoresOK, IsStore
  <2>2. \A i, j \in 1 .. Len(waitQueue) : waitQueue[i].id = waitQueue[j].id => i = j
    BY <1>2 DEF WaitQueueConsistent
  <2> HIDE DEF others
  <2>3. QED
    BY <2>1, <2>2 DEF Injection, IsInjective
<1>4. IsFiniteSet(NotificationId) /\ Cardinality(NotificationId) = MaxNotificationId
  BY <1>1, FS_Interval DEF NotificationId
<1>5. IsFiniteSet(others) /\ Cardinality(others) = MaxNotificationId - 1
  BY <1>4, FS_RemoveElement
<1>6. Cardinality(1 .. Len(waitQueue)) = Len(waitQueue)
  BY <1>2, FS_Interval
<1>7. Cardinality(1 .. Len(waitQueue)) <= Cardinality(others)
  <2> HIDE DEF idOf, others
  <2>1. QED
    BY <1>3, <1>5, FS_Injection
<1>8. QED
  BY <1>1, <1>2, <1>5, <1>6, <1>7

\* An emission reaches the status indicator, and keeps what was due before.
LEMMA EmissionTells ==
    ASSUME NEW n \in Notification, NEW f \in Frame, NEW rest \in Seq(Frame),
           stack' = UpdatedFrames(n) \o <<f>> \o rest
    PROVE  ToBeTold("indicator", n.id)' /\ FramesOf(rest) \subseteq FramesOf(stack')
<1>1. FramesOf(stack') = EmissionOf(n) \cup {f} \cup FramesOf(rest)
  BY FramesOfEmission
<1>2. \E g \in EmissionOf(n) : g.op = "updated" /\ g.sink = "indicator" /\ g.note = n
  <2> DEFINE g == [op |-> "updated", sink |-> "indicator", note |-> n]
  <2>1. g \in EmissionOf(n)
    BY DEF EmissionOf, Sinks
  <2>2. g.op = "updated" /\ g.sink = "indicator" /\ g.note = n
    OBVIOUS
  <2> HIDE DEF g
  <2>3. QED
    BY <2>1, <2>2
<1>3. ToBeTold("indicator", n.id)'
  BY <1>1, <1>2 DEF ToBeTold
<1>4. QED
  BY <1>1, <1>3

LEMMA RemovesForgetsNobody ==
    ASSUME TypeOK, WaitQueueConsistent, NobodyForgotten, NEW id, NEW rest, Removes(id, rest)
    PROVE  NobodyForgotten'
<1> DEFINE after == TimestampFrames(notificationContainer[id].group) \o rest
<1>1. /\ id \in DOMAIN notificationContainer /\ Resumes(rest) /\ RemoveNotification(id, rest)
      /\ waitQueue \in Seq(Notification) /\ DOMAIN told = Sinks /\ "indicator" \in Sinks
      /\ notificationContainer[id].group \in GroupRef
  BY DEF Removes, TypeOK, StoresOK, RelayOK, SinksOK, IsStore, Notification, Sinks
<1>2. /\ DOMAIN notificationContainer' = DOMAIN notificationContainer \ {id}
      /\ \A i \in DOMAIN notificationContainer' : notificationContainer'[i] = notificationContainer[i]
  BY RemovesContainer
<1>3. after \in Seq(Frame) /\ \A f \in FramesOf(stack) : f.op = "updated" => f \in FramesOf(after)
  <2>1. rest \in Seq(Frame) /\ TimestampFrames(notificationContainer[id].group) \in Seq(Frame)
    BY <1>1, ResumesFrames, TimestampFramesType
  <2>2. FramesOf(after) = FramesOf(TimestampFrames(notificationContainer[id].group)) \cup FramesOf(rest)
    BY <2>1, FramesOfConcat
  <2>3. QED
    BY <1>1, <2>1, <2>2, ResumesFrames, ConcatProperties
<1>4. \/ /\ WaitQueueIndices(id) # {}
         /\ waitQueue' = TakeFromWaitQueue(id)
         /\ stack' = after
         /\ told' = told
      \/ /\ WaitQueueIndices(id) = {}
         /\ TellRemoved(id)
         /\ Relay(after) \/ (stack' = after /\ waitQueue' = waitQueue)
  BY <1>1 DEF RemoveNotification
<1> HIDE DEF after
<1>5. ASSUME FramesOf(after) \subseteq FramesOf(stack'), NEW i, ToBeTold("indicator", i)
      PROVE  ToBeTold("indicator", i)'
  BY <1>3, <1>5 DEF ToBeTold
<1>6. CASE WaitQueueIndices(id) # {}
  <2>1. WaitingIds' = WaitingIds \ {id}
    BY <1>1, <1>4, <1>6, TakeIds
  <2>2. QED
    BY <1>2, <1>4, <1>5, <1>6, <2>1 DEF NobodyForgotten
<1>7. CASE WaitQueueIndices(id) = {}
  <2>1. DOMAIN told'["indicator"] = DOMAIN told["indicator"] \ {id}
    BY <1>1, <1>4, <1>7 DEF TellRemoved, Without, Restrict
  <2>2. CASE stack' = after /\ WaitingIds' = WaitingIds
    BY <1>2, <1>5, <2>1, <2>2 DEF NobodyForgotten
  <2>3. ASSUME NEW n \in Notification, WaitingIds' = WaitingIds \ {n.id}, Emit(n, after)
        PROVE  NobodyForgotten'
    <3>1. stack' = UpdatedFrames(n) \o <<SubmittedFrame(n.id)>> \o after
          /\ SubmittedFrame(n.id) \in Frame
      BY <2>3, FrameTypes DEF Emit, Notification
    <3>2. ToBeTold("indicator", n.id)' /\ FramesOf(after) \subseteq FramesOf(stack')
      BY <1>3, <3>1, EmissionTells
    <3>3. QED
      BY <1>2, <1>5, <2>1, <2>3, <3>2 DEF NobodyForgotten
  <2>4. Relays(after) \/ (stack' = after /\ waitQueue' = waitQueue)
    BY <1>1, <1>4, <1>7, RelayRelays
  <2>5. CASE stack' = after /\ waitQueue' = waitQueue
    BY <2>2, <2>5 DEF WaitingIds
  <2>6. QED
    BY <2>2, <2>3, <2>4, <2>5 DEF Relays
<1>8. QED
  BY <1>6, <1>7

LEMMA UpdatesForgetsNobody ==
    ASSUME TypeOK, KeyedById, NobodyForgotten,
           NEW id, NEW p, NEW t, NEW rest, Updates(id, p, t, rest)
    PROVE  NobodyForgotten'
<1>0. PICK n : n = Updated(notificationContainer[id], p, t)
  OBVIOUS
<1>1. /\ Resumes(rest) /\ UpdateNotification(id, p, t, rest) /\ told' = told
      /\ waitQueue \in Seq(Notification)
      /\ t \in Times /\ p.class \in Class /\ p.persistent \in Flag /\ p.eventType \in EventTypeRef
  BY DEF Updates, TypeOK, RelayOK
<1>2. /\ DOMAIN notificationContainer' = DOMAIN notificationContainer
      /\ n \in Notification /\ n.group \in GroupRef /\ id \in NotificationId
  <2>1. n = notificationContainer'[id]
    BY <1>0, UpdatesContainer
  <2>2. n \in Notification /\ n.id = id /\ DOMAIN notificationContainer' = DOMAIN notificationContainer
    BY <2>1, UpdatesContainer
  <2>3. QED
    BY <2>2 DEF Notification
<1>3. WaitingIds' = WaitingIds
  BY <1>1, UpdateIds DEF UpdateNotification
<1>4. /\ rest \in Seq(Frame)
      /\ \A f \in FramesOf(stack) : f.op = "updated" => f \in FramesOf(rest)
  BY <1>1, ResumesFrames
<1>5. FramesOf(rest) \subseteq FramesOf(stack')
  <2>1. CASE stack' = TimestampFrames(n.group) \o rest
    BY <1>2, <1>4, <2>1, TimestampFramesType, FramesOfConcat
  <2>2. CASE stack' = UpdatedFrames(n) \o <<UpdateTailFrame(id)>> \o rest
    BY <1>2, <1>4, <2>2, FrameTypes, EmissionTells
  <2>3. QED
    BY <1>0, <1>1, <2>1, <2>2 DEF UpdateNotification
<1>6. QED
  BY <1>1, <1>2, <1>3, <1>4, <1>5 DEF NobodyForgotten, ToBeTold

LEMMA AddsForgetsNobody ==
    ASSUME TypeOK, WaitQueueConsistent, MaxNotificationId <= MaxWaitQueueSize, NobodyForgotten,
           NEW n, NEW rest, Adds(n, rest)
    PROVE  NobodyForgotten'
<1>1. /\ n \in Notification /\ n.id \notin DOMAIN notificationContainer /\ n.id \in NotificationId
      /\ Resumes(rest) /\ Submit(n, rest) /\ told' = told
      /\ waitQueue \in Seq(Notification) /\ stack = <<>>
  BY DEF Adds, TypeOK, RelayOK, Notification
<1>2. DOMAIN notificationContainer' = DOMAIN notificationContainer \cup {n.id}
  BY AddsContainer
<1>3. \A i : ~ToBeTold("indicator", i)
  BY <1>1, FramesOfFew DEF ToBeTold
<1>4. CASE waitQueue' = Enqueue(n)
  <2>1. Len(waitQueue) < MaxWaitQueueSize
    BY <1>1, RoomForOneMore
  <2>2. WaitingIds \subseteq WaitingIds' /\ n.id \in WaitingIds'
    BY <1>1, <1>4, <2>1, EnqueueIds
  <2>3. QED
    BY <1>1, <1>2, <1>3, <2>2 DEF NobodyForgotten
<1>5. CASE waitQueue' = waitQueue /\ Emit(n, rest)
  <2>1. stack' = UpdatedFrames(n) \o <<SubmittedFrame(n.id)>> \o rest
        /\ SubmittedFrame(n.id) \in Frame /\ rest \in Seq(Frame)
    BY <1>1, <1>5, FrameTypes, ResumesFrames DEF Emit
  <2>2. ToBeTold("indicator", n.id)'
    BY <1>1, <2>1, EmissionTells
  <2>3. WaitingIds' = WaitingIds
    BY <1>5 DEF WaitingIds
  <2>4. QED
    BY <1>1, <1>2, <1>3, <2>2, <2>3 DEF NobodyForgotten
<1>6. QED
  BY <1>1, <1>4, <1>5 DEF Submit

LEMMA RelayForgetsNobody ==
    ASSUME TypeOK, WaitQueueConsistent, NobodyForgotten, RelayNextNotification
    PROVE  NobodyForgotten'
<1>1. stack = <<>> /\ Relay(<<>>) /\ UNCHANGED <<notificationContainer, told>>
  BY DEF RelayNextNotification, Idle, sinkVars
<1>2. Relays(<<>>)
  BY <1>1, RelayRelays DEF TypeOK, RelayOK
<1>3. \A i : ~ToBeTold("indicator", i)
  BY <1>1, FramesOfFew DEF ToBeTold
<1>4. CASE WaitingIds' = WaitingIds
  BY <1>1, <1>3, <1>4 DEF NobodyForgotten
<1>5. ASSUME NEW n \in Notification, WaitingIds' = WaitingIds \ {n.id}, Emit(n, <<>>)
      PROVE  NobodyForgotten'
  <2>1. stack' = UpdatedFrames(n) \o <<SubmittedFrame(n.id)>> \o <<>>
        /\ SubmittedFrame(n.id) \in Frame /\ <<>> \in Seq(Frame)
    BY <1>5, FrameTypes DEF Emit, Notification
  <2>2. ToBeTold("indicator", n.id)'
    BY <2>1, EmissionTells
  <2>3. QED
    BY <1>1, <1>3, <1>5, <2>2 DEF NobodyForgotten
<1>6. QED
  BY <1>2, <1>4, <1>5 DEF Relays

LEMMA NobodyForgottenStep ==
    ASSUME TypeOK, Ground, MaxNotificationId <= MaxWaitQueueSize, NobodyForgotten, [Next]_vars
    PROVE  NobodyForgotten'
<1>1. CASE Silently
  <2>1. \A f \in FramesOf(stack) : f.op = "updated" => f \in FramesOf(stack')
    BY <1>1, ResumesFrames DEF Silently
  <2>2. QED
    BY <1>1, <2>1 DEF Silently, NobodyForgotten, ToBeTold, WaitingIds
<1>2. CASE DeliverUpdated
  <2> DEFINE f == Head(stack)
  <2>1. /\ f \in Frame /\ f.op = "updated" /\ f.sink \in Sinks
        /\ stack # <<>> /\ stack \in Seq(Frame) /\ Tail(stack) \in Seq(Frame)
        /\ DOMAIN told = Sinks
    BY <1>2, TopType, FrameFields DEF DeliverUpdated, Top, TypeOK, CallsOK, SinksOK
  <2>2. FramesOf(stack) = {f} \cup FramesOf(Tail(stack))
    BY <2>1, FramesOfTail
  <2>3. UNCHANGED <<notificationContainer, waitQueue>>
    BY <1>2 DEF DeliverUpdated
  <2>4. FramesOf(Tail(stack)) \subseteq FramesOf(stack')
    <3>1. ASSUME NEW ids \in SUBSET SystemIds(told'["compositor"]),
                 stack' = <<RemoveEachFrame(ids)>> \o Tail(stack)
          PROVE  FramesOf(Tail(stack)) \subseteq FramesOf(stack')
      <4>1. TypeOK'
        BY <1>2, RunFrameType DEF RunFrame
      <4>2. ids \in SUBSET NotificationId
        BY <3>1, <4>1 DEF TypeOK, SinksOK, IsStore, SystemIds, Sinks
      <4>3. <<RemoveEachFrame(ids)>> \in Seq(Frame)
        BY <4>2, FrameTypes
      <4>4. QED
        BY <2>1, <3>1, <4>3, FramesOfConcat
    <3>2. QED
      BY <1>2, <3>1 DEF DeliverUpdated
  <2>5. /\ DOMAIN told["indicator"] \subseteq DOMAIN told'["indicator"]
        /\ f.sink = "indicator" => f.note.id \in DOMAIN told'["indicator"]
    BY <1>2, <2>1 DEF DeliverUpdated, HeardBy, Insert, Sinks
  <2> HIDE DEF f
  <2>6. ASSUME NEW i, ToBeTold("indicator", i), i \notin DOMAIN told'["indicator"]
        PROVE  ToBeTold("indicator", i)'
    <3>1. PICK g \in FramesOf(stack) : g.op = "updated" /\ g.sink = "indicator" /\ g.note.id = i
      BY <2>6 DEF ToBeTold
    <3>2. g \in FramesOf(stack')
      BY <2>2, <2>4, <2>5, <2>6, <3>1
    <3>3. QED
      BY <3>1, <3>2 DEF ToBeTold
  <2>7. QED
    BY <2>3, <2>5, <2>6 DEF NobodyForgotten, WaitingIds
<1>3. CASE RegisterSink \/ UnregisterSink
  <2>1. /\ told'["indicator"] = told["indicator"]
        /\ UNCHANGED <<notificationContainer, waitQueue, stack>>
    BY <1>3 DEF RegisterSink, UnregisterSink, TypeOK, SinksOK, Sinks
  <2>2. QED
    BY <2>1 DEF NobodyForgotten, ToBeTold, WaitingIds
<1>4. CASE Start
  BY <1>4 DEF Start, NobodyForgotten, TypeOK, SinksOK, Sinks
<1>5. CASE Crash
  BY <1>5 DEF Crash, Empty, NobodyForgotten
<1>6. CASE UNCHANGED vars
  BY <1>6 DEF vars, sinkVars, NobodyForgotten, ToBeTold, WaitingIds
<1>7. QED
  BY <1>1, <1>2, <1>3, <1>4, <1>5, <1>6, StepTells, RemovesForgetsNobody, UpdatesForgetsNobody,
     AddsForgetsNobody, RelayForgetsNobody DEF Ground

-----------------------------------------------------------------------------
(* Nobody is overtaken by a lower class.  A notification waits where its   *)
(* class was when it came, so that this takes classes that nobody changes. *)

ClassesFixed ==
    /\ \A p \in UpdateParams : p.class = Unset
    /\ \A s \in EventTypeSettings : s.class = Unset

ClassesUnset == \A et \in EventTypes : eventTypes[et].class = Unset

LEMMA ClassesUnsetStep ==
    ASSUME TypeOK, ClassesFixed, ClassesUnset, [Next]_vars
    PROVE  ClassesUnset'
<1>0. eventTypes \in [EventTypes -> Settings]
  BY DEF TypeOK, StoresOK
<1>1. CASE eventTypes' = eventTypes
  BY <1>1 DEF ClassesUnset
<1>2. ASSUME NEW et \in EventTypes, NEW v, v.class = Unset, eventTypes' = [eventTypes EXCEPT ![et] = v]
      PROVE  ClassesUnset'
  BY <1>0, <1>2 DEF ClassesUnset
<1>3. ASSUME NEW et \in EventTypes, NEW s \in EventTypeSettings,
             EventTypeModified(et, s) \/ EventTypeChangesUnseen(et, s)
      PROVE  ClassesUnset'
  BY <1>2, <1>3 DEF EventTypeModified, EventTypeChangesUnseen, ClassesFixed
<1>4. ASSUME NEW et \in EventTypes, EventTypeUninstalled(et)
      PROVE  ClassesUnset'
  <2> DEFINE v == [class |-> Unset, persistent |-> Unset]
  <2>1. v.class = Unset /\ eventTypes' = [eventTypes EXCEPT ![et] = v]
    BY <1>4 DEF EventTypeUninstalled
  <2> HIDE DEF v
  <2>2. QED
    BY <1>2, <2>1
<1>5. QED
  BY <1>1, <1>3, <1>4 DEF Next, vars, RunFrame, DeliverUpdated, FinishSubmit,
     FinishUpdate, RunRemove, RunRemoveEach, UpdateEach, UpdateGroupTimestamp, DoRemoveGroup,
     FinishRemoveGroup, RemoveGroups, UpdateGroups, Prune, AddNotification,
     ClientUpdatesNotification, ClientRemovesNotification, ClientRemovesGroup, Post,
     DeliverPosted, SinkRemovesNotification, BannerDone, SinkClearsGroup,
     RelayNextNotification, AddGroup, UpdateGroup, NotificationUserId,
     RegisterSink, UnregisterSink, Start, Crash, Reboot

\* Whatever arrives in the queue or leaves it leaves the system entries in front.
LEMMA QueueKeepsOrder ==
    ASSUME TypeOK, TypeOK', SystemFirst, [Queue!Next]_waitQueue,
           Len(waitQueue') = Len(waitQueue) =>
                \A i \in DOMAIN waitQueue : waitQueue'[i].class = waitQueue[i].class
    PROVE  SystemFirst'
<1>1. PICK L \in Nat, M \in Nat : /\ Len(waitQueue) = L /\ DOMAIN waitQueue = 1 .. L
                               /\ Len(waitQueue') = M /\ DOMAIN waitQueue' = 1 .. M
  BY DEF TypeOK, RelayOK
<1>2. CASE M = L
  BY <1>1, <1>2 DEF SystemFirst
<1>3. ASSUME NEW p \in 1 .. L + 1, Queue!Arrive(p)
      PROVE  SystemFirst'
  <2>1. /\ M = L + 1
        /\ \A i \in 1 .. L : waitQueue'[IF i < p THEN i ELSE i + 1] = waitQueue[i]
        /\ waitQueue'[p].class = "system" =>
                \A i \in 1 .. L : i < p => waitQueue[i].class = "system"
        /\ waitQueue'[p].class # "system" => p = L + 1
    BY <1>1, <1>3 DEF Queue!Arrive, Queue!Beside, Queue!System
  <2>2. ASSUME NEW i \in 1 .. M
        PROVE  /\ i < p => i \in 1 .. L /\ waitQueue'[i] = waitQueue[i]
               /\ i > p => i - 1 \in 1 .. L /\ waitQueue'[i] = waitQueue[i - 1]
    <3>1. CASE i < p
      BY <2>1, <3>1
    <3>2. CASE i > p
      <4>1. i - 1 \in 1 .. L /\ ~(i - 1 < p) /\ i - 1 + 1 = i
        BY <2>1, <3>2
      <4>2. waitQueue'[i - 1 + 1] = waitQueue[i - 1]
        BY <2>1, <4>1
      <4>3. QED
        BY <3>2, <4>1, <4>2
    <3>3. QED
      BY <3>1, <3>2
  <2>3. SUFFICES ASSUME NEW i \in 1 .. M, NEW j \in 1 .. M, i < j,
                        waitQueue'[j].class = "system"
                 PROVE  waitQueue'[i].class = "system"
    BY <1>1 DEF SystemFirst
  <2>4. CASE j < p
    <3>1. /\ i \in 1 .. L /\ j \in 1 .. L
          /\ waitQueue'[i] = waitQueue[i] /\ waitQueue'[j] = waitQueue[j]
      BY <2>2, <2>3, <2>4
    <3>2. QED
      BY <1>1, <2>3, <3>1 DEF SystemFirst
  <2>5. CASE j = p
    <3>1. i \in 1 .. L /\ i < p /\ waitQueue'[i] = waitQueue[i]
      BY <2>2, <2>3, <2>5
    <3>2. QED
      BY <2>1, <2>3, <2>5, <3>1
  <2>6. CASE j > p
    <3>1. waitQueue'[p].class = "system"
      BY <2>1, <2>6
    <3>2. CASE i < p
      <4>1. i \in 1 .. L /\ waitQueue'[i] = waitQueue[i]
        BY <2>2, <3>2
      <4>2. QED
        BY <2>1, <3>1, <3>2, <4>1
    <3>3. CASE i = p
      BY <3>1, <3>3
    <3>4. CASE i > p
      <4>1. /\ i - 1 \in 1 .. L /\ j - 1 \in 1 .. L /\ i - 1 < j - 1
            /\ waitQueue'[i] = waitQueue[i - 1] /\ waitQueue'[j] = waitQueue[j - 1]
        BY <2>2, <2>3, <2>6, <3>4
      <4>2. QED
        BY <1>1, <2>3, <4>1 DEF SystemFirst
    <3>5. QED
      BY <3>2, <3>3, <3>4
  <2>7. QED
    BY <2>4, <2>5, <2>6
<1>4. ASSUME NEW p \in 1 .. L, Queue!Leave(p)
      PROVE  SystemFirst'
  <2>1. /\ L = M + 1
        /\ \A i \in 1 .. M : waitQueue'[i] = waitQueue[IF i < p THEN i ELSE i + 1]
    BY <1>1, <1>4 DEF Queue!Leave, Queue!Beside
  <2>2. SUFFICES ASSUME NEW i \in 1 .. M, NEW j \in 1 .. M, i < j,
                        waitQueue'[j].class = "system"
                 PROVE  waitQueue'[i].class = "system"
    BY <1>1 DEF SystemFirst
  <2>3. PICK k \in 1 .. L, l \in 1 .. L :
            k < l /\ waitQueue'[i] = waitQueue[k] /\ waitQueue'[j] = waitQueue[l]
    <3> DEFINE k == IF i < p THEN i ELSE i + 1
               l == IF j < p THEN j ELSE j + 1
    <3>1. k \in 1 .. L /\ l \in 1 .. L /\ k < l
      BY <2>1, <2>2
    <3>2. waitQueue'[i] = waitQueue[k] /\ waitQueue'[j] = waitQueue[l]
      BY <2>1
    <3> HIDE DEF k, l
    <3>3. QED
      BY <3>1, <3>2
  <2>4. QED
    BY <1>1, <2>2, <2>3 DEF SystemFirst
<1>5. CASE waitQueue' = <<>>
  BY <1>5 DEF SystemFirst
<1>6. QED
  BY <1>1, <1>2, <1>3, <1>4, <1>5 DEF Queue!Next, Queue!Change, Queue!Lose

\* An update that brings no class, or the one there was, changes none.
LEMMA UpdatesKeepsClasses ==
    ASSUME TypeOK, WaitQueueConsistent, ClassesFixed, ClassesUnset,
           NEW id, NEW p, NEW t, NEW rest, Updates(id, p, t, rest)
    PROVE  \A i \in DOMAIN waitQueue : waitQueue'[i].class = waitQueue[i].class
<1>0. SUFFICES ASSUME NEW i \in DOMAIN waitQueue
               PROVE  waitQueue'[i].class = waitQueue[i].class
  OBVIOUS
<1>1. waitQueue'[i] = IF waitQueue[i].id = id THEN Updated(waitQueue[i], p, t) ELSE waitQueue[i]
  BY DEF Updates, UpdateNotification, UpdateWaiting, WaitQueueIndices
<1>2. waitQueue[i] \in Notification
  BY DEF TypeOK, RelayOK
<1>3. Updated(waitQueue[i], p, t).class = Override(waitQueue[i].class, p.class)
  BY <1>2 DEF Updated, UpdateParameters, Notification
<1>4. CASE p \in UpdateParams
  BY <1>1, <1>3, <1>4 DEF ClassesFixed, Override
<1>5. CASE p = AppendEventTypeParameters(notificationContainer[id]) /\ waitQueue[i].id = id
  <2>1. notificationContainer[id] = waitQueue[i]
    BY <1>5 DEF WaitQueueConsistent
  <2>2. EventTypeParameters(waitQueue[i].eventType).class = Unset
    BY <1>2 DEF EventTypeParameters, ClassesUnset, Notification, EventTypeRef
  <2>3. p.class = waitQueue[i].class
    BY <1>2, <1>5, <2>1, <2>2 DEF AppendEventTypeParameters, Override, Notification
  <2>4. QED
    BY <1>1, <1>3, <2>3 DEF Override
<1>6. QED
  BY <1>1, <1>4, <1>5 DEF Updates

LEMMA SystemFirstStep ==
    ASSUME TypeOK, Ground, ClassesFixed, ClassesUnset, SystemFirst, [Next]_vars
    PROVE  SystemFirst'
<1>0. waitQueue \in Seq(Notification) /\ Len(waitQueue) \in Nat
  BY DEF TypeOK, RelayOK
<1>1. TypeOK' /\ [Queue!Next]_waitQueue
  BY TypeOKStep, QueueStep
<1>2. CASE waitQueue' = waitQueue
  BY <1>2 DEF SystemFirst
<1>3. CASE Len(waitQueue') # Len(waitQueue)
  BY <1>1, <1>3, QueueKeepsOrder
<1>4. ASSUME NEW rest, Relay(rest)
      PROVE  waitQueue' = waitQueue \/ Len(waitQueue') # Len(waitQueue)
  BY <1>0, <1>4 DEF Relay
<1>5. ASSUME NEW id, NEW rest, Removes(id, rest)
      PROVE  waitQueue' = waitQueue \/ Len(waitQueue') # Len(waitQueue)
  <2>1. ASSUME WaitQueueIndices(id) # {}, waitQueue' = TakeFromWaitQueue(id)
        PROVE  Len(waitQueue') # Len(waitQueue)
    <3>1. PICK p \in 1 .. Len(waitQueue) : waitQueue' = RemoveAt(waitQueue, p)
      BY <1>0, <2>1, TakeFromWaitQueueProperties
    <3>2. Len(waitQueue') = Len(waitQueue) - 1
      BY <1>0, <3>1, RemoveAtProperties
    <3>3. QED
      BY <1>0, <3>2
  <2>2. QED
    BY <1>4, <1>5, <2>1 DEF Removes, RemoveNotification
<1>6. ASSUME NEW n, NEW rest, Adds(n, rest)
      PROVE  waitQueue' = waitQueue \/ Len(waitQueue') # Len(waitQueue)
  <2>1. ASSUME waitQueue' = Enqueue(n), Len(waitQueue) < MaxWaitQueueSize
        PROVE  Len(waitQueue') # Len(waitQueue)
    <3>1. InsertPosition(n) \in 1 .. Len(waitQueue) + 1 /\ n \in Notification
      BY <1>0, <1>6, InsertPositionType DEF Adds
    <3>2. waitQueue' = InsertAt(waitQueue, InsertPosition(n), n)
      BY <2>1 DEF Enqueue
    <3>3. Len(InsertAt(waitQueue, InsertPosition(n), n)) = Len(waitQueue) + 1
      BY <1>0, <3>1, InsertAtProperties
    <3>4. QED
      BY <1>0, <3>2, <3>3
  <2>2. QED
    BY <1>6, <2>1 DEF Adds, Submit, Enqueue
<1>7. ASSUME NEW id, NEW p, NEW t, NEW rest, Updates(id, p, t, rest)
      PROVE  SystemFirst'
  BY <1>1, <1>7, UpdatesKeepsClasses, QueueKeepsOrder DEF Ground
<1>8. CASE Crash
  BY <1>8 DEF Crash, SystemFirst
<1>9. CASE Silently \/ DeliverUpdated \/ RegisterSink \/ UnregisterSink \/ Start \/ UNCHANGED vars
  BY <1>2, <1>9 DEF Silently, DeliverUpdated, RegisterSink, UnregisterSink, Start, vars
<1>10. QED
  BY <1>2, <1>3, <1>4, <1>5, <1>6, <1>7, <1>8, <1>9, StepTells DEF Ground, RelayNextNotification

\* As long as the queue cannot overflow, nobody is forgotten: between events whoever
\* the container holds waits or has been signalled, whatever was removed, updated or
\* relayed inside whose emission (notificationmanager.cpp:531-596).
THEOREM NobodyEverForgotten == Spec => []NoneForgotten
<1>1. Init => NobodyForgotten
  BY DEF Init, NobodyForgotten, Empty
<1>2. MaxNotificationId <= MaxWaitQueueSize /\ TypeOK /\ Ground /\ NobodyForgotten /\ [Next]_vars
        => NobodyForgotten'
  BY NobodyForgottenStep
<1>3. NobodyForgotten => NoneForgotten
  <2>1. stack = <<>> => \A s, i : ~ToBeTold(s, i)
    BY FramesOfFew DEF ToBeTold
  <2>2. QED
    BY <2>1 DEF NobodyForgotten, NoneForgotten, Idle
<1>4. CASE ~(MaxNotificationId <= MaxWaitQueueSize)
  <2>1. NoneForgotten
    BY <1>4 DEF NoneForgotten
  <2>2. QED
    BY <2>1, PTL
<1>5. CASE MaxNotificationId <= MaxWaitQueueSize
  <2>1. TypeOK /\ Ground /\ NobodyForgotten /\ [Next]_vars => NobodyForgotten'
    BY <1>2, <1>5
  <2>2. QED
    BY <1>1, <1>3, <2>1, TypeCorrect, GroundHolds, PTL DEF Spec
<1>6. QED
  BY <1>4, <1>5

\* And while neither clients nor event types change the class of what waits, system
\* notifications wait in front of all others.
THEOREM NobodyEverForgottenOrOvertaken == ClassesFixed /\ Spec => []NobodyForgottenOrOvertaken
<1>1. ClassesFixed /\ Init => ClassesUnset /\ SystemFirst
  BY DEF Init, ClassesFixed, ClassesUnset, SystemFirst
<1>2. ClassesFixed /\ TypeOK /\ Ground /\ ClassesUnset /\ SystemFirst /\ [Next]_vars
        => ClassesUnset' /\ SystemFirst'
  BY ClassesUnsetStep, SystemFirstStep
<1>3. SystemFirst /\ NoneForgotten => NobodyForgottenOrOvertaken
  BY DEF NobodyForgottenOrOvertaken
<1>4. CASE ~ClassesFixed
  BY <1>4
<1>5. CASE ClassesFixed
  <2>1. Init => ClassesUnset /\ SystemFirst
    BY <1>1, <1>5
  <2>2. TypeOK /\ Ground /\ ClassesUnset /\ SystemFirst /\ [Next]_vars => ClassesUnset' /\ SystemFirst'
    BY <1>2, <1>5
  <2>3. QED
    BY <1>3, <2>1, <2>2, TypeCorrect, GroundHolds, NobodyEverForgotten, PTL DEF Spec
<1>6. QED
  BY <1>4, <1>5

-----------------------------------------------------------------------------
(* What is still to be done for the groups.                                *)

\* The notification is going to be removed.
Dying(id) == \E f \in FramesOf(stack) : f.op = "removeEach" /\ id \in f.ids

\* The timestamp of the group is going to be computed anew.
StampDue(g) ==
    \E f \in FramesOf(stack) :
        \/ f.op = "timestamp" /\ f.group = g
        \/ /\ f.op = "updateTail" /\ f.id \in DOMAIN notificationContainer
           /\ notificationContainer[f.id].group = g

\* The sinks are going to be told that the group is gone.
GoneDue(g) == \E f \in FramesOf(stack) : f.op = "groupGone" /\ f.group = g

\* What removes groups.  Below it on the stack there is nothing else.
Grave(f) == f.op \in {"removeGroup", "groupGone", "removeGroups"}
NoGrave(stk) == \A f \in FramesOf(stk) : ~Grave(f)
AllGrave(stk) == \A f \in FramesOf(stk) : Grave(f)
GravesBelow(stk) == \A i, j \in DOMAIN stk : i < j /\ Grave(stk[i]) => Grave(stk[j])

LEMMA GravesUnderTop ==
    ASSUME NEW stk \in Seq(Frame), stk # <<>>, GravesBelow(stk)
    PROVE  GravesBelow(Tail(stk)) /\ (Grave(Head(stk)) => AllGrave(Tail(stk)))
<1>1. /\ Len(stk) \in Nat \ {0} /\ DOMAIN stk = 1 .. Len(stk)
      /\ Head(stk) = stk[1]
      /\ DOMAIN Tail(stk) = 1 .. Len(stk) - 1
      /\ \A i \in 1 .. Len(stk) - 1 : Tail(stk)[i] = stk[i + 1]
  OBVIOUS
<1>2. ASSUME NEW i \in DOMAIN Tail(stk), NEW j \in DOMAIN Tail(stk), i < j, Grave(Tail(stk)[i])
      PROVE  Grave(Tail(stk)[j])
  <2>1. /\ i + 1 \in DOMAIN stk /\ j + 1 \in DOMAIN stk /\ i + 1 < j + 1
        /\ Tail(stk)[i] = stk[i + 1] /\ Tail(stk)[j] = stk[j + 1]
    BY <1>1, <1>2
  <2>2. QED
    BY <1>2, <2>1 DEF GravesBelow
<1>3. ASSUME NEW i \in DOMAIN Tail(stk), Grave(Head(stk))
      PROVE  Grave(Tail(stk)[i])
  <2>1. 1 \in DOMAIN stk /\ i + 1 \in DOMAIN stk /\ 1 < i + 1 /\ Tail(stk)[i] = stk[i + 1]
    BY <1>1
  <2>2. QED
    BY <1>1, <1>3, <2>1 DEF GravesBelow
<1>4. QED
  BY <1>2, <1>3 DEF GravesBelow, AllGrave, FramesOf

LEMMA GravesOnTop ==
    ASSUME NEW pre \in Seq(Frame), NEW rest \in Seq(Frame), GravesBelow(pre), GravesBelow(rest),
           NoGrave(pre) \/ AllGrave(rest)
    PROVE  GravesBelow(pre \o rest)
<1> DEFINE stk == pre \o rest
<1>1. PICK L \in Nat, M \in Nat :
            /\ Len(pre) = L /\ DOMAIN pre = 1 .. L /\ DOMAIN rest = 1 .. M
            /\ DOMAIN stk = 1 .. L + M
            /\ \A i \in 1 .. L + M : stk[i] = IF i <= L THEN pre[i] ELSE rest[i - L]
  BY ConcatElements
<1> HIDE DEF stk
<1>2. ASSUME NEW i \in DOMAIN stk, NEW j \in DOMAIN stk, i < j, Grave(stk[i])
      PROVE  Grave(stk[j])
  <2>1. CASE j <= L
    <3>1. i \in DOMAIN pre /\ j \in DOMAIN pre /\ stk[i] = pre[i] /\ stk[j] = pre[j]
      BY <1>1, <1>2, <2>1
    <3>2. QED
      BY <1>2, <3>1 DEF GravesBelow
  <2>2. CASE ~(j <= L) /\ i <= L
    <3>1. /\ i \in DOMAIN pre /\ stk[i] = pre[i]
          /\ j - L \in DOMAIN rest /\ stk[j] = rest[j - L]
      BY <1>1, <1>2, <2>2
    <3>2. AllGrave(rest)
      BY <1>2, <3>1 DEF NoGrave, FramesOf
    <3>3. QED
      BY <3>1, <3>2 DEF AllGrave, FramesOf
  <2>3. CASE ~(i <= L)
    <3>1. /\ i - L \in DOMAIN rest /\ stk[i] = rest[i - L] /\ i - L < j - L
          /\ j - L \in DOMAIN rest /\ stk[j] = rest[j - L]
      BY <1>1, <1>2, <2>3
    <3>2. QED
      BY <1>2, <3>1 DEF GravesBelow
  <2>4. QED
    BY <2>1, <2>2, <2>3
<1>3. QED
  BY <1>2 DEF GravesBelow, stk

LEMMA NoGraveBelow ==
    ASSUME NEW stk, NoGrave(stk)
    PROVE  GravesBelow(stk)
BY DEF NoGrave, GravesBelow, FramesOf

\* A step leaves all of that to be done, but for the removal of `gone', and no other
\* group is gone after it.
StillDue(gone) ==
    /\ GravesBelow(stack) => GravesBelow(stack')
    /\ \A f \in FramesOf(stack) :
          /\ f.op \in {"timestamp", "updateTail", "groupGone"} => f \in FramesOf(stack')
          /\ f.op = "removeEach" => \A id \in f.ids \ gone :
                \E h \in FramesOf(stack') : h.op = "removeEach" /\ id \in h.ids
    /\ \A f \in FramesOf(stack') : f.op = "groupGone" => f \in FramesOf(stack)

\* The top frame is taken and `pre' put in its place.
LEMMA TopGivesWay ==
    ASSUME TypeOK, NEW op, Top(op), op \notin {"timestamp", "updateTail", "groupGone"},
           NEW gone, NEW pre \in Seq(Frame), stack' = pre \o Tail(stack),
           NoGrave(pre) \/ (Grave(Head(stack)) /\ GravesBelow(pre)),
           \A f \in FramesOf(pre) : f.op # "groupGone",
           op = "removeEach" => \A id \in Head(stack).ids \ gone :
                \E h \in FramesOf(pre) : h.op = "removeEach" /\ id \in h.ids
    PROVE  StillDue(gone)
<1>1. Head(stack).op = op /\ Tail(stack) \in Seq(Frame) /\ stack # <<>> /\ stack \in Seq(Frame)
  BY TopType DEF Top, TypeOK, CallsOK
<1>2. /\ FramesOf(stack) = {Head(stack)} \cup FramesOf(Tail(stack))
      /\ FramesOf(stack') = FramesOf(pre) \cup FramesOf(Tail(stack))
  BY <1>1, FramesOfTail, FramesOfConcat
<1>3. GravesBelow(stack) => GravesBelow(stack')
  BY <1>1, GravesUnderTop, GravesOnTop, NoGraveBelow
<1>4. QED
  BY <1>1, <1>2, <1>3 DEF StillDue

LEMMA TopMadeWay ==
    ASSUME TypeOK, NEW op, Top(op),
           op \notin {"timestamp", "updateTail", "groupGone", "removeEach"},
           NEW pre \in Seq(Frame), stack' = pre \o Tail(stack),
           NoGrave(pre) \/ (Grave(Head(stack)) /\ GravesBelow(pre)),
           \A f \in FramesOf(pre) : f.op # "groupGone"
    PROVE  StillDue({})
BY TopGivesWay

LEMMA TopTaken ==
    ASSUME TypeOK, NEW op, Top(op), stack' = Tail(stack),
           op \notin {"timestamp", "updateTail", "groupGone", "removeEach"}
    PROVE  StillDue({})
<1>1. Head(stack).op = op /\ Tail(stack) \in Seq(Frame) /\ stack # <<>> /\ stack \in Seq(Frame)
  BY TopType DEF Top, TypeOK, CallsOK
<1>2. FramesOf(stack) = {Head(stack)} \cup FramesOf(stack')
  BY <1>1, FramesOfTail
<1>3. QED
  BY <1>1, <1>2, GravesUnderTop DEF StillDue

\* One frame is no trouble, nor are two with the grave, if any, at the bottom.
LEMMA FewGraves ==
    /\ GravesBelow(<<>>)
    /\ \A f : GravesBelow(<<f>>)
    /\ \A f, h : ~Grave(f) \/ Grave(h) => GravesBelow(<<f, h>>)
BY DEF GravesBelow

\* What an emission leaves to be done.
LEMMA EmissionGraves ==
    ASSUME NEW n \in Notification, NEW f \in Frame, ~Grave(f), NEW rest \in Seq(Frame),
           GravesBelow(rest)
    PROVE  GravesBelow(UpdatedFrames(n) \o <<f>> \o rest)
<1> DEFINE pre == UpdatedFrames(n) \o <<f>>
<1>1. UpdatedFrames(n) \in Seq(Frame) /\ <<f>> \in Seq(Frame)
  BY UpdatedFramesType
<1>2. pre \in Seq(Frame) /\ FramesOf(pre) = EmissionOf(n) \cup {f}
  <2>1. pre \in Seq(Frame)
    BY <1>1, ConcatProperties
  <2>2. FramesOf(pre) = FramesOf(UpdatedFrames(n)) \cup FramesOf(<<f>>)
    BY <1>1, FramesOfConcat
  <2>3. FramesOf(UpdatedFrames(n)) = EmissionOf(n) /\ FramesOf(<<f>>) = {f}
    BY FramesOfUpdated, FramesOfFew
  <2>4. QED
    BY <2>1, <2>2, <2>3
<1> HIDE DEF pre
<1>3. NoGrave(pre)
  BY <1>2 DEF NoGrave, Grave, EmissionOf
<1>4. GravesBelow(pre \o rest)
  BY <1>2, <1>3, NoGraveBelow, GravesOnTop
<1>5. QED
  BY <1>4 DEF pre

LEMMA EmitLeaves ==
    ASSUME NEW n \in Notification, NEW rest \in Seq(Frame), Emit(n, rest)
    PROVE  /\ FramesOf(rest) \subseteq FramesOf(stack')
           /\ \A f \in FramesOf(stack') : f.op = "groupGone" => f \in FramesOf(rest)
           /\ GravesBelow(rest) => GravesBelow(stack')
<1>1. n.id \in NotificationId
  BY DEF Notification
<1>2. SubmittedFrame(n.id) \in Frame /\ SubmittedFrame(n.id).op = "submitted"
  BY <1>1, FrameTypes DEF SubmittedFrame
<1>3. FramesOf(stack') = EmissionOf(n) \cup {SubmittedFrame(n.id)} \cup FramesOf(rest)
  BY <1>2, FramesOfEmission DEF Emit
<1>4. ASSUME GravesBelow(rest)
      PROVE  GravesBelow(stack')
  BY <1>2, <1>4, EmissionGraves DEF Emit, Grave
<1>5. QED
  BY <1>2, <1>3, <1>4 DEF EmissionOf

\* What updateGroupTimestampFromNotifications leaves to be done.
LEMMA StampLeaves ==
    ASSUME NEW g \in GroupRef, NEW rest \in Seq(Frame)
    PROVE  /\ TimestampFrames(g) \o rest \in Seq(Frame)
           /\ FramesOf(rest) \subseteq FramesOf(TimestampFrames(g) \o rest)
           /\ g # 0 => \E f \in FramesOf(TimestampFrames(g) \o rest) :
                            f.op = "timestamp" /\ f.group = g
           /\ \A f \in FramesOf(TimestampFrames(g) \o rest) :
                    f.op = "groupGone" => f \in FramesOf(rest)
           /\ GravesBelow(rest) => GravesBelow(TimestampFrames(g) \o rest)
<1>1. TimestampFrames(g) \in Seq(Frame)
  BY TimestampFramesType
<1>2. FramesOf(TimestampFrames(g) \o rest) =
        (IF g = 0 THEN {} ELSE {[op |-> "timestamp", group |-> g]}) \cup FramesOf(rest)
  BY <1>1, FramesOfConcat, FramesOfTimestamp
<1>3. TimestampFrames(g) \o rest \in Seq(Frame)
  BY <1>1, ConcatProperties
<1> DEFINE after == TimestampFrames(g) \o rest
<1> HIDE DEF after
<1>4. /\ after \in Seq(Frame)
      /\ FramesOf(after) = (IF g = 0 THEN {} ELSE {[op |-> "timestamp", group |-> g]}) \cup FramesOf(rest)
  BY <1>2, <1>3 DEF after
<1>5. FramesOf(rest) \subseteq FramesOf(after)
  BY <1>4
<1>6. ASSUME g # 0
      PROVE  \E f \in FramesOf(after) : f.op = "timestamp" /\ f.group = g
  <2> DEFINE stamp == [op |-> "timestamp", group |-> g]
  <2>1. stamp.op = "timestamp" /\ stamp.group = g
    OBVIOUS
  <2>2. stamp \in FramesOf(after)
    BY <1>4, <1>6
  <2> HIDE DEF stamp
  <2>3. QED
    BY <2>1, <2>2
<1>7. ASSUME NEW f \in FramesOf(after), f.op = "groupGone"
      PROVE  f \in FramesOf(rest)
  BY <1>4, <1>7
<1>8. GravesBelow(rest) => GravesBelow(after)
  <2>1. NoGrave(TimestampFrames(g))
    BY FramesOfTimestamp DEF NoGrave, Grave
  <2>2. QED
    BY <1>1, <2>1, NoGraveBelow, GravesOnTop DEF after
<1>9. QED
  BY <1>4, <1>5, <1>6, <1>7, <1>8 DEF after

\* A step that removes a notification, changes one, or adds one.
Unmoved == UNCHANGED <<groupContainer, toldGroups, dbusRegistered>>

Removing(id) ==
    /\ id \in DOMAIN notificationContainer
    /\ DOMAIN notificationContainer' = DOMAIN notificationContainer \ {id}
    /\ \A i \in DOMAIN notificationContainer' :
            notificationContainer'[i] = notificationContainer[i]
    /\ StillDue({id})
    /\ LET g == notificationContainer[id].group IN
       g # 0 => \E f \in FramesOf(stack') : f.op = "timestamp" /\ f.group = g

Updating(id) ==
    /\ id \in DOMAIN notificationContainer
    /\ DOMAIN notificationContainer' = DOMAIN notificationContainer
    /\ \A i \in DOMAIN notificationContainer :
            /\ i # id => notificationContainer'[i] = notificationContainer[i]
            /\ notificationContainer'[i].group = notificationContainer[i].group
    /\ StillDue({})
    /\ LET g == notificationContainer[id].group IN
       g # 0 => \E f \in FramesOf(stack') : \/ f.op = "timestamp" /\ f.group = g
                                            \/ f.op = "updateTail" /\ f.id = id

Adding(n) ==
    /\ n.id \notin DOMAIN notificationContainer
    /\ DOMAIN notificationContainer' = DOMAIN notificationContainer \cup {n.id}
    /\ \A i \in DOMAIN notificationContainer :
            notificationContainer'[i] = notificationContainer[i]
    /\ notificationContainer'[n.id] = n
    /\ stack = <<>>
    /\ StillDue({})
    /\ n.group \in {0} \cup DOMAIN groupContainer
    /\ n.group # 0 => \E f \in FramesOf(stack') : f.op = "timestamp" /\ f.group = n.group

Leaving ==
    /\ UNCHANGED notificationContainer
    /\ \E gone : StillDue(gone) /\ gone \cap DOMAIN notificationContainer = {}

\* removeNotification, called with `rest' still to be run.
LEMMA RemovalRemoves ==
    ASSUME TypeOK, NEW id \in DOMAIN notificationContainer, NEW rest \in Seq(Frame),
           RemoveNotification(id, rest),
           \A f \in FramesOf(stack) :
              /\ f.op \in {"timestamp", "updateTail", "groupGone"} => f \in FramesOf(rest)
              /\ f.op = "removeEach" => \A i \in f.ids \ {id} :
                    \E h \in FramesOf(rest) : h.op = "removeEach" /\ i \in h.ids,
           \A f \in FramesOf(rest) : f.op = "groupGone" => f \in FramesOf(stack),
           GravesBelow(stack) => GravesBelow(rest)
    PROVE  Removing(id)
<1> DEFINE g == notificationContainer[id].group
           after == TimestampFrames(g) \o rest
<1>1. g \in GroupRef
  BY DEF TypeOK, StoresOK, IsStore, Notification
<1> HIDE DEF g
<1>2. /\ after \in Seq(Frame)
      /\ FramesOf(rest) \subseteq FramesOf(after)
      /\ g # 0 => \E f \in FramesOf(after) : f.op = "timestamp" /\ f.group = g
      /\ \A f \in FramesOf(after) : f.op = "groupGone" => f \in FramesOf(rest)
      /\ GravesBelow(rest) => GravesBelow(after)
  BY <1>1, StampLeaves
<1>3. stack' = after \/ \E n \in Notification : Emit(n, after)
  <2>1. waitQueue # <<>> => Head(waitQueue) \in Notification
    BY DEF TypeOK, RelayOK
  <2>2. QED
    BY <2>1, Zenon DEF RemoveNotification, Relay, g
<1> HIDE DEF after
<1>4. /\ FramesOf(after) \subseteq FramesOf(stack')
      /\ \A f \in FramesOf(stack') : f.op = "groupGone" => f \in FramesOf(after)
      /\ GravesBelow(after) => GravesBelow(stack')
  BY <1>2, <1>3, EmitLeaves
<1>5. /\ DOMAIN notificationContainer' = DOMAIN notificationContainer \ {id}
      /\ \A i \in DOMAIN notificationContainer' :
              notificationContainer'[i] = notificationContainer[i]
  BY DEF RemoveNotification, Without, Restrict
<1>6. StillDue({id})
  BY <1>2, <1>4 DEF StillDue
<1>7. g # 0 => \E f \in FramesOf(stack') : f.op = "timestamp" /\ f.group = g
  BY <1>2, <1>4
<1>8. QED
  BY <1>5, <1>6, <1>7 DEF Removing, g

\* updateNotification, called with `rest' still to be run.
LEMMA UpdateUpdates ==
    ASSUME TypeOK, KeyedById, NEW id \in DOMAIN notificationContainer, NEW rest \in Seq(Frame),
           NEW p, NEW t \in Times,
           p.class \in Class, p.persistent \in Flag, p.eventType \in EventTypeRef,
           UpdateNotification(id, p, t, rest),
           \A f \in FramesOf(stack) :
              /\ f.op \in {"timestamp", "updateTail", "groupGone"} => f \in FramesOf(rest)
              /\ f.op = "removeEach" => f \in FramesOf(rest),
           \A f \in FramesOf(rest) : f.op = "groupGone" => f \in FramesOf(stack),
           GravesBelow(stack) => GravesBelow(rest)
    PROVE  Updating(id)
<1> DEFINE n == Updated(notificationContainer[id], p, t)
           g == notificationContainer[id].group
<1>1. notificationContainer[id] \in Notification /\ g \in GroupRef /\ id \in NotificationId
  BY DEF TypeOK, StoresOK, IsStore, Notification
<1>2. n \in Notification /\ n.group = g
  BY <1>1, UpdatedKeeps
<1>3. /\ notificationContainer' = [notificationContainer EXCEPT ![id] = n]
      /\ \/ stack' = TimestampFrames(g) \o rest
         \/ stack' = UpdatedFrames(n) \o <<UpdateTailFrame(id)>> \o rest
  BY <1>2 DEF UpdateNotification
<1>4. /\ DOMAIN notificationContainer' = DOMAIN notificationContainer
      /\ \A i \in DOMAIN notificationContainer :
            /\ i # id => notificationContainer'[i] = notificationContainer[i]
            /\ notificationContainer'[i].group = notificationContainer[i].group
  BY <1>2, <1>3
<1> HIDE DEF n, g
<1>5. CASE stack' = TimestampFrames(g) \o rest
  <2>1. /\ FramesOf(rest) \subseteq FramesOf(stack')
        /\ g # 0 => \E f \in FramesOf(stack') : f.op = "timestamp" /\ f.group = g
        /\ \A f \in FramesOf(stack') : f.op = "groupGone" => f \in FramesOf(rest)
        /\ GravesBelow(rest) => GravesBelow(stack')
    BY <1>1, <1>5, StampLeaves
  <2>2. StillDue({})
    BY <2>1 DEF StillDue
  <2>3. QED
    BY <1>4, <2>1, <2>2 DEF Updating, g
<1>6. CASE stack' = UpdatedFrames(n) \o <<UpdateTailFrame(id)>> \o rest
  <2>1. UpdateTailFrame(id) \in Frame /\ UpdateTailFrame(id).op = "updateTail" /\ UpdateTailFrame(id).id = id
    BY <1>1, FrameTypes DEF UpdateTailFrame
  <2>2. FramesOf(stack') = EmissionOf(n) \cup {UpdateTailFrame(id)} \cup FramesOf(rest)
    BY <1>2, <1>6, <2>1, FramesOfEmission
  <2>3. GravesBelow(stack) => GravesBelow(stack')
    BY <1>2, <1>6, <2>1, EmissionGraves DEF Grave
  <2>4. StillDue({})
    BY <2>1, <2>2, <2>3 DEF StillDue, EmissionOf
  <2>5. QED
    BY <1>4, <2>1, <2>2, <2>4 DEF Updating, g
<1>7. QED
  BY <1>3, <1>5, <1>6

-----------------------------------------------------------------------------
(* The steps of the specification, by what they leave to be done.          *)

LEMMA NothingDue ==
    ASSUME stack = <<>>, \A f \in FramesOf(stack') : f.op # "groupGone", GravesBelow(stack')
    PROVE  StillDue({})
BY FramesOfFew DEF StillDue

LEMMA RunFrameLeaves ==
    ASSUME TypeOK, KeyedById, RunFrame
    PROVE  \/ Unmoved /\ Leaving
           \/ Unmoved /\ \E id : Removing(id) \/ Updating(id)
           \/ FinishUpdate \/ UpdateGroupTimestamp \/ DoRemoveGroup \/ FinishRemoveGroup
           \/ UpdateGroups
<1>0. /\ \A f : FramesOf(<<f>>) = {f}
      /\ \A f, g : FramesOf(<<f, g>>) = {f, g}
      /\ FramesOf(<<>>) = {}
      /\ stack \in Seq(Frame)
  BY FramesOfFew DEF TypeOK, CallsOK
<1>1. CASE DeliverUpdated
  <2>1. /\ Top("updated") /\ Unmoved /\ UNCHANGED notificationContainer
        /\ \A s \in Sinks : IsStore(told[s], NotificationId, Notification)
        /\ Head(stack).sink \in Sinks /\ Head(stack).note \in Notification
    BY <1>1, TopType, FrameFields DEF DeliverUpdated, Unmoved, TypeOK, SinksOK
  <2>2. CASE stack' = Tail(stack)
    <3>1. StillDue({})
      BY <2>1, <2>2, TopTaken
    <3>2. QED
      BY <2>1, <3>1 DEF Leaving
  <2>3. ASSUME NEW ids \in SUBSET SystemIds(told'["compositor"]),
               stack' = <<RemoveEachFrame(ids)>> \o Tail(stack)
        PROVE  StillDue({})
    <3>1. SystemIds(told'["compositor"]) \in SUBSET NotificationId
      <4>1. TypeOK'
        BY RunFrameType
      <4>2. QED
        BY <4>1 DEF TypeOK, SinksOK, IsStore, SystemIds, Sinks
    <3>2. RemoveEachFrame(ids) \in Frame /\ RemoveEachFrame(ids).op = "removeEach"
      BY <3>1, FrameTypes DEF RemoveEachFrame
    <3>3. <<RemoveEachFrame(ids)>> \in Seq(Frame)
      BY <3>2
    <3>4. \A f \in FramesOf(<<RemoveEachFrame(ids)>>) : f.op # "groupGone" /\ ~Grave(f)
      BY <1>0, <3>2 DEF Grave
    <3>5. QED
      BY <2>1, <2>3, <3>3, <3>4, TopMadeWay DEF NoGrave
  <2>4. stack' = Tail(stack) \/ \E ids \in SUBSET SystemIds(told'["compositor"]) :
                                    stack' = <<RemoveEachFrame(ids)>> \o Tail(stack)
    BY <1>1 DEF DeliverUpdated
  <2>5. stack' = Tail(stack) \/ StillDue({})
    BY <2>3, <2>4
  <2>6. QED
    BY <2>1, <2>2, <2>5 DEF Leaving
<1>2. CASE FinishSubmit
  <2>1. StillDue({})
    BY <1>2, TopTaken DEF FinishSubmit
  <2>2. QED
    BY <1>2, <2>1 DEF FinishSubmit, Leaving, Unmoved, sinkVars
<1>3. CASE RunRemove
  <2>1. /\ Top("remove") /\ RemoveNotification(Head(stack).id, Tail(stack))
        /\ Unmoved /\ Tail(stack) \in Seq(Frame) /\ Head(stack).op = "remove" /\ stack # <<>>
    BY <1>3, TopType DEF RunRemove, Unmoved, Top
  <2>2. CASE Head(stack).id \in DOMAIN notificationContainer
    <3>1. FramesOf(stack) = {Head(stack)} \cup FramesOf(Tail(stack))
      BY <1>0, <2>1, FramesOfTail
    <3>2. /\ \A f \in FramesOf(stack) :
                /\ f.op \in {"timestamp", "updateTail", "groupGone"} => f \in FramesOf(Tail(stack))
                /\ f.op = "removeEach" => f \in FramesOf(Tail(stack))
          /\ \A f \in FramesOf(Tail(stack)) : f.op = "groupGone" => f \in FramesOf(stack)
      BY <2>1, <3>1
    <3>3. Removing(Head(stack).id)
      BY <1>0, <2>1, <2>2, <3>2, RemovalRemoves, GravesUnderTop
    <3>4. QED
      BY <2>1, <3>3
  <2>3. CASE Head(stack).id \notin DOMAIN notificationContainer
    <3>1. stack' = Tail(stack) /\ UNCHANGED notificationContainer
      BY <2>1, <2>3 DEF RemoveNotification
    <3>2. StillDue({})
      BY <2>1, <3>1, TopTaken
    <3>3. QED
      BY <2>1, <3>1, <3>2 DEF Leaving
  <2>4. QED
    BY <2>2, <2>3
<1>4. CASE RunRemoveEach
  <2>1. /\ Top("removeEach") /\ Head(stack).op = "removeEach" /\ stack # <<>>
        /\ Head(stack).ids \in SUBSET NotificationId /\ Tail(stack) \in Seq(Frame)
        /\ Unmoved
    BY <1>4, TopType, FrameFields DEF RunRemoveEach, Unmoved, Top
  <2>2. FramesOf(stack) = {Head(stack)} \cup FramesOf(Tail(stack))
    BY <1>0, <2>1, FramesOfTail
  <2>3. CASE Head(stack).ids = {} /\ stack' = Tail(stack) /\ UNCHANGED notificationContainer
    <3>1. StillDue({})
      BY <1>0, <2>1, <2>2, <2>3, GravesUnderTop DEF StillDue
    <3>2. QED
      BY <2>1, <2>3, <3>1 DEF Leaving
  <2>4. ASSUME NEW id \in Head(stack).ids,
               RemoveNotification(id, <<RemoveEachFrame(Head(stack).ids \ {id})>> \o Tail(stack))
        PROVE  Leaving \/ Removing(id)
    <3> DEFINE h == RemoveEachFrame(Head(stack).ids \ {id})
               rest == <<h>> \o Tail(stack)
    <3>1. h \in Frame /\ h.op = "removeEach" /\ h.ids = Head(stack).ids \ {id}
      BY <2>1, FrameTypes DEF RemoveEachFrame
    <3> HIDE DEF h
    <3>2. <<h>> \in Seq(Frame) /\ FramesOf(<<h>>) = {h}
      BY <1>0, <3>1
    <3>3. rest \in Seq(Frame) /\ FramesOf(rest) = {h} \cup FramesOf(Tail(stack))
      BY <2>1, <3>2, FramesOfConcat, ConcatProperties
    <3>4. RemoveNotification(id, rest)
      BY <2>4 DEF h
    <3>8. NoGrave(<<h>>)
      BY <3>1, <3>2 DEF NoGrave, Grave
    <3>9. GravesBelow(stack) => GravesBelow(rest)
      BY <1>0, <2>1, <3>2, <3>8, GravesUnderTop, GravesOnTop, NoGraveBelow
    <3>5. CASE id \in DOMAIN notificationContainer
      <4> HIDE DEF rest
      <4>1. \A f \in FramesOf(stack) :
                f.op \in {"timestamp", "updateTail", "groupGone"} => f \in FramesOf(rest)
        BY <2>1, <2>2, <3>3
      <4>2. ASSUME NEW f \in FramesOf(stack), f.op = "removeEach", NEW i \in f.ids \ {id}
            PROVE  \E k \in FramesOf(rest) : k.op = "removeEach" /\ i \in k.ids
        BY <2>1, <2>2, <3>1, <3>3, <4>2
      <4>3. \A f \in FramesOf(rest) : f.op = "groupGone" => f \in FramesOf(stack)
        BY <2>2, <3>1, <3>3
      <4>4. Removing(id)
        BY <3>3, <3>4, <3>9, <3>5, <4>1, <4>2, <4>3, RemovalRemoves
      <4>5. QED
        BY <4>4
    <3>6. CASE id \notin DOMAIN notificationContainer
      <4>1. stack' = rest /\ UNCHANGED notificationContainer
        BY <3>4, <3>6 DEF RemoveNotification
      <4>2. \A i \in Head(stack).ids \ {id} : \E k \in FramesOf(<<h>>) : k.op = "removeEach" /\ i \in k.ids
        BY <3>1, <3>2
      <4>3. StillDue({id})
        BY <2>1, <3>1, <3>2, <3>8, <4>1, <4>2, TopGivesWay
      <4>4. {id} \cap DOMAIN notificationContainer = {}
        BY <3>6
      <4>5. QED
        BY <4>1, <4>3, <4>4, Zenon DEF Leaving
    <3>7. QED
      BY <3>5, <3>6
  <2>5. QED
    BY <1>4, <2>1, <2>3, <2>4 DEF RunRemoveEach
<1>5. CASE UpdateEach
  <2>1. /\ Top("updateEach") /\ Head(stack).op = "updateEach" /\ stack # <<>>
        /\ Head(stack).ids \in SUBSET NotificationId /\ Tail(stack) \in Seq(Frame)
        /\ Unmoved
    BY <1>5, TopType, FrameFields DEF UpdateEach, Unmoved, Top, sinkVars
  <2>2. FramesOf(stack) = {Head(stack)} \cup FramesOf(Tail(stack))
    BY <1>0, <2>1, FramesOfTail
  <2>3. CASE stack' = Tail(stack) /\ UNCHANGED notificationContainer
    <3>1. StillDue({})
      BY <2>1, <2>3, TopTaken
    <3>2. QED
      BY <2>1, <2>3, <3>1 DEF Leaving
  <2>4. ASSUME NEW id \in Head(stack).ids
        PROVE  LET rest == <<UpdateEachFrame(Head(stack).ids \ {id})>> \o Tail(stack) IN
               /\ rest \in Seq(Frame)
               /\ \A f \in FramesOf(stack) : f.op # "updateEach" => f \in FramesOf(rest)
               /\ \A f \in FramesOf(rest) : f.op = "groupGone" => f \in FramesOf(stack)
               /\ GravesBelow(stack) => GravesBelow(rest)
               /\ stack' = rest => StillDue({})
    <3> DEFINE h == UpdateEachFrame(Head(stack).ids \ {id})
               rest == <<h>> \o Tail(stack)
    <3>1. h \in Frame /\ h.op = "updateEach"
      BY <2>1, FrameTypes DEF UpdateEachFrame
    <3> HIDE DEF h
    <3>2. <<h>> \in Seq(Frame) /\ FramesOf(<<h>>) = {h}
      BY <1>0, <3>1
    <3>3. rest \in Seq(Frame) /\ FramesOf(rest) = {h} \cup FramesOf(Tail(stack))
      BY <2>1, <3>2, FramesOfConcat, ConcatProperties
    <3>8. NoGrave(<<h>>)
      BY <3>1, <3>2 DEF NoGrave, Grave
    <3>9. GravesBelow(stack) => GravesBelow(rest)
      BY <1>0, <2>1, <3>2, <3>8, GravesUnderTop, GravesOnTop, NoGraveBelow
    <3>4. stack' = rest => StillDue({})
      BY <2>1, <3>1, <3>2, <3>8, TopGivesWay
    <3> HIDE DEF rest
    <3>5. /\ \A f \in FramesOf(stack) : f.op # "updateEach" => f \in FramesOf(rest)
          /\ \A f \in FramesOf(rest) : f.op = "groupGone" => f \in FramesOf(stack)
      BY <2>1, <2>2, <3>1, <3>3
    <3>6. QED
      BY <3>3, <3>4, <3>9, <3>5 DEF rest, h
  <2>5. ASSUME NEW id \in Head(stack).ids, id \in DOMAIN notificationContainer,
               UpdateNotification(id, AppendEventTypeParameters(notificationContainer[id]),
                                  notificationContainer[id].timestamp,
                                  <<UpdateEachFrame(Head(stack).ids \ {id})>> \o Tail(stack))
        PROVE  Updating(id)
    <3> DEFINE q == AppendEventTypeParameters(notificationContainer[id])
               t == notificationContainer[id].timestamp
               rest == <<UpdateEachFrame(Head(stack).ids \ {id})>> \o Tail(stack)
    <3>1. notificationContainer[id] \in Notification
      BY <2>5 DEF TypeOK, StoresOK, IsStore
    <3>2. q.class \in Class /\ q.persistent \in Flag /\ q.eventType \in EventTypeRef /\ t \in Times
      BY <3>1, AppendNotificationType DEF Notification
    <3>3. /\ rest \in Seq(Frame)
          /\ \A f \in FramesOf(stack) : f.op # "updateEach" => f \in FramesOf(rest)
          /\ \A f \in FramesOf(rest) : f.op = "groupGone" => f \in FramesOf(stack)
          /\ GravesBelow(stack) => GravesBelow(rest)
      BY <2>4
    <3> HIDE DEF q, t, rest
    <3>4. UpdateNotification(id, q, t, rest)
      BY <2>5 DEF q, t, rest
    <3>5. QED
      BY <2>5, <3>2, <3>3, <3>4, UpdateUpdates
  <2>6. CASE \E id \in Head(stack).ids :
                /\ stack' = <<UpdateEachFrame(Head(stack).ids \ {id})>> \o Tail(stack)
                /\ UNCHANGED notificationContainer
    <3>1. StillDue({})
      BY <2>4, <2>6
    <3>2. QED
      BY <2>1, <2>6, <3>1 DEF Leaving
  <2>7. \/ \E id \in Head(stack).ids : Updating(id)
        \/ stack' = Tail(stack) /\ UNCHANGED notificationContainer
        \/ \E id \in Head(stack).ids :
                /\ stack' = <<UpdateEachFrame(Head(stack).ids \ {id})>> \o Tail(stack)
                /\ UNCHANGED notificationContainer
    BY <1>5, <2>5 DEF UpdateEach
  <2>8. QED
    BY <2>1, <2>3, <2>6, <2>7
<1>6. CASE RemoveGroups
  <2>1. /\ Top("removeGroups") /\ Head(stack).groups \in SUBSET GroupId
        /\ Unmoved /\ UNCHANGED notificationContainer
    BY <1>6, TopType, FrameFields DEF RemoveGroups, Unmoved, sinkVars
  <2>2. ASSUME NEW g \in Head(stack).groups,
               stack' = <<RemoveGroupFrame(g), RemoveGroupsFrame(Head(stack).groups \ {g})>> \o Tail(stack)
        PROVE  StillDue({})
    <3> DEFINE f == RemoveGroupFrame(g)
               h == RemoveGroupsFrame(Head(stack).groups \ {g})
    <3>1. f \in Frame /\ f.op = "removeGroup" /\ h \in Frame /\ h.op = "removeGroups"
      BY <2>1, FrameTypes DEF RemoveGroupFrame, RemoveGroupsFrame
    <3>2. stack' = <<f, h>> \o Tail(stack)
      BY <2>2
    <3> HIDE DEF f, h
    <3>3. <<f, h>> \in Seq(Frame) /\ \A k \in FramesOf(<<f, h>>) : k.op # "groupGone"
      BY <1>0, <3>1
    <3>4. Grave(Head(stack)) /\ GravesBelow(<<f, h>>)
      BY <2>1, <3>1, TopType DEF Grave, GravesBelow
    <3>5. QED
      BY <2>1, <3>2, <3>3, <3>4, TopMadeWay
  <2>3. StillDue({})
    BY <1>6, <2>1, <2>2, TopTaken DEF RemoveGroups
  <2>4. QED
    BY <2>1, <2>3 DEF Leaving
<1>7. CASE Prune
  <2>1. StillDue({})
    BY <1>7, TopTaken DEF Prune
  <2>2. QED
    BY <1>7, <2>1 DEF Prune, Leaving, Unmoved, sinkVars
<1>8. QED
  BY <1>1, <1>2, <1>3, <1>4, <1>5, <1>6, <1>7 DEF RunFrame

LEMMA AddLeaves ==
    ASSUME TypeOK, NEW p \in AddParams, NEW g \in GroupRef, NEW t \in Times, AddNotification(p, g, t)
    PROVE  Unmoved /\ \E n : Adding(n)
<1>1. PICK n : /\ n.id = Smallest(FreeNotificationIds) /\ n.group = g
               /\ notificationContainer' = Insert(notificationContainer, n.id, n)
               /\ Submit(n, TimestampFrames(g))
  BY Zenon DEF AddNotification
<1>2. n \in Notification
  <2>1. TypeOK'
    BY AddNotificationType
  <2>2. QED
    BY <1>1, <2>1 DEF TypeOK, StoresOK, IsStore, Insert
<1>3. n.id \notin DOMAIN notificationContainer
  <2>1. FreeNotificationIds \subseteq Nat /\ FreeNotificationIds # {}
    BY ConstantsAssumption DEF AddNotification, FreeNotificationIds, NotificationId, ConstantsAssumption
  <2>2. Smallest(FreeNotificationIds) \in FreeNotificationIds
    BY <2>1, SmallestProperties
  <2>3. QED
    BY <1>1, <2>2 DEF FreeNotificationIds
<1>4. /\ DOMAIN notificationContainer' = DOMAIN notificationContainer \cup {n.id}
      /\ \A i \in DOMAIN notificationContainer :
              notificationContainer'[i] = notificationContainer[i]
      /\ notificationContainer'[n.id] = n
  BY <1>1, <1>3 DEF Insert
<1> DEFINE after == TimestampFrames(g)
<1>5. /\ after \in Seq(Frame)
      /\ \A f \in FramesOf(after) : f.op # "groupGone"
      /\ FramesOf(after) = IF g = 0 THEN {} ELSE {[op |-> "timestamp", group |-> g]}
  BY TimestampFramesType, FramesOfTimestamp
<1>6. g # 0 => \E f \in FramesOf(after) : f.op = "timestamp" /\ f.group = g
  <2> DEFINE stamp == [op |-> "timestamp", group |-> g]
  <2>1. stamp.op = "timestamp" /\ stamp.group = g /\ (g # 0 => stamp \in FramesOf(after))
    BY <1>5
  <2> HIDE DEF stamp, after
  <2>2. QED
    BY <2>1
<1>7. stack' = after \/ Emit(n, after)
  BY <1>1 DEF Submit
<1> HIDE DEF after
<1>8. /\ FramesOf(after) \subseteq FramesOf(stack')
      /\ \A f \in FramesOf(stack') : f.op # "groupGone"
  BY <1>2, <1>5, <1>7, EmitLeaves
<1>9. /\ Unmoved /\ stack = <<>> /\ n.group \in {0} \cup DOMAIN groupContainer
  BY <1>1 DEF AddNotification, Unmoved, Idle, sinkVars
<1>10. StillDue({})
  <2>1. GravesBelow(after)
    BY <1>5, NoGraveBelow DEF NoGrave, Grave
  <2>2. GravesBelow(stack')
    BY <1>2, <1>5, <1>7, <2>1, EmitLeaves
  <2>3. QED
    BY <1>8, <1>9, <2>2, NothingDue
<1>11. n.group # 0 => \E f \in FramesOf(stack') : f.op = "timestamp" /\ f.group = n.group
  BY <1>1, <1>6, <1>8
<1>12. Adding(n)
  BY <1>3, <1>4, <1>9, <1>10, <1>11 DEF Adding
<1>13. QED
  BY <1>9, <1>12

\* An event that only starts a call.
LEMMA CallLeaves ==
    ASSUME NEW frames, Call(frames), \A f \in FramesOf(frames) : f.op # "groupGone",
           GravesBelow(frames)
    PROVE  Unmoved /\ Leaving
<1>1. Unmoved /\ UNCHANGED notificationContainer
  BY DEF Call, Unmoved, sinkVars
<1>2. StillDue({})
  BY NothingDue DEF Call, Idle
<1>3. QED
  BY <1>1, <1>2 DEF Leaving

\* An event that does not.
LEMMA StayLeaves ==
    ASSUME UNCHANGED <<notificationContainer, stack>>
    PROVE  Leaving
<1>1. StillDue({})
  BY DEF StillDue
<1>2. QED
  BY <1>1 DEF Leaving

\* What any step may do to the groups and to what is still to be done for them.
LEMMA StepLeaves ==
    ASSUME TypeOK, Ground, Next
    PROVE  \/ Unmoved /\ Leaving
           \/ Unmoved /\ \E id : Removing(id) \/ Updating(id)
           \/ Unmoved /\ \E n : Adding(n)
           \/ FinishUpdate \/ UpdateGroupTimestamp \/ DoRemoveGroup \/ FinishRemoveGroup
           \/ UpdateGroups
           \/ \E et \in EventTypeRef : AddGroup(et)
           \/ \E g \in GroupId, et \in EventTypeRef : UpdateGroup(g, et)
           \/ RegisterSink \/ UnregisterSink \/ Start \/ Crash
<1>0. /\ \A f : FramesOf(<<f>>) = {f}
      /\ \A f, g : FramesOf(<<f, g>>) = {f, g}
      /\ FramesOf(<<>>) = {}
  BY FramesOfFew
<1>1. CASE RunFrame
  BY <1>1, RunFrameLeaves DEF Ground
<1>2. ASSUME NEW p \in AddParams, NEW g \in GroupRef, NEW t \in Times, AddNotification(p, g, t)
      PROVE  Unmoved /\ \E n : Adding(n)
  BY <1>2, AddLeaves
<1>3. ASSUME NEW id \in NotificationId, NEW p \in UpdateParams, NEW t \in Times,
             ClientUpdatesNotification(id, p, t)
      PROVE  Unmoved /\ Updating(id)
  <2>1. p.class \in Class /\ p.persistent \in Flag /\ p.eventType \in EventTypeRef
    BY ConstantsAssumption DEF ConstantsAssumption, Params
  <2>2. /\ stack = <<>> /\ id \in DOMAIN notificationContainer /\ Unmoved
        /\ UpdateNotification(id, p, t, <<>>)
    BY <1>3 DEF ClientUpdatesNotification, Idle, Unmoved, sinkVars
  <2>3. /\ <<>> \in Seq(Frame) /\ FramesOf(stack) = {}
    BY <1>0, <2>2
  <2>4. Updating(id)
    BY <1>0, <2>1, <2>2, <2>3, UpdateUpdates DEF Ground
  <2>5. QED
    BY <2>2, <2>4
<1>4. ASSUME NEW frame, Post(frame)
      PROVE  Unmoved /\ Leaving
  BY <1>4, StayLeaves DEF Post, Unmoved, sinkVars
<1>5. CASE DeliverPosted
  <2>1. Head(posted) \in FramesOf(posted)
    BY <1>5, FramesOfTail DEF DeliverPosted, TypeOK, CallsOK
  <2>2. \A f \in FramesOf(<<Head(posted)>>) : f.op # "groupGone"
    BY <1>0, <2>1 DEF Ground, PostedRemovals
  <2>3. QED
    BY <1>5, <2>2, FewGraves, CallLeaves DEF DeliverPosted
<1>6. ASSUME NEW s, NEW id \in NotificationId, SinkRemovesNotification(s, id)
      PROVE  Unmoved /\ Leaving
  <2>1. \A f \in FramesOf(<<RemoveFrame(id)>>) : f.op # "groupGone"
    BY <1>0 DEF RemoveFrame
  <2>2. QED
    BY <1>6, <2>1, FewGraves, CallLeaves DEF SinkRemovesNotification
<1>7. ASSUME NEW s, NEW g, SinkClearsGroup(s, g)
      PROVE  Unmoved /\ Leaving
  <2>1. \A f \in FramesOf(<<RemoveEachFrame(Members(g))>>) : f.op # "groupGone"
    BY <1>0 DEF RemoveEachFrame
  <2>2. QED
    BY <1>7, <2>1, FewGraves, CallLeaves DEF SinkClearsGroup
<1>8. ASSUME NEW et, NEW settings, EventTypeModified(et, settings)
      PROVE  Unmoved /\ Leaving
  <2> DEFINE f == UpdateEachFrame(OfEventType(notificationContainer, et))
             h == UpdateGroupsFrame(OfEventType(groupContainer, et))
  <2>1. f.op = "updateEach" /\ h.op = "updateGroups"
    BY DEF UpdateEachFrame, UpdateGroupsFrame
  <2>2. Call(<<f, h>>)
    BY <1>8 DEF EventTypeModified
  <2> HIDE DEF f, h
  <2>3. /\ \A k \in FramesOf(<<f, h>>) : k.op # "groupGone"
        /\ GravesBelow(<<f, h>>)
    BY <1>0, <2>1, FewGraves DEF Grave
  <2>4. QED
    BY <2>2, <2>3, CallLeaves
<1>9. ASSUME NEW et, EventTypeUninstalled(et)
      PROVE  Unmoved /\ Leaving
  <2> DEFINE f == RemoveEachFrame(OfEventType(notificationContainer, et))
             h == RemoveGroupsFrame(OfEventType(groupContainer, et))
  <2>1. f.op = "removeEach" /\ h.op = "removeGroups"
    BY DEF RemoveEachFrame, RemoveGroupsFrame
  <2>2. Call(<<f, h>>)
    BY <1>9 DEF EventTypeUninstalled
  <2> HIDE DEF f, h
  <2>3. /\ \A k \in FramesOf(<<f, h>>) : k.op # "groupGone"
        /\ GravesBelow(<<f, h>>)
    BY <1>0, <2>1, FewGraves DEF Grave
  <2>4. QED
    BY <2>2, <2>3, CallLeaves
<1>10. CASE NotificationUserId
  BY <1>10, StayLeaves DEF NotificationUserId, Unmoved, sinkVars
<1>11. CASE RelayNextNotification
  <2>1. /\ stack = <<>> /\ Relay(<<>>) /\ Unmoved /\ UNCHANGED notificationContainer
    BY <1>11 DEF RelayNextNotification, Idle, Unmoved, sinkVars
  <2>2. stack' = <<>> \/ \E n \in Notification : Emit(n, <<>>)
    <3>1. waitQueue # <<>> => Head(waitQueue) \in Notification
      BY DEF TypeOK, RelayOK
    <3>2. QED
      BY <2>1, <3>1, Zenon DEF Relay
  <2>3. <<>> \in Seq(Frame)
    OBVIOUS
  <2>4. (\A f \in FramesOf(stack') : f.op # "groupGone") /\ GravesBelow(stack')
    BY <1>0, <2>2, <2>3, FewGraves, EmitLeaves
  <2>5. QED
    BY <2>1, <2>4, NothingDue DEF Leaving
<1>12. ASSUME \/ \E et \in EventTypes, settings \in EventTypeSettings :
                    EventTypeChangesUnseen(et, settings)
              \/ Reboot
       PROVE  Unmoved /\ Leaving
  BY <1>12, StayLeaves DEF EventTypeChangesUnseen, Reboot, Unmoved, sinkVars
<1>13. QED
  BY <1>1, <1>2, <1>3, <1>4, <1>5, <1>6, <1>7, <1>8, <1>9, <1>10, <1>11, <1>12
     DEF Next, ClientRemovesNotification, ClientRemovesGroup, BannerDone

-----------------------------------------------------------------------------
(* What a registered D-Bus sink knows of the groups.                       *)

\* It knows those there are, and about any other it is going to be told.
SinkKnowsGroups ==
    /\ \A f \in FramesOf(stack) : f.op = "groupGone" => f.group \notin DOMAIN groupContainer
    /\ DOMAIN toldGroups = GroupSinks
    /\ IF dbusRegistered
       THEN /\ DOMAIN groupContainer \subseteq toldGroups["dbus"]
            /\ \A g \in toldGroups["dbus"] \ DOMAIN groupContainer : GoneDue(g)
       ELSE toldGroups["dbus"] = {}

LEMMA SinkStillKnows ==
    ASSUME SinkKnowsGroups, Unmoved, NEW gone, StillDue(gone)
    PROVE  SinkKnowsGroups'
<1>1. \A g : GoneDue(g) => GoneDue(g)'
  BY DEF StillDue, GoneDue
<1>2. \A f \in FramesOf(stack') : f.op = "groupGone" => f \in FramesOf(stack)
  BY DEF StillDue
<1>3. QED
  BY <1>1, <1>2 DEF SinkKnowsGroups, Unmoved

\* The sinks are told of groups that are there.
LEMMA SinkHearsGroups ==
    ASSUME SinkKnowsGroups, NEW gs, gs \subseteq DOMAIN groupContainer', TellGroups(gs),
           DOMAIN groupContainer' = DOMAIN groupContainer \cup gs, UNCHANGED dbusRegistered,
           stack = <<>> \/ gs \subseteq DOMAIN groupContainer, NEW gone, StillDue(gone)
    PROVE  SinkKnowsGroups'
<1>1. \A g : GoneDue(g) => GoneDue(g)'
  BY DEF StillDue, GoneDue
<1>2. \A f \in FramesOf(stack') : f.op = "groupGone" => f \in FramesOf(stack)
  BY DEF StillDue
<1>3. /\ DOMAIN toldGroups' = GroupSinks
      /\ toldGroups'["dbus"] = IF dbusRegistered THEN toldGroups["dbus"] \cup gs ELSE toldGroups["dbus"]
  BY DEF TellGroups, GroupSinks
<1>4. \A f \in FramesOf(stack') : f.op = "groupGone" => f.group \notin DOMAIN groupContainer'
  BY <1>2, FramesOfFew DEF SinkKnowsGroups
<1>5. QED
  BY <1>1, <1>3, <1>4 DEF SinkKnowsGroups

\* The top frame is taken, and it has nothing to do with what is still to be told.
LEMMA OthersRemain ==
    ASSUME TypeOK, NEW op, Top(op), stack' = Tail(stack)
    PROVE  /\ FramesOf(stack) = {Head(stack)} \cup FramesOf(stack')
           /\ Head(stack).op = op
           /\ Head(stack) \in Frame
BY TopType, FramesOfTail DEF Top, TypeOK, CallsOK

LEMMA SinkKnowsGroupsStep ==
    ASSUME TypeOK, Ground, SinkKnowsGroups, [Next]_vars
    PROVE  SinkKnowsGroups'
<1>0. stack \in Seq(Frame)
  BY DEF TypeOK, CallsOK
<1>1. ASSUME NEW id, Removing(id) \/ Updating(id), Unmoved
      PROVE  SinkKnowsGroups'
  <2>1. PICK gone : StillDue(gone)
    BY <1>1 DEF Removing, Updating
  <2>2. QED
    BY <1>1, <2>1, SinkStillKnows
<1>2. ASSUME NEW n, Adding(n), Unmoved
      PROVE  SinkKnowsGroups'
  BY <1>2, SinkStillKnows DEF Adding
<1>3. CASE Unmoved /\ Leaving
  BY <1>3, SinkStillKnows DEF Leaving
<1>4. CASE FinishUpdate
  <2>1. Top("updateTail") /\ Unmoved
    BY <1>4 DEF FinishUpdate, Unmoved, sinkVars
  <2>2. PICK g \in GroupRef : stack' = TimestampFrames(g) \o Tail(stack)
    <3>1. \A id \in DOMAIN notificationContainer : notificationContainer[id].group \in GroupRef
      BY DEF TypeOK, StoresOK, IsStore, Notification
    <3>2. QED
      BY <1>4, <3>1 DEF FinishUpdate
  <2>3. /\ Head(stack).op = "updateTail" /\ Tail(stack) \in Seq(Frame) /\ stack # <<>>
        /\ FramesOf(stack) = {Head(stack)} \cup FramesOf(Tail(stack))
    BY <1>0, <2>1, TopType, FramesOfTail DEF Top
  <2>4. /\ FramesOf(Tail(stack)) \subseteq FramesOf(stack')
        /\ \A f \in FramesOf(stack') : f.op = "groupGone" => f \in FramesOf(Tail(stack))
    BY <2>2, <2>3, StampLeaves
  <2>5. \A f \in FramesOf(stack) : f.op = "groupGone" => f \in FramesOf(stack')
    BY <2>3, <2>4
  <2>6. \A g1 : GoneDue(g1) => GoneDue(g1)'
    BY <2>5 DEF GoneDue
  <2>7. QED
    BY <2>1, <2>3, <2>4, <2>6 DEF SinkKnowsGroups, Unmoved
<1>5. CASE UpdateGroupTimestamp
  <2>1. /\ Top("timestamp") /\ stack' = Tail(stack) /\ UNCHANGED dbusRegistered
        /\ \/ UNCHANGED <<groupContainer, toldGroups>>
           \/ /\ Head(stack).group \in DOMAIN groupContainer
              /\ DOMAIN groupContainer' = DOMAIN groupContainer
              /\ TellGroups({Head(stack).group})
    BY <1>5 DEF UpdateGroupTimestamp
  <2>2. FramesOf(stack) = {Head(stack)} \cup FramesOf(stack') /\ Head(stack).op = "timestamp"
    BY <2>1, OthersRemain
  <2>3. /\ \A g : GoneDue(g) => GoneDue(g)'
        /\ \A f \in FramesOf(stack') : f.op = "groupGone" => f \in FramesOf(stack)
    BY <2>2 DEF GoneDue
  <2>4. /\ DOMAIN toldGroups' = GroupSinks
        /\ DOMAIN groupContainer' = DOMAIN groupContainer
        /\ \/ toldGroups'["dbus"] = toldGroups["dbus"]
           \/ /\ dbusRegistered
              /\ toldGroups'["dbus"] = toldGroups["dbus"] \cup {Head(stack).group}
              /\ Head(stack).group \in DOMAIN groupContainer
    BY <2>1 DEF TellGroups, GroupSinks, SinkKnowsGroups
  <2>5. QED
    BY <2>1, <2>3, <2>4 DEF SinkKnowsGroups
<1>6. CASE DoRemoveGroup
  <2>0. PICK g : g = Head(stack).group
    OBVIOUS
  <2> DEFINE f == RemoveEachFrame(Members(g))
             h == GroupGoneFrame(g)
  <2>1. /\ Top("removeGroup") /\ UNCHANGED <<toldGroups, dbusRegistered>> /\ g \in GroupId
        /\ Head(stack).op = "removeGroup" /\ stack # <<>> /\ Tail(stack) \in Seq(Frame)
    BY <1>6, <2>0, TopType, FrameFields DEF DoRemoveGroup, sinkVars, Top
  <2>2. CASE UNCHANGED groupContainer /\ stack' = Tail(stack)
    BY <2>1, <2>2, TopTaken, SinkStillKnows DEF Unmoved
  <2>3. CASE /\ g \in DOMAIN groupContainer
             /\ groupContainer' = Without(groupContainer, g)
             /\ stack' = <<f, h>> \o Tail(stack)
    <3>1. f \in Frame /\ f.op = "removeEach" /\ h \in Frame /\ h.op = "groupGone" /\ h.group = g
      <4>1. Members(g) \in SUBSET NotificationId
        BY DEF Members, TypeOK, StoresOK, IsStore
      <4>2. QED
        BY <2>1, <4>1, FrameTypes DEF RemoveEachFrame, GroupGoneFrame
    <3>2. DOMAIN groupContainer' = DOMAIN groupContainer \ {g}
      BY <2>3 DEF Without, Restrict
    <3>3. FramesOf(stack) = {Head(stack)} \cup FramesOf(Tail(stack))
      BY <1>0, <2>1, FramesOfTail
    <3> HIDE DEF f, h
    <3>4. <<f, h>> \in Seq(Frame) /\ FramesOf(<<f, h>>) = {f, h}
      BY <3>1, FramesOfFew
    <3>5. FramesOf(stack') = {f, h} \cup FramesOf(Tail(stack))
      BY <2>1, <2>3, <3>4, FramesOfConcat
    <3>6. GoneDue(g)'
      BY <3>1, <3>5 DEF GoneDue
    <3>7. \A k : GoneDue(k) => GoneDue(k)'
      BY <2>1, <3>3, <3>5 DEF GoneDue
    <3>8. \A k \in FramesOf(stack') : k.op = "groupGone" => k.group \notin DOMAIN groupContainer'
      BY <3>1, <3>2, <3>3, <3>5 DEF SinkKnowsGroups
    <3>9. QED
      BY <2>1, <3>2, <3>6, <3>7, <3>8 DEF SinkKnowsGroups
  <2>4. QED
    BY <1>6, <2>0, <2>2, <2>3 DEF DoRemoveGroup
<1>7. CASE FinishRemoveGroup
  <2>1. /\ Top("groupGone") /\ stack' = Tail(stack) /\ UNCHANGED <<dbusRegistered, groupContainer>>
        /\ TellGroupRemoved(Head(stack).group)
    BY <1>7 DEF FinishRemoveGroup
  <2>2. FramesOf(stack) = {Head(stack)} \cup FramesOf(stack') /\ Head(stack).op = "groupGone"
    BY <2>1, OthersRemain
  <2>3. /\ DOMAIN toldGroups' = GroupSinks
        /\ toldGroups'["dbus"] = toldGroups["dbus"] \ {Head(stack).group}
    BY <2>1 DEF TellGroupRemoved, GroupSinks, SinkKnowsGroups
  <2>4. Head(stack).group \notin DOMAIN groupContainer
    BY <2>2 DEF SinkKnowsGroups
  <2>5. \A g : g # Head(stack).group /\ GoneDue(g) => GoneDue(g)'
    BY <2>2 DEF GoneDue
  <2>6. QED
    BY <2>1, <2>2, <2>3, <2>4, <2>5 DEF SinkKnowsGroups
<1>8. CASE UpdateGroups
  <2>1. /\ Top("updateGroups") /\ stack' = Tail(stack) /\ UNCHANGED <<dbusRegistered, groupContainer>>
        /\ \/ UNCHANGED toldGroups
           \/ TellGroups(Head(stack).groups \cap DOMAIN groupContainer)
    BY <1>8 DEF UpdateGroups
  <2>2. StillDue({})
    BY <2>1, TopTaken
  <2>3. CASE UNCHANGED toldGroups
    BY <2>1, <2>2, <2>3, SinkStillKnows DEF Unmoved
  <2>4. CASE TellGroups(Head(stack).groups \cap DOMAIN groupContainer)
    <3> DEFINE gs == Head(stack).groups \cap DOMAIN groupContainer
    <3>1. /\ gs \subseteq DOMAIN groupContainer /\ gs \subseteq DOMAIN groupContainer'
          /\ DOMAIN groupContainer' = DOMAIN groupContainer \cup gs
      BY <2>1
    <3>2. TellGroups(gs)
      BY <2>4
    <3> HIDE DEF gs
    <3>3. QED
      BY <2>1, <2>2, <3>1, <3>2, SinkHearsGroups
  <2>5. QED
    BY <2>1, <2>3, <2>4
<1>9. ASSUME NEW et \in EventTypeRef, AddGroup(et)
      PROVE  SinkKnowsGroups'
  <2> DEFINE g == Smallest(FreeGroupIds)
  <2>1. /\ stack = <<>> /\ UNCHANGED <<stack, dbusRegistered>> /\ TellGroups({g})
        /\ DOMAIN groupContainer' = DOMAIN groupContainer \cup {g}
    BY <1>9 DEF AddGroup, Idle, Insert
  <2> HIDE DEF g
  <2>2. StillDue({})
    BY <2>1 DEF StillDue
  <2>3. QED
    BY <2>1, <2>2, SinkHearsGroups
<1>10. ASSUME NEW g \in GroupId, NEW et \in EventTypeRef, UpdateGroup(g, et)
       PROVE  SinkKnowsGroups'
  <2>1. /\ stack = <<>> /\ UNCHANGED <<stack, dbusRegistered>> /\ TellGroups({g})
        /\ g \in DOMAIN groupContainer
        /\ DOMAIN groupContainer' = DOMAIN groupContainer
    BY <1>10 DEF UpdateGroup, Idle
  <2>2. StillDue({})
    BY <2>1 DEF StillDue
  <2>3. DOMAIN groupContainer' = DOMAIN groupContainer \cup {g} /\ {g} \subseteq DOMAIN groupContainer'
    BY <2>1
  <2>4. QED
    BY <2>1, <2>2, <2>3, SinkHearsGroups
<1>11. CASE RegisterSink
  <2>1. /\ stack = <<>> /\ stack' = <<>> /\ dbusRegistered' = TRUE /\ UNCHANGED groupContainer
        /\ toldGroups' = [toldGroups EXCEPT !["dbus"] = @ \cup DOMAIN groupContainer]
    BY <1>11 DEF RegisterSink, Idle
  <2>2. \A g : ~GoneDue(g)
    BY <2>1, FramesOfFew DEF GoneDue
  <2>3. toldGroups["dbus"] \subseteq DOMAIN groupContainer
    BY <2>2 DEF SinkKnowsGroups
  <2>4. toldGroups'["dbus"] = DOMAIN groupContainer /\ DOMAIN toldGroups' = GroupSinks
    BY <2>1, <2>3 DEF SinkKnowsGroups, GroupSinks
  <2>5. QED
    BY <2>1, <2>4, FramesOfFew DEF SinkKnowsGroups
<1>12. CASE UnregisterSink
  <2>1. /\ stack = <<>> /\ stack' = <<>> /\ dbusRegistered' = FALSE /\ UNCHANGED groupContainer
        /\ toldGroups' = [toldGroups EXCEPT !["dbus"] = {}]
    BY <1>12 DEF UnregisterSink, Idle
  <2>2. toldGroups'["dbus"] = {} /\ DOMAIN toldGroups' = GroupSinks
    BY <2>1 DEF SinkKnowsGroups, GroupSinks
  <2>3. QED
    BY <2>1, <2>2, FramesOfFew DEF SinkKnowsGroups
<1>13. CASE Start
  <2>1. /\ ~dbusRegistered /\ UNCHANGED dbusRegistered /\ stack' = <<PruneFrame>>
        /\ toldGroups'["dbus"] = toldGroups["dbus"] /\ DOMAIN toldGroups' = GroupSinks
    BY <1>13 DEF Start, Ground, NothingToldWhileDown, SinkKnowsGroups, GroupSinks
  <2>2. \A f \in FramesOf(stack') : f.op # "groupGone"
    BY <2>1, FramesOfFew DEF PruneFrame
  <2>3. QED
    BY <2>1, <2>2 DEF SinkKnowsGroups
<1>14. CASE Crash
  <2>1. dbusRegistered' = FALSE /\ toldGroups' = [s \in GroupSinks |-> {}] /\ FramesOf(stack') = {}
    BY <1>14, FramesOfFew DEF Crash
  <2>2. QED
    BY <2>1 DEF SinkKnowsGroups, GroupSinks
<1>15. CASE UNCHANGED vars
  BY <1>15 DEF vars, sinkVars, SinkKnowsGroups, GoneDue
<1>16. QED
  BY <1>1, <1>2, <1>3, <1>4, <1>5, <1>6, <1>7, <1>8, <1>9, <1>10, <1>11, <1>12, <1>13, <1>14,
     <1>15, StepLeaves

\* Between events a registered D-Bus sink knows exactly the groups there are, whatever
\* was removed inside which removal, across crashes too
\* (notificationmanager.cpp:431-444, 680-707).
THEOREM SinkAlwaysKnowsGroups == Spec => []DBusSinkKnowsGroups
<1>1. Init => SinkKnowsGroups
  BY FramesOfFew DEF Init, SinkKnowsGroups, GroupSinks, Empty
<1>2. SinkKnowsGroups => DBusSinkKnowsGroups
  <2>1. stack = <<>> => \A g : ~GoneDue(g)
    BY FramesOfFew DEF GoneDue
  <2>2. QED
    BY <2>1 DEF SinkKnowsGroups, DBusSinkKnowsGroups, Idle
<1>3. QED
  BY <1>1, <1>2, SinkKnowsGroupsStep, TypeCorrect, GroundHolds, PTL DEF Spec

-----------------------------------------------------------------------------
(* The groups and their members, in memory and on the disk.  A crash in    *)
(* doRemoveGroup finds a group gone and its notifications still there.     *)

\* A notification of a group that is gone is going to be removed too.
MembersHaveGroups ==
    \A id \in DOMAIN notificationContainer :
        notificationContainer[id].group \in {0} \cup DOMAIN groupContainer \/ Dying(id)

LEMMA MembersStay ==
    ASSUME MembersHaveGroups, DOMAIN groupContainer \subseteq DOMAIN groupContainer',
           \A id \in DOMAIN notificationContainer' :
                /\ id \in DOMAIN notificationContainer
                /\ notificationContainer'[id].group = notificationContainer[id].group
                /\ Dying(id) => Dying(id)'
    PROVE  MembersHaveGroups'
BY DEF MembersHaveGroups

LEMMA DyingStays ==
    ASSUME \A f \in FramesOf(stack) : f.op = "removeEach" => f \in FramesOf(stack')
    PROVE  \A id : Dying(id) => Dying(id)'
BY DEF Dying

\* updateNotification is over: the removals go on.
LEMMA UpdateFinished ==
    ASSUME TypeOK, FinishUpdate
    PROVE  /\ \A f \in FramesOf(stack) : f.op = "removeEach" => f \in FramesOf(stack')
           /\ GravesBelow(stack) => GravesBelow(stack')
<1>1. /\ Top("updateTail") /\ Head(stack).op = "updateTail" /\ stack # <<>>
      /\ Tail(stack) \in Seq(Frame) /\ stack \in Seq(Frame)
  BY TopType DEF FinishUpdate, Top, TypeOK, CallsOK
<1>2. PICK g \in GroupRef : stack' = TimestampFrames(g) \o Tail(stack)
  <2>1. \A id \in DOMAIN notificationContainer : notificationContainer[id].group \in GroupRef
    BY DEF TypeOK, StoresOK, IsStore, Notification
  <2>2. QED
    BY <2>1 DEF FinishUpdate
<1>3. FramesOf(stack) = {Head(stack)} \cup FramesOf(Tail(stack))
  BY <1>1, FramesOfTail
<1>4. /\ FramesOf(Tail(stack)) \subseteq FramesOf(stack')
      /\ GravesBelow(Tail(stack)) => GravesBelow(stack')
  BY <1>1, <1>2, StampLeaves
<1>5. QED
  BY <1>1, <1>3, <1>4, GravesUnderTop

\* A group's removal begins with the removal of its members.
LEMMA RemovalBegins ==
    ASSUME TypeOK, DoRemoveGroup
    PROVE  /\ UNCHANGED notificationContainer
           /\ \A f \in FramesOf(stack) : f.op # "removeGroup" => f \in FramesOf(stack')
           /\ GravesBelow(stack) => GravesBelow(stack')
           /\ \A g \in DOMAIN groupContainer' : /\ g \in DOMAIN groupContainer
                                                /\ groupContainer'[g] = groupContainer[g]
           /\ \/ UNCHANGED groupContainer
              \/ \E g : /\ DOMAIN groupContainer' = DOMAIN groupContainer \ {g}
                        /\ \A id \in Members(g) : Dying(id)'
<1>0. PICK g : g = Head(stack).group
  OBVIOUS
<1>1. /\ Top("removeGroup") /\ UNCHANGED notificationContainer /\ g \in GroupId
      /\ Head(stack).op = "removeGroup" /\ stack # <<>> /\ Tail(stack) \in Seq(Frame)
      /\ stack \in Seq(Frame)
  BY <1>0, TopType, FrameFields DEF DoRemoveGroup, Top, TypeOK, CallsOK
<1>2. /\ FramesOf(stack) = {Head(stack)} \cup FramesOf(Tail(stack))
      /\ GravesBelow(stack) => GravesBelow(Tail(stack)) /\ AllGrave(Tail(stack))
  BY <1>1, FramesOfTail, GravesUnderTop DEF Grave
<1>3. CASE UNCHANGED groupContainer /\ stack' = Tail(stack)
  BY <1>1, <1>2, <1>3
<1> DEFINE f == RemoveEachFrame(Members(g))
           h == GroupGoneFrame(g)
<1>4. CASE /\ groupContainer' = Without(groupContainer, g)
           /\ stack' = <<f, h>> \o Tail(stack)
  <2>1. f \in Frame /\ f.op = "removeEach" /\ f.ids = Members(g) /\ h \in Frame /\ h.op = "groupGone"
    <3>1. Members(g) \in SUBSET NotificationId
      BY DEF Members, TypeOK, StoresOK, IsStore
    <3>2. QED
      BY <1>1, <3>1, FrameTypes DEF RemoveEachFrame, GroupGoneFrame
  <2>2. /\ DOMAIN groupContainer' = DOMAIN groupContainer \ {g}
        /\ \A k \in DOMAIN groupContainer' : groupContainer'[k] = groupContainer[k]
    BY <1>4 DEF Without, Restrict
  <2> HIDE DEF f, h
  <2>3. <<f, h>> \in Seq(Frame) /\ FramesOf(<<f, h>>) = {f, h} /\ GravesBelow(<<f, h>>)
    BY <2>1, FramesOfFew, FewGraves DEF Grave
  <2>4. FramesOf(stack') = {f, h} \cup FramesOf(Tail(stack))
    BY <1>1, <1>4, <2>3, FramesOfConcat
  <2>5. GravesBelow(stack) => GravesBelow(stack')
    BY <1>1, <1>2, <1>4, <2>3, GravesOnTop
  <2>6. \A id \in Members(g) : Dying(id)'
    BY <2>1, <2>4 DEF Dying
  <2>7. \A k \in FramesOf(stack) : k.op # "removeGroup" => k \in FramesOf(stack')
    BY <1>1, <1>2, <2>4
  <2>8. QED
    BY <1>1, <2>2, <2>5, <2>6, <2>7
<1>5. QED
  BY <1>0, <1>3, <1>4 DEF DoRemoveGroup

LEMMA MembersHaveGroupsStep ==
    ASSUME TypeOK, Ground, ~running => DiskNoOrphans, MembersHaveGroups, [Next]_vars
    PROVE  MembersHaveGroups'
<1>1. CASE Unmoved /\ Leaving
  <2>1. PICK gone : StillDue(gone) /\ gone \cap DOMAIN notificationContainer = {}
    BY <1>1 DEF Leaving
  <2>2. \A id \in DOMAIN notificationContainer : Dying(id) => Dying(id)'
    BY <2>1 DEF StillDue, Dying
  <2>3. QED
    BY <1>1, <2>2, MembersStay DEF Leaving, Unmoved
<1>2. ASSUME NEW id, Unmoved, Removing(id)
      PROVE  MembersHaveGroups'
  <2>1. \A i \in DOMAIN notificationContainer' : Dying(i) => Dying(i)'
    BY <1>2 DEF Removing, StillDue, Dying
  <2>2. QED
    BY <1>2, <2>1, MembersStay DEF Removing, Unmoved
<1>3. ASSUME NEW id, Unmoved, Updating(id)
      PROVE  MembersHaveGroups'
  <2>1. \A i : Dying(i) => Dying(i)'
    BY <1>3 DEF Updating, StillDue, Dying
  <2>2. QED
    BY <1>3, <2>1, MembersStay DEF Updating, Unmoved
<1>4. ASSUME NEW n, Unmoved, Adding(n)
      PROVE  MembersHaveGroups'
  <2>1. \A i : Dying(i) => Dying(i)'
    BY <1>4 DEF Adding, StillDue, Dying
  <2>2. QED
    BY <1>4, <2>1 DEF Adding, Unmoved, MembersHaveGroups
<1>5. CASE FinishUpdate
  <2>1. UNCHANGED <<notificationContainer, groupContainer>>
    BY <1>5 DEF FinishUpdate
  <2>2. QED
    BY <1>5, <2>1, UpdateFinished, DyingStays, MembersStay
<1>6. CASE UpdateGroupTimestamp \/ FinishRemoveGroup \/ UpdateGroups
  <2>1. /\ Top("timestamp") \/ Top("groupGone") \/ Top("updateGroups")
        /\ stack' = Tail(stack) /\ UNCHANGED notificationContainer
        /\ DOMAIN groupContainer' = DOMAIN groupContainer
    BY <1>6 DEF UpdateGroupTimestamp, FinishRemoveGroup, UpdateGroups
  <2>2. \A id : Dying(id) => Dying(id)'
    BY <2>1, OthersRemain, DyingStays
  <2>3. QED
    BY <2>1, <2>2, MembersStay
<1>7. CASE DoRemoveGroup
  <2>1. /\ UNCHANGED notificationContainer
        /\ \A id : Dying(id) => Dying(id)'
        /\ \/ UNCHANGED groupContainer
           \/ \E g : /\ DOMAIN groupContainer' = DOMAIN groupContainer \ {g}
                     /\ \A id \in Members(g) : Dying(id)'
    BY <1>7, RemovalBegins, DyingStays
  <2>2. QED
    BY <2>1 DEF MembersHaveGroups, Members
<1>8. CASE \/ \E et \in EventTypeRef : AddGroup(et)
           \/ \E g \in GroupId, et \in EventTypeRef : UpdateGroup(g, et)
           \/ RegisterSink \/ UnregisterSink \/ UNCHANGED vars
  <2>1. /\ UNCHANGED <<notificationContainer, stack>>
        /\ DOMAIN groupContainer \subseteq DOMAIN groupContainer'
    BY <1>8 DEF AddGroup, UpdateGroup, RegisterSink, UnregisterSink, vars, Insert
  <2>2. QED
    BY <2>1, DyingStays, MembersStay
<1>9. CASE Start
  <2>1. /\ DOMAIN groupContainer' = DOMAIN disk.groups
        /\ \A id \in DOMAIN notificationContainer' :
                /\ id \in DOMAIN disk.notifications
                /\ notificationContainer'[id] = AppendEventTypeParameters(disk.notifications[id])
    BY <1>9 DEF Start
  <2>2. \A id \in DOMAIN disk.notifications :
            AppendEventTypeParameters(disk.notifications[id]).group = disk.notifications[id].group
    BY DEF TypeOK, DiskOK, IsStore, Notification, AppendEventTypeParameters
  <2>3. DiskNoOrphans
    BY <1>9 DEF Start
  <2>4. QED
    BY <2>1, <2>2, <2>3 DEF DiskNoOrphans, MembersHaveGroups
<1>10. CASE Crash
  <2>1. DOMAIN notificationContainer' = {}
    BY <1>10 DEF Crash, Empty
  <2>2. QED
    BY <2>1 DEF MembersHaveGroups
<1>11. QED
  BY <1>1, <1>2, <1>3, <1>4, <1>5, <1>6, <1>7, <1>8, <1>9, <1>10, StepLeaves

LEMMA GravesBelowStep ==
    ASSUME TypeOK, Ground, GravesBelow(stack), [Next]_vars
    PROVE  GravesBelow(stack')
<1>1. ASSUME NEW gone, StillDue(gone)
      PROVE  GravesBelow(stack')
  BY <1>1 DEF StillDue
<1>2. CASE UpdateGroupTimestamp \/ FinishRemoveGroup \/ UpdateGroups
  <2>1. /\ Top("timestamp") \/ Top("groupGone") \/ Top("updateGroups")
        /\ stack' = Tail(stack) /\ stack \in Seq(Frame) /\ stack # <<>>
    BY <1>2 DEF UpdateGroupTimestamp, FinishRemoveGroup, UpdateGroups, Top, TypeOK, CallsOK
  <2>2. QED
    BY <2>1, GravesUnderTop
<1>3. CASE \/ \E et \in EventTypeRef : AddGroup(et)
           \/ \E g \in GroupId, et \in EventTypeRef : UpdateGroup(g, et)
           \/ RegisterSink \/ UnregisterSink \/ UNCHANGED vars
  BY <1>3 DEF AddGroup, UpdateGroup, RegisterSink, UnregisterSink, vars
<1>4. CASE Start \/ Crash
  BY <1>4, FewGraves DEF Start, Crash
<1>5. QED
  BY <1>1, <1>2, <1>3, <1>4, StepLeaves, UpdateFinished, RemovalBegins
     DEF Leaving, Removing, Updating, Adding

\* Which file is written when.
LEMMA WhatIsSaved ==
    ASSUME TypeOK, RunningStep
    PROVE  \/ SaveNotifications /\ UNCHANGED groupContainer
           \/ /\ NoSave
              /\ UNCHANGED notificationContainer
              /\ DOMAIN groupContainer' \subseteq DOMAIN groupContainer
           \/ /\ SaveStateData
              /\ UNCHANGED notificationContainer
              /\ \/ UNCHANGED groupContainer /\ (Idle \/ Top("groupGone"))
                 \/ DOMAIN groupContainer' # {}
<1>1. CASE DeliverUpdated \/ FinishSubmit \/ FinishUpdate \/ RemoveGroups
  BY <1>1 DEF DeliverUpdated, FinishSubmit, FinishUpdate, RemoveGroups
<1>2. CASE RunRemove \/ RunRemoveEach \/ UpdateEach
  BY <1>2 DEF RunRemove, RunRemoveEach, UpdateEach, RemoveNotification, UpdateNotification
<1>3. CASE UpdateGroupTimestamp
  BY <1>3 DEF UpdateGroupTimestamp
<1>4. CASE DoRemoveGroup
  BY <1>4 DEF DoRemoveGroup, Without, Restrict
<1>5. CASE FinishRemoveGroup
  BY <1>5 DEF FinishRemoveGroup
<1>6. CASE UpdateGroups
  BY <1>6 DEF UpdateGroups
<1>7. CASE Prune
  BY <1>7 DEF Prune
<1>8. ASSUME NEW et, AddGroup(et)
      PROVE  /\ SaveStateData
             /\ UNCHANGED notificationContainer
             /\ DOMAIN groupContainer' # {}
  BY <1>8 DEF AddGroup, Insert
<1>9. ASSUME NEW g, NEW et, UpdateGroup(g, et)
      PROVE  /\ SaveStateData
             /\ UNCHANGED notificationContainer
             /\ DOMAIN groupContainer' # {}
  BY <1>9 DEF UpdateGroup
<1>10. CASE NotificationUserId
  BY <1>10 DEF NotificationUserId
<1>11. ASSUME NEW p, NEW g, NEW t, AddNotification(p, g, t)
       PROVE  SaveNotifications /\ UNCHANGED groupContainer
  BY <1>11 DEF AddNotification
<1>12. ASSUME NEW id, NEW p, NEW t, ClientUpdatesNotification(id, p, t)
       PROVE  SaveNotifications /\ UNCHANGED groupContainer
  BY <1>12 DEF ClientUpdatesNotification, UpdateNotification
<1>13. CASE /\ NoSave
            /\ UNCHANGED <<notificationContainer, groupContainer>>
  BY <1>13
<1>14. QED
  BY <1>1, <1>2, <1>3, <1>4, <1>5, <1>6, <1>7, <1>8, <1>9, <1>10, <1>11, <1>12, <1>13
     DEF RunningStep, RunFrame, Post, Call, RelayNextNotification, RegisterSink, UnregisterSink

\* A group the manager has, or one of its notifications is in, is on the disk.
NoOrphanEver ==
    /\ openFile # "state"
    /\ DiskNoOrphans
    /\ running => /\ DOMAIN groupContainer \subseteq DOMAIN disk.groups
                  /\ \A id \in DOMAIN notificationContainer :
                        notificationContainer[id].group \in {0} \cup DOMAIN disk.groups

\* What a step makes of the notifications while the daemon is up: none is put into a
\* group that is not there.
LEMMA GroupsOfMembers ==
    ASSUME TypeOK, Ground, Next, running, running'
    PROVE  \A id \in DOMAIN notificationContainer' :
                \/ /\ id \in DOMAIN notificationContainer
                   /\ notificationContainer'[id].group = notificationContainer[id].group
                \/ notificationContainer'[id].group \in {0} \cup DOMAIN groupContainer
<1>1. UNCHANGED notificationContainer \/ \/ \E id : Removing(id) \/ Updating(id)
                                         \/ \E n : Adding(n)
  BY StepLeaves DEF Leaving, FinishUpdate, UpdateGroupTimestamp, DoRemoveGroup,
     FinishRemoveGroup, UpdateGroups, AddGroup, UpdateGroup, RegisterSink, UnregisterSink,
     Start, Crash
<1>2. QED
  BY <1>1 DEF Removing, Updating, Adding

LEMMA NoOrphanStep ==
    ASSUME TypeOK, Ground, DiskInvariant, MembersHaveGroups, GravesBelow(stack), NoOrphanEver,
           MaxGroupId <= 1, "state" \notin TornFiles, [Next]_vars
    PROVE  NoOrphanEver'
<1>0. /\ disk = [notifications |-> disk.notifications, groups |-> disk.groups,
                 userId |-> disk.userId]
      /\ \A id \in DOMAIN notificationContainer :
            notificationContainer[id].group \in GroupRef
      /\ \A id \in DOMAIN disk.notifications : disk.notifications[id].group \in GroupRef
      /\ DOMAIN groupContainer' \subseteq GroupId
      /\ GroupRef \subseteq {0} \cup GroupId /\ \A g, k \in GroupId : g = k
  <2>1. TypeOK'
    BY TypeOKStep
  <2>2. QED
    BY <2>1, ConstantsAssumption DEF TypeOK, DiskOK, StoresOK, IsStore, Notification, GroupRef,
       GroupId, ConstantsAssumption
<1>1. CASE RunningStep /\ Next
  <2>0. running /\ running'
    BY <1>1, RunningStaysUp
  <2>1. CASE SaveNotifications /\ UNCHANGED groupContainer
    <3>1. /\ disk'.notifications = notificationContainer' /\ disk'.groups = disk.groups
          /\ openFile' # "state"
      BY <1>0, <2>1 DEF SaveNotifications, Writing
    <3>2. \A id \in DOMAIN notificationContainer' :
                notificationContainer'[id].group \in {0} \cup DOMAIN disk.groups
      BY <1>1, <2>0, GroupsOfMembers DEF NoOrphanEver
    <3>3. QED
      BY <2>0, <2>1, <3>1, <3>2 DEF NoOrphanEver, DiskNoOrphans
  <2>2. CASE /\ NoSave
             /\ UNCHANGED notificationContainer
             /\ DOMAIN groupContainer' \subseteq DOMAIN groupContainer
    BY <2>0, <2>2 DEF NoSave, NoOrphanEver, DiskNoOrphans
  <2>3. CASE /\ SaveStateData
             /\ UNCHANGED notificationContainer
             /\ \/ UNCHANGED groupContainer /\ (Idle \/ Top("groupGone"))
                \/ DOMAIN groupContainer' # {}
    <3>1. /\ disk'.notifications = disk.notifications /\ disk'.groups = groupContainer'
          /\ openFile' # "state"
      BY <1>0, <2>3 DEF SaveStateData, Writing
    <3>2. CASE DOMAIN groupContainer' # {}
      <4>1. GroupRef \subseteq {0} \cup DOMAIN groupContainer'
        BY <1>0, <3>2
      <4>2. QED
        BY <1>0, <2>3, <3>1, <4>1 DEF NoOrphanEver, DiskNoOrphans
    <3>3. CASE UNCHANGED groupContainer /\ (Idle \/ Top("groupGone"))
      <4>1. (\A id : ~Dying(id)) /\ ~Pending("prune")
        <5>1. CASE stack = <<>>
          BY <5>1, FramesOfFew DEF Dying, Pending
        <5>2. CASE stack # <<>> /\ Head(stack).op = "groupGone"
          <6>1. FramesOf(stack) = {Head(stack)} \cup FramesOf(Tail(stack)) /\ AllGrave(Tail(stack))
            BY <5>2, FramesOfTail, GravesUnderTop DEF TypeOK, CallsOK, Grave
          <6>2. \A f \in FramesOf(stack) : f.op \notin {"removeEach", "prune"}
            BY <5>2, <6>1 DEF AllGrave, Grave
          <6>3. QED
            BY <6>2 DEF Dying, Pending, FramesOf
        <5>3. QED
          BY <3>3, <5>1, <5>2 DEF Idle, Top
      <4>2. disk.notifications = notificationContainer
        BY <2>0, <4>1 DEF DiskInvariant
      <4>3. \A id \in DOMAIN notificationContainer :
                notificationContainer[id].group \in {0} \cup DOMAIN groupContainer
        BY <4>1 DEF MembersHaveGroups
      <4>4. QED
        BY <2>3, <3>1, <3>3, <4>2, <4>3 DEF NoOrphanEver, DiskNoOrphans
    <3>4. QED
      BY <2>3, <3>2, <3>3
  <2>4. QED
    BY <1>1, <2>1, <2>2, <2>3, WhatIsSaved
<1>2. CASE UnseenStep
  BY <1>2 DEF UnseenStep, EventTypeChangesUnseen, Reboot, NoSave, NoOrphanEver, DiskNoOrphans,
     processVars
<1>3. CASE Start
  <2>1. /\ disk' = disk /\ openFile' = "none" /\ groupContainer' = disk.groups
        /\ \A id \in DOMAIN notificationContainer' :
                /\ id \in DOMAIN disk.notifications
                /\ notificationContainer'[id] = AppendEventTypeParameters(disk.notifications[id])
    BY <1>3 DEF Start, NoSave
  <2>2. \A id \in DOMAIN disk.notifications :
            AppendEventTypeParameters(disk.notifications[id]).group = disk.notifications[id].group
    BY DEF TypeOK, DiskOK, IsStore, Notification, AppendEventTypeParameters
  <2>3. QED
    BY <2>1, <2>2 DEF NoOrphanEver, DiskNoOrphans
<1>4. CASE Crash
  <2>1. ~running' /\ openFile' = "none" /\ disk' \in SpoiledDisks
    BY <1>4 DEF Crash
  <2>2. \/ disk' = disk
        \/ \E S \in SUBSET DOMAIN disk.notifications :
                disk' = [disk EXCEPT !.notifications = Restrict(@, S)]
    BY <2>1 DEF SpoiledDisks, NoOrphanEver
  <2>3. /\ disk'.groups = disk.groups
        /\ \A id \in DOMAIN disk'.notifications :
                /\ id \in DOMAIN disk.notifications
                /\ disk'.notifications[id] = disk.notifications[id]
    BY <1>0, <2>2 DEF Restrict
  <2>4. QED
    BY <2>1, <2>3 DEF NoOrphanEver, DiskNoOrphans
<1>5. CASE UNCHANGED vars
  BY <1>5 DEF vars, diskVars, processVars, NoOrphanEver, DiskNoOrphans
<1>6. QED
  BY <1>1, <1>2, <1>3, <1>4, <1>5, NextCases

\* Wherever the daemon dies, and however much of the notifications' file it was just
\* writing is lost, no notification is left on the disk whose group is not
\* (notificationmanager.cpp:431-444).  With a second group the removal of a
\* notification nested in the first one's saves the state too early.
THEOREM DiskNeverOrphans ==
    MaxGroupId <= 1 /\ "state" \notin TornFiles /\ Spec => []DiskNoOrphans
<1> DEFINE Inv == MembersHaveGroups /\ GravesBelow(stack) /\ NoOrphanEver
<1>1. Init => Inv
  <2> SUFFICES ASSUME Init
               PROVE  Inv
    OBVIOUS
  <2>1. /\ DOMAIN notificationContainer = {} /\ DOMAIN disk.notifications = {}
        /\ stack = <<>> /\ ~running /\ openFile = "none"
    BY DEF Init, Empty
  <2>2. QED
    BY <2>1, FewGraves DEF MembersHaveGroups, NoOrphanEver, DiskNoOrphans
<1>2. Inv => DiskNoOrphans
  BY DEF NoOrphanEver
<1>3. CASE ~(MaxGroupId <= 1 /\ "state" \notin TornFiles)
  BY <1>3
<1>4. CASE MaxGroupId <= 1 /\ "state" \notin TornFiles
  <2>1. TypeOK /\ Ground /\ DiskInvariant /\ Inv /\ [Next]_vars => Inv'
    BY <1>4, MembersHaveGroupsStep, GravesBelowStep, NoOrphanStep DEF NoOrphanEver
  <2> HIDE DEF Inv
  <2>2. QED
    BY <1>1, <1>2, <2>1, TypeCorrect, GroundHolds, DiskInvariantHolds, PTL DEF Spec
<1>5. QED
  BY <1>3, <1>4

-----------------------------------------------------------------------------
(* The groups' timestamps.  A crash in doRemoveGroup may leave what is not *)
(* so on the disk; the rest of the module is about a daemon that does not  *)
(* die (the device is switched on once).                                   *)

Stamps(f, g) == {0} \cup {f[id].timestamp : id \in {i \in DOMAIN f : f[i].group = g}}
Newest(S) == CHOOSE t \in S : \A u \in S : t >= u

LEMMA LatestIsNewest ==
    ASSUME NEW g
    PROVE  LatestTimestamp(g) = Newest(Stamps(notificationContainer, g))
BY DEF LatestTimestamp, Newest, Stamps, Members

TimestampsFollow ==
    \A g \in DOMAIN groupContainer :
        groupContainer[g].timestamp = LatestTimestamp(g) \/ StampDue(g)

\* Before it is started there is nothing, neither in memory nor on the disk.
NothingKept ==
    ~running => /\ DOMAIN notificationContainer = {} /\ DOMAIN groupContainer = {}
                /\ DOMAIN disk.notifications = {} /\ DOMAIN disk.groups = {}

LEMMA NothingKeptStep ==
    ASSUME TypeOK, ~MayCrash, NothingKept, [Next]_vars
    PROVE  NothingKept'
<1>1. CASE RunningStep
  BY <1>1, RunningStaysUp DEF NothingKept
<1>2. CASE UnseenStep
  BY <1>2 DEF UnseenStep, EventTypeChangesUnseen, Reboot, NoSave, NothingKept
<1>3. CASE Start
  BY <1>3 DEF Start, NothingKept
<1>4. CASE Crash
  BY <1>4 DEF Crash
<1>5. CASE UNCHANGED vars
  BY <1>5 DEF vars, diskVars, processVars, NothingKept
<1>6. QED
  BY <1>1, <1>2, <1>3, <1>4, <1>5, NextCases

\* The notifications of a group are the same, with the same timestamps.
LEMMA LatestStays ==
    ASSUME NEW g,
           \A i \in DOMAIN notificationContainer :
                notificationContainer[i].group = g =>
                    /\ i \in DOMAIN notificationContainer'
                    /\ notificationContainer'[i] = notificationContainer[i],
           \A i \in DOMAIN notificationContainer' :
                notificationContainer'[i].group = g =>
                    /\ i \in DOMAIN notificationContainer
                    /\ notificationContainer[i].group = g
    PROVE  LatestTimestamp(g)' = LatestTimestamp(g)
<1>1. Stamps(notificationContainer', g) = Stamps(notificationContainer, g)
  BY DEF Stamps
<1>2. LatestTimestamp(g)' = Newest(Stamps(notificationContainer', g))
  BY DEF LatestTimestamp, Newest, Stamps, Members
<1>3. QED
  BY <1>1, <1>2, LatestIsNewest

LEMMA LeavingFollows ==
    ASSUME TimestampsFollow, Unmoved, Leaving
    PROVE  TimestampsFollow'
<1>1. PICK gone : StillDue(gone) /\ gone \cap DOMAIN notificationContainer = {}
  BY DEF Leaving
<1>2. UNCHANGED <<notificationContainer, groupContainer>>
  BY DEF Leaving, Unmoved
<1>3. \A g : StampDue(g) => StampDue(g)'
  BY <1>1, <1>2 DEF StillDue, StampDue
<1>4. \A g : LatestTimestamp(g)' = LatestTimestamp(g)
  BY <1>2, LatestStays
<1>5. QED
  BY <1>2, <1>3, <1>4 DEF TimestampsFollow

LEMMA RemovingFollows ==
    ASSUME TypeOK, TimestampsFollow, Unmoved, NEW id, Removing(id)
    PROVE  TimestampsFollow'
<1>0. PICK g : g = notificationContainer[id].group
  OBVIOUS
<1>1. /\ id \in DOMAIN notificationContainer
      /\ DOMAIN notificationContainer' = DOMAIN notificationContainer \ {id}
      /\ \A i \in DOMAIN notificationContainer' :
              notificationContainer'[i] = notificationContainer[i]
      /\ StillDue({id})
      /\ g # 0 => \E f \in FramesOf(stack') : f.op = "timestamp" /\ f.group = g
      /\ groupContainer' = groupContainer
  BY <1>0 DEF Removing, Unmoved
<1>2. \A k : k # g /\ StampDue(k) => StampDue(k)'
  BY <1>0, <1>1 DEF StillDue, StampDue
<1>3. g # 0 => StampDue(g)'
  BY <1>1 DEF StampDue
<1>4. ASSUME NEW k, k # g
      PROVE  LatestTimestamp(k)' = LatestTimestamp(k)
  BY <1>0, <1>1, <1>4, LatestStays
<1>5. 0 \notin DOMAIN groupContainer
  BY ConstantsAssumption DEF TypeOK, StoresOK, IsStore, GroupId, ConstantsAssumption
<1>6. QED
  BY <1>1, <1>2, <1>3, <1>4, <1>5 DEF TimestampsFollow

LEMMA UpdatingFollows ==
    ASSUME TypeOK, TimestampsFollow, Unmoved, NEW id, Updating(id)
    PROVE  TimestampsFollow'
<1>0. PICK g : g = notificationContainer[id].group
  OBVIOUS
<1>1. /\ id \in DOMAIN notificationContainer
      /\ DOMAIN notificationContainer' = DOMAIN notificationContainer
      /\ \A i \in DOMAIN notificationContainer :
            /\ i # id => notificationContainer'[i] = notificationContainer[i]
            /\ notificationContainer'[i].group = notificationContainer[i].group
      /\ StillDue({})
      /\ g # 0 => \E f \in FramesOf(stack') : \/ f.op = "timestamp" /\ f.group = g
                                              \/ f.op = "updateTail" /\ f.id = id
      /\ groupContainer' = groupContainer
  BY <1>0 DEF Updating, Unmoved
<1>2. \A k : StampDue(k) => StampDue(k)'
  BY <1>1 DEF StillDue, StampDue
<1>3. g # 0 => StampDue(g)'
  BY <1>0, <1>1 DEF StampDue
<1>4. ASSUME NEW k, k # g
      PROVE  LatestTimestamp(k)' = LatestTimestamp(k)
  BY <1>0, <1>1, <1>4, LatestStays
<1>5. 0 \notin DOMAIN groupContainer
  BY ConstantsAssumption DEF TypeOK, StoresOK, IsStore, GroupId, ConstantsAssumption
<1>6. QED
  BY <1>1, <1>2, <1>3, <1>4, <1>5 DEF TimestampsFollow

LEMMA AddingFollows ==
    ASSUME TypeOK, TimestampsFollow, Unmoved, NEW n, Adding(n)
    PROVE  TimestampsFollow'
<1>0. PICK g : g = n.group
  OBVIOUS
<1>1. /\ n.id \notin DOMAIN notificationContainer
      /\ DOMAIN notificationContainer' = DOMAIN notificationContainer \cup {n.id}
      /\ \A i \in DOMAIN notificationContainer :
              notificationContainer'[i] = notificationContainer[i]
      /\ notificationContainer'[n.id] = n
      /\ StillDue({})
      /\ g \in {0} \cup DOMAIN groupContainer
      /\ g # 0 => \E f \in FramesOf(stack') : f.op = "timestamp" /\ f.group = g
      /\ groupContainer' = groupContainer
  BY <1>0 DEF Adding, Unmoved
<1>2. \A k : StampDue(k) => StampDue(k)'
  BY <1>1 DEF StillDue, StampDue
<1>3. g # 0 => StampDue(g)'
  BY <1>1 DEF StampDue
<1>4. ASSUME NEW k, k # g
      PROVE  LatestTimestamp(k)' = LatestTimestamp(k)
  BY <1>0, <1>1, <1>4, LatestStays
<1>5. 0 \notin DOMAIN groupContainer
  BY ConstantsAssumption DEF TypeOK, StoresOK, IsStore, GroupId, ConstantsAssumption
<1>6. QED
  BY <1>1, <1>2, <1>3, <1>4, <1>5 DEF TimestampsFollow

LEMMA FramesFollow ==
    ASSUME TimestampsFollow, UNCHANGED notificationContainer,
           \A g \in DOMAIN groupContainer' : /\ g \in DOMAIN groupContainer
                                             /\ groupContainer'[g] = groupContainer[g],
           \A f \in FramesOf(stack) :
                f.op \in {"timestamp", "updateTail"} => f \in FramesOf(stack')
    PROVE  TimestampsFollow'
<1>1. \A g : StampDue(g) => StampDue(g)'
  BY DEF StampDue
<1>2. \A g : LatestTimestamp(g)' = LatestTimestamp(g)
  BY LatestStays
<1>3. QED
  BY <1>1, <1>2 DEF TimestampsFollow

LEMMA FinishUpdateFollows ==
    ASSUME TypeOK, TimestampsFollow, FinishUpdate
    PROVE  TimestampsFollow'
<1> DEFINE id == Head(stack).id
<1>1. /\ Top("updateTail") /\ UNCHANGED <<notificationContainer, groupContainer>>
      /\ Head(stack).op = "updateTail" /\ Tail(stack) \in Seq(Frame) /\ stack # <<>>
      /\ stack \in Seq(Frame)
  BY TopType DEF FinishUpdate, Top, TypeOK, CallsOK
<1>2. PICK g \in GroupRef : /\ stack' = TimestampFrames(g) \o Tail(stack)
                            /\ id \in DOMAIN notificationContainer =>
                                    g = notificationContainer[id].group
  <2>1. \A i \in DOMAIN notificationContainer : notificationContainer[i].group \in GroupRef
    BY DEF TypeOK, StoresOK, IsStore, Notification
  <2>2. QED
    BY <2>1 DEF FinishUpdate
<1>3. FramesOf(stack) = {Head(stack)} \cup FramesOf(Tail(stack))
  BY <1>1, FramesOfTail
<1>4. /\ FramesOf(Tail(stack)) \subseteq FramesOf(stack')
      /\ g # 0 => \E f \in FramesOf(stack') : f.op = "timestamp" /\ f.group = g
  BY <1>1, <1>2, StampLeaves
<1> HIDE DEF id
<1>5. \A k : k # g /\ StampDue(k) => StampDue(k)'
  <2> SUFFICES ASSUME NEW k, k # g, StampDue(k)
               PROVE  StampDue(k)'
    OBVIOUS
  <2>1. PICK f \in FramesOf(stack) :
            \/ f.op = "timestamp" /\ f.group = k
            \/ /\ f.op = "updateTail" /\ f.id \in DOMAIN notificationContainer
               /\ notificationContainer[f.id].group = k
    BY DEF StampDue
  <2>2. f # Head(stack)
    BY <1>1, <1>2, <2>1 DEF id
  <2>3. f \in FramesOf(stack')
    BY <1>3, <1>4, <2>2
  <2>4. QED
    BY <1>1, <2>1, <2>3 DEF StampDue
<1>6. g # 0 => StampDue(g)'
  BY <1>4 DEF StampDue
<1>7. \A k : LatestTimestamp(k)' = LatestTimestamp(k)
  BY <1>1, LatestStays
<1>8. 0 \notin DOMAIN groupContainer
  BY ConstantsAssumption DEF TypeOK, StoresOK, IsStore, GroupId, ConstantsAssumption
<1>9. QED
  BY <1>1, <1>5, <1>6, <1>7, <1>8 DEF TimestampsFollow

LEMMA UpdateGroupTimestampFollows ==
    ASSUME TypeOK, TimestampsFollow, UpdateGroupTimestamp
    PROVE  TimestampsFollow'
<1>0. PICK g : g = Head(stack).group
  OBVIOUS
<1>1. /\ Top("timestamp") /\ stack' = Tail(stack) /\ UNCHANGED notificationContainer
      /\ DOMAIN groupContainer' = DOMAIN groupContainer
      /\ \A k \in DOMAIN groupContainer :
            k # g => groupContainer'[k].timestamp = groupContainer[k].timestamp
      /\ g \in DOMAIN groupContainer => groupContainer'[g].timestamp = LatestTimestamp(g)
  <2>1. \A k \in DOMAIN groupContainer : groupContainer[k] \in Group
    BY DEF TypeOK, StoresOK, IsStore
  <2>2. QED
    BY <1>0, <2>1 DEF UpdateGroupTimestamp, Group
<1>2. FramesOf(stack) = {Head(stack)} \cup FramesOf(stack') /\ Head(stack).op = "timestamp"
  BY <1>1, OthersRemain
<1>3. \A k : k # g /\ StampDue(k) => StampDue(k)'
  BY <1>0, <1>1, <1>2 DEF StampDue
<1>4. \A k : LatestTimestamp(k)' = LatestTimestamp(k)
  BY <1>1, LatestStays
<1>5. QED
  BY <1>1, <1>3, <1>4 DEF TimestampsFollow

LEMMA AddGroupFollows ==
    ASSUME TypeOK, MembersHaveGroups, TimestampsFollow, NEW et, AddGroup(et)
    PROVE  TimestampsFollow'
<1>0. PICK g : g = Smallest(FreeGroupIds)
  OBVIOUS
<1>1. /\ stack = <<>> /\ UNCHANGED <<stack, notificationContainer>> /\ FreeGroupIds # {}
      /\ DOMAIN groupContainer' = DOMAIN groupContainer \cup {g}
      /\ groupContainer'[g].timestamp = 0
      /\ \A k \in DOMAIN groupContainer : k # g => groupContainer'[k] = groupContainer[k]
  BY <1>0 DEF AddGroup, Idle, Insert
<1>2. g \in GroupId /\ g \notin DOMAIN groupContainer /\ g # 0
  <2>1. FreeGroupIds \subseteq Nat
    BY ConstantsAssumption DEF FreeGroupIds, GroupId, ConstantsAssumption
  <2>2. g \in FreeGroupIds
    BY <1>0, <1>1, <2>1, SmallestProperties
  <2>3. QED
    BY <2>2, ConstantsAssumption DEF FreeGroupIds, GroupId, ConstantsAssumption
<1>3. \A i : ~Dying(i)
  BY <1>1, FramesOfFew DEF Dying
<1>4. \A k : ~StampDue(k)
  BY <1>1, FramesOfFew DEF StampDue
<1>5. \A k : LatestTimestamp(k)' = LatestTimestamp(k)
  BY <1>1, LatestStays
<1>6. LatestTimestamp(g) = 0
  <2>1. \A i \in DOMAIN notificationContainer : notificationContainer[i].group # g
    BY <1>2, <1>3 DEF MembersHaveGroups
  <2>2. Stamps(notificationContainer, g) = {0}
    BY <2>1 DEF Stamps
  <2>3. Newest({0}) = 0
    BY DEF Newest
  <2>4. QED
    BY <2>2, <2>3, LatestIsNewest
<1>7. QED
  BY <1>1, <1>2, <1>4, <1>5, <1>6 DEF TimestampsFollow

LEMMA UpdateGroupFollows ==
    ASSUME TypeOK, TimestampsFollow, NEW g, NEW et, UpdateGroup(g, et)
    PROVE  TimestampsFollow'
<1>1. /\ UNCHANGED <<stack, notificationContainer>>
      /\ DOMAIN groupContainer' = DOMAIN groupContainer
      /\ \A k \in DOMAIN groupContainer : groupContainer'[k].timestamp = groupContainer[k].timestamp
  <2>1. \A k \in DOMAIN groupContainer : groupContainer[k] \in Group
    BY DEF TypeOK, StoresOK, IsStore
  <2>2. QED
    BY <2>1 DEF UpdateGroup, Group
<1>2. \A k : LatestTimestamp(k)' = LatestTimestamp(k)
  BY <1>1, LatestStays
<1>3. QED
  BY <1>1, <1>2 DEF TimestampsFollow, StampDue

LEMMA TimestampsFollowStep ==
    ASSUME TypeOK, Ground, ~MayCrash, NothingKept, MembersHaveGroups, TimestampsFollow,
           [Next]_vars
    PROVE  TimestampsFollow'
<1>1. CASE FinishRemoveGroup \/ UpdateGroups
  <2>1. /\ Top("groupGone") \/ Top("updateGroups")
        /\ stack' = Tail(stack)
        /\ UNCHANGED <<notificationContainer, groupContainer>>
    BY <1>1 DEF FinishRemoveGroup, UpdateGroups
  <2>2. QED
    BY <2>1, OthersRemain, FramesFollow
<1>2. CASE DoRemoveGroup
  BY <1>2, RemovalBegins, FramesFollow
<1>3. CASE RegisterSink \/ UnregisterSink \/ UNCHANGED vars
  BY <1>3, FramesFollow DEF RegisterSink, UnregisterSink, vars
<1>4. CASE Start
  <2>1. DOMAIN groupContainer' = {}
    BY <1>4 DEF Start, NothingKept
  <2>2. QED
    BY <2>1 DEF TimestampsFollow
<1>5. CASE Crash
  BY <1>5 DEF Crash
<1>6. QED
  BY <1>1, <1>2, <1>3, <1>4, <1>5, StepLeaves, LeavingFollows, RemovingFollows, UpdatingFollows,
     AddingFollows, FinishUpdateFollows, UpdateGroupTimestampFollows, AddGroupFollows,
     UpdateGroupFollows

\* While the daemon lives, a group's timestamp is between events the latest of its
\* notifications', and a registered D-Bus sink knows exactly the groups there are,
\* through removals of groups and of their notifications nested in each other
\* (notificationmanager.cpp:431-444, 680-707).
THEOREM GroupsAlwaysConsistent == ~MayCrash /\ Spec => []GroupsConsistent
<1> DEFINE Inv == NothingKept /\ MembersHaveGroups /\ TimestampsFollow
<1>1. Init => Inv
  <2> SUFFICES ASSUME Init
               PROVE  Inv
    OBVIOUS
  <2>1. NothingKept
    BY DEF Init, NothingKept, Empty
  <2>2. DOMAIN notificationContainer = {} /\ DOMAIN groupContainer = {}
    BY DEF Init, Empty
  <2>3. QED
    BY <2>1, <2>2 DEF MembersHaveGroups, TimestampsFollow
<1>2. Inv /\ DBusSinkKnowsGroups => GroupsConsistent
  <2>1. stack = <<>> => \A g : ~StampDue(g)
    BY FramesOfFew DEF StampDue
  <2>2. QED
    BY <2>1 DEF TimestampsFollow, GroupsConsistent, GroupTimestampsLatest, Idle
<1>3. CASE MayCrash
  BY <1>3
<1>4. CASE ~MayCrash
  <2>1. TypeOK /\ Ground /\ Inv /\ [Next]_vars => Inv'
    <3>1. NothingKept => (~running => DiskNoOrphans)
      BY DEF NothingKept, DiskNoOrphans
    <3>2. QED
      BY <1>4, <3>1, NothingKeptStep, MembersHaveGroupsStep, TimestampsFollowStep
  <2> HIDE DEF Inv
  <2>2. QED
    BY <1>1, <1>2, <2>1, TypeCorrect, GroundHolds, SinkAlwaysKnowsGroups, PTL DEF Spec
<1>5. QED
  BY <1>3, <1>4

=============================================================================
