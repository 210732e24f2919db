--------------------- MODULE NotificationManagerProofs ----------------------
(***************************************************************************)
(* The notification manager for every value of its constants: that it is   *)
(* type correct, and its safety invariants, the wait queue, which          *)
(* implements NotificationQueue, the relay timer and the data files; with  *)
(* the lemmas about its operators that the proofs share.                   *)
(***************************************************************************)
EXTENDS NotificationManager, SequenceTheorems, WellFoundedInduction, TLAPS

-----------------------------------------------------------------------------
(* Least and greatest elements.                                            *)

\* A nonempty set of natural numbers has a least element.
LEMMA LeastExists ==
    ASSUME NEW T, T \subseteq Nat, T # {}
    PROVE  \E m \in T : \A k \in T : m <= k
<1>1. PICK m \in T : \A k \in T : <<k, m>> \notin OpToRel(<, Nat)
  BY WFMin, NatLessThanWellFounded, Zenon
<1>2. \A k \in T : ~(k < m)
  BY <1>1, Zenon DEF OpToRel
<1>3. QED
  BY <1>2

\* What the search for the smallest unused identifier returns.
LEMMA SmallestProperties ==
    ASSUME NEW T, T \subseteq Nat, T # {}
    PROVE  Smallest(T) \in T /\ \A k \in T : Smallest(T) <= k
BY LeastExists, Zenon DEF Smallest

\* A nonempty set of bounded natural numbers has a greatest element.
LEMMA GreatestExists ==
    ASSUME NEW M \in Nat, NEW T, T \subseteq 0 .. M, T # {}
    PROVE  \E m \in T : \A k \in T : m >= k
<1> DEFINE R == {M - k : k \in T}
<1>1. R \subseteq Nat /\ R # {}
  OBVIOUS
<1> HIDE DEF R
<1>2. PICK r \in R : \A q \in R : r <= q
  BY <1>1, LeastExists
<1>3. PICK m \in T : r = M - m
  BY <1>2 DEF R
<1>4. \A k \in T : M - k \in R
  BY DEF R
<1>5. QED
  BY <1>2, <1>3, <1>4

-----------------------------------------------------------------------------
(* Stores.                                                                 *)

LEMMA InsertType ==
    ASSUME NEW K, NEW V, NEW f, IsStore(f, K, V), NEW k \in K, NEW v \in V
    PROVE  IsStore(Insert(f, k, v), K, V)
BY DEF IsStore, Insert

LEMMA WithoutType ==
    ASSUME NEW K, NEW V, NEW f, IsStore(f, K, V), NEW k
    PROVE  IsStore(Without(f, k), K, V)
BY DEF IsStore, Without, Restrict

LEMMA RestrictType ==
    ASSUME NEW K, NEW V, NEW f, IsStore(f, K, V), NEW S \in SUBSET DOMAIN f
    PROVE  IsStore(Restrict(f, S), K, V)
BY DEF IsStore, Restrict

LEMMA EmptyType ==
    ASSUME NEW K, NEW V
    PROVE  IsStore(Empty, K, V)
BY DEF IsStore, Empty

-----------------------------------------------------------------------------
(* The values the operators of the model build.                            *)

LEMMA EventTypeParametersType ==
    ASSUME TypeOK, NEW et \in EventTypeRef
    PROVE  EventTypeParameters(et) \in Settings
BY DEF TypeOK, StoresOK, EventTypeParameters, EventTypeRef, Settings, Class, Flag

LEMMA AppendParamsType ==
    ASSUME TypeOK, NEW p \in Params
    PROVE  AppendEventTypeParameters(p) \in Params
<1>1. EventTypeParameters(p.eventType) \in Settings
  BY EventTypeParametersType DEF Params
<1>2. QED
  BY <1>1 DEF AppendEventTypeParameters, Override, Params, Settings

LEMMA AppendNotificationType ==
    ASSUME TypeOK, NEW n \in Notification
    PROVE  AppendEventTypeParameters(n) \in Notification
<1>1. EventTypeParameters(n.eventType) \in Settings
  BY EventTypeParametersType DEF Notification
<1>2. QED
  BY <1>1 DEF AppendEventTypeParameters, Override, Notification, Settings

LEMMA UpdatedType ==
    ASSUME NEW n \in Notification, NEW p, NEW t \in Times,
           p.class \in Class, p.persistent \in Flag, p.eventType \in EventTypeRef
    PROVE  /\ Updated(n, p, t) \in Notification
           /\ Updated(n, p, t).id = n.id
           /\ Updated(n, p, t).group = n.group
BY DEF Updated, UpdateParameters, Override, Notification

LEMMA DetermineTypeType ==
    ASSUME NEW p
    PROVE  DetermineType(p) \in {"system", "application"}
BY DEF DetermineType

LEMMA LatestTimestampType ==
    ASSUME TypeOK, NEW g
    PROVE  LatestTimestamp(g) \in Times \cup {0}
<1> DEFINE T == {0} \cup {notificationContainer[id].timestamp : id \in Members(g)}
<1>1. T \subseteq 0 .. MaxTime
  BY ConstantsAssumption DEF TypeOK, StoresOK, IsStore, Members, Notification, Times,
     ConstantsAssumption
<1>2. MaxTime \in Nat
  BY ConstantsAssumption DEF ConstantsAssumption
<1> HIDE DEF T
<1>3. \E m \in T : \A k \in T : m >= k
  <2>1. T # {}
    BY DEF T
  <2>2. QED
    BY <1>1, <1>2, <2>1, GreatestExists
<1>4. LatestTimestamp(g) = CHOOSE t \in T : \A u \in T : t >= u
  BY DEF LatestTimestamp, T
<1>5. LatestTimestamp(g) \in T
  BY <1>3, <1>4
<1>6. LatestTimestamp(g) \in 0 .. MaxTime
  BY <1>1, <1>5, Zenon
<1>7. 0 .. MaxTime \subseteq Times \cup {0}
  BY <1>2 DEF Times
<1>8. QED
  BY <1>6, <1>7, Zenon

LEMMA FrameTypes ==
    /\ \A id \in NotificationId :
        {SubmittedFrame(id), UpdateTailFrame(id), RemoveFrame(id)} \subseteq Frame
    /\ \A ids \in SUBSET NotificationId :
        {RemoveEachFrame(ids), UpdateEachFrame(ids)} \subseteq Frame
    /\ \A g \in GroupId : {RemoveGroupFrame(g), GroupGoneFrame(g)} \subseteq Frame
    /\ \A gs \in SUBSET GroupId :
        {RemoveGroupsFrame(gs), UpdateGroupsFrame(gs)} \subseteq Frame
    /\ PruneFrame \in Frame
BY DEF SubmittedFrame, UpdateTailFrame, RemoveFrame, RemoveEachFrame, UpdateEachFrame,
   RemoveGroupFrame, GroupGoneFrame, RemoveGroupsFrame, UpdateGroupsFrame, PruneFrame, Frame

\* What the fields of a frame hold, by what it does.
LEMMA FrameFields ==
    ASSUME NEW f \in Frame
    PROVE  /\ f.op = "updated" => f.sink \in Sinks /\ f.note \in Notification
           /\ f.op \in {"submitted", "updateTail", "remove"} => f.id \in NotificationId
           /\ f.op \in {"removeEach", "updateEach"} => f.ids \in SUBSET NotificationId
           /\ f.op \in {"removeGroup", "groupGone", "timestamp"} => f.group \in GroupId
           /\ f.op \in {"removeGroups", "updateGroups"} => f.groups \in SUBSET GroupId
BY DEF Frame

LEMMA TimestampFramesType ==
    ASSUME NEW g \in GroupRef
    PROVE  TimestampFrames(g) \in Seq(Frame)
<1>1. MaxGroupId \in Nat
  BY ConstantsAssumption DEF ConstantsAssumption
<1>2. CASE g = 0
  BY <1>2 DEF TimestampFrames
<1>3. CASE g # 0
  <2>1. g \in GroupId
    BY <1>1, <1>3 DEF GroupId, GroupRef
  <2>2. [op |-> "timestamp", group |-> g] \in Frame
    BY <2>1 DEF Frame
  <2>3. QED
    BY <1>3, <2>2 DEF TimestampFrames
<1>4. QED
  BY <1>2, <1>3

LEMMA UpdatedFramesType ==
    ASSUME NEW n \in Notification
    PROVE  /\ UpdatedFrames(n) \in Seq(Frame)
           /\ Len(UpdatedFrames(n)) = 4
           /\ \A i \in 1 .. 4 : UpdatedFrames(n)[i].op = "updated"
<1>1. Len(SinkOrder) = 4 /\ \A i \in 1 .. 4 : SinkOrder[i] \in Sinks
  BY DEF SinkOrder, Sinks
<1>2. \A i \in 1 .. 4 : [op |-> "updated", sink |-> SinkOrder[i], note |-> n] \in Frame
  BY <1>1 DEF Frame
<1>3. UpdatedFrames(n) \in [1 .. 4 -> Frame]
  BY <1>1, <1>2 DEF UpdatedFrames
<1>4. QED
  BY <1>1, <1>3 DEF UpdatedFrames

LEMMA PrefixType ==
    ASSUME NEW rest \in Seq(Frame), NEW f \in Frame
    PROVE  <<f>> \o rest \in Seq(Frame)
OBVIOUS

LEMMA EmissionType ==
    ASSUME NEW n \in Notification, NEW rest \in Seq(Frame), NEW f \in Frame
    PROVE  UpdatedFrames(n) \o <<f>> \o rest \in Seq(Frame)
<1>1. <<f>> \in Seq(Frame)
  OBVIOUS
<1>2. UpdatedFrames(n) \o <<f>> \in Seq(Frame)
  BY <1>1, UpdatedFramesType, ConcatProperties
<1>3. QED
  BY <1>2, ConcatProperties

-----------------------------------------------------------------------------
(* The types of what the manager's functions assign.                       *)

LEMMA SaveNotificationsType ==
    ASSUME DiskOK, SaveNotifications,
           IsStore(notificationContainer', NotificationId, Notification)
    PROVE  DiskOK'
BY DEF DiskOK, SaveNotifications, Writing

LEMMA SaveStateDataType ==
    ASSUME DiskOK, SaveStateData, IsStore(groupContainer', GroupId, Group),
           lastUsedNotificationUserId' \in 0 .. MaxUserId
    PROVE  DiskOK'
BY DEF DiskOK, SaveStateData, Writing

LEMMA NoSaveType ==
    ASSUME DiskOK, NoSave
    PROVE  DiskOK'
BY DEF DiskOK, NoSave

\* A notification goes between the two parts of the queue it is inserted in.
LEMMA InsertPositionType ==
    ASSUME waitQueue \in Seq(Notification), NEW n
    PROVE  InsertPosition(n) \in 1 .. Len(waitQueue) + 1
<1> DEFINE others == {i \in DOMAIN waitQueue : waitQueue[i].class # "system"}
<1>1. others \subseteq 1 .. Len(waitQueue) /\ others \subseteq Nat
  OBVIOUS
<1>2. Len(waitQueue) \in Nat
  OBVIOUS
<1> HIDE DEF others
<1>3. CASE n.class # "system" \/ others = {}
  BY <1>2, <1>3 DEF InsertPosition, others
<1>4. CASE n.class = "system" /\ others # {}
  <2>1. Smallest(others) \in others
    BY <1>1, <1>4, SmallestProperties
  <2>2. InsertPosition(n) = Smallest(others)
    BY <1>4, Zenon DEF InsertPosition, others
  <2>3. InsertPosition(n) \in 1 .. Len(waitQueue)
    BY <1>1, <2>1, <2>2, Zenon
  <2>4. QED
    BY <1>2, <2>3
<1>5. QED
  BY <1>3, <1>4

\* InsertAt: everything before the position stays, everything after it moves.
LEMMA InsertAtProperties ==
    ASSUME NEW S, NEW s \in Seq(S), NEW i \in 1 .. Len(s) + 1, NEW e \in S
    PROVE  /\ InsertAt(s, i, e) \in Seq(S)
           /\ Len(InsertAt(s, i, e)) = Len(s) + 1
           /\ \A k \in 1 .. Len(s) + 1 : InsertAt(s, i, e)[k] =
                IF k < i THEN s[k] ELSE IF k = i THEN e ELSE s[k - 1]
<1> DEFINE a == SubSeq(s, 1, i - 1)
           b == SubSeq(s, i, Len(s))
<1>1. a \in Seq(S) /\ Len(a) = i - 1 /\ \A k \in 1 .. i - 1 : a[k] = s[k]
  OBVIOUS
<1>2. b \in Seq(S) /\ Len(b) = Len(s) - i + 1 /\ \A k \in 1 .. Len(b) : b[k] = s[i + k - 1]
  OBVIOUS
<1>3. InsertAt(s, i, e) = a \o <<e>> \o b
  BY DEF InsertAt
<1> HIDE DEF a, b
<1>4. /\ a \o <<e>> \in Seq(S)
      /\ Len(a \o <<e>>) = i
      /\ \A k \in 1 .. i : (a \o <<e>>)[k] = IF k < i THEN s[k] ELSE e
  BY <1>1
<1> DEFINE c == a \o <<e>>
<1> HIDE DEF c
<1>5. /\ c \o b \in Seq(S)
      /\ Len(c \o b) = Len(s) + 1
      /\ \A k \in 1 .. Len(s) + 1 : (c \o b)[k] = IF k <= i THEN c[k] ELSE b[k - i]
  <2>1. c \in Seq(S) /\ Len(c) = i
    BY <1>4 DEF c
  <2>2. Len(c) + Len(b) = Len(s) + 1
    BY <1>2, <2>1
  <2>3. QED
    BY <1>2, <2>1, <2>2, ConcatProperties
<1>6. \A k \in 1 .. Len(s) + 1 : k > i => b[k - i] = s[k - 1]
  <2>1. SUFFICES ASSUME NEW k \in 1 .. Len(s) + 1, k > i
                 PROVE  b[k - i] = s[k - 1]
    OBVIOUS
  <2>2. k - i \in 1 .. Len(b) /\ i + (k - i) - 1 = k - 1
    BY <1>2, <2>1
  <2>3. QED
    BY <1>2, <2>2
<1>7. ASSUME NEW k \in 1 .. Len(s) + 1
      PROVE  (c \o b)[k] = IF k < i THEN s[k] ELSE IF k = i THEN e ELSE s[k - 1]
  <2>1. (c \o b)[k] = IF k <= i THEN c[k] ELSE b[k - i]
    BY <1>5, Zenon
  <2>2. CASE k <= i
    <3>1. k \in 1 .. i
      BY <2>2
    <3>2. c[k] = IF k < i THEN s[k] ELSE e
      BY <1>4, <3>1, Zenon DEF c
    <3>3. ~(k < i) => k = i
      BY <2>2
    <3>4. k = i => ~(k < i)
      OBVIOUS
    <3>5. QED
      BY <2>1, <2>2, <3>2, <3>3, <3>4, Zenon
  <2>3. CASE k > i
    <3>1. ~(k <= i) /\ ~(k < i) /\ k # i
      BY <2>3
    <3>2. b[k - i] = s[k - 1]
      BY <1>6, <2>3, Zenon
    <3>3. QED
      BY <2>1, <3>1, <3>2, Zenon
  <2>4. k <= i \/ k > i
    OBVIOUS
  <2>5. QED
    BY <2>2, <2>3, <2>4, Zenon
<1>8. QED
  BY <1>3, <1>5, <1>7, Zenon DEF c

\* RemoveAt: everything before the position stays, everything after it moves.
LEMMA RemoveAtProperties ==
    ASSUME NEW S, NEW s \in Seq(S), NEW i \in 1 .. Len(s)
    PROVE  /\ RemoveAt(s, i) \in Seq(S)
           /\ Len(RemoveAt(s, i)) = Len(s) - 1
           /\ \A k \in 1 .. Len(s) - 1 : RemoveAt(s, i)[k] =
                IF k < i THEN s[k] ELSE s[k + 1]
<1> DEFINE a == SubSeq(s, 1, i - 1)
           b == SubSeq(s, i + 1, Len(s))
<1>1. a \in Seq(S) /\ Len(a) = i - 1 /\ \A k \in 1 .. i - 1 : a[k] = s[k]
  OBVIOUS
<1>2. b \in Seq(S) /\ Len(b) = Len(s) - i /\ \A k \in 1 .. Len(b) : b[k] = s[i + k]
  OBVIOUS
<1>3. RemoveAt(s, i) = a \o b
  BY DEF RemoveAt
<1> HIDE DEF a, b
<1>4. /\ a \o b \in Seq(S)
      /\ Len(a \o b) = Len(s) - 1
      /\ \A k \in 1 .. Len(s) - 1 : (a \o b)[k] = IF k < i THEN a[k] ELSE b[k - i + 1]
  <2>1. Len(a) + Len(b) = Len(s) - 1
    BY <1>1, <1>2
  <2>2. /\ a \o b \in Seq(S)
        /\ Len(a \o b) = Len(s) - 1
        /\ \A k \in 1 .. Len(s) - 1 :
              (a \o b)[k] = IF k <= Len(a) THEN a[k] ELSE b[k - Len(a)]
    <3>1. /\ a \o b \in Seq(S)
          /\ Len(a \o b) = Len(a) + Len(b)
          /\ \A k \in 1 .. Len(a) + Len(b) :
                (a \o b)[k] = IF k <= Len(a) THEN a[k] ELSE b[k - Len(a)]
      BY <1>1, <1>2, ConcatProperties
    <3>2. QED
      BY <2>1, <3>1, Zenon
  <2>3. ASSUME NEW k \in 1 .. Len(s) - 1
        PROVE  (a \o b)[k] = IF k < i THEN a[k] ELSE b[k - i + 1]
    <3>1. (k <= Len(a) <=> k < i) /\ k - Len(a) = k - i + 1
      BY <1>1
    <3>2. (a \o b)[k] = IF k <= Len(a) THEN a[k] ELSE b[k - Len(a)]
      BY <2>2, Zenon
    <3>3. QED
      BY <3>1, <3>2, Zenon
  <2>4. QED
    BY <2>2, <2>3, Zenon
<1>5. \A k \in 1 .. Len(s) - 1 : ~(k < i) => b[k - i + 1] = s[k + 1]
  <2>1. SUFFICES ASSUME NEW k \in 1 .. Len(s) - 1, ~(k < i)
                 PROVE  b[k - i + 1] = s[k + 1]
    OBVIOUS
  <2>2. k - i + 1 \in 1 .. Len(b) /\ i + (k - i + 1) = k + 1
    BY <1>2, <2>1
  <2>3. QED
    BY <1>2, <2>2
<1>6. ASSUME NEW k \in 1 .. Len(s) - 1
      PROVE  (a \o b)[k] = IF k < i THEN s[k] ELSE s[k + 1]
  <2>1. (a \o b)[k] = IF k < i THEN a[k] ELSE b[k - i + 1]
    BY <1>4, Zenon
  <2>2. CASE k < i
    <3>1. k \in 1 .. i - 1
      BY <2>2
    <3>2. a[k] = s[k]
      BY <1>1, <3>1, Zenon
    <3>3. QED
      BY <2>1, <2>2, <3>2, Zenon
  <2>3. CASE ~(k < i)
    <3>1. b[k - i + 1] = s[k + 1]
      BY <1>5, <2>3, Zenon
    <3>2. QED
      BY <2>1, <2>3, <3>1, Zenon
  <2>4. QED
    BY <2>2, <2>3, Zenon
<1>7. QED
  BY <1>3, <1>4, <1>6, Zenon

LEMMA TakeFromWaitQueueProperties ==
    ASSUME waitQueue \in Seq(Notification), NEW id, WaitQueueIndices(id) # {}
    PROVE  \E i \in 1 .. Len(waitQueue) :
              /\ waitQueue[i].id = id
              /\ TakeFromWaitQueue(id) = RemoveAt(waitQueue, i)
<1>1. WaitQueueIndices(id) \subseteq 1 .. Len(waitQueue)
  BY DEF WaitQueueIndices
<1>2. Smallest(WaitQueueIndices(id)) \in WaitQueueIndices(id)
  BY <1>1, SmallestProperties
<1>3. QED
  BY <1>1, <1>2, Zenon DEF WaitQueueIndices, TakeFromWaitQueue

LEMMA EnqueueType ==
    ASSUME waitQueue \in Seq(Notification), NEW n \in Notification
    PROVE  Enqueue(n) \in Seq(Notification)
BY InsertPositionType, InsertAtProperties DEF Enqueue

LEMMA EmitType ==
    ASSUME NEW n \in Notification, NEW rest \in Seq(Frame), Emit(n, rest)
    PROVE  stack' \in Seq(Frame)
<1>1. SubmittedFrame(n.id) \in Frame
  BY FrameTypes DEF Notification
<1>2. QED
  BY <1>1, EmissionType DEF Emit

LEMMA SubmitType ==
    ASSUME RelayOK, NEW n \in Notification, NEW rest \in Seq(Frame), Submit(n, rest)
    PROVE  RelayOK' /\ stack' \in Seq(Frame)
<1>1. CASE notificationInProgress
  BY <1>1, EnqueueType DEF Submit, RelayOK, relayVars
<1>2. CASE ~notificationInProgress
  BY <1>2, EmitType DEF Submit, RelayOK, relayVars
<1>3. QED
  BY <1>1, <1>2

LEMMA RelayType ==
    ASSUME RelayOK, NEW rest \in Seq(Frame), Relay(rest)
    PROVE  RelayOK' /\ stack' \in Seq(Frame)
<1>1. CASE waitQueue = <<>>
  BY <1>1 DEF Relay, RelayOK
<1>2. CASE waitQueue # <<>>
  <2>1. Head(waitQueue) \in Notification /\ Tail(waitQueue) \in Seq(Notification)
    BY <1>2 DEF RelayOK
  <2>2. QED
    BY <1>2, <2>1, EmitType DEF Relay, RelayOK
<1>3. QED
  BY <1>1, <1>2

ToldOK == DOMAIN told = Sinks /\ \A s \in Sinks : IsStore(told[s], NotificationId, Notification)

LEMMA RemoveNotificationType ==
    ASSUME TypeOK, NEW id, NEW rest \in Seq(Frame), RemoveNotification(id, rest)
    PROVE  /\ IsStore(notificationContainer', NotificationId, Notification)
           /\ RelayOK'
           /\ DiskOK'
           /\ stack' \in Seq(Frame)
           /\ ToldOK'
<1>1. CASE id \notin DOMAIN notificationContainer
  BY <1>1, NoSaveType DEF RemoveNotification, TypeOK, StoresOK, RelayOK, SinksOK, ToldOK, relayVars
<1>2. CASE id \in DOMAIN notificationContainer
  <2> DEFINE after == TimestampFrames(notificationContainer[id].group) \o rest
  <2>1. after \in Seq(Frame)
    <3>1. notificationContainer[id].group \in GroupRef
      BY <1>2 DEF TypeOK, StoresOK, IsStore, Notification
    <3>2. QED
      BY <3>1, TimestampFramesType, ConcatProperties
  <2>2. IsStore(notificationContainer', NotificationId, Notification)
    BY <1>2, WithoutType DEF RemoveNotification, TypeOK, StoresOK
  <2>3. DiskOK'
    BY <1>2, <2>2, SaveNotificationsType DEF RemoveNotification, TypeOK
  <2> HIDE DEF after
  <2>4. CASE /\ WaitQueueIndices(id) # {}
             /\ waitQueue' = TakeFromWaitQueue(id)
             /\ stack' = after
             /\ UNCHANGED <<relayVars, told>>
    <3>1. waitQueue' \in Seq(Notification)
      BY <2>4, TakeFromWaitQueueProperties, RemoveAtProperties DEF TypeOK, RelayOK
    <3>2. QED
      BY <2>1, <2>2, <2>3, <2>4, <3>1 DEF TypeOK, RelayOK, SinksOK, ToldOK, relayVars
  <2>5. CASE /\ TellRemoved(id)
             /\ IF notificationInProgress /\ id = notificationIdInProgress
                THEN Relay(after)
                ELSE stack' = after /\ UNCHANGED <<waitQueue, relayVars>>
    <3>1. ToldOK'
      BY <2>5, WithoutType DEF TypeOK, SinksOK, ToldOK, TellRemoved
    <3>2. RelayOK' /\ stack' \in Seq(Frame)
      BY <2>1, <2>5, RelayType DEF TypeOK, RelayOK, relayVars
    <3>3. QED
      BY <2>2, <2>3, <3>1, <3>2
  <2>6. QED
    BY <1>2, <2>4, <2>5 DEF RemoveNotification, after
<1>3. QED
  BY <1>1, <1>2

LEMMA UpdateWaitingType ==
    ASSUME waitQueue \in Seq(Notification), NEW id, NEW p, NEW t \in Times,
           p.class \in Class, p.persistent \in Flag, p.eventType \in EventTypeRef
    PROVE  /\ UpdateWaiting(id, p, t) \in Seq(Notification)
           /\ Len(UpdateWaiting(id, p, t)) = Len(waitQueue)
<1>1. \A i \in 1 .. Len(waitQueue) : Updated(waitQueue[i], p, t) \in Notification
  BY UpdatedType
<1>2. UpdateWaiting(id, p, t) \in [1 .. Len(waitQueue) -> Notification]
  BY <1>1 DEF UpdateWaiting
<1>3. QED
  BY <1>2

LEMMA UpdateNotificationType ==
    ASSUME TypeOK, NEW id \in DOMAIN notificationContainer, NEW p, NEW t \in Times,
           p.class \in Class, p.persistent \in Flag, p.eventType \in EventTypeRef,
           NEW rest \in Seq(Frame), UpdateNotification(id, p, t, rest)
    PROVE  /\ IsStore(notificationContainer', NotificationId, Notification)
           /\ waitQueue' \in Seq(Notification)
           /\ DiskOK'
           /\ stack' \in Seq(Frame)
<1> DEFINE n == Updated(notificationContainer[id], p, t)
<1>1. n \in Notification /\ id \in NotificationId
  BY UpdatedType DEF TypeOK, StoresOK, IsStore
<1>2. n.group \in GroupRef
  BY <1>1 DEF Notification
<1> HIDE DEF n
<1>3. IsStore(notificationContainer', NotificationId, Notification)
  BY <1>1 DEF UpdateNotification, n, TypeOK, StoresOK, IsStore
<1>4. DiskOK'
  BY <1>3, SaveNotificationsType DEF UpdateNotification, TypeOK
<1>5. waitQueue' \in Seq(Notification)
  BY UpdateWaitingType DEF UpdateNotification, TypeOK, RelayOK
<1>6. stack' \in Seq(Frame)
  <2>1. TimestampFrames(n.group) \o rest \in Seq(Frame)
    BY <1>2, TimestampFramesType, ConcatProperties
  <2>2. UpdatedFrames(n) \o <<UpdateTailFrame(id)>> \o rest \in Seq(Frame)
    BY <1>1, FrameTypes, EmissionType
  <2>3. QED
    BY <2>1, <2>2 DEF UpdateNotification, n
<1>7. QED
  BY <1>3, <1>4, <1>5, <1>6

-----------------------------------------------------------------------------
(* Type correctness.                                                       *)

\* The frame on top of the stack and the ones below it.
LEMMA TopType ==
    ASSUME TypeOK, NEW op, Top(op)
    PROVE  /\ Head(stack) \in Frame
           /\ Head(stack).op = op
           /\ Tail(stack) \in Seq(Frame)
BY DEF TypeOK, CallsOK, Top

LEMMA TypeOKInit == Init => TypeOK
<1> SUFFICES ASSUME Init
             PROVE  TypeOK
  OBVIOUS
<1>1. MaxNotificationId \in Nat /\ MaxUserId \in Nat
  BY ConstantsAssumption DEF ConstantsAssumption
<1>2. StoresOK
  <2>1. EventTypeSettings \subseteq Settings
    BY ConstantsAssumption DEF ConstantsAssumption
  <2>2. eventTypes \in [EventTypes -> Settings]
    BY <2>1 DEF Init
  <2>3. QED
    BY <2>2, EmptyType DEF Init, StoresOK
<1>3. RelayOK
  <2>1. waitQueue \in Seq(Notification) /\ notificationIdInProgress \in 0 .. MaxNotificationId
    BY <1>1 DEF Init
  <2>2. notificationInProgress \in BOOLEAN /\ timerActive \in BOOLEAN
    BY Zenon DEF Init
  <2>3. QED
    BY <2>1, <2>2, Zenon DEF RelayOK
<1>4. SinksOK
  BY EmptyType DEF Init, SinksOK
<1>5. CallsOK
  BY DEF Init, CallsOK
<1>6. DiskOK
  <2>1. /\ disk = [notifications |-> Empty, groups |-> Empty, userId |-> 0]
        /\ openFile = "none"
    BY DEF Init
  <2>2. IsStore(Empty, NotificationId, Notification) /\ IsStore(Empty, GroupId, Group)
    BY EmptyType
  <2>3. QED
    BY <1>1, <2>1, <2>2 DEF DiskOK
<1>7. ProcessOK
  <2>1. running \in BOOLEAN /\ bootFile \in BOOLEAN
    BY Zenon DEF Init
  <2>2. lastUsedNotificationUserId \in 0 .. MaxUserId /\ issuedUserId \in 0 .. MaxUserId
    BY <1>1 DEF Init
  <2>3. QED
    BY <2>1, <2>2, Zenon DEF ProcessOK
<1>8. QED
  BY <1>2, <1>3, <1>4, <1>5, <1>6, <1>7 DEF TypeOK

LEMMA RunFrameType ==
    ASSUME TypeOK, RunFrame
    PROVE  TypeOK'
<1> USE DEF TypeOK
<1>1. CASE DeliverUpdated
  <2> DEFINE s == Head(stack).sink
             n == Head(stack).note
  <2>1. s \in Sinks /\ n \in Notification /\ Tail(stack) \in Seq(Frame)
    BY <1>1, TopType, FrameFields DEF DeliverUpdated
  <2>2. n.id \in NotificationId
    BY <2>1 DEF Notification
  <2> HIDE DEF s, n
  <2>3. ToldOK'
    <3>1. CASE HeardBy(s, n)
      <4>1. told' = [told EXCEPT ![s] = Insert(@, n.id, n)]
        BY <1>1, <3>1 DEF DeliverUpdated, s, n
      <4>2. IsStore(Insert(told[s], n.id, n), NotificationId, Notification)
        BY <2>1, <2>2, InsertType DEF SinksOK
      <4>3. QED
        BY <2>1, <4>1, <4>2 DEF SinksOK, ToldOK
    <3>2. CASE ~HeardBy(s, n)
      <4>1. told' = told
        BY <1>1, <3>2 DEF DeliverUpdated, s, n
      <4>2. QED
        BY <4>1 DEF SinksOK, ToldOK
    <3>3. QED
      BY <3>1, <3>2
  <2>4. stack' \in Seq(Frame)
    <3>1. CASE stack' = Tail(stack)
      BY <2>1, <3>1
    <3>2. CASE \E ids \in SUBSET SystemIds(told'["compositor"]) :
                  stack' = <<RemoveEachFrame(ids)>> \o Tail(stack)
      <4>1. PICK ids \in SUBSET SystemIds(told'["compositor"]) :
                  stack' = <<RemoveEachFrame(ids)>> \o Tail(stack)
        BY <3>2
      <4>2. ids \in SUBSET NotificationId
        BY <2>3 DEF SystemIds, ToldOK, IsStore, Sinks
      <4>3. QED
        BY <2>1, <4>1, <4>2, FrameTypes, PrefixType
    <3>3. QED
      BY <1>1, <3>1, <3>2 DEF DeliverUpdated
  <2>5. DiskOK'
    BY <1>1, NoSaveType DEF DeliverUpdated
  <2>6. QED
    BY <1>1, <2>3, <2>4, <2>5 DEF DeliverUpdated, StoresOK, RelayOK, SinksOK, ToldOK,
       CallsOK, ProcessOK, relayVars, processVars
<1>2. CASE FinishSubmit
  <2>1. Head(stack).id \in NotificationId /\ Tail(stack) \in Seq(Frame)
    BY <1>2, TopType, FrameFields DEF FinishSubmit
  <2>2. RelayOK'
    <3>1. notificationIdInProgress' \in 0 .. MaxNotificationId
      <4>1. CASE UNCHANGED relayVars
        BY <4>1 DEF RelayOK, relayVars
      <4>2. CASE notificationIdInProgress' = Head(stack).id
        BY <2>1, <4>2, ConstantsAssumption DEF NotificationId, ConstantsAssumption
      <4>3. QED
        BY <1>2, <4>1, <4>2, Zenon DEF FinishSubmit
    <3>2. notificationInProgress' \in BOOLEAN /\ timerActive' \in BOOLEAN
      BY <1>2, Zenon DEF FinishSubmit, RelayOK, relayVars
    <3>3. waitQueue' \in Seq(Notification)
      BY <1>2 DEF FinishSubmit, RelayOK
    <3>4. QED
      BY <3>1, <3>2, <3>3, Zenon DEF RelayOK
  <2>3. DiskOK'
    BY <1>2, NoSaveType DEF FinishSubmit
  <2>4. QED
    BY <1>2, <2>1, <2>2, <2>3 DEF FinishSubmit, StoresOK, SinksOK, CallsOK, ProcessOK,
       sinkVars, processVars
<1>3. CASE FinishUpdate
  <2> DEFINE id == Head(stack).id
  <2>1. Tail(stack) \in Seq(Frame)
    BY <1>3, TopType DEF FinishUpdate
  <2>2. PICK g \in IF id \in DOMAIN notificationContainer
                   THEN {notificationContainer[id].group} ELSE GroupRef :
                stack' = TimestampFrames(g) \o Tail(stack)
    BY <1>3 DEF FinishUpdate
  <2>3. g \in GroupRef
    <3>1. CASE id \in DOMAIN notificationContainer
      <4>1. notificationContainer[id].group \in GroupRef
        BY <3>1 DEF StoresOK, IsStore, Notification
      <4>2. g = notificationContainer[id].group
        BY <2>2, <3>1
      <4>3. QED
        BY <4>1, <4>2
    <3>2. CASE id \notin DOMAIN notificationContainer
      BY <2>2, <3>2
    <3>3. QED
      BY <3>1, <3>2
  <2>4. stack' \in Seq(Frame)
    BY <2>1, <2>2, <2>3, TimestampFramesType, ConcatProperties
  <2>5. DiskOK'
    BY <1>3, NoSaveType DEF FinishUpdate
  <2>6. QED
    BY <1>3, <2>4, <2>5 DEF FinishUpdate, StoresOK, RelayOK, SinksOK, CallsOK, ProcessOK,
       relayVars, sinkVars, processVars
<1>4. CASE RunRemove
  <2>1. Tail(stack) \in Seq(Frame)
    BY <1>4, TopType DEF RunRemove
  <2>2. QED
    BY <1>4, <2>1, RemoveNotificationType DEF RunRemove, StoresOK, SinksOK, ToldOK, CallsOK,
       ProcessOK, processVars
<1>5. CASE RunRemoveEach
  <2> DEFINE ids == Head(stack).ids
  <2>1. ids \in SUBSET NotificationId /\ Tail(stack) \in Seq(Frame)
    BY <1>5, TopType, FrameFields DEF RunRemoveEach
  <2> HIDE DEF ids
  <2>2. CASE /\ stack' = Tail(stack)
             /\ NoSave
             /\ UNCHANGED <<notificationContainer, waitQueue, relayVars, told>>
    <3>1. DiskOK'
      BY <2>2, NoSaveType
    <3>2. QED
      BY <1>5, <2>1, <2>2, <3>1 DEF RunRemoveEach, StoresOK, RelayOK, SinksOK, CallsOK,
         ProcessOK, relayVars, processVars
  <2>3. ASSUME NEW id \in ids,
               RemoveNotification(id, <<RemoveEachFrame(ids \ {id})>> \o Tail(stack))
        PROVE  TypeOK'
    <3>1. <<RemoveEachFrame(ids \ {id})>> \o Tail(stack) \in Seq(Frame)
      BY <2>1, FrameTypes, PrefixType
    <3>2. QED
      BY <1>5, <2>3, <3>1, RemoveNotificationType DEF RunRemoveEach, StoresOK, SinksOK,
         ToldOK, CallsOK, ProcessOK, processVars
  <2>4. QED
    BY <1>5, <2>2, <2>3 DEF RunRemoveEach, ids
<1>6. CASE UpdateEach
  <2> DEFINE ids == Head(stack).ids
  <2>1. ids \in SUBSET NotificationId /\ Tail(stack) \in Seq(Frame)
    BY <1>6, TopType, FrameFields DEF UpdateEach
  <2> HIDE DEF ids
  <2>2. /\ IsStore(notificationContainer', NotificationId, Notification)
        /\ waitQueue' \in Seq(Notification)
        /\ DiskOK'
        /\ stack' \in Seq(Frame)
    <3>1. CASE ids = {} /\ stack' = Tail(stack) /\ NoSave
                /\ UNCHANGED <<notificationContainer, waitQueue>>
      BY <2>1, <3>1, NoSaveType DEF StoresOK, RelayOK
    <3> DEFINE Rest(id) == <<UpdateEachFrame(ids \ {id})>> \o Tail(stack)
               Turn(id) ==
                 IF id \in DOMAIN notificationContainer
                 THEN UpdateNotification(id,
                        AppendEventTypeParameters(notificationContainer[id]),
                        notificationContainer[id].timestamp, Rest(id))
                 ELSE /\ stack' = Rest(id)
                      /\ NoSave
                      /\ UNCHANGED <<notificationContainer, waitQueue>>
    <3>2. ASSUME NEW id \in ids, Turn(id)
          PROVE  /\ IsStore(notificationContainer', NotificationId, Notification)
                 /\ waitQueue' \in Seq(Notification)
                 /\ DiskOK'
                 /\ stack' \in Seq(Frame)
      <4> DEFINE rest == Rest(id)
      <4>1. rest \in Seq(Frame)
        BY <2>1, <3>2, FrameTypes, PrefixType
      <4>2. CASE id \in DOMAIN notificationContainer
        <5>1. notificationContainer[id] \in Notification
          BY <4>2 DEF StoresOK, IsStore
        <5>2. AppendEventTypeParameters(notificationContainer[id]) \in Notification
          BY <5>1, AppendNotificationType
        <5>3. notificationContainer[id].timestamp \in Times
          BY <5>1 DEF Notification
        <5> DEFINE p == AppendEventTypeParameters(notificationContainer[id])
        <5>4. p.class \in Class /\ p.persistent \in Flag /\ p.eventType \in EventTypeRef
          BY <5>2 DEF Notification
        <5> HIDE DEF p
        <5>5. UpdateNotification(id, p, notificationContainer[id].timestamp, rest)
          BY <3>2, <4>2 DEF p
        <5>6. QED
          BY <4>1, <4>2, <5>3, <5>4, <5>5, UpdateNotificationType
      <4>3. CASE id \notin DOMAIN notificationContainer
        BY <3>2, <4>1, <4>3, NoSaveType DEF StoresOK, RelayOK
      <4>4. QED
        BY <4>2, <4>3
    <3>3. \/ ids = {} /\ stack' = Tail(stack) /\ NoSave
              /\ UNCHANGED <<notificationContainer, waitQueue>>
          \/ \E id \in ids : Turn(id)
      BY <1>6, Zenon DEF UpdateEach, ids
    <3> HIDE DEF Turn
    <3>4. QED
      BY <3>1, <3>2, <3>3, Zenon
  <2>3. QED
    BY <1>6, <2>2 DEF UpdateEach, StoresOK, RelayOK, SinksOK, CallsOK, ProcessOK,
       relayVars, sinkVars, processVars
<1>7. CASE UpdateGroupTimestamp
  <2> DEFINE g == Head(stack).group
  <2>1. g \in GroupId /\ Tail(stack) \in Seq(Frame)
    BY <1>7, TopType, FrameFields DEF UpdateGroupTimestamp
  <2> HIDE DEF g
  <2>2. CASE /\ g \in DOMAIN groupContainer
             /\ groupContainer' = [groupContainer EXCEPT ![g].timestamp = LatestTimestamp(g)]
             /\ UNCHANGED lastUsedNotificationUserId
             /\ SaveStateData
             /\ TellGroups({g})
    <3>1. IsStore(groupContainer', GroupId, Group)
      BY <2>2, LatestTimestampType DEF StoresOK, IsStore, Group
    <3>2. DiskOK'
      BY <2>2, <3>1, SaveStateDataType DEF ProcessOK
    <3>3. toldGroups' \in [GroupSinks -> SUBSET GroupId]
      BY <2>1, <2>2 DEF TellGroups, SinksOK
    <3>4. QED
      BY <1>7, <2>1, <2>2, <3>1, <3>2, <3>3 DEF UpdateGroupTimestamp, StoresOK, RelayOK,
         SinksOK, CallsOK, ProcessOK, relayVars, processVars
  <2>3. CASE NoSave /\ UNCHANGED <<groupContainer, lastUsedNotificationUserId, toldGroups>>
    <3>1. DiskOK'
      BY <2>3, NoSaveType
    <3>2. QED
      BY <1>7, <2>1, <2>3, <3>1 DEF UpdateGroupTimestamp, StoresOK, RelayOK, SinksOK,
         CallsOK, ProcessOK, relayVars, processVars
  <2>4. QED
    BY <1>7, <2>2, <2>3 DEF UpdateGroupTimestamp, g
<1>8. CASE DoRemoveGroup
  <2> DEFINE g == Head(stack).group
  <2>1. g \in GroupId /\ Tail(stack) \in Seq(Frame)
    BY <1>8, TopType, FrameFields DEF DoRemoveGroup
  <2> HIDE DEF g
  <2>2. IsStore(groupContainer', GroupId, Group)
    BY <1>8, WithoutType DEF DoRemoveGroup, StoresOK
  <2>3. stack' \in Seq(Frame)
    <3>1. {RemoveEachFrame(Members(g)), GroupGoneFrame(g)} \subseteq Frame
      <4>1. Members(g) \in SUBSET NotificationId
        BY DEF Members, StoresOK, IsStore
      <4>2. QED
        BY <2>1, <4>1, FrameTypes
    <3>2. <<RemoveEachFrame(Members(g)), GroupGoneFrame(g)>> \o Tail(stack) \in Seq(Frame)
      BY <2>1, <3>1, ConcatProperties
    <3>3. QED
      BY <1>8, <2>1, <3>2 DEF DoRemoveGroup, g
  <2>4. DiskOK'
    BY <1>8, NoSaveType DEF DoRemoveGroup
  <2>5. QED
    BY <1>8, <2>2, <2>3, <2>4 DEF DoRemoveGroup, StoresOK, RelayOK, SinksOK, CallsOK,
       ProcessOK, relayVars, sinkVars, processVars
<1>9. CASE FinishRemoveGroup
  <2>1. Tail(stack) \in Seq(Frame)
    BY <1>9, TopType DEF FinishRemoveGroup
  <2>2. DiskOK'
    BY <1>9, SaveStateDataType DEF FinishRemoveGroup, StoresOK, ProcessOK
  <2>3. toldGroups' \in [GroupSinks -> SUBSET GroupId]
    BY <1>9 DEF FinishRemoveGroup, TellGroupRemoved, SinksOK, GroupSinks
  <2>4. QED
    BY <1>9, <2>1, <2>2, <2>3 DEF FinishRemoveGroup, StoresOK, RelayOK, SinksOK, CallsOK,
       ProcessOK, relayVars, processVars
<1>10. CASE RemoveGroups
  <2> DEFINE gs == Head(stack).groups
  <2>1. gs \in SUBSET GroupId /\ Tail(stack) \in Seq(Frame)
    BY <1>10, TopType, FrameFields DEF RemoveGroups
  <2> HIDE DEF gs
  <2>2. stack' \in Seq(Frame)
    <3>1. CASE stack' = Tail(stack)
      BY <2>1, <3>1
    <3>2. ASSUME NEW g \in gs,
                 stack' = <<RemoveGroupFrame(g), RemoveGroupsFrame(gs \ {g})>> \o Tail(stack)
          PROVE  stack' \in Seq(Frame)
      <4>1. {RemoveGroupFrame(g), RemoveGroupsFrame(gs \ {g})} \subseteq Frame
        BY <2>1, FrameTypes
      <4>2. QED
        BY <2>1, <3>2, <4>1, ConcatProperties
    <3>3. QED
      BY <1>10, <3>1, <3>2 DEF RemoveGroups, gs
  <2>3. DiskOK'
    BY <1>10, NoSaveType DEF RemoveGroups
  <2>4. QED
    BY <1>10, <2>2, <2>3 DEF RemoveGroups, StoresOK, RelayOK, SinksOK, CallsOK, ProcessOK,
       relayVars, sinkVars, processVars
<1>11. CASE UpdateGroups
  <2> DEFINE gs == Head(stack).groups \cap DOMAIN groupContainer
  <2>1. gs \in SUBSET GroupId /\ Tail(stack) \in Seq(Frame)
    BY <1>11, TopType, FrameFields DEF UpdateGroups
  <2> HIDE DEF gs
  <2>2. DiskOK'
    BY <1>11, NoSaveType, SaveStateDataType DEF UpdateGroups, StoresOK, ProcessOK
  <2>3. toldGroups' \in [GroupSinks -> SUBSET GroupId]
    BY <1>11, <2>1 DEF UpdateGroups, TellGroups, SinksOK, gs
  <2>4. QED
    BY <1>11, <2>1, <2>2, <2>3 DEF UpdateGroups, StoresOK, RelayOK, SinksOK, CallsOK,
       ProcessOK, relayVars, processVars
<1>12. CASE Prune
  <2>1. Tail(stack) \in Seq(Frame)
    BY <1>12, TopType DEF Prune
  <2>2. DiskOK'
    BY <1>12, SaveNotificationsType DEF Prune, StoresOK
  <2>3. QED
    BY <1>12, <2>1, <2>2 DEF Prune, StoresOK, RelayOK, SinksOK, CallsOK, ProcessOK,
       relayVars, sinkVars, processVars
<1>13. QED
  BY <1>1, <1>2, <1>3, <1>4, <1>5, <1>6, <1>7, <1>8, <1>9, <1>10, <1>11, <1>12 DEF RunFrame

LEMMA AddNotificationType ==
    ASSUME TypeOK, NEW p \in AddParams, NEW g \in GroupRef, NEW t \in Times,
           AddNotification(p, g, t)
    PROVE  TypeOK'
<1> USE DEF TypeOK
<1> DEFINE full == AppendEventTypeParameters(p)
           type == DetermineType(full)
           n == [id |-> Smallest(FreeNotificationIds),
                 group |-> g,
                 type |-> type,
                 class |-> full.class,
                 persistent |-> IF type = "system" THEN "false" ELSE full.persistent,
                 eventType |-> p.eventType,
                 timestamp |-> t]
<1>1. p \in Params
  BY ConstantsAssumption DEF ConstantsAssumption
<1>2. full \in Params /\ type \in {"system", "application"}
  BY <1>1, AppendParamsType, DetermineTypeType
<1>3. Smallest(FreeNotificationIds) \in NotificationId
  <2>1. FreeNotificationIds \subseteq Nat /\ FreeNotificationIds # {}
    BY ConstantsAssumption DEF AddNotification, FreeNotificationIds, NotificationId,
       ConstantsAssumption
  <2>2. Smallest(FreeNotificationIds) \in FreeNotificationIds
    BY <2>1, SmallestProperties
  <2>3. QED
    BY <2>2 DEF FreeNotificationIds
<1>4. n \in Notification
  <2> HIDE DEF full, type
  <2>1. {full.class} \subseteq Class /\ {full.persistent, "false"} \subseteq Flag
    BY <1>2 DEF Params, Flag
  <2>2. p.eventType \in EventTypeRef
    BY <1>1 DEF Params
  <2>3. QED
    BY <1>2, <1>3, <2>1, <2>2 DEF Notification
<1>5. /\ notificationContainer' = Insert(notificationContainer, n.id, n)
      /\ SaveNotifications
      /\ Submit(n, TimestampFrames(g))
  BY Zenon DEF AddNotification
<1> HIDE DEF n
<1>6. IsStore(notificationContainer', NotificationId, Notification)
  <2>1. n.id \in NotificationId
    BY <1>4 DEF Notification
  <2>2. QED
    BY <1>4, <1>5, <2>1, InsertType DEF StoresOK
<1>7. DiskOK'
  BY <1>5, <1>6, SaveNotificationsType
<1>8. RelayOK' /\ stack' \in Seq(Frame)
  BY <1>4, <1>5, SubmitType, TimestampFramesType
<1>9. QED
  BY <1>6, <1>7, <1>8 DEF AddNotification, StoresOK, SinksOK, CallsOK, ProcessOK, sinkVars,
     processVars

\* An event that only starts a call of frames that are well typed.
LEMMA CallType ==
    ASSUME TypeOK, NEW frames \in Seq(Frame), Call(frames), posted' \in Seq(Frame),
           eventTypes' \in [EventTypes -> Settings]
    PROVE  TypeOK'
<1>1. DiskOK'
  BY NoSaveType DEF Call, TypeOK
<1>2. QED
  BY <1>1 DEF Call, TypeOK, StoresOK, RelayOK, SinksOK, CallsOK, ProcessOK, relayVars,
     sinkVars, processVars

LEMMA PostType ==
    ASSUME TypeOK, NEW frame \in Frame, Post(frame)
    PROVE  TypeOK'
<1>1. DiskOK'
  BY NoSaveType DEF Post, TypeOK
<1>2. posted' \in Seq(Frame)
  BY DEF Post, TypeOK, CallsOK
<1>3. QED
  BY <1>1, <1>2 DEF Post, TypeOK, StoresOK, RelayOK, SinksOK, CallsOK, ProcessOK, relayVars,
     sinkVars, processVars

LEMMA SinkRemovesNotificationType ==
    ASSUME TypeOK, NEW s \in Sinks, NEW id, SinkRemovesNotification(s, id)
    PROVE  TypeOK'
<1>1. id \in NotificationId
  BY DEF SinkRemovesNotification, TypeOK, SinksOK, IsStore
<1>2. <<RemoveFrame(id)>> \in Seq(Frame)
  BY <1>1, FrameTypes
<1>3. posted' \in Seq(Frame) /\ eventTypes' \in [EventTypes -> Settings]
  BY DEF SinkRemovesNotification, TypeOK, CallsOK, StoresOK
<1>4. QED
  BY <1>2, <1>3, CallType DEF SinkRemovesNotification

\* Where Settings say nothing of a group's event type its frames are still typed.
LEMMA OfEventTypeTypes ==
    ASSUME TypeOK, NEW et
    PROVE  /\ OfEventType(notificationContainer, et) \in SUBSET NotificationId
           /\ OfEventType(groupContainer, et) \in SUBSET GroupId
BY DEF OfEventType, TypeOK, StoresOK, IsStore

LEMMA ClientEventType ==
    ASSUME TypeOK,
           \/ \E p \in AddParams, g \in GroupRef, t \in Times : AddNotification(p, g, t)
           \/ \E id \in NotificationId, p \in UpdateParams, t \in Times :
                    ClientUpdatesNotification(id, p, t)
           \/ \E id \in NotificationId : ClientRemovesNotification(id)
           \/ \E g \in GroupId : ClientRemovesGroup(g)
           \/ \E et \in EventTypeRef : AddGroup(et)
           \/ \E g \in GroupId, et \in EventTypeRef : UpdateGroup(g, et)
           \/ NotificationUserId
    PROVE  TypeOK'
<1> USE DEF TypeOK
<1>1. ASSUME NEW p \in AddParams, NEW g \in GroupRef, NEW t \in Times, AddNotification(p, g, t)
      PROVE  TypeOK'
  BY <1>1, AddNotificationType
<1>2. ASSUME NEW id \in NotificationId, NEW p \in UpdateParams, NEW t \in Times,
             ClientUpdatesNotification(id, p, t)
      PROVE  TypeOK'
  <2>1. p.class \in Class /\ p.persistent \in Flag /\ p.eventType \in EventTypeRef
    BY ConstantsAssumption DEF ConstantsAssumption, Params
  <2>2. /\ IsStore(notificationContainer', NotificationId, Notification)
        /\ waitQueue' \in Seq(Notification)
        /\ DiskOK'
        /\ stack' \in Seq(Frame)
    <3>1. <<>> \in Seq(Frame)
      OBVIOUS
    <3>2. id \in DOMAIN notificationContainer /\ UpdateNotification(id, p, t, <<>>)
      BY <1>2 DEF ClientUpdatesNotification
    <3>3. QED
      BY <2>1, <3>1, <3>2, UpdateNotificationType
  <2>3. QED
    BY <1>2, <2>2 DEF ClientUpdatesNotification, StoresOK, RelayOK, SinksOK, CallsOK,
       ProcessOK, relayVars, sinkVars, processVars
<1>3. ASSUME NEW id \in NotificationId, ClientRemovesNotification(id)
      PROVE  TypeOK'
  BY <1>3, FrameTypes, PostType DEF ClientRemovesNotification
<1>4. ASSUME NEW g \in GroupId, ClientRemovesGroup(g)
      PROVE  TypeOK'
  BY <1>4, FrameTypes, PostType DEF ClientRemovesGroup
<1>5. ASSUME NEW et \in EventTypeRef, AddGroup(et)
      PROVE  TypeOK'
  <2> DEFINE g == Smallest(FreeGroupIds)
             new == [timestamp |-> 0, eventType |-> et]
  <2>1. g \in GroupId
    <3>1. FreeGroupIds \subseteq Nat /\ FreeGroupIds # {}
      BY <1>5, ConstantsAssumption DEF AddGroup, FreeGroupIds, GroupId, ConstantsAssumption
    <3>2. g \in FreeGroupIds
      BY <3>1, SmallestProperties
    <3>3. QED
      BY <3>2 DEF FreeGroupIds
  <2>2. new \in Group
    BY DEF Group
  <2>3. groupContainer' = Insert(groupContainer, g, new) /\ TellGroups({g}) /\ SaveStateData
    BY <1>5, Zenon DEF AddGroup
  <2> HIDE DEF g, new
  <2>4. IsStore(groupContainer', GroupId, Group)
    BY <2>1, <2>2, <2>3, InsertType DEF StoresOK
  <2>5. DiskOK'
    BY <1>5, <2>3, <2>4, SaveStateDataType DEF AddGroup, ProcessOK
  <2>6. toldGroups' \in [GroupSinks -> SUBSET GroupId]
    BY <2>1, <2>3 DEF TellGroups, SinksOK
  <2>7. QED
    BY <1>5, <2>4, <2>5, <2>6 DEF AddGroup, StoresOK, RelayOK, SinksOK, CallsOK, ProcessOK,
       relayVars, processVars
<1>6. ASSUME NEW g \in GroupId, NEW et \in EventTypeRef, UpdateGroup(g, et)
      PROVE  TypeOK'
  <2>1. IsStore(groupContainer', GroupId, Group)
    BY <1>6 DEF UpdateGroup, StoresOK, IsStore, Group
  <2>2. DiskOK'
    BY <1>6, <2>1, SaveStateDataType DEF UpdateGroup, ProcessOK
  <2>3. toldGroups' \in [GroupSinks -> SUBSET GroupId]
    BY <1>6 DEF UpdateGroup, TellGroups, SinksOK
  <2>4. QED
    BY <1>6, <2>1, <2>2, <2>3 DEF UpdateGroup, StoresOK, RelayOK, SinksOK, CallsOK, ProcessOK,
       relayVars, processVars
<1>7. CASE NotificationUserId
  <2>1. /\ lastUsedNotificationUserId' \in 0 .. MaxUserId
        /\ issuedUserId' \in 0 .. MaxUserId
    BY <1>7, ConstantsAssumption DEF NotificationUserId, ProcessOK, ConstantsAssumption
  <2>2. DiskOK'
    BY <1>7, <2>1, SaveStateDataType DEF NotificationUserId, StoresOK
  <2>3. QED
    BY <1>7, <2>1, <2>2 DEF NotificationUserId, StoresOK, RelayOK, SinksOK, CallsOK, ProcessOK,
       relayVars, sinkVars
<1>8. QED
  BY <1>1, <1>2, <1>3, <1>4, <1>5, <1>6, <1>7

LEMMA SinkEventType ==
    ASSUME TypeOK,
           \/ DeliverPosted
           \/ \E s \in GroupSinks, id \in NotificationId : SinkRemovesNotification(s, id)
           \/ \E id \in NotificationId : BannerDone(id)
           \/ \E s \in GroupSinks, g \in GroupId : SinkClearsGroup(s, g)
           \/ RelayNextNotification
           \/ RegisterSink
           \/ UnregisterSink
    PROVE  TypeOK'
<1> USE DEF TypeOK
<1>1. CASE DeliverPosted
  <2>1. <<Head(posted)>> \in Seq(Frame) /\ posted' \in Seq(Frame)
    BY <1>1 DEF DeliverPosted, CallsOK
  <2>2. QED
    BY <1>1, <2>1, CallType DEF DeliverPosted, StoresOK
<1>2. ASSUME NEW s \in GroupSinks, NEW id \in NotificationId, SinkRemovesNotification(s, id)
      PROVE  TypeOK'
  BY <1>2, SinkRemovesNotificationType DEF GroupSinks, Sinks
<1>3. ASSUME NEW id \in NotificationId, BannerDone(id)
      PROVE  TypeOK'
  BY <1>3, SinkRemovesNotificationType DEF BannerDone, Sinks
<1>4. ASSUME NEW s \in GroupSinks, NEW g \in GroupId, SinkClearsGroup(s, g)
      PROVE  TypeOK'
  <2>1. Members(g) \in SUBSET NotificationId
    BY DEF Members, StoresOK, IsStore
  <2>2. <<RemoveEachFrame(Members(g))>> \in Seq(Frame)
    BY <2>1, FrameTypes
  <2>3. posted' \in Seq(Frame) /\ eventTypes' \in [EventTypes -> Settings]
    BY <1>4 DEF SinkClearsGroup, CallsOK, StoresOK
  <2>4. QED
    BY <1>4, <2>2, <2>3, CallType DEF SinkClearsGroup
<1>5. CASE RelayNextNotification
  <2>1. <<>> \in Seq(Frame)
    OBVIOUS
  <2>2. RelayOK' /\ stack' \in Seq(Frame)
    BY <1>5, <2>1, RelayType DEF RelayNextNotification
  <2>3. DiskOK'
    BY <1>5, NoSaveType DEF RelayNextNotification
  <2>4. QED
    BY <1>5, <2>2, <2>3 DEF RelayNextNotification, StoresOK, SinksOK, CallsOK, ProcessOK,
       sinkVars, processVars
<1>6. CASE RegisterSink
  <2>1. DiskOK'
    BY <1>6, NoSaveType DEF RegisterSink
  <2>2. ToldOK'
    BY <1>6 DEF RegisterSink, SinksOK, ToldOK, StoresOK, IsStore
  <2>3. toldGroups' \in [GroupSinks -> SUBSET GroupId] /\ dbusRegistered' \in BOOLEAN
    BY <1>6 DEF RegisterSink, SinksOK, StoresOK, IsStore
  <2>4. QED
    BY <1>6, <2>1, <2>2, <2>3 DEF RegisterSink, StoresOK, RelayOK, SinksOK, ToldOK, CallsOK,
       ProcessOK, relayVars, processVars
<1>7. CASE UnregisterSink
  <2>1. DiskOK'
    BY <1>7, NoSaveType DEF UnregisterSink
  <2>2. ToldOK'
    BY <1>7, EmptyType DEF UnregisterSink, SinksOK, ToldOK
  <2>3. toldGroups' \in [GroupSinks -> SUBSET GroupId] /\ dbusRegistered' \in BOOLEAN
    BY <1>7 DEF UnregisterSink, SinksOK
  <2>4. QED
    BY <1>7, <2>1, <2>2, <2>3 DEF UnregisterSink, StoresOK, RelayOK, SinksOK, ToldOK, CallsOK,
       ProcessOK, relayVars, processVars
<1>8. QED
  BY <1>1, <1>2, <1>3, <1>4, <1>5, <1>6, <1>7

LEMMA ProcessEventType ==
    ASSUME TypeOK,
           \/ \E et \in EventTypes, settings \in EventTypeSettings :
                    EventTypeModified(et, settings)
           \/ \E et \in EventTypes : EventTypeUninstalled(et)
           \/ \E et \in EventTypes, settings \in EventTypeSettings :
                    EventTypeChangesUnseen(et, settings)
           \/ Start
           \/ Crash
           \/ Reboot
    PROVE  TypeOK'
<1> USE DEF TypeOK
<1>0. EventTypeSettings \subseteq Settings
  BY ConstantsAssumption DEF ConstantsAssumption
<1>1. ASSUME NEW et \in EventTypes, NEW settings \in EventTypeSettings,
             EventTypeModified(et, settings)
      PROVE  TypeOK'
  <2>1. posted' \in Seq(Frame) /\ eventTypes' \in [EventTypes -> Settings]
    BY <1>0, <1>1 DEF EventTypeModified, CallsOK, StoresOK
  <2>2. <<UpdateEachFrame(OfEventType(notificationContainer, et)),
          UpdateGroupsFrame(OfEventType(groupContainer, et))>> \in Seq(Frame)
    BY OfEventTypeTypes, FrameTypes
  <2>3. QED
    BY <1>1, <2>1, <2>2, CallType DEF EventTypeModified
<1>2. ASSUME NEW et \in EventTypes, EventTypeUninstalled(et)
      PROVE  TypeOK'
  <2>1. [class |-> Unset, persistent |-> Unset] \in Settings
    BY DEF Settings, Class, Flag
  <2>2. posted' \in Seq(Frame) /\ eventTypes' \in [EventTypes -> Settings]
    BY <1>2, <2>1 DEF EventTypeUninstalled, CallsOK, StoresOK
  <2>3. <<RemoveEachFrame(OfEventType(notificationContainer, et)),
          RemoveGroupsFrame(OfEventType(groupContainer, et))>> \in Seq(Frame)
    BY OfEventTypeTypes, FrameTypes
  <2>4. QED
    BY <1>2, <2>2, <2>3, CallType DEF EventTypeUninstalled
<1>3. ASSUME NEW et \in EventTypes, NEW settings \in EventTypeSettings,
             EventTypeChangesUnseen(et, settings)
      PROVE  TypeOK'
  <2>1. DiskOK'
    BY <1>3, NoSaveType DEF EventTypeChangesUnseen
  <2>2. eventTypes' \in [EventTypes -> Settings]
    BY <1>0, <1>3 DEF EventTypeChangesUnseen, StoresOK
  <2>3. QED
    BY <1>3, <2>1, <2>2 DEF EventTypeChangesUnseen, StoresOK, RelayOK, SinksOK, CallsOK,
       ProcessOK, relayVars, sinkVars, processVars
<1>4. CASE Start
  <2>1. IsStore(notificationContainer', NotificationId, Notification)
    <3>1. ASSUME NEW id \in DOMAIN disk.notifications
          PROVE  AppendEventTypeParameters(disk.notifications[id]) \in Notification
      BY AppendNotificationType DEF DiskOK, IsStore
    <3> DEFINE kept == {i \in DOMAIN disk.notifications :
                            bootFile \/ IsPersistent(disk.notifications[i])}
    <3>2. kept \subseteq DOMAIN disk.notifications /\ kept \subseteq NotificationId
      BY DEF DiskOK, IsStore
    <3>3. notificationContainer' =
            [id \in kept |-> AppendEventTypeParameters(disk.notifications[id])]
      BY <1>4, Zenon DEF Start
    <3> HIDE DEF kept
    <3>4. QED
      BY <3>1, <3>2, <3>3 DEF IsStore
  <2>2. IsStore(groupContainer', GroupId, Group)
    BY <1>4 DEF Start, DiskOK
  <2>3. ToldOK'
    BY <1>4, <2>1 DEF Start, SinksOK, ToldOK
  <2>4. toldGroups' \in [GroupSinks -> SUBSET GroupId]
    BY <1>4, <2>2 DEF Start, SinksOK, IsStore
  <2>5. stack' \in Seq(Frame)
    BY <1>4, FrameTypes DEF Start
  <2>6. DiskOK'
    BY <1>4, NoSaveType DEF Start
  <2>7. ProcessOK'
    BY <1>4 DEF Start, ProcessOK, DiskOK
  <2>8. QED
    BY <1>4, <2>1, <2>2, <2>3, <2>4, <2>5, <2>6, <2>7 DEF Start, StoresOK, RelayOK, SinksOK,
       ToldOK, CallsOK, relayVars
<1>5. CASE Crash
  <2>1. StoresOK'
    BY <1>5, EmptyType DEF Crash, StoresOK
  <2>2. RelayOK'
    <3>1. waitQueue' \in Seq(Notification) /\ notificationIdInProgress' \in 0 .. MaxNotificationId
      BY <1>5, ConstantsAssumption DEF Crash, ConstantsAssumption
    <3>2. notificationInProgress' \in BOOLEAN /\ timerActive' \in BOOLEAN
      BY <1>5, Zenon DEF Crash
    <3>3. QED
      BY <3>1, <3>2, Zenon DEF RelayOK
  <2>3. SinksOK'
    <3>1. ToldOK'
      BY <1>5, EmptyType DEF Crash, ToldOK
    <3>2. toldGroups' \in [GroupSinks -> SUBSET GroupId]
      BY <1>5 DEF Crash
    <3>3. dbusRegistered' \in BOOLEAN
      BY <1>5, Zenon DEF Crash
    <3>4. QED
      BY <3>1, <3>2, <3>3, Zenon DEF SinksOK, ToldOK
  <2>4. CallsOK'
    BY <1>5 DEF Crash, CallsOK
  <2>5. DiskOK'
    <3>1. 0 \in 0 .. MaxUserId
      BY ConstantsAssumption DEF ConstantsAssumption
    <3>2. disk' \in SpoiledDisks /\ openFile' = "none"
      BY <1>5 DEF Crash
    <3>3. CASE disk' = disk
      BY <3>2, <3>3 DEF DiskOK
    <3>4. ASSUME NEW S \in SUBSET DOMAIN disk.notifications,
                 disk' = [disk EXCEPT !.notifications = Restrict(@, S)]
          PROVE  DiskOK'
      <4>1. IsStore(Restrict(disk.notifications, S), NotificationId, Notification)
        BY RestrictType DEF DiskOK
      <4>2. QED
        BY <3>2, <3>4, <4>1 DEF DiskOK
    <3>5. ASSUME NEW S \in SUBSET DOMAIN disk.groups,
                 disk' = [disk EXCEPT !.groups = Restrict(@, S)]
          PROVE  DiskOK'
      <4>1. IsStore(Restrict(disk.groups, S), GroupId, Group)
        BY RestrictType DEF DiskOK
      <4>2. QED
        BY <3>2, <3>5, <4>1 DEF DiskOK
    <3>6. CASE disk' = [disk EXCEPT !.groups = Empty, !.userId = 0]
      <4>1. IsStore(Empty, GroupId, Group)
        BY EmptyType
      <4>2. QED
        BY <3>1, <3>2, <3>6, <4>1 DEF DiskOK
    <3>7. \/ disk' = disk
          \/ \E S \in SUBSET DOMAIN disk.notifications :
                disk' = [disk EXCEPT !.notifications = Restrict(@, S)]
          \/ \E S \in SUBSET DOMAIN disk.groups :
                disk' = [disk EXCEPT !.groups = Restrict(@, S)]
          \/ disk' = [disk EXCEPT !.groups = Empty, !.userId = 0]
      BY <3>2 DEF SpoiledDisks
    <3>8. QED
      BY <3>3, <3>4, <3>5, <3>6, <3>7
  <2>6. ProcessOK'
    <3>1. running' \in BOOLEAN /\ bootFile' \in BOOLEAN
      BY <1>5, Zenon DEF Crash, ProcessOK
    <3>2. lastUsedNotificationUserId' \in 0 .. MaxUserId /\ issuedUserId' \in 0 .. MaxUserId
      BY <1>5, ConstantsAssumption DEF Crash, ProcessOK, ConstantsAssumption
    <3>3. QED
      BY <3>1, <3>2, Zenon DEF ProcessOK
  <2>7. QED
    BY <2>1, <2>2, <2>3, <2>4, <2>5, <2>6
<1>6. CASE Reboot
  <2>1. DiskOK'
    BY <1>6, NoSaveType DEF Reboot
  <2>2. ProcessOK'
    BY <1>6 DEF Reboot, ProcessOK
  <2>3. QED
    BY <1>6, <2>1, <2>2 DEF Reboot, StoresOK, RelayOK, SinksOK, CallsOK, relayVars, sinkVars
<1>7. QED
  BY <1>1, <1>2, <1>3, <1>4, <1>5, <1>6

LEMMA TypeOKStep == TypeOK /\ [Next]_vars => TypeOK'
<1> SUFFICES ASSUME TypeOK, [Next]_vars
             PROVE  TypeOK'
  OBVIOUS
<1>1. CASE Next
  BY <1>1, RunFrameType, ClientEventType, SinkEventType, ProcessEventType DEF Next
<1>2. CASE UNCHANGED vars
  BY <1>2 DEF vars, relayVars, sinkVars, diskVars, processVars, TypeOK, StoresOK, RelayOK,
     SinksOK, CallsOK, DiskOK, ProcessOK
<1>3. QED
  BY <1>1, <1>2

\* Whatever clients, sinks, event type files and crashes do, every variable of
\* the notification manager holds a value of its type.
THEOREM TypeCorrect == Spec => []TypeOK
<1>1. QED
  BY TypeOKInit, TypeOKStep, PTL DEF Spec

-----------------------------------------------------------------------------
(* The steps of the specification, by what they may do.  The lemmas below  *)
(* quote Next by these disjuncts.                                          *)

\* What the daemon does while it is up.
RunningStep ==
    \/ RunFrame
    \/ \E p \in AddParams, g \in GroupRef, t \in Times : AddNotification(p, g, t)
    \/ \E id \in NotificationId, p \in UpdateParams, t \in Times :
            ClientUpdatesNotification(id, p, t)
    \/ \E frame \in Frame : Post(frame)
    \/ \E frames \in Seq(Frame) : Call(frames)
    \/ RelayNextNotification
    \/ \E et \in EventTypeRef : AddGroup(et)
    \/ \E g \in GroupId, et \in EventTypeRef : UpdateGroup(g, et)
    \/ NotificationUserId
    \/ RegisterSink
    \/ UnregisterSink

\* What happens while it is down.
UnseenStep ==
    \/ \E et \in EventTypes, settings \in EventTypeSettings : EventTypeChangesUnseen(et, settings)
    \/ Reboot

\* Every step that only posts a call or only starts one is covered by Post and Call.
LEMMA NextCases ==
    ASSUME TypeOK, Next
    PROVE  RunningStep \/ UnseenStep \/ Start \/ Crash
<1> USE DEF RunningStep
<1>1. ASSUME NEW id \in NotificationId, ClientRemovesNotification(id)
      PROVE  RunningStep
  BY <1>1, FrameTypes DEF ClientRemovesNotification
<1>2. ASSUME NEW g \in GroupId, ClientRemovesGroup(g)
      PROVE  RunningStep
  BY <1>2, FrameTypes DEF ClientRemovesGroup
<1>3. CASE DeliverPosted
  <2>1. <<Head(posted)>> \in Seq(Frame)
    BY <1>3 DEF DeliverPosted, TypeOK, CallsOK
  <2>2. QED
    BY <1>3, <2>1 DEF DeliverPosted
<1>4. ASSUME NEW s, NEW id \in NotificationId, SinkRemovesNotification(s, id)
      PROVE  RunningStep
  <2>1. <<RemoveFrame(id)>> \in Seq(Frame)
    BY FrameTypes
  <2>2. QED
    BY <1>4, <2>1 DEF SinkRemovesNotification
<1>5. ASSUME NEW s, NEW g, SinkClearsGroup(s, g)
      PROVE  RunningStep
  <2>1. Members(g) \in SUBSET NotificationId
    BY DEF Members, TypeOK, StoresOK, IsStore
  <2>2. <<RemoveEachFrame(Members(g))>> \in Seq(Frame)
    BY <2>1, FrameTypes
  <2>3. QED
    BY <1>5, <2>2 DEF SinkClearsGroup
<1>6. ASSUME NEW et, NEW settings, EventTypeModified(et, settings)
      PROVE  RunningStep
  <2>1. <<UpdateEachFrame(OfEventType(notificationContainer, et)),
          UpdateGroupsFrame(OfEventType(groupContainer, et))>> \in Seq(Frame)
    BY OfEventTypeTypes, FrameTypes
  <2>2. QED
    BY <1>6, <2>1 DEF EventTypeModified
<1>7. ASSUME NEW et, EventTypeUninstalled(et)
      PROVE  RunningStep
  <2>1. <<RemoveEachFrame(OfEventType(notificationContainer, et)),
          RemoveGroupsFrame(OfEventType(groupContainer, et))>> \in Seq(Frame)
    BY OfEventTypeTypes, FrameTypes
  <2>2. QED
    BY <1>7, <2>1 DEF EventTypeUninstalled
<1>8. QED
  BY <1>1, <1>2, <1>3, <1>4, <1>5, <1>6, <1>7 DEF Next, UnseenStep, BannerDone

LEMMA RunningStaysUp ==
    ASSUME RunningStep
    PROVE  running /\ running' = running
BY DEF RunningStep, RunFrame, Top, Idle, processVars, DeliverUpdated, FinishSubmit, FinishUpdate,
   RunRemove, RunRemoveEach, UpdateEach, UpdateGroupTimestamp, DoRemoveGroup, FinishRemoveGroup,
   RemoveGroups, UpdateGroups, Prune, AddNotification, ClientUpdatesNotification, Post, Call,
   RelayNextNotification, AddGroup, UpdateGroup, NotificationUserId, RegisterSink, UnregisterSink

\* A daemon that is down has nothing under way.
DownIsIdle ==
    ~running => /\ waitQueue = <<>>
                /\ stack = <<>>
                /\ notificationInProgress = FALSE
                /\ timerActive = FALSE

LEMMA DownIsIdleStep == TypeOK /\ DownIsIdle /\ [Next]_vars => DownIsIdle'
<1> SUFFICES ASSUME TypeOK, DownIsIdle, [Next]_vars
             PROVE  DownIsIdle'
  OBVIOUS
<1>1. CASE RunningStep
  BY <1>1, RunningStaysUp DEF DownIsIdle
<1>2. CASE UnseenStep
  BY <1>2 DEF UnseenStep, EventTypeChangesUnseen, Reboot, DownIsIdle, relayVars
<1>3. CASE Start
  BY <1>3 DEF Start, DownIsIdle
<1>4. CASE Crash
  BY <1>4, Zenon DEF Crash, DownIsIdle
<1>5. CASE UNCHANGED vars
  BY <1>5 DEF vars, relayVars, processVars, DownIsIdle
<1>6. QED
  BY <1>1, <1>2, <1>3, <1>4, <1>5, NextCases

-----------------------------------------------------------------------------
(* The wait queue holds copies of what the container holds.                *)

\* What the container holds of the waiting notifications is left alone.
WaitingKept ==
    \A i \in DOMAIN waitQueue :
        /\ waitQueue[i].id \in DOMAIN notificationContainer'
        /\ notificationContainer'[waitQueue[i].id] = notificationContainer[waitQueue[i].id]

LEMMA SameQueueConsistent ==
    ASSUME WaitQueueConsistent, WaitingKept, waitQueue' = waitQueue
    PROVE  WaitQueueConsistent'
BY DEF WaitQueueConsistent, WaitingKept

LEMMA TailConsistent ==
    ASSUME waitQueue \in Seq(Notification), WaitQueueConsistent, WaitingKept,
           waitQueue # <<>>, waitQueue' = Tail(waitQueue)
    PROVE  WaitQueueConsistent'
<1>1. /\ Len(waitQueue) \in Nat /\ DOMAIN waitQueue = 1 .. Len(waitQueue)
      /\ Len(waitQueue') = Len(waitQueue) - 1 /\ DOMAIN waitQueue' = 1 .. Len(waitQueue) - 1
  OBVIOUS
<1>2. \A k \in DOMAIN waitQueue' : k + 1 \in DOMAIN waitQueue /\ waitQueue'[k] = waitQueue[k + 1]
  OBVIOUS
<1>3. Len(waitQueue') <= MaxWaitQueueSize
  BY <1>1, ConstantsAssumption DEF WaitQueueConsistent, ConstantsAssumption
<1>4. ASSUME NEW i \in DOMAIN waitQueue', NEW j \in DOMAIN waitQueue',
             waitQueue'[i].id = waitQueue'[j].id
      PROVE  i = j
  <2>1. i + 1 = j + 1
    BY <1>2, <1>4 DEF WaitQueueConsistent
  <2>2. QED
    BY <1>1, <2>1
<1>5. ASSUME NEW k \in DOMAIN waitQueue'
      PROVE  /\ waitQueue'[k].id \in DOMAIN notificationContainer'
             /\ notificationContainer'[waitQueue'[k].id] = waitQueue'[k]
  BY <1>2 DEF WaitQueueConsistent, WaitingKept
<1>6. QED
  BY <1>3, <1>4, <1>5 DEF WaitQueueConsistent

LEMMA RelayConsistent ==
    ASSUME waitQueue \in Seq(Notification), WaitQueueConsistent, WaitingKept,
           NEW rest, Relay(rest)
    PROVE  WaitQueueConsistent'
BY TailConsistent, SameQueueConsistent DEF Relay

LEMMA EnqueueConsistent ==
    ASSUME waitQueue \in Seq(Notification), WaitQueueConsistent,
           NEW n \in Notification, n.id \notin DOMAIN notificationContainer,
           notificationContainer' = Insert(notificationContainer, n.id, n),
           waitQueue' = Enqueue(n)
    PROVE  WaitQueueConsistent'
<1>1. WaitingKept
  BY DEF WaitingKept, WaitQueueConsistent, Insert
<1>2. CASE waitQueue' = waitQueue
  BY <1>1, <1>2, SameQueueConsistent
<1>3. CASE /\ Len(waitQueue) < MaxWaitQueueSize
           /\ waitQueue' = InsertAt(waitQueue, InsertPosition(n), n)
  <2> DEFINE p == InsertPosition(n)
             L == Len(waitQueue)
             Old(k) == IF k < p THEN k ELSE k - 1
  <2>1. p \in 1 .. L + 1 /\ L \in Nat /\ DOMAIN waitQueue = 1 .. L
    BY InsertPositionType
  <2>2. /\ waitQueue' \in Seq(Notification)
        /\ Len(waitQueue') = L + 1
        /\ \A k \in 1 .. L + 1 : waitQueue'[k] =
                IF k < p THEN waitQueue[k] ELSE IF k = p THEN n ELSE waitQueue[k - 1]
    <3>1. PICK i \in 1 .. Len(waitQueue) + 1 : i = p
      BY <2>1
    <3>2. PICK q : q = InsertAt(waitQueue, i, n)
      OBVIOUS
    <3>3. /\ q \in Seq(Notification)
          /\ Len(q) = Len(waitQueue) + 1
          /\ \A k \in 1 .. Len(waitQueue) + 1 : q[k] =
                IF k < i THEN waitQueue[k] ELSE IF k = i THEN n ELSE waitQueue[k - 1]
      <4>1. i \in 1 .. Len(waitQueue) + 1 /\ n \in Notification /\ waitQueue \in Seq(Notification)
        BY <3>1
      <4>2. QED
        BY <3>2, <4>1, InsertAtProperties, SMTT(20)
    <3>4. waitQueue' = q
      BY <1>3, <3>1, <3>2
    <3>5. QED
      BY <3>1, <3>3, <3>4
  <2>3. DOMAIN waitQueue' = 1 .. L + 1
    BY <2>2
  <2> HIDE DEF p, L
  <2>4. \A k \in 1 .. L + 1 : k # p =>
            /\ Old(k) \in DOMAIN waitQueue
            /\ waitQueue'[k] = waitQueue[Old(k)]
            /\ waitQueue'[k].id # n.id
    <3>1. SUFFICES ASSUME NEW k \in 1 .. L + 1, k # p
                   PROVE  /\ Old(k) \in DOMAIN waitQueue
                          /\ waitQueue'[k] = waitQueue[Old(k)]
                          /\ waitQueue'[k].id # n.id
      OBVIOUS
    <3>2. Old(k) \in DOMAIN waitQueue
      BY <2>1, <3>1
    <3>3. waitQueue'[k] = waitQueue[Old(k)]
      BY <2>2, <3>1
    <3>4. waitQueue[Old(k)].id # n.id
      BY <3>2 DEF WaitQueueConsistent
    <3>5. QED
      BY <3>2, <3>3, <3>4
  <2>5. waitQueue'[p] = n
    BY <2>1, <2>2
  <2>6. ASSUME NEW i \in 1 .. L + 1, NEW j \in 1 .. L + 1, waitQueue'[i].id = waitQueue'[j].id
        PROVE  i = j
    <3>1. CASE i = p \/ j = p
      BY <2>4, <2>5, <2>6, <3>1
    <3>2. CASE i # p /\ j # p
      <4>1. Old(i) = Old(j)
        BY <2>4, <2>6, <3>2 DEF WaitQueueConsistent
      <4>2. QED
        BY <2>1, <3>2, <4>1
    <3>3. QED
      BY <3>1, <3>2
  <2>7. ASSUME NEW k \in 1 .. L + 1
        PROVE  /\ waitQueue'[k].id \in DOMAIN notificationContainer'
               /\ notificationContainer'[waitQueue'[k].id] = waitQueue'[k]
    <3>1. CASE k = p
      BY <2>5, <3>1 DEF Insert
    <3>2. CASE k # p
      BY <1>1, <2>4, <3>2 DEF WaitQueueConsistent, WaitingKept
    <3>3. QED
      BY <3>1, <3>2
  <2>8. Len(waitQueue') <= MaxWaitQueueSize
    BY <1>3, <2>1, <2>2, ConstantsAssumption DEF ConstantsAssumption, L
  <2>9. QED
    BY <2>3, <2>6, <2>7, <2>8 DEF WaitQueueConsistent
<1>4. QED
  BY <1>2, <1>3 DEF Enqueue

LEMMA RemoveNotificationConsistent ==
    ASSUME TypeOK, WaitQueueConsistent, NEW id, NEW rest, RemoveNotification(id, rest)
    PROVE  WaitQueueConsistent'
<1>0. waitQueue \in Seq(Notification)
  BY DEF TypeOK, RelayOK
<1>1. CASE id \notin DOMAIN notificationContainer
  BY <1>1 DEF RemoveNotification, WaitQueueConsistent
<1>2. CASE id \in DOMAIN notificationContainer
  <2> DEFINE after == TimestampFrames(notificationContainer[id].group) \o rest
  <2>1. notificationContainer' = Without(notificationContainer, id)
    BY <1>2 DEF RemoveNotification
  <2>2. ASSUME NEW i \in DOMAIN waitQueue, waitQueue[i].id # id
        PROVE  /\ waitQueue[i].id \in DOMAIN notificationContainer'
               /\ notificationContainer'[waitQueue[i].id] = notificationContainer[waitQueue[i].id]
    BY <2>1, <2>2 DEF WaitQueueConsistent, Without, Restrict
  <2>3. CASE /\ WaitQueueIndices(id) = {}
             /\ IF notificationInProgress /\ id = notificationIdInProgress
                THEN Relay(after)
                ELSE stack' = after /\ UNCHANGED <<waitQueue, relayVars>>
    <3>1. WaitingKept
      BY <2>2, <2>3 DEF WaitingKept, WaitQueueIndices
    <3>2. QED
      BY <1>0, <2>3, <3>1, SameQueueConsistent, RelayConsistent
  <2>4. CASE /\ WaitQueueIndices(id) # {}
             /\ waitQueue' = TakeFromWaitQueue(id)
    <3> DEFINE L == Len(waitQueue)
    <3>1. PICK p \in 1 .. L : waitQueue[p].id = id /\ waitQueue' = RemoveAt(waitQueue, p)
      BY <1>0, <2>4, TakeFromWaitQueueProperties
    <3> DEFINE Old(k) == IF k < p THEN k ELSE k + 1
    <3>2. L \in Nat /\ DOMAIN waitQueue = 1 .. L
      BY <1>0
    <3>3. /\ waitQueue' \in Seq(Notification)
          /\ Len(waitQueue') = L - 1
          /\ \A k \in 1 .. L - 1 : waitQueue'[k] = IF k < p THEN waitQueue[k] ELSE waitQueue[k + 1]
      BY <1>0, <3>1, RemoveAtProperties
    <3>4. DOMAIN waitQueue' = 1 .. L - 1
      BY <3>3
    <3> HIDE DEF L
    <3>5. ASSUME NEW k \in 1 .. L - 1
          PROVE  /\ Old(k) \in DOMAIN waitQueue
                 /\ waitQueue'[k] = waitQueue[Old(k)]
                 /\ waitQueue'[k].id # id
      <4>1. Old(k) \in DOMAIN waitQueue /\ Old(k) # p /\ p \in DOMAIN waitQueue
        BY <3>1, <3>2
      <4>2. waitQueue'[k] = waitQueue[Old(k)]
        BY <3>3
      <4>3. waitQueue[Old(k)].id # id
        BY <3>1, <4>1 DEF WaitQueueConsistent
      <4>4. QED
        BY <4>1, <4>2, <4>3
    <3>6. ASSUME NEW i \in 1 .. L - 1, NEW j \in 1 .. L - 1, waitQueue'[i].id = waitQueue'[j].id
          PROVE  i = j
      <4>1. Old(i) = Old(j)
        BY <3>5, <3>6 DEF WaitQueueConsistent
      <4>2. QED
        BY <3>2, <4>1
    <3>7. ASSUME NEW k \in 1 .. L - 1
          PROVE  /\ waitQueue'[k].id \in DOMAIN notificationContainer'
                 /\ notificationContainer'[waitQueue'[k].id] = waitQueue'[k]
      <4>1. /\ Old(k) \in DOMAIN waitQueue
            /\ waitQueue'[k] = waitQueue[Old(k)]
            /\ waitQueue[Old(k)].id # id
        BY <3>5
      <4>2. notificationContainer[waitQueue[Old(k)].id] = waitQueue[Old(k)]
        BY <4>1 DEF WaitQueueConsistent
      <4> HIDE DEF Old
      <4>3. QED
        BY <2>2, <4>1, <4>2
    <3>8. Len(waitQueue') <= MaxWaitQueueSize
      BY <3>2, <3>3, ConstantsAssumption DEF ConstantsAssumption, L, WaitQueueConsistent
    <3>9. QED
      BY <3>4, <3>6, <3>7, <3>8 DEF WaitQueueConsistent
  <2>5. QED
    BY <1>2, <2>3, <2>4 DEF RemoveNotification, after
<1>3. QED
  BY <1>1, <1>2

LEMMA UpdateNotificationConsistent ==
    ASSUME TypeOK, WaitQueueConsistent, NEW id \in DOMAIN notificationContainer,
           NEW p, NEW t \in Times,
           p.class \in Class, p.persistent \in Flag, p.eventType \in EventTypeRef,
           NEW rest, UpdateNotification(id, p, t, rest)
    PROVE  WaitQueueConsistent'
<1>1. waitQueue \in Seq(Notification)
  BY DEF TypeOK, RelayOK
<1>2. /\ waitQueue' \in Seq(Notification)
      /\ Len(waitQueue') = Len(waitQueue)
      /\ DOMAIN waitQueue' = DOMAIN waitQueue
  <2>1. waitQueue' = UpdateWaiting(id, p, t)
    BY DEF UpdateNotification
  <2>2. QED
    BY <1>1, <2>1, UpdateWaitingType
<1>3. ASSUME NEW i \in DOMAIN waitQueue
      PROVE  /\ waitQueue'[i] = IF waitQueue[i].id = id
                                THEN Updated(waitQueue[i], p, t) ELSE waitQueue[i]
             /\ waitQueue'[i].id = waitQueue[i].id
  <2>1. waitQueue'[i] = IF waitQueue[i].id = id
                        THEN Updated(waitQueue[i], p, t) ELSE waitQueue[i]
    BY DEF UpdateNotification, UpdateWaiting, WaitQueueIndices
  <2>2. Updated(waitQueue[i], p, t).id = waitQueue[i].id
    BY <1>1, UpdatedType
  <2>3. QED
    BY <2>1, <2>2
<1>4. notificationContainer' =
        [notificationContainer EXCEPT ![id] = Updated(notificationContainer[id], p, t)]
  BY DEF UpdateNotification
<1>5. ASSUME NEW i \in DOMAIN waitQueue
      PROVE  /\ waitQueue'[i].id \in DOMAIN notificationContainer'
             /\ notificationContainer'[waitQueue'[i].id] = waitQueue'[i]
  <2>1. /\ waitQueue[i].id \in DOMAIN notificationContainer
        /\ notificationContainer[waitQueue[i].id] = waitQueue[i]
    BY DEF WaitQueueConsistent
  <2>2. CASE waitQueue[i].id = id
    BY <1>3, <1>4, <2>1, <2>2
  <2>3. CASE waitQueue[i].id # id
    BY <1>3, <1>4, <2>1, <2>3
  <2>4. QED
    BY <2>2, <2>3
<1>6. QED
  BY <1>2, <1>3, <1>5 DEF WaitQueueConsistent

LEMMA WaitQueueConsistentStep ==
    TypeOK /\ DownIsIdle /\ WaitQueueConsistent /\ [Next]_vars => WaitQueueConsistent'
<1> SUFFICES ASSUME TypeOK, DownIsIdle, WaitQueueConsistent, [Next]_vars
             PROVE  WaitQueueConsistent'
  OBVIOUS
<1>0. waitQueue \in Seq(Notification)
  BY DEF TypeOK, RelayOK
<1>1. CASE UNCHANGED <<notificationContainer, waitQueue>>
  BY <1>1 DEF WaitQueueConsistent
<1>2. CASE RunRemove
  BY <1>2, RemoveNotificationConsistent DEF RunRemove
<1>3. CASE RunRemoveEach
  BY <1>1, <1>3, RemoveNotificationConsistent DEF RunRemoveEach
<1>4. CASE UpdateEach
  <2>1. ASSUME NEW id \in DOMAIN notificationContainer, NEW rest,
               UpdateNotification(id, AppendEventTypeParameters(notificationContainer[id]),
                                  notificationContainer[id].timestamp, rest)
        PROVE  WaitQueueConsistent'
    <3> DEFINE q == AppendEventTypeParameters(notificationContainer[id])
               t == notificationContainer[id].timestamp
    <3>1. notificationContainer[id] \in Notification
      BY DEF TypeOK, StoresOK, IsStore
    <3>2. q.class \in Class /\ q.persistent \in Flag /\ q.eventType \in EventTypeRef
      BY <3>1, AppendNotificationType DEF Notification
    <3>3. t \in Times
      BY <3>1 DEF Notification
    <3> HIDE DEF q, t
    <3>4. UpdateNotification(id, q, t, rest)
      BY <2>1 DEF q, t
    <3>5. QED
      BY <3>2, <3>3, <3>4, UpdateNotificationConsistent
  <2>2. QED
    BY <1>1, <1>4, <2>1 DEF UpdateEach
<1>5. ASSUME NEW p \in AddParams, NEW g \in GroupRef, NEW t \in Times, AddNotification(p, g, t)
      PROVE  WaitQueueConsistent'
  <2> DEFINE full == AppendEventTypeParameters(p)
             type == DetermineType(full)
             n == [id |-> Smallest(FreeNotificationIds),
                   group |-> g,
                   type |-> type,
                   class |-> full.class,
                   persistent |-> IF type = "system" THEN "false" ELSE full.persistent,
                   eventType |-> p.eventType,
                   timestamp |-> t]
  <2>1. Smallest(FreeNotificationIds) \in FreeNotificationIds
    <3>1. FreeNotificationIds \subseteq Nat /\ FreeNotificationIds # {}
      BY <1>5, ConstantsAssumption DEF AddNotification, FreeNotificationIds, NotificationId,
         ConstantsAssumption
    <3>2. QED
      BY <3>1, SmallestProperties
  <2>2. n.id \notin DOMAIN notificationContainer
    BY <2>1 DEF FreeNotificationIds
  <2>3. /\ notificationContainer' = Insert(notificationContainer, n.id, n)
        /\ Submit(n, TimestampFrames(g))
    BY <1>5, Zenon DEF AddNotification
  <2> HIDE DEF n
  <2>4. TypeOK'
    BY <1>5, AddNotificationType
  <2>5. n \in Notification
    BY <2>3, <2>4 DEF TypeOK, StoresOK, IsStore, Insert
  <2>6. CASE waitQueue' = Enqueue(n)
    BY <1>0, <2>2, <2>3, <2>5, <2>6, EnqueueConsistent
  <2>7. CASE waitQueue' = waitQueue
    <3>1. WaitingKept
      BY <2>2, <2>3 DEF WaitingKept, WaitQueueConsistent, Insert
    <3>2. QED
      BY <2>7, <3>1, SameQueueConsistent
  <2>8. QED
    BY <2>3, <2>6, <2>7 DEF Submit
<1>6. ASSUME NEW id \in NotificationId, NEW p \in UpdateParams, NEW t \in Times,
             ClientUpdatesNotification(id, p, t)
      PROVE  WaitQueueConsistent'
  <2>1. p.class \in Class /\ p.persistent \in Flag /\ p.eventType \in EventTypeRef
    BY ConstantsAssumption DEF ConstantsAssumption, Params
  <2>2. QED
    BY <1>6, <2>1, UpdateNotificationConsistent DEF ClientUpdatesNotification
<1>7. CASE RelayNextNotification
  <2>1. WaitingKept
    BY <1>7 DEF RelayNextNotification, WaitingKept, WaitQueueConsistent
  <2>2. QED
    BY <1>0, <1>7, <2>1, RelayConsistent DEF RelayNextNotification
<1>8. CASE Start
  <2>1. waitQueue = <<>> /\ waitQueue' = waitQueue
    BY <1>8 DEF Start, DownIsIdle
  <2>2. QED
    BY <2>1, ConstantsAssumption DEF WaitQueueConsistent, ConstantsAssumption
<1>9. CASE Crash
  BY <1>9, ConstantsAssumption DEF Crash, WaitQueueConsistent, ConstantsAssumption
<1>10. CASE UnseenStep \/ UNCHANGED vars
  BY <1>1, <1>10 DEF UnseenStep, EventTypeChangesUnseen, Reboot, vars
<1>11. CASE RunningStep
  <2>1. CASE RunFrame
    BY <1>1, <1>2, <1>3, <1>4, <2>1 DEF RunFrame, DeliverUpdated, FinishSubmit, FinishUpdate,
       UpdateGroupTimestamp, DoRemoveGroup, FinishRemoveGroup, RemoveGroups, UpdateGroups, Prune
  <2>2. QED
    BY <1>1, <1>5, <1>6, <1>7, <1>11, <2>1 DEF RunningStep, Post, Call, AddGroup, UpdateGroup,
       NotificationUserId, RegisterSink, UnregisterSink
<1>12. QED
  BY <1>8, <1>9, <1>10, <1>11, NextCases

LEMMA WaitQueueConsistentInit == Init => WaitQueueConsistent /\ DownIsIdle
BY ConstantsAssumption DEF Init, WaitQueueConsistent, DownIsIdle, ConstantsAssumption

\* Whatever sinks, clients and crashes do, in whatever nesting of calls: the wait
\* queue keeps to its limit, holds no notification twice, and holds copies that
\* are up to date of notifications that exist.
THEOREM WaitQueueAlwaysConsistent == Spec => []WaitQueueConsistent
<1>1. TypeOK /\ DownIsIdle /\ WaitQueueConsistent /\ [Next]_vars
        => (DownIsIdle /\ WaitQueueConsistent)'
  BY DownIsIdleStep, WaitQueueConsistentStep
<1>2. Spec => [](DownIsIdle /\ WaitQueueConsistent)
  BY <1>1, WaitQueueConsistentInit, TypeCorrect, PTL DEF Spec
<1>3. QED
  BY <1>2, PTL

-----------------------------------------------------------------------------
(* A call that is pending stays pending until it is on top of the stack.   *)

Holds(frames, op) == \E i \in DOMAIN frames : frames[i].op = op

LEMMA PendingHolds == ASSUME NEW op PROVE Pending(op) <=> Holds(stack, op)
BY DEF Pending, Holds

LEMMA HoldsTail ==
    ASSUME NEW frames \in Seq(Frame), NEW op, frames # <<>>, Head(frames).op # op, Holds(frames, op)
    PROVE  Holds(Tail(frames), op)
<1>1. PICK i \in DOMAIN frames : frames[i].op = op
  BY DEF Holds
<1>2. i # 1 /\ i \in 1 .. Len(frames) /\ Len(frames) \in Nat
  BY <1>1
<1>3. i - 1 \in DOMAIN Tail(frames) /\ Tail(frames)[i - 1] = frames[i]
  BY <1>2
<1>4. QED
  BY <1>1, <1>3 DEF Holds

LEMMA HoldsAfter ==
    ASSUME NEW pre \in Seq(Frame), NEW rest \in Seq(Frame), NEW op, Holds(rest, op)
    PROVE  Holds(pre \o rest, op)
<1>1. PICK i \in DOMAIN rest : rest[i].op = op
  BY DEF Holds
<1>2. /\ Len(pre) + i \in 1 .. Len(pre) + Len(rest)
      /\ Len(pre) + i > Len(pre)
      /\ Len(pre) + i - Len(pre) = i
  BY <1>1
<1>3. /\ Len(pre) + i \in DOMAIN (pre \o rest)
      /\ (pre \o rest)[Len(pre) + i] = rest[i]
  BY <1>2
<1>4. QED
  BY <1>1, <1>3 DEF Holds

LEMMA HoldsBefore ==
    ASSUME NEW pre \in Seq(Frame), NEW rest \in Seq(Frame), NEW op, Holds(pre, op)
    PROVE  Holds(pre \o rest, op)
<1>1. PICK i \in DOMAIN pre : pre[i].op = op
  BY DEF Holds
<1>2. i \in DOMAIN (pre \o rest) /\ (pre \o rest)[i] = pre[i]
  BY <1>1
<1>3. QED
  BY <1>1, <1>2 DEF Holds

LEMMA HoldsInEmission ==
    ASSUME NEW n \in Notification, NEW rest \in Seq(Frame), Emit(n, rest)
    PROVE  /\ EmissionPending'
           /\ \A op : Holds(rest, op) => Pending(op)'
<1> DEFINE sub == <<SubmittedFrame(n.id)>>
<1>1. sub \in Seq(Frame)
  BY FrameTypes DEF Notification
<1>2. UpdatedFrames(n) \in Seq(Frame)
  BY UpdatedFramesType
<1>3. Holds(sub, "submitted")
  BY DEF Holds, SubmittedFrame
<1> HIDE DEF sub
<1>4. /\ UpdatedFrames(n) \o sub \in Seq(Frame)
      /\ stack' = (UpdatedFrames(n) \o sub) \o rest
  BY <1>1, <1>2, ConcatProperties DEF Emit, sub
<1>5. Holds(UpdatedFrames(n) \o sub, "submitted")
  BY <1>1, <1>2, <1>3, HoldsAfter
<1>6. Holds(stack', "submitted")
  BY <1>4, <1>5, HoldsBefore
<1>7. ASSUME NEW op, Holds(rest, op)
      PROVE  Holds(stack', op)
  BY <1>4, <1>7, HoldsAfter
<1>8. QED
  BY <1>6, <1>7 DEF EmissionPending, Pending, Holds

LEMMA RemoveNotificationPending ==
    ASSUME TypeOK, NEW id, NEW rest \in Seq(Frame), RemoveNotification(id, rest),
           NEW op, Holds(rest, op)
    PROVE  Pending(op)'
<1>1. CASE id \notin DOMAIN notificationContainer
  BY <1>1 DEF RemoveNotification, Pending, Holds
<1>2. CASE id \in DOMAIN notificationContainer
  <2> DEFINE after == TimestampFrames(notificationContainer[id].group) \o rest
  <2>1. /\ TimestampFrames(notificationContainer[id].group) \in Seq(Frame)
        /\ after \in Seq(Frame)
    <3>1. notificationContainer[id].group \in GroupRef
      BY <1>2 DEF TypeOK, StoresOK, IsStore, Notification
    <3>2. QED
      BY <3>1, TimestampFramesType, ConcatProperties
  <2>2. Holds(after, op)
    BY <2>1, HoldsAfter
  <2> HIDE DEF after
  <2>3. CASE stack' = after
    BY <2>2, <2>3 DEF Pending, Holds
  <2>4. CASE Relay(after) /\ waitQueue # <<>>
    <3>1. Head(waitQueue) \in Notification /\ Emit(Head(waitQueue), after)
      BY <2>4 DEF Relay, TypeOK, RelayOK
    <3>2. QED
      BY <2>1, <2>2, <3>1, HoldsInEmission
  <2>5. stack' = after \/ (Relay(after) /\ waitQueue # <<>>)
    BY <1>2 DEF RemoveNotification, after, Relay
  <2>6. QED
    BY <2>3, <2>4, <2>5
<1>3. QED
  BY <1>1, <1>2

LEMMA UpdateNotificationPending ==
    ASSUME TypeOK, NEW id \in DOMAIN notificationContainer, NEW p, NEW t \in Times,
           p.class \in Class, p.persistent \in Flag, p.eventType \in EventTypeRef,
           NEW rest \in Seq(Frame), UpdateNotification(id, p, t, rest),
           NEW op, Holds(rest, op)
    PROVE  Pending(op)'
<1> DEFINE n == Updated(notificationContainer[id], p, t)
<1>1. n \in Notification /\ id \in NotificationId
  BY UpdatedType DEF TypeOK, StoresOK, IsStore
<1>2. UpdatedFrames(n) \in Seq(Frame) /\ <<UpdateTailFrame(id)>> \in Seq(Frame)
  BY <1>1, UpdatedFramesType, FrameTypes
<1>3. /\ TimestampFrames(n.group) \in Seq(Frame)
      /\ UpdatedFrames(n) \o <<UpdateTailFrame(id)>> \in Seq(Frame)
  BY <1>1, <1>2, TimestampFramesType, ConcatProperties DEF Notification
<1>4. UpdatedFrames(n) \o <<UpdateTailFrame(id)>> \o rest
        = (UpdatedFrames(n) \o <<UpdateTailFrame(id)>>) \o rest
  BY <1>2, ConcatProperties
<1>5. \/ stack' = TimestampFrames(n.group) \o rest
      \/ stack' = (UpdatedFrames(n) \o <<UpdateTailFrame(id)>>) \o rest
  BY <1>4 DEF UpdateNotification
<1> HIDE DEF n
<1>6. Holds(stack', op)
  BY <1>3, <1>5, HoldsAfter
<1>7. QED
  BY <1>6 DEF Pending, Holds

LEMMA TopKeepsPending ==
    ASSUME TypeOK, NEW op, Top(op), NEW other, other # op, Pending(other)
    PROVE  /\ Tail(stack) \in Seq(Frame)
           /\ Holds(Tail(stack), other)
<1>1. stack \in Seq(Frame) /\ stack # <<>> /\ Head(stack).op # other
  BY DEF TypeOK, CallsOK, Top
<1>2. QED
  BY <1>1, HoldsTail, PendingHolds

\* The frame on top makes way for up to two others.
TopReplaced ==
    \/ stack' = Tail(stack)
    \/ \E f : stack' = <<f>> \o Tail(stack)
    \/ \E f, g : stack' = <<f, g>> \o Tail(stack)

\* The frames below it stay pending.
LEMMA PendingBelowTop ==
    ASSUME TypeOK, NEW op, Top(op), NEW other, other # op, Pending(other),
           TopReplaced
    PROVE  Pending(other)'
<1> DEFINE rest == Tail(stack)
<1>1. rest \in Seq(Frame) /\ Holds(rest, other)
  BY TopKeepsPending
<1>2. PICK i \in DOMAIN rest : rest[i].op = other
  BY <1>1 DEF Holds
<1> HIDE DEF rest
<1>3. i \in 1 .. Len(rest) /\ Len(rest) \in Nat
  BY <1>1, <1>2
<1>4. CASE stack' = rest
  BY <1>2, <1>4 DEF Pending
<1>5. ASSUME NEW f, stack' = <<f>> \o rest
      PROVE  Pending(other)'
  <2>1. i + 1 \in DOMAIN stack' /\ stack'[i + 1] = rest[i]
    BY <1>1, <1>3, <1>5
  <2>2. QED
    BY <1>2, <2>1 DEF Pending
<1>6. ASSUME NEW f, NEW g, stack' = <<f, g>> \o rest
      PROVE  Pending(other)'
  <2>1. i + 2 \in DOMAIN stack' /\ stack'[i + 2] = rest[i]
    BY <1>1, <1>3, <1>6
  <2>2. QED
    BY <1>2, <2>1 DEF Pending
<1>7. QED
  BY <1>4, <1>5, <1>6 DEF rest, TopReplaced

\* The frames that do not add, update or remove a notification.
PlainFrame(op) ==
    \/ op = "updated" /\ DeliverUpdated
    \/ op = "updateTail" /\ FinishUpdate
    \/ op = "timestamp" /\ UpdateGroupTimestamp
    \/ op = "removeGroup" /\ DoRemoveGroup
    \/ op = "groupGone" /\ FinishRemoveGroup
    \/ op = "removeGroups" /\ RemoveGroups
    \/ op = "updateGroups" /\ UpdateGroups
    \/ op = "prune" /\ Prune

LEMMA PlainFrameReplacesTop ==
    ASSUME TypeOK, NEW op, PlainFrame(op)
    PROVE  /\ Top(op)
           /\ TopReplaced
           /\ UNCHANGED <<notificationContainer, waitQueue, relayVars>>
<1>1. CASE op = "updated" /\ DeliverUpdated
  <2>1. stack' = Tail(stack) \/ \E ids : stack' = <<RemoveEachFrame(ids)>> \o Tail(stack)
    BY <1>1 DEF DeliverUpdated
  <2>2. QED
    BY <1>1, <2>1 DEF DeliverUpdated, TopReplaced
<1>2. CASE op = "updateTail" /\ FinishUpdate
  <2>1. <<>> \o Tail(stack) = Tail(stack)
    <3>1. Tail(stack) \in Seq(Frame)
      BY <1>2, TopType DEF FinishUpdate
    <3>2. QED
      BY <3>1
  <2>2. PICK g : stack' = TimestampFrames(g) \o Tail(stack)
    BY <1>2 DEF FinishUpdate
  <2>3. stack' = Tail(stack) \/ stack' = <<[op |-> "timestamp", group |-> g]>> \o Tail(stack)
    BY <2>1, <2>2 DEF TimestampFrames
  <2>4. QED
    BY <1>2, <2>3 DEF FinishUpdate, TopReplaced
<1>3. CASE op = "removeGroup" /\ DoRemoveGroup
  <2>1. \/ stack' = Tail(stack)
        \/ stack' = <<RemoveEachFrame(Members(Head(stack).group)), GroupGoneFrame(Head(stack).group)>>
                        \o Tail(stack)
    BY <1>3 DEF DoRemoveGroup
  <2>2. QED
    BY <1>3, <2>1 DEF DoRemoveGroup, TopReplaced
<1>4. CASE op = "removeGroups" /\ RemoveGroups
  <2>1. stack' = Tail(stack) \/ \E g, gs :
            stack' = <<RemoveGroupFrame(g), RemoveGroupsFrame(gs)>> \o Tail(stack)
    BY <1>4 DEF RemoveGroups
  <2>2. QED
    BY <1>4, <2>1 DEF RemoveGroups, TopReplaced
<1>5. CASE \/ op = "timestamp" /\ UpdateGroupTimestamp
           \/ op = "groupGone" /\ FinishRemoveGroup
           \/ op = "updateGroups" /\ UpdateGroups
           \/ op = "prune" /\ Prune
  BY <1>5 DEF UpdateGroupTimestamp, FinishRemoveGroup, UpdateGroups, Prune, TopReplaced
<1>6. QED
  BY <1>1, <1>2, <1>3, <1>4, <1>5 DEF PlainFrame

LEMMA RunFrameCases ==
    RunFrame <=> \/ FinishSubmit \/ RunRemove \/ RunRemoveEach \/ UpdateEach
                 \/ \E op : PlainFrame(op)
BY DEF RunFrame, PlainFrame

-----------------------------------------------------------------------------
(* Somebody will relay what waits.                                         *)

\* RelayScheduled does not follow from itself where submitNotification only
\* emits: in immediate mode nothing must wait, and nothing is ever in progress.
RelayInvariant ==
    /\ RelayScheduled
    /\ RelayMode = "immediate" => waitQueue = <<>> /\ notificationInProgress = FALSE

\* relayNextNotification with `rest' to be done afterwards.
LEMMA RelayKeepsSchedule ==
    ASSUME RelayOK, NEW rest \in Seq(Frame), Relay(rest), RelayInvariant
    PROVE  RelayInvariant'
<1>1. notificationInProgress' = FALSE /\ timerActive' = FALSE
  BY DEF Relay
<1>2. CASE waitQueue = <<>>
  BY <1>1, <1>2 DEF Relay, RelayInvariant, RelayScheduled
<1>3. CASE waitQueue # <<>>
  <2>1. Head(waitQueue) \in Notification
    BY <1>3 DEF RelayOK
  <2>2. Emit(Head(waitQueue), rest)
    BY <1>3 DEF Relay
  <2>3. EmissionPending'
    BY <2>1, <2>2, HoldsInEmission
  <2>4. RelayMode # "immediate"
    BY <1>3 DEF RelayInvariant
  <2>5. QED
    BY <1>1, <2>3, <2>4 DEF RelayInvariant, RelayScheduled
<1>4. QED
  BY <1>2, <1>3

\* A step that leaves queue and relay flags alone, and what is pending pending.
LEMMA ScheduleKept ==
    ASSUME RelayInvariant, waitQueue' = waitQueue,
           notificationInProgress' = notificationInProgress, timerActive' = timerActive,
           EmissionPending => EmissionPending'
    PROVE  RelayInvariant'
BY DEF RelayInvariant, RelayScheduled

LEMMA RemoveNotificationSchedule ==
    ASSUME TypeOK, RelayInvariant, NEW id, NEW rest \in Seq(Frame), RemoveNotification(id, rest),
           EmissionPending => Holds(rest, "submitted")
    PROVE  RelayInvariant'
<1>1. EmissionPending => EmissionPending'
  BY RemoveNotificationPending DEF EmissionPending
<1>2. CASE UNCHANGED <<waitQueue, relayVars>>
  BY <1>1, <1>2, ScheduleKept, Zenon DEF relayVars
<1>3. CASE WaitQueueIndices(id) # {} /\ UNCHANGED relayVars
  <2>1. waitQueue # <<>>
    BY <1>3 DEF WaitQueueIndices
  <2>2. RelayMode # "immediate" /\ (notificationInProgress \/ EmissionPending)
    BY <2>1 DEF RelayInvariant, RelayScheduled
  <2>3. QED
    BY <1>1, <1>3, <2>2 DEF RelayInvariant, RelayScheduled, relayVars
<1>4. ASSUME id \in DOMAIN notificationContainer,
             Relay(TimestampFrames(notificationContainer[id].group) \o rest)
      PROVE  RelayInvariant'
  <2>1. notificationContainer[id].group \in GroupRef
    BY <1>4 DEF TypeOK, StoresOK, IsStore, Notification
  <2>2. TimestampFrames(notificationContainer[id].group) \o rest \in Seq(Frame)
    BY <2>1, TimestampFramesType, ConcatProperties
  <2>3. QED
    BY <1>4, <2>2, RelayKeepsSchedule DEF TypeOK
<1>5. QED
  BY <1>2, <1>3, <1>4 DEF RemoveNotification

LEMMA UpdateNotificationSchedule ==
    ASSUME TypeOK, RelayInvariant, NEW id \in DOMAIN notificationContainer,
           NEW p, NEW t \in Times,
           p.class \in Class, p.persistent \in Flag, p.eventType \in EventTypeRef,
           NEW rest \in Seq(Frame), UpdateNotification(id, p, t, rest),
           UNCHANGED relayVars,
           EmissionPending => Holds(rest, "submitted")
    PROVE  RelayInvariant'
<1>1. waitQueue = <<>> <=> waitQueue' = <<>>
  BY UpdateWaitingType DEF UpdateNotification, TypeOK, RelayOK
<1>2. EmissionPending => EmissionPending'
  BY UpdateNotificationPending DEF EmissionPending
<1>3. QED
  BY <1>1, <1>2 DEF RelayInvariant, RelayScheduled, relayVars

LEMMA RunFrameSchedule ==
    ASSUME TypeOK, RelayInvariant, RunFrame
    PROVE  RelayInvariant'
<1>1. CASE FinishSubmit
  <2>1. CASE RelayMode = "immediate"
    BY <1>1, <2>1 DEF FinishSubmit, RelayInvariant, RelayScheduled, relayVars
  <2>2. CASE RelayMode # "immediate"
    BY <1>1, <2>2 DEF FinishSubmit, RelayInvariant, RelayScheduled
  <2>3. QED
    BY <2>1, <2>2
<1>2. CASE RunRemove
  <2>1. Tail(stack) \in Seq(Frame)
    BY <1>2, TopType DEF RunRemove
  <2>2. EmissionPending => Holds(Tail(stack), "submitted")
    BY <1>2, TopKeepsPending DEF RunRemove, EmissionPending
  <2>3. QED
    BY <1>2, <2>1, <2>2, RemoveNotificationSchedule DEF RunRemove
<1>3. CASE RunRemoveEach
  <2>1. Tail(stack) \in Seq(Frame)
    BY <1>3, TopType DEF RunRemoveEach
  <2>2. EmissionPending => Holds(Tail(stack), "submitted")
    BY <1>3, TopKeepsPending DEF RunRemoveEach, EmissionPending
  <2>3. ASSUME NEW id, RemoveNotification(id, <<RemoveEachFrame(Head(stack).ids \ {id})>> \o Tail(stack))
        PROVE  RelayInvariant'
    <3>1. RemoveEachFrame(Head(stack).ids \ {id}) \in Frame
      BY <1>3, FrameFields, FrameTypes DEF RunRemoveEach, Top, TypeOK, CallsOK
    <3>2. /\ <<RemoveEachFrame(Head(stack).ids \ {id})>> \in Seq(Frame)
          /\ <<RemoveEachFrame(Head(stack).ids \ {id})>> \o Tail(stack) \in Seq(Frame)
      BY <2>1, <3>1, PrefixType
    <3>3. QED
      BY <2>1, <2>2, <2>3, <3>2, HoldsAfter, RemoveNotificationSchedule
  <2>4. CASE stack' = Tail(stack) /\ UNCHANGED <<waitQueue, relayVars>>
    <3>1. EmissionPending => EmissionPending'
      BY <2>2, <2>4 DEF EmissionPending, Pending, Holds
    <3>2. QED
      BY <2>4, <3>1, ScheduleKept, Zenon DEF relayVars
  <2>5. QED
    BY <1>3, <2>3, <2>4 DEF RunRemoveEach
<1>4. CASE UpdateEach
  <2>1. Tail(stack) \in Seq(Frame)
    BY <1>4, TopType DEF UpdateEach
  <2>2. EmissionPending => Holds(Tail(stack), "submitted")
    BY <1>4, TopKeepsPending DEF UpdateEach, EmissionPending
  <2>3. ASSUME NEW id \in DOMAIN notificationContainer,
               UpdateNotification(id, AppendEventTypeParameters(notificationContainer[id]),
                                  notificationContainer[id].timestamp,
                                  <<UpdateEachFrame(Head(stack).ids \ {id})>> \o Tail(stack))
        PROVE  RelayInvariant'
    <3> DEFINE q == AppendEventTypeParameters(notificationContainer[id])
               t == notificationContainer[id].timestamp
               rest == <<UpdateEachFrame(Head(stack).ids \ {id})>> \o Tail(stack)
    <3>1. UpdateEachFrame(Head(stack).ids \ {id}) \in Frame
      BY <1>4, FrameFields, FrameTypes DEF UpdateEach, Top, TypeOK, CallsOK
    <3>2. /\ <<UpdateEachFrame(Head(stack).ids \ {id})>> \in Seq(Frame)
          /\ rest \in Seq(Frame)
      BY <2>1, <3>1, PrefixType
    <3>3. EmissionPending => Holds(rest, "submitted")
      BY <2>1, <2>2, <3>2, HoldsAfter
    <3>4. notificationContainer[id] \in Notification
      BY DEF TypeOK, StoresOK, IsStore
    <3>5. q.class \in Class /\ q.persistent \in Flag /\ q.eventType \in EventTypeRef
      BY <3>4, AppendNotificationType DEF Notification
    <3>6. t \in Times
      BY <3>4 DEF Notification
    <3>7. UNCHANGED relayVars
      BY <1>4 DEF UpdateEach
    <3> HIDE DEF q, t, rest
    <3>8. UpdateNotification(id, q, t, rest)
      BY <2>3 DEF q, t, rest
    <3>9. QED
      BY <3>2, <3>3, <3>5, <3>6, <3>7, <3>8, UpdateNotificationSchedule
  <2>4. CASE /\ \/ stack' = Tail(stack)
                \/ \E id : stack' = <<UpdateEachFrame(Head(stack).ids \ {id})>> \o Tail(stack)
             /\ UNCHANGED waitQueue
    <3>1. Top("updateEach") /\ UNCHANGED relayVars /\ TopReplaced
      BY <1>4, <2>4 DEF UpdateEach, TopReplaced
    <3>2. EmissionPending => EmissionPending'
      BY <2>4, <3>1, PendingBelowTop DEF EmissionPending
    <3>3. QED
      BY <2>4, <3>1, <3>2, ScheduleKept, Zenon DEF relayVars
  <2>5. QED
    BY <1>4, <2>3, <2>4 DEF UpdateEach
<1>5. ASSUME NEW op, PlainFrame(op)
      PROVE  RelayInvariant'
  <2>1. Top(op) /\ TopReplaced /\ UNCHANGED <<waitQueue, relayVars>>
    BY <1>5, PlainFrameReplacesTop
  <2>2. op # "submitted"
    BY <1>5 DEF PlainFrame
  <2>3. EmissionPending => EmissionPending'
    BY <2>1, <2>2, PendingBelowTop DEF EmissionPending
  <2>4. QED
    BY <2>1, <2>3, ScheduleKept, Zenon DEF relayVars
<1>6. QED
  BY <1>1, <1>2, <1>3, <1>4, <1>5, RunFrameCases

LEMMA RelayInvariantInit == Init => RelayInvariant
BY DEF Init, RelayInvariant, RelayScheduled

LEMMA RelayInvariantStep ==
    TypeOK /\ DownIsIdle /\ RelayInvariant /\ [Next]_vars => RelayInvariant'
<1> SUFFICES ASSUME TypeOK, DownIsIdle, RelayInvariant, [Next]_vars
             PROVE  RelayInvariant'
  OBVIOUS
<1>1. ASSUME Idle, UNCHANGED <<waitQueue, relayVars>>
      PROVE  RelayInvariant'
  <2>1. ~EmissionPending
    BY <1>1 DEF Idle, EmissionPending, Pending
  <2>2. QED
    BY <1>1, <2>1, ScheduleKept, Zenon DEF relayVars
<1>2. ASSUME NEW p \in AddParams, NEW g \in GroupRef, NEW t \in Times, AddNotification(p, g, t)
      PROVE  RelayInvariant'
  <2>1. PICK n : /\ notificationContainer' = Insert(notificationContainer, n.id, n)
                 /\ Submit(n, TimestampFrames(g))
    BY <1>2 DEF AddNotification
  <2>2. n \in Notification
    BY <1>2, <2>1, AddNotificationType DEF TypeOK, StoresOK, IsStore, Insert
  <2>3. ~EmissionPending
    BY <1>2 DEF AddNotification, Idle, EmissionPending, Pending
  <2>4. CASE notificationInProgress
    BY <2>1, <2>4 DEF Submit, RelayInvariant, RelayScheduled, relayVars
  <2>5. CASE ~notificationInProgress
    <3>1. waitQueue' = waitQueue /\ UNCHANGED relayVars
      BY <2>1, <2>5 DEF Submit
    <3>2. QED
      BY <2>3, <3>1, ScheduleKept, Zenon DEF relayVars
  <2>6. QED
    BY <2>4, <2>5
<1>3. ASSUME NEW id \in NotificationId, NEW p \in UpdateParams, NEW t \in Times,
             ClientUpdatesNotification(id, p, t)
      PROVE  RelayInvariant'
  <2>1. p.class \in Class /\ p.persistent \in Flag /\ p.eventType \in EventTypeRef
    BY ConstantsAssumption DEF ConstantsAssumption, Params
  <2>2. ~EmissionPending
    BY <1>3 DEF ClientUpdatesNotification, Idle, EmissionPending, Pending
  <2>3. <<>> \in Seq(Frame)
    OBVIOUS
  <2>4. QED
    BY <1>3, <2>1, <2>2, <2>3, UpdateNotificationSchedule DEF ClientUpdatesNotification
<1>4. CASE RelayNextNotification
  <2>1. <<>> \in Seq(Frame)
    OBVIOUS
  <2>2. QED
    BY <1>4, <2>1, RelayKeepsSchedule DEF RelayNextNotification, TypeOK
<1>5. CASE RunningStep
  BY <1>1, <1>2, <1>3, <1>4, <1>5, RunFrameSchedule DEF RunningStep, Post, Call, AddGroup,
     UpdateGroup, NotificationUserId, RegisterSink, UnregisterSink
<1>6. CASE UnseenStep \/ Start
  <2>1. ~running /\ UNCHANGED <<waitQueue, relayVars>>
    BY <1>6 DEF UnseenStep, EventTypeChangesUnseen, Reboot, Start
  <2>2. ~EmissionPending
    BY <2>1 DEF DownIsIdle, EmissionPending, Pending
  <2>3. QED
    BY <2>1, <2>2, ScheduleKept, Zenon DEF relayVars
<1>7. CASE Crash
  BY <1>7 DEF Crash, RelayInvariant, RelayScheduled
<1>8. CASE UNCHANGED vars
  <2>1. UNCHANGED <<waitQueue, relayVars, stack>>
    BY <1>8 DEF vars
  <2>2. EmissionPending => EmissionPending'
    BY <2>1 DEF EmissionPending, Pending
  <2>3. QED
    BY <2>1, <2>2, ScheduleKept, Zenon DEF relayVars
<1>9. QED
  BY <1>5, <1>6, <1>7, <1>8, NextCases

\* Nothing waits that nobody will relay, and the timer runs exactly while a
\* notification is in progress in timed mode, in every relay mode and whatever
\* the sinks do from inside an emission.
THEOREM RelayAlwaysScheduled == Spec => []RelayScheduled
<1>1. TypeOK /\ DownIsIdle /\ RelayInvariant /\ [Next]_vars => (DownIsIdle /\ RelayInvariant)'
  BY DownIsIdleStep, RelayInvariantStep
<1>2. Spec => [](DownIsIdle /\ RelayInvariant)
  BY <1>1, WaitQueueConsistentInit, RelayInvariantInit, TypeCorrect, PTL DEF Spec
<1>3. RelayInvariant => RelayScheduled
  BY DEF RelayInvariant
<1>4. QED
  BY <1>2, <1>3, PTL

-----------------------------------------------------------------------------
(* The data files.                                                         *)

\* A frame that is run leaves every other kind of frame pending.
LEMMA RunFramePending ==
    ASSUME TypeOK, RunFrame, NEW op, Pending(op), Head(stack).op # op
    PROVE  Pending(op)'
<1> DEFINE rest == Tail(stack)
<1>0. /\ stack \in Seq(Frame) /\ stack # <<>>
      /\ rest \in Seq(Frame) /\ Holds(rest, op)
  <2>1. stack \in Seq(Frame) /\ stack # <<>>
    BY DEF TypeOK, CallsOK, Pending
  <2>2. QED
    BY <2>1, HoldsTail, PendingHolds
<1> HIDE DEF rest
<1>1. CASE stack' = rest
  BY <1>0, <1>1 DEF Pending, Holds
<1>2. CASE RunRemove
  BY <1>0, <1>2, RemoveNotificationPending DEF RunRemove, rest
<1>3. CASE RunRemoveEach
  <2>1. ASSUME NEW id, RemoveNotification(id, <<RemoveEachFrame(Head(stack).ids \ {id})>> \o rest)
        PROVE  Pending(op)'
    <3>1. RemoveEachFrame(Head(stack).ids \ {id}) \in Frame
      BY <1>3, FrameFields, FrameTypes DEF RunRemoveEach, Top, TypeOK, CallsOK
    <3>2. /\ <<RemoveEachFrame(Head(stack).ids \ {id})>> \in Seq(Frame)
          /\ <<RemoveEachFrame(Head(stack).ids \ {id})>> \o rest \in Seq(Frame)
      BY <1>0, <3>1, PrefixType
    <3>3. QED
      BY <1>0, <2>1, <3>2, HoldsAfter, RemoveNotificationPending
  <2>2. QED
    BY <1>1, <1>3, <2>1 DEF RunRemoveEach, rest
<1>4. CASE UpdateEach
  <2>1. ASSUME NEW id \in DOMAIN notificationContainer,
               UpdateNotification(id, AppendEventTypeParameters(notificationContainer[id]),
                                  notificationContainer[id].timestamp,
                                  <<UpdateEachFrame(Head(stack).ids \ {id})>> \o rest)
        PROVE  Pending(op)'
    <3> DEFINE q == AppendEventTypeParameters(notificationContainer[id])
               t == notificationContainer[id].timestamp
               after == <<UpdateEachFrame(Head(stack).ids \ {id})>> \o rest
    <3>1. UpdateEachFrame(Head(stack).ids \ {id}) \in Frame
      BY <1>4, FrameFields, FrameTypes DEF UpdateEach, Top, TypeOK, CallsOK
    <3>2. /\ <<UpdateEachFrame(Head(stack).ids \ {id})>> \in Seq(Frame)
          /\ after \in Seq(Frame)
      BY <1>0, <3>1, PrefixType
    <3>3. Holds(after, op)
      BY <1>0, <3>2, HoldsAfter
    <3>4. notificationContainer[id] \in Notification
      BY DEF TypeOK, StoresOK, IsStore
    <3>5. q.class \in Class /\ q.persistent \in Flag /\ q.eventType \in EventTypeRef
      BY <3>4, AppendNotificationType DEF Notification
    <3>6. t \in Times
      BY <3>4 DEF Notification
    <3> HIDE DEF q, t, after
    <3>7. UpdateNotification(id, q, t, after)
      BY <2>1 DEF q, t, after
    <3>8. QED
      BY <3>2, <3>3, <3>5, <3>6, <3>7, UpdateNotificationPending
  <2>2. ASSUME NEW id, stack' = <<UpdateEachFrame(Head(stack).ids \ {id})>> \o rest
        PROVE  Pending(op)'
    BY <1>4, <2>2, PendingBelowTop DEF UpdateEach, TopReplaced, Top, rest
  <2>3. QED
    BY <1>1, <1>4, <2>1, <2>2 DEF UpdateEach, rest
<1>5. ASSUME NEW k, PlainFrame(k)
      PROVE  Pending(op)'
  BY <1>5, PlainFrameReplacesTop, PendingBelowTop DEF Top
<1>6. QED
  BY <1>1, <1>2, <1>3, <1>4, <1>5, RunFrameCases DEF FinishSubmit, rest

\* Between the start and the pruning, and between a group's removal from the
\* container and the end of doRemoveGroup, a file is behind the memory.
DiskInvariant ==
    running =>
        /\ Pending("prune") \/ disk.notifications = notificationContainer
        /\ Pending("groupGone") \/ disk.groups = groupContainer
        /\ disk.userId = lastUsedNotificationUserId

\* What a step changes it saves, or leaves to a frame that is pending.
StepSaves ==
    \/ /\ SaveNotifications
       /\ UNCHANGED <<groupContainer, lastUsedNotificationUserId>>
       /\ Pending("groupGone") => Pending("groupGone")'
    \/ /\ SaveStateData
       /\ UNCHANGED notificationContainer
       /\ Pending("prune") => Pending("prune")'
    \/ /\ NoSave
       /\ UNCHANGED <<notificationContainer, lastUsedNotificationUserId>>
       /\ Pending("prune") => Pending("prune")'
       /\ \/ UNCHANGED groupContainer /\ (Pending("groupGone") => Pending("groupGone")')
          \/ Pending("groupGone")'

LEMMA StepSavesKeepsDisk ==
    ASSUME DiskOK, running, DiskInvariant, StepSaves
    PROVE  DiskInvariant'
<1>1. CASE /\ SaveNotifications
           /\ UNCHANGED <<groupContainer, lastUsedNotificationUserId>>
           /\ Pending("groupGone") => Pending("groupGone")'
  <2>1. /\ disk'.notifications = notificationContainer'
        /\ disk'.groups = disk.groups
        /\ disk'.userId = disk.userId
    BY <1>1 DEF SaveNotifications, DiskOK
  <2>2. QED
    BY <1>1, <2>1 DEF DiskInvariant
<1>2. CASE /\ SaveStateData
           /\ UNCHANGED notificationContainer
           /\ Pending("prune") => Pending("prune")'
  <2>1. /\ disk'.notifications = disk.notifications
        /\ disk'.groups = groupContainer'
        /\ disk'.userId = lastUsedNotificationUserId'
    BY <1>2 DEF SaveStateData, DiskOK
  <2>2. QED
    BY <1>2, <2>1 DEF DiskInvariant
<1>3. CASE /\ NoSave
           /\ UNCHANGED <<notificationContainer, lastUsedNotificationUserId>>
           /\ Pending("prune") => Pending("prune")'
           /\ \/ UNCHANGED groupContainer /\ (Pending("groupGone") => Pending("groupGone")')
              \/ Pending("groupGone")'
  BY <1>3 DEF NoSave, DiskInvariant
<1>4. QED
  BY <1>1, <1>2, <1>3 DEF StepSaves

LEMMA RunFrameSaves ==
    ASSUME TypeOK, RunFrame
    PROVE  StepSaves
<1>1. ASSUME Head(stack).op \notin {"prune", "groupGone"}
      PROVE  /\ Pending("prune") => Pending("prune")'
             /\ Pending("groupGone") => Pending("groupGone")'
  BY <1>1, RunFramePending
<1>2. CASE DeliverUpdated \/ FinishSubmit \/ FinishUpdate \/ RemoveGroups
  <2>1. /\ NoSave
        /\ UNCHANGED <<notificationContainer, groupContainer, lastUsedNotificationUserId>>
        /\ Head(stack).op \notin {"prune", "groupGone"}
    BY <1>2 DEF DeliverUpdated, FinishSubmit, FinishUpdate, RemoveGroups, Top
  <2>2. QED
    BY <1>1, <2>1 DEF StepSaves
<1>3. CASE RunRemove \/ RunRemoveEach \/ UpdateEach
  <2>1. /\ Head(stack).op \notin {"prune", "groupGone"}
        /\ UNCHANGED <<groupContainer, lastUsedNotificationUserId>>
    BY <1>3 DEF RunRemove, RunRemoveEach, UpdateEach, Top
  <2>2. ASSUME NEW id, NEW rest, RemoveNotification(id, rest)
        PROVE  SaveNotifications \/ (NoSave /\ UNCHANGED notificationContainer)
    BY <2>2 DEF RemoveNotification
  <2>3. ASSUME NEW id, NEW p, NEW t, NEW rest, UpdateNotification(id, p, t, rest)
        PROVE  SaveNotifications
    BY <2>3 DEF UpdateNotification
  <2>4. SaveNotifications \/ (NoSave /\ UNCHANGED notificationContainer)
    BY <1>3, <2>2, <2>3 DEF RunRemove, RunRemoveEach, UpdateEach
  <2>5. QED
    BY <1>1, <2>1, <2>4 DEF StepSaves
<1>4. CASE UpdateGroupTimestamp \/ UpdateGroups
  <2>1. /\ Head(stack).op \notin {"prune", "groupGone"}
        /\ UNCHANGED <<notificationContainer, lastUsedNotificationUserId>>
        /\ SaveStateData \/ (NoSave /\ UNCHANGED groupContainer)
    BY <1>4 DEF UpdateGroupTimestamp, UpdateGroups, Top
  <2>2. QED
    BY <1>1, <2>1 DEF StepSaves
<1>5. CASE DoRemoveGroup
  <2>1. /\ Head(stack).op \notin {"prune", "groupGone"}
        /\ NoSave
        /\ UNCHANGED <<notificationContainer, lastUsedNotificationUserId>>
    BY <1>5 DEF DoRemoveGroup, Top
  <2>2. CASE UNCHANGED groupContainer
    BY <1>1, <2>1, <2>2 DEF StepSaves
  <2>3. CASE stack' = <<RemoveEachFrame(Members(Head(stack).group)),
                        GroupGoneFrame(Head(stack).group)>> \o Tail(stack)
    <3>1. Tail(stack) \in Seq(Frame)
      BY <1>5, TopType DEF DoRemoveGroup
    <3>2. 2 \in DOMAIN stack' /\ stack'[2] = GroupGoneFrame(Head(stack).group)
      BY <2>3, <3>1
    <3>3. Pending("groupGone")'
      BY <3>2 DEF Pending, GroupGoneFrame
    <3>4. QED
      BY <1>1, <2>1, <3>3 DEF StepSaves
  <2>4. QED
    BY <1>5, <2>2, <2>3 DEF DoRemoveGroup
<1>6. CASE FinishRemoveGroup
  <2>1. Head(stack).op = "groupGone"
    BY <1>6 DEF FinishRemoveGroup, Top
  <2>2. Pending("prune") => Pending("prune")'
    BY <2>1, RunFramePending
  <2>3. QED
    BY <1>6, <2>2 DEF FinishRemoveGroup, StepSaves
<1>7. CASE Prune
  <2>1. Head(stack).op = "prune"
    BY <1>7 DEF Prune, Top
  <2>2. Pending("groupGone") => Pending("groupGone")'
    BY <2>1, RunFramePending
  <2>3. QED
    BY <1>7, <2>2 DEF Prune, StepSaves
<1>8. QED
  BY <1>2, <1>3, <1>4, <1>5, <1>6, <1>7 DEF RunFrame

LEMMA RunningStepSaves ==
    ASSUME TypeOK, RunningStep
    PROVE  StepSaves
<1>1. ASSUME Idle
      PROVE  ~Pending("prune") /\ ~Pending("groupGone")
  BY <1>1 DEF Idle, Pending
<1>2. CASE RunFrame
  BY <1>2, RunFrameSaves
<1>3. ASSUME NEW p, NEW g, NEW t, AddNotification(p, g, t)
      PROVE  StepSaves
  BY <1>1, <1>3 DEF AddNotification, StepSaves
<1>4. ASSUME NEW id, NEW p, NEW t, ClientUpdatesNotification(id, p, t)
      PROVE  StepSaves
  BY <1>1, <1>4 DEF ClientUpdatesNotification, UpdateNotification, StepSaves
<1>5. ASSUME NEW et, AddGroup(et)
      PROVE  StepSaves
  BY <1>1, <1>5 DEF AddGroup, StepSaves
<1>6. ASSUME NEW g, NEW et, UpdateGroup(g, et)
      PROVE  StepSaves
  BY <1>1, <1>6 DEF UpdateGroup, StepSaves
<1>7. CASE NotificationUserId
  BY <1>1, <1>7 DEF NotificationUserId, StepSaves
<1>8. CASE /\ Idle /\ NoSave
           /\ UNCHANGED <<notificationContainer, groupContainer, lastUsedNotificationUserId>>
  BY <1>1, <1>8 DEF StepSaves
<1>9. QED
  BY <1>2, <1>3, <1>4, <1>5, <1>6, <1>7, <1>8
  DEF RunningStep, Post, Call, RelayNextNotification, RegisterSink, UnregisterSink

LEMMA DiskInvariantStep == TypeOK /\ DiskInvariant /\ [Next]_vars => DiskInvariant'
<1> SUFFICES ASSUME TypeOK, DiskInvariant, [Next]_vars
             PROVE  DiskInvariant'
  OBVIOUS
<1>1. CASE RunningStep
  BY <1>1, RunningStaysUp, RunningStepSaves, StepSavesKeepsDisk DEF TypeOK
<1>2. CASE UnseenStep
  BY <1>2 DEF UnseenStep, EventTypeChangesUnseen, Reboot, processVars, DiskInvariant
<1>3. CASE Start
  <2>1. Pending("prune")'
    BY <1>3 DEF Start, Pending, PruneFrame
  <2>2. disk' = disk
    BY <1>3 DEF Start, NoSave
  <2>3. groupContainer' = disk'.groups /\ lastUsedNotificationUserId' = disk'.userId
    BY <1>3, <2>2 DEF Start
  <2>4. QED
    BY <2>1, <2>3 DEF DiskInvariant
<1>4. CASE Crash
  BY <1>4 DEF Crash, DiskInvariant
<1>5. CASE UNCHANGED vars
  BY <1>5 DEF vars, diskVars, processVars, DiskInvariant, Pending
<1>6. QED
  BY <1>1, <1>2, <1>3, <1>4, <1>5, NextCases

LEMMA DiskInvariantHolds == Spec => []DiskInvariant
<1>1. Init => DiskInvariant
  BY DEF Init, DiskInvariant
<1>2. QED
  BY <1>1, DiskInvariantStep, TypeCorrect, PTL DEF Spec

\* Whenever the daemon is between two events, also when writes can be torn by
\* crashes, the two files hold what the manager holds in memory.
THEOREM DiskAlwaysMatchesMemory == Spec => []DiskMatchesMemory
<1>1. TypeOK /\ DiskInvariant => DiskMatchesMemory
  <2> SUFFICES ASSUME TypeOK, DiskInvariant, Idle
               PROVE  disk = [notifications |-> notificationContainer, groups |-> groupContainer,
                              userId |-> lastUsedNotificationUserId]
    BY DEF DiskMatchesMemory
  <2>1. ~Pending("prune") /\ ~Pending("groupGone")
    BY DEF Idle, Pending
  <2>2. QED
    BY <2>1 DEF Idle, DiskInvariant, TypeOK, DiskOK
<1>2. QED
  BY <1>1, DiskInvariantHolds, TypeCorrect, PTL

-----------------------------------------------------------------------------
(* User IDs.  A client that was given a user ID must be able to trust that *)
(* no other client gets it, which it can as long as writes are not torn.   *)

UserIdInvariant ==
    "state" \notin TornFiles => openFile # "state" /\ disk.userId >= issuedUserId

LEMMA UserIdStep == TypeOK /\ DiskInvariant /\ UserIdInvariant /\ [Next]_vars => UserIdInvariant'
<1> SUFFICES ASSUME TypeOK, DiskInvariant, UserIdInvariant, [Next]_vars,
                    "state" \notin TornFiles
             PROVE  openFile' # "state" /\ disk'.userId >= issuedUserId'
  BY DEF UserIdInvariant
<1>0. /\ openFile # "state" /\ disk.userId >= issuedUserId
      /\ disk.userId \in Nat /\ issuedUserId \in Nat /\ lastUsedNotificationUserId \in Nat
  BY ConstantsAssumption DEF UserIdInvariant, TypeOK, DiskOK, ProcessOK, ConstantsAssumption
<1>1. CASE RunningStep /\ ~NotificationUserId
  <2>1. running /\ StepSaves
    BY <1>1, RunningStaysUp, RunningStepSaves
  <2>2. /\ issuedUserId' = issuedUserId
        /\ lastUsedNotificationUserId' = lastUsedNotificationUserId
    BY <1>1 DEF RunningStep, processVars, RunFrame, DeliverUpdated, FinishSubmit, FinishUpdate,
       RunRemove, RunRemoveEach, UpdateEach, UpdateGroupTimestamp, DoRemoveGroup,
       FinishRemoveGroup, RemoveGroups, UpdateGroups, Prune, AddNotification,
       ClientUpdatesNotification, Post, Call, RelayNextNotification, AddGroup, UpdateGroup,
       RegisterSink, UnregisterSink
  <2>3. disk.userId = lastUsedNotificationUserId
    BY <2>1 DEF DiskInvariant
  <2>4. openFile' # "state"
    BY <1>0, <2>1 DEF StepSaves, SaveNotifications, SaveStateData, NoSave, Writing
  <2>5. disk'.userId = disk.userId
    BY <2>1, <2>2, <2>3 DEF StepSaves, SaveNotifications, SaveStateData, NoSave, TypeOK, DiskOK
  <2>6. QED
    BY <1>0, <2>2, <2>4, <2>5
<1>2. CASE NotificationUserId
  <2>1. disk'.userId = lastUsedNotificationUserId' /\ openFile' # "state"
    BY <1>2 DEF NotificationUserId, SaveStateData, Writing, TypeOK, DiskOK
  <2>2. lastUsedNotificationUserId' = lastUsedNotificationUserId + 1
    BY <1>2 DEF NotificationUserId
  <2>3. issuedUserId' = IF lastUsedNotificationUserId' > issuedUserId
                        THEN lastUsedNotificationUserId' ELSE issuedUserId
    BY <1>2 DEF NotificationUserId
  <2>4. lastUsedNotificationUserId >= issuedUserId
    BY <1>0, <1>2 DEF NotificationUserId, Idle, DiskInvariant
  <2>5. QED
    BY <1>0, <2>1, <2>2, <2>3, <2>4
<1>3. CASE UnseenStep \/ Start
  BY <1>0, <1>3 DEF UnseenStep, EventTypeChangesUnseen, Reboot, Start, NoSave, processVars
<1>4. CASE Crash
  <2>1. disk'.userId = disk.userId
    BY <1>0, <1>4 DEF Crash, SpoiledDisks, TypeOK, DiskOK
  <2>2. QED
    BY <1>0, <1>4, <2>1 DEF Crash
<1>5. CASE UNCHANGED vars
  BY <1>0, <1>5 DEF vars, diskVars, processVars
<1>6. QED
  BY <1>1, <1>2, <1>3, <1>4, <1>5, NextCases

\* As long as the state file is written whole, no user ID is given to a client
\* twice, whenever the daemon dies and however often it is started again.
THEOREM UserIdsUnique == "state" \notin TornFiles /\ Spec => []UserIdsNeverReissued
<1>1. Init => UserIdInvariant
  BY ConstantsAssumption DEF Init, UserIdInvariant
<1>2. Spec => []UserIdInvariant
  BY <1>1, UserIdStep, TypeCorrect, DiskInvariantHolds, PTL DEF Spec
<1>3. "state" \notin TornFiles /\ TypeOK /\ DiskInvariant /\ UserIdInvariant => UserIdsNeverReissued
  BY DEF UserIdInvariant, DiskInvariant, UserIdsNeverReissued
<1>4. CASE "state" \in TornFiles
  BY <1>4
<1>5. CASE "state" \notin TornFiles
  <2>1. TypeOK /\ DiskInvariant /\ UserIdInvariant => UserIdsNeverReissued
    BY <1>3, <1>5
  <2>2. QED
    BY <1>2, <2>1, TypeCorrect, DiskInvariantHolds, PTL
<1>6. QED
  BY <1>4, <1>5

-----------------------------------------------------------------------------
(* What changes the wait queue, and which step of NotificationQueue it is. *)

LEMMA InsertPositionProperties ==
    ASSUME waitQueue \in Seq(Notification), NEW n
    PROVE  IF n.class = "system"
           THEN /\ \A i \in DOMAIN waitQueue :
                        i < InsertPosition(n) => waitQueue[i].class = "system"
                /\ InsertPosition(n) \in DOMAIN waitQueue =>
                        waitQueue[InsertPosition(n)].class # "system"
           ELSE InsertPosition(n) = Len(waitQueue) + 1
<1> DEFINE others == {i \in DOMAIN waitQueue : waitQueue[i].class # "system"}
<1>1. others \subseteq Nat /\ DOMAIN waitQueue = 1 .. Len(waitQueue) /\ Len(waitQueue) \in Nat
  OBVIOUS
<1>2. CASE n.class # "system"
  BY <1>2 DEF InsertPosition
<1>3. CASE n.class = "system" /\ others = {}
  <2>1. InsertPosition(n) = Len(waitQueue) + 1
    BY <1>3 DEF InsertPosition
  <2>2. \A i \in DOMAIN waitQueue : waitQueue[i].class = "system"
    BY <1>3
  <2> HIDE DEF others
  <2>3. QED
    BY <1>1, <1>3, <2>1, <2>2
<1>4. CASE n.class = "system" /\ others # {}
  <2>1. InsertPosition(n) = Smallest(others)
    BY <1>4, Zenon DEF InsertPosition
  <2>2. Smallest(others) \in others /\ \A k \in others : Smallest(others) <= k
    BY <1>1, <1>4, SmallestProperties, Zenon
  <2>3. \A i \in DOMAIN waitQueue : i < InsertPosition(n) => i \notin others
    <3>1. SUFFICES ASSUME NEW i \in DOMAIN waitQueue, i < InsertPosition(n), i \in others
                   PROVE  FALSE
      OBVIOUS
    <3> HIDE DEF others
    <3>2. InsertPosition(n) \in Nat /\ i \in Nat /\ InsertPosition(n) <= i
      BY <1>1, <2>1, <2>2, <3>1
    <3>3. QED
      BY <3>1, <3>2
  <2>4. \A i \in DOMAIN waitQueue : i < InsertPosition(n) => waitQueue[i].class = "system"
    BY <2>3
  <2>5. waitQueue[InsertPosition(n)].class # "system"
    BY <2>1, <2>2, Zenon
  <2>6. QED
    BY <1>4, <2>4, <2>5, Zenon
<1>5. QED
  BY <1>2, <1>3, <1>4

LEMMA EnqueueArrives ==
    ASSUME waitQueue \in Seq(Notification), NEW n \in Notification, waitQueue' = Enqueue(n)
    PROVE  [Queue!Next]_waitQueue
<1> DEFINE p == InsertPosition(n)
           L == Len(waitQueue)
<1>1. CASE Len(waitQueue) < MaxWaitQueueSize
  <2>1. p \in 1 .. L + 1 /\ L \in Nat /\ DOMAIN waitQueue = 1 .. L
    BY InsertPositionType
  <2>2. waitQueue' = InsertAt(waitQueue, p, n)
    BY <1>1 DEF Enqueue
  <2>3. /\ Len(waitQueue') = L + 1
        /\ \A k \in 1 .. L + 1 : waitQueue'[k] =
                IF k < p THEN waitQueue[k] ELSE IF k = p THEN n ELSE waitQueue[k - 1]
    BY <2>1, <2>2, InsertAtProperties
  <2>4. IF n.class = "system"
        THEN /\ \A i \in DOMAIN waitQueue : i < p => waitQueue[i].class = "system"
             /\ p \in DOMAIN waitQueue => waitQueue[p].class # "system"
        ELSE p = L + 1
    BY InsertPositionProperties
  <2> HIDE DEF p, L
  <2>5. waitQueue'[p] = n
    BY <2>1, <2>3
  <2>6. \A i \in DOMAIN waitQueue : waitQueue'[Queue!Beside(p, i)] = waitQueue[i]
    BY <2>1, <2>3 DEF Queue!Beside
  <2>7. Queue!Arrive(p)
    BY <1>1, <2>3, <2>4, <2>5, <2>6 DEF Queue!Arrive, Queue!System, L
  <2>8. QED
    BY <2>1, <2>7 DEF Queue!Next, L
<1>2. CASE ~(Len(waitQueue) < MaxWaitQueueSize)
  BY <1>2 DEF Enqueue
<1>3. QED
  BY <1>1, <1>2

LEMMA RemovalLeaves ==
    ASSUME waitQueue \in Seq(Notification), NEW p \in 1 .. Len(waitQueue),
           waitQueue' = RemoveAt(waitQueue, p)
    PROVE  Queue!Next
<1> DEFINE L == Len(waitQueue)
<1>1. /\ waitQueue' \in Seq(Notification)
      /\ Len(waitQueue') = L - 1
      /\ \A k \in 1 .. L - 1 : waitQueue'[k] = IF k < p THEN waitQueue[k] ELSE waitQueue[k + 1]
  BY RemoveAtProperties
<1>2. L \in Nat /\ DOMAIN waitQueue' = 1 .. L - 1
  BY <1>1
<1>3. Len(waitQueue) = Len(waitQueue') + 1
  BY <1>1, <1>2
<1>4. \A i \in DOMAIN waitQueue' : waitQueue'[i] = waitQueue[Queue!Beside(p, i)]
  BY <1>1, <1>2 DEF Queue!Beside
<1>5. QED
  BY <1>3, <1>4 DEF Queue!Next, Queue!Leave

LEMMA RelayLeaves ==
    ASSUME waitQueue \in Seq(Notification), NEW rest, Relay(rest)
    PROVE  [Queue!Next]_waitQueue
<1>1. CASE waitQueue = <<>>
  BY <1>1 DEF Relay
<1>2. CASE waitQueue # <<>>
  <2>1. waitQueue' = Tail(waitQueue)
    BY <1>2 DEF Relay
  <2>2. /\ Len(waitQueue) \in Nat /\ 1 \in 1 .. Len(waitQueue)
        /\ Len(waitQueue') = Len(waitQueue) - 1 /\ DOMAIN waitQueue' = 1 .. Len(waitQueue) - 1
        /\ \A k \in 1 .. Len(waitQueue) - 1 : waitQueue'[k] = waitQueue[k + 1]
    BY <1>2, <2>1
  <2>3. Len(waitQueue) = Len(waitQueue') + 1
    BY <2>2
  <2>4. \A i \in DOMAIN waitQueue' : waitQueue'[i] = waitQueue[Queue!Beside(1, i)]
    BY <2>2 DEF Queue!Beside
  <2>5. QED
    BY <2>2, <2>3, <2>4 DEF Queue!Next, Queue!Leave
<1>3. QED
  BY <1>1, <1>2

LEMMA RemoveNotificationLeaves ==
    ASSUME waitQueue \in Seq(Notification), NEW id, NEW rest, RemoveNotification(id, rest)
    PROVE  [Queue!Next]_waitQueue
<1>1. CASE waitQueue' = waitQueue
  BY <1>1
<1>2. CASE WaitQueueIndices(id) # {} /\ waitQueue' = TakeFromWaitQueue(id)
  BY <1>2, TakeFromWaitQueueProperties, RemovalLeaves
<1>3. ASSUME NEW after, Relay(after)
      PROVE  [Queue!Next]_waitQueue
  BY <1>3, RelayLeaves
<1>4. QED
  BY <1>1, <1>2, <1>3 DEF RemoveNotification

LEMMA UpdateNotificationChanges ==
    ASSUME TypeOK, NEW id, NEW p, NEW t \in Times,
           p.class \in Class, p.persistent \in Flag, p.eventType \in EventTypeRef,
           NEW rest, UpdateNotification(id, p, t, rest)
    PROVE  Queue!Next
<1>1. waitQueue \in Seq(Notification)
  BY DEF TypeOK, RelayOK
<1>2. waitQueue' = UpdateWaiting(id, p, t)
  BY DEF UpdateNotification
<1>3. Len(waitQueue') = Len(waitQueue)
  BY <1>1, <1>2, UpdateWaitingType
<1>4. ASSUME NEW i \in DOMAIN waitQueue
      PROVE  waitQueue'[i].id = waitQueue[i].id
  <2>1. waitQueue'[i] = IF waitQueue[i].id = id
                        THEN Updated(waitQueue[i], p, t) ELSE waitQueue[i]
    BY <1>2 DEF UpdateWaiting, WaitQueueIndices
  <2>2. Updated(waitQueue[i], p, t).id = waitQueue[i].id
    BY <1>1, UpdatedType
  <2>3. QED
    BY <2>1, <2>2
<1>5. QED
  BY <1>3, <1>4 DEF Queue!Next, Queue!Change

-----------------------------------------------------------------------------
(* Each step of the notification manager is one of the queue, or none.     *)

LEMMA QueueStep == TypeOK /\ [Next]_vars => [Queue!Next]_waitQueue
<1> SUFFICES ASSUME TypeOK, [Next]_vars
             PROVE  [Queue!Next]_waitQueue
  OBVIOUS
<1>0. waitQueue \in Seq(Notification)
  BY DEF TypeOK, RelayOK
<1>1. CASE UNCHANGED waitQueue
  BY <1>1
<1>2. CASE RunRemove
  BY <1>0, <1>2, RemoveNotificationLeaves DEF RunRemove
<1>3. CASE RunRemoveEach
  BY <1>0, <1>1, <1>3, RemoveNotificationLeaves DEF RunRemoveEach
<1>4. CASE UpdateEach
  <2>1. ASSUME NEW id \in DOMAIN notificationContainer, NEW rest,
               UpdateNotification(id, AppendEventTypeParameters(notificationContainer[id]),
                                  notificationContainer[id].timestamp, rest)
        PROVE  Queue!Next
    <3> DEFINE q == AppendEventTypeParameters(notificationContainer[id])
               t == notificationContainer[id].timestamp
    <3>1. notificationContainer[id] \in Notification
      BY DEF TypeOK, StoresOK, IsStore
    <3>2. q.class \in Class /\ q.persistent \in Flag /\ q.eventType \in EventTypeRef
      BY <3>1, AppendNotificationType DEF Notification
    <3>3. t \in Times
      BY <3>1 DEF Notification
    <3> HIDE DEF q, t
    <3>4. UpdateNotification(id, q, t, rest)
      BY <2>1 DEF q, t
    <3>5. QED
      BY <3>2, <3>3, <3>4, UpdateNotificationChanges
  <2>2. QED
    BY <1>1, <1>4, <2>1 DEF UpdateEach
<1>5. ASSUME NEW p \in AddParams, NEW g \in GroupRef, NEW t \in Times, AddNotification(p, g, t)
      PROVE  [Queue!Next]_waitQueue
  <2>1. PICK n : /\ notificationContainer' = Insert(notificationContainer, n.id, n)
                 /\ Submit(n, TimestampFrames(g))
    BY <1>5, Zenon DEF AddNotification
  <2>2. TypeOK'
    BY <1>5, AddNotificationType
  <2>3. n \in Notification
    BY <2>1, <2>2 DEF TypeOK, StoresOK, IsStore, Insert
  <2>4. QED
    BY <1>0, <1>1, <2>1, <2>3, EnqueueArrives DEF Submit
<1>6. ASSUME NEW id \in NotificationId, NEW p \in UpdateParams, NEW t \in Times,
             ClientUpdatesNotification(id, p, t)
      PROVE  [Queue!Next]_waitQueue
  <2>1. p.class \in Class /\ p.persistent \in Flag /\ p.eventType \in EventTypeRef
    BY ConstantsAssumption DEF ConstantsAssumption, Params
  <2>2. QED
    BY <1>6, <2>1, UpdateNotificationChanges DEF ClientUpdatesNotification
<1>7. CASE RelayNextNotification
  BY <1>0, <1>7, RelayLeaves DEF RelayNextNotification
<1>8. CASE Crash
  BY <1>8 DEF Crash, Queue!Next, Queue!Lose
<1>9. CASE UnseenStep \/ Start \/ UNCHANGED vars
  BY <1>1, <1>9 DEF UnseenStep, EventTypeChangesUnseen, Reboot, Start, vars
<1>10. CASE RunningStep
  <2>1. CASE RunFrame
    BY <1>1, <1>2, <1>3, <1>4, <2>1 DEF RunFrame, DeliverUpdated, FinishSubmit, FinishUpdate,
       UpdateGroupTimestamp, DoRemoveGroup, FinishRemoveGroup, RemoveGroups, UpdateGroups, Prune
  <2>2. QED
    BY <1>1, <1>5, <1>6, <1>7, <1>10, <2>1 DEF RunningStep, Post, Call, AddGroup, UpdateGroup,
       NotificationUserId, RegisterSink, UnregisterSink
<1>11. QED
  BY <1>8, <1>9, <1>10, NextCases

\* Refinement: the wait queue, with all that is under way around it, behaves as
\* NotificationQueue says: who waits keeps his place until he leaves, and nobody is
\* overtaken by one of his own class.
THEOREM QueueAlwaysImplemented == Spec => QueueImplemented
<1>1. Init => Queue!Init
  BY DEF Init, Queue!Init
<1>2. TypeOK /\ [Next]_vars => [Queue!Next]_waitQueue
  BY QueueStep
<1>3. QED
  BY <1>1, <1>2, TypeCorrect, PTL DEF Spec, QueueImplemented, Queue!Spec

=============================================================================
