-------------------- MODULE NotificationListenersProofs --------------------
(***************************************************************************)
(* Proofs about those who listen to the notification manager, for any      *)
(* number of notifications: the feedback ends with what it is about, the   *)
(* lock screen shows the events that were missed, the status area the icon *)
(* of the most important notification, and the notification area what      *)
(* there is, in banners that exist, each once.                             *)
(***************************************************************************)
EXTENDS NotificationListeners, QtListsProofs, FiniteSetTheorems, SequenceTheorems,
        WellFoundedInduction, TLAPS

-----------------------------------------------------------------------------
(* Identifiers.                                                            *)

\* A nonempty set of natural numbers has a least element.
LEMMA LeastExists ==
    ASSUME NEW T, T \subseteq Nat, T # {}
    PROVE  \E m \in T : \A k \in T : m <= k
<1>1. PICK m \in T : \A k \in T : <<k, m>> \notin OpToRel(<, Nat)
  BY WFMin, NatLessThanWellFounded, Zenon
<1>2. \A k \in T : ~(k < m)
  BY <1>1, Zenon DEF OpToRel
<1>3. QED
  BY <1>2

\* The identifier that is handed out is free.
LEMMA LowestIsFree ==
    ASSUME NEW ids, ids \subseteq Nat, NEW used, ids \ used # {}
    PROVE  LowestFree(ids, used) \in ids \ used
<1>1. \E id \in ids \ used : \A other \in ids \ used : id <= other
  BY LeastExists
<1>2. QED
  BY <1>1 DEF LowestFree

LEMMA Identifiers ==
    /\ NotificationIds \subseteq Nat \ {0} /\ IsFiniteSet(NotificationIds)
    /\ Cardinality(NotificationIds) \in Nat
    /\ GroupIds \subseteq Nat \ {0}
    /\ 1 \in NotificationIds /\ 1 \in GroupIds
    /\ EventIds \subseteq Nat \ {0} /\ IsFiniteSet(EventIds)
    /\ Cardinality(EventIds) = Cardinality(NotificationIds) + 2
<1>1. /\ Cardinality(NotificationIds) \in Nat
      /\ Cardinality(GroupIds) \in Nat
  BY SignalsAssumption, FS_CardinalityType
<1>2. IsFiniteSet(EventIds) /\ Cardinality(EventIds) = Cardinality(NotificationIds) + 2
  <2>1. 1 \in Int /\ Cardinality(NotificationIds) + 2 \in Int /\ ~(1 > Cardinality(NotificationIds) + 2)
    BY <1>1
  <2>2. /\ IsFiniteSet(1..(Cardinality(NotificationIds) + 2))
        /\ Cardinality(1..(Cardinality(NotificationIds) + 2)) = (Cardinality(NotificationIds) + 2) - 1 + 1
    BY <2>1, FS_Interval
  <2>3. QED
    BY <1>1, <2>2 DEF EventIds
<1>3. QED
  BY <1>1, <1>2, SignalsAssumption DEF EventIds

\* What is signalled of the removal of one notification.
LEMMA OneRemovalSignals ==
    ASSUME NEW id \in Int
    PROVE  Range(RemovalSignals({id})) =
               IF managed[id].relayed = "waits" THEN {} ELSE {NotificationRemoved(id)}
<1> DEFINE heard == {k \in {id} : managed[k].relayed # "waits"}
           nth(i) == CHOOSE x \in heard : Cardinality({y \in heard : y < x}) = i - 1
           n == Cardinality(heard)
<1>1. RemovalSignals({id}) = [i \in 1..n |-> NotificationRemoved(nth(i))]
  BY DEF RemovalSignals, Nth
<1>2. Range(RemovalSignals({id})) = {NotificationRemoved(nth(i)) : i \in 1..n}
  BY <1>1 DEF Range
<1>3. CASE managed[id].relayed = "waits"
  <2>1. heard = {}
    BY <1>3
  <2>2. n = 0
    BY <2>1, FS_EmptySet
  <2>3. 1..n = {}
    BY <2>2
  <2>4. QED
    BY <1>2, <1>3, <2>3
<1>4. CASE managed[id].relayed # "waits"
  <2>1. heard = {id}
    BY <1>4
  <2>2. n = 1
    BY <2>1, FS_Singleton
  <2>3. {k \in {id} : k < id} = {}
    OBVIOUS
  <2>4. nth(1) = id
    BY <2>1, <2>3, FS_EmptySet
  <2>5. 1..n = {1}
    BY <2>2
  <2>6. QED
    BY <1>2, <1>4, <2>4, <2>5
<1>5. QED
  BY <1>3, <1>4

-----------------------------------------------------------------------------
(* The manager.                                                            *)

Marks == {"yes", "waits", "dropped"}
Notes == [group : GroupIds \cup {NoGroup}, content : Contents, relayed : Marks]

ManagedType ==
    /\ DOMAIN managed \subseteq NotificationIds
    /\ \A id \in DOMAIN managed : managed[id] \in Notes

LEMMA SignalsStart == SignalsInit => ManagedType
<1>1. CASE managed = <<>>
  BY <1>1 DEF ManagedType
<1>2. ASSUME NEW content \in Contents, NEW group \in {NoGroup, 1},
             managed = With(<<>>, 1, [group |-> group, content |-> content, relayed |-> "yes"])
      PROVE  ManagedType
  BY <1>2, Identifiers DEF ManagedType, With, Notes, Marks
<1>3. QED
  BY <1>1, <1>2 DEF SignalsInit

-----------------------------------------------------------------------------
(* The feedback: ngfnotificationsink.cpp.                                  *)

\* What plays, p, is what is known to play, each event for one notification.
Sounding(f, p) ==
    /\ DOMAIN f \subseteq NotificationIds
    /\ f \in [DOMAIN f -> EventIds]
    /\ IsInjective(f)
    /\ p = Range(f)

LEMMA Forgotten ==
    ASSUME NEW f, NEW p, Sounding(f, p), NEW gone, gone \subseteq DOMAIN f
    PROVE  /\ Sounding(Without(f, gone), p \ {f[id] : id \in gone})
           /\ DOMAIN Without(f, gone) = DOMAIN f \ gone
<1>1. PICK g : g = Without(f, gone)
  OBVIOUS
<1>2. /\ DOMAIN g = DOMAIN f \ gone /\ g \in [DOMAIN g -> EventIds]
      /\ \A id \in DOMAIN g : g[id] = f[id]
  BY <1>1 DEF Sounding, Without, Restrict
<1>3. IsInjective(g)
  BY <1>2 DEF Sounding, IsInjective
<1>4. p \ {f[id] : id \in gone} = Range(g)
  BY <1>2 DEF Sounding, IsInjective, Range
<1>5. QED
  BY <1>1, <1>2, <1>3, <1>4 DEF Sounding

LEMMA Remembered ==
    ASSUME NEW f, NEW p, Sounding(f, p), NEW id \in NotificationIds \ DOMAIN f, NEW e \in EventIds \ p
    PROVE  /\ Sounding(With(f, id, e), p \cup {e})
           /\ DOMAIN With(f, id, e) = DOMAIN f \cup {id}
<1>1. PICK g : g = With(f, id, e)
  OBVIOUS
<1>2. /\ DOMAIN g = DOMAIN f \cup {id} /\ g \in [DOMAIN g -> EventIds]
      /\ g[id] = e /\ \A k \in DOMAIN f : g[k] = f[k]
  BY <1>1 DEF Sounding, With
<1>3. \A k \in DOMAIN f : f[k] # e
  BY DEF Sounding, Range
<1>4. IsInjective(g)
  BY <1>2, <1>3 DEF Sounding, IsInjective
<1>5. p \cup {e} = Range(g)
  BY <1>2 DEF Sounding, Range
<1>6. QED
  BY <1>1, <1>2, <1>4, <1>5 DEF Sounding

\* NGF has a number left for another event.
LEMMA EventIdLeft ==
    ASSUME NEW f, NEW p, Sounding(f, p)
    PROVE  LowestFree(EventIds, p) \in EventIds \ p
<1>1. f \in Surjection(DOMAIN f, p)
  BY DEF Sounding, Surjection, Range
<1>2. IsFiniteSet(DOMAIN f) /\ Cardinality(DOMAIN f) <= Cardinality(NotificationIds)
  BY Identifiers, FS_Subset DEF Sounding
<1>3. IsFiniteSet(p) /\ Cardinality(p) <= Cardinality(DOMAIN f)
  BY <1>1, <1>2, FS_Surjection
<1>4. /\ Cardinality(DOMAIN f) \in Nat /\ Cardinality(p) \in Nat
  BY <1>2, <1>3, FS_CardinalityType
<1>5. Cardinality(p) < Cardinality(EventIds)
  BY <1>2, <1>3, <1>4, Identifiers
<1>6. EventIds \ p # {}
  <2>1. EventIds \in SUBSET p => Cardinality(EventIds) <= Cardinality(p)
    BY <1>3, FS_Subset
  <2>2. QED
    BY <1>4, <1>5, <2>1, Identifiers
<1>7. QED
  BY <1>6, Identifiers, LowestIsFree

FeedbackType ==
    feedback \in [appEventsEnabled : BOOLEAN,
                  idToEventId : UNION {[D -> EventIds] : D \in SUBSET NotificationIds}]

LEMMA FeedbackHeard ==
    ASSUME FeedbackType, Sounding(feedback.idToEventId, playing), NEW signals, FeedbackListens(signals),
           \A s \in Range(signals) : s.signal = "notificationUpdated" => s.id \in NotificationIds
    PROVE  /\ FeedbackType'
           /\ Sounding(feedback.idToEventId, playing)'
           /\ DOMAIN feedback'.idToEventId \subseteq
                  (DOMAIN feedback.idToEventId \ StoppedIds(signals))
                      \cup {s.id : s \in {t \in Range(signals) : Plays(t)}}
<1> DEFINE f == feedback.idToEventId
           heard == {s \in Range(signals) : Plays(s)}
           gone == StoppedIds(signals)
           kept == Without(f, gone)
           left == playing \ {f[id] : id \in gone}
<1>1. gone \subseteq DOMAIN f
  BY DEF StoppedIds, Stops
<1>2. Sounding(kept, left) /\ DOMAIN kept = DOMAIN f \ gone
  BY <1>1, Forgotten
<1>3. PICK played \in {0, LowestFree(EventIds, playing)} :
          IF heard = {} \/ played = 0
          THEN feedback' = [feedback EXCEPT !.idToEventId = kept] /\ playing' = left
          ELSE \E s \in heard :
               /\ feedback' = [feedback EXCEPT !.idToEventId = With(kept, s.id, played)]
               /\ playing' = left \cup {played}
  BY DEF FeedbackListens
<1>4. ASSUME NEW g, NEW p, Sounding(g, p), feedback' = [feedback EXCEPT !.idToEventId = g], playing' = p
      PROVE  FeedbackType' /\ feedback'.idToEventId = g /\ Sounding(feedback.idToEventId, playing)'
  BY <1>4 DEF FeedbackType, Sounding
<1>5. CASE heard = {} \/ played = 0
  BY <1>2, <1>3, <1>4, <1>5
<1>6. CASE ~(heard = {} \/ played = 0)
  <2>1. PICK s \in heard : /\ feedback' = [feedback EXCEPT !.idToEventId = With(kept, s.id, played)]
                           /\ playing' = left \cup {played}
    BY <1>3, <1>6
  <2>2. s.id \in NotificationIds \ DOMAIN f /\ s.id \in {t.id : t \in heard}
    BY <2>1 DEF Plays
  <2>3. played \in EventIds \ playing
    <3>1. LowestFree(EventIds, playing) \in EventIds \ playing
      BY EventIdLeft
    <3>2. QED
      BY <1>3, <1>6, <3>1
  <2>4. /\ Sounding(With(kept, s.id, played), left \cup {played})
        /\ DOMAIN With(kept, s.id, played) = (DOMAIN f \ gone) \cup {s.id}
    <3>1. played \in EventIds \ left
      BY <2>3
    <3> HIDE DEF kept, left, gone, heard
    <3>2. s.id \in NotificationIds \ DOMAIN kept
      BY <1>2, <2>2
    <3>3. QED
      BY <1>2, <3>1, <3>2, Remembered
  <2>5. QED
    BY <1>4, <2>1, <2>2, <2>4
<1>7. QED
  BY <1>5, <1>6

FeedbackInv ==
    /\ ManagedType
    /\ FeedbackType
    /\ Sounding(feedback.idToEventId, playing)
    /\ \A id \in DOMAIN feedback.idToEventId : id \in DOMAIN managed /\ managed[id].relayed = "yes"

LEMMA FeedbackStarts == SignalsInit /\ FeedbackInit => FeedbackInv
<1> SUFFICES ASSUME SignalsInit, FeedbackInit
             PROVE  FeedbackInv
  OBVIOUS
<1>1. ManagedType
  BY SignalsStart
<1>2. /\ feedback = [appEventsEnabled |-> TRUE, idToEventId |-> <<>>]
      /\ playing = {}
  BY DEF FeedbackInit
<1>3. <<>> \in [{} -> EventIds] /\ {} \in SUBSET NotificationIds /\ DOMAIN <<>> = {}
  OBVIOUS
<1>4. QED
  BY <1>1, <1>2, <1>3 DEF FeedbackInv, FeedbackType, Sounding, IsInjective, Range

\* What the listener does with the signals of one operation of the manager.
LEMMA FeedbackKept ==
    ASSUME FeedbackInv, NEW signals, FeedbackListens(signals), ManagedType',
           \A s \in Range(signals) : s.signal = "notificationUpdated" =>
               s.id \in DOMAIN managed' /\ managed'[s.id].relayed = "yes",
           \A id \in DOMAIN managed :
               managed[id].relayed = "yes" /\ id \notin StoppedIds(signals) /\ id \in DOMAIN feedback.idToEventId =>
                   id \in DOMAIN managed' /\ managed'[id].relayed = "yes"
    PROVE  FeedbackInv'
<1>1. \A s \in Range(signals) : s.signal = "notificationUpdated" => s.id \in NotificationIds
  BY DEF ManagedType
<1>2. /\ FeedbackType'
      /\ Sounding(feedback.idToEventId, playing)'
      /\ DOMAIN feedback'.idToEventId \subseteq
             (DOMAIN feedback.idToEventId \ StoppedIds(signals))
                 \cup {s.id : s \in {t \in Range(signals) : Plays(t)}}
  BY <1>1, FeedbackHeard DEF FeedbackInv
<1>3. ASSUME NEW id \in DOMAIN feedback'.idToEventId
      PROVE  id \in DOMAIN managed' /\ managed'[id].relayed = "yes"
  BY <1>2, <1>3 DEF FeedbackInv, Plays
<1>4. QED
  BY <1>2, <1>3 DEF FeedbackInv

LEMMA FeedbackKeptByNotifications ==
    ASSUME FeedbackInv, NotificationStep(FeedbackListens)
    PROVE  FeedbackInv'
<1>1. ASSUME NEW group \in GroupIds \cup {NoGroup}, NEW content \in Contents,
             ManagerAdds(group, content, FeedbackListens)
      PROVE  FeedbackInv'
  <2> DEFINE id == LowestFree(NotificationIds, DOMAIN managed)
  <2>1. PICK relayed \in Marks :
            LET n == [group |-> group, content |-> content, relayed |-> relayed]
            IN  /\ managed' = With(managed, id, n)
                /\ FeedbackListens(IF relayed = "yes" THEN <<NotificationUpdated(id, n)>> ELSE <<>>)
    BY <1>1 DEF ManagerAdds, Marks
  <2> DEFINE n == [group |-> group, content |-> content, relayed |-> relayed]
             signals == IF relayed = "yes" THEN <<NotificationUpdated(id, n)>> ELSE <<>>
  <2>2. id \in NotificationIds \ DOMAIN managed
    BY <1>1, Identifiers, LowestIsFree DEF FeedbackInv, ManagedType, ManagerAdds
  <2>3. n \in Notes
    BY DEF Notes
  <2>4. Range(signals) = IF relayed = "yes" THEN {NotificationUpdated(id, n)} ELSE {}
    BY DEF Range
  <2>5. /\ DOMAIN managed' = DOMAIN managed \cup {id} /\ managed'[id] = n
        /\ \A k \in DOMAIN managed : managed'[k] = managed[k]
    BY <2>1, <2>2 DEF With
  <2>6. ManagedType'
    BY <2>2, <2>3, <2>5 DEF FeedbackInv, ManagedType
  <2>7. \A s \in Range(signals) : s.id = id /\ n.relayed = "yes"
    BY <2>4 DEF NotificationUpdated
  <2>8. FeedbackListens(signals)
    BY <2>1
  <2> HIDE DEF signals, id, n
  <2>9. QED
    BY <2>5, <2>6, <2>7, <2>8, FeedbackKept
<1>2. ASSUME NEW id \in DOMAIN managed, ManagerRelays(id, FeedbackListens)
      PROVE  FeedbackInv'
  <2> DEFINE signals == <<NotificationUpdated(id, managed[id])>>
  <2>1. /\ managed' = [managed EXCEPT ![id].relayed = "yes"]
        /\ FeedbackListens(signals)
    BY <1>2 DEF ManagerRelays
  <2>2. managed[id] \in Notes
    BY DEF FeedbackInv, ManagedType
  <2>3. /\ DOMAIN managed' = DOMAIN managed /\ managed'[id] \in Notes /\ managed'[id].relayed = "yes"
        /\ \A k \in DOMAIN managed \ {id} : managed'[k] = managed[k]
    BY <2>1, <2>2 DEF Notes, Marks
  <2>4. ManagedType'
    BY <2>3 DEF FeedbackInv, ManagedType
  <2>5. \A s \in Range(signals) : s.id = id
    BY DEF Range, NotificationUpdated
  <2> HIDE DEF signals
  <2>6. QED
    BY <2>1, <2>3, <2>4, <2>5, FeedbackKept
<1>3. ASSUME NEW id \in DOMAIN managed, NEW content \in Contents,
             ManagerUpdates(id, content, FeedbackListens)
      PROVE  FeedbackInv'
  <2> DEFINE n == [managed[id] EXCEPT !.content = content,
                                      !.relayed = IF @ = "waits" THEN "waits" ELSE "yes"]
             signals == IF n.relayed = "waits" THEN <<>> ELSE <<NotificationUpdated(id, n)>>
  <2>1. managed' = [managed EXCEPT ![id] = n] /\ FeedbackListens(signals)
    BY <1>3 DEF ManagerUpdates
  <2>2. managed[id] \in Notes
    BY DEF FeedbackInv, ManagedType
  <2>3. /\ n \in Notes /\ n.relayed \in {"waits", "yes"}
        /\ managed[id].relayed = "yes" => n.relayed = "yes"
    BY <2>2 DEF Notes, Marks
  <2>4. \A s \in Range(signals) : s.id = id /\ n.relayed # "waits"
    BY DEF Range, NotificationUpdated
  <2> HIDE DEF signals, n
  <2>5. /\ DOMAIN managed' = DOMAIN managed /\ managed'[id] = n
        /\ \A k \in DOMAIN managed \ {id} : managed'[k] = managed[k]
    BY <2>1
  <2>6. ManagedType'
    BY <2>3, <2>5 DEF FeedbackInv, ManagedType
  <2>7. QED
    BY <2>1, <2>3, <2>4, <2>5, <2>6, FeedbackKept
<1>4. ASSUME NEW id \in DOMAIN managed, ManagerRemoves({id}, FeedbackListens)
      PROVE  FeedbackInv'
  <2> DEFINE signals == RemovalSignals({id})
  <2>1. managed' = Without(managed, {id}) /\ FeedbackListens(signals)
    BY <1>4 DEF ManagerRemoves
  <2>2. /\ DOMAIN managed' = DOMAIN managed \ {id}
        /\ \A k \in DOMAIN managed \ {id} : managed'[k] = managed[k]
    BY <2>1 DEF Without, Restrict
  <2>3. ManagedType'
    BY <2>2 DEF FeedbackInv, ManagedType
  <2>4. id \in Int
    <3>1. id \in NotificationIds
      BY DEF FeedbackInv, ManagedType
    <3>2. QED
      BY <3>1, Identifiers
  <2>5. Range(signals) = IF managed[id].relayed = "waits" THEN {} ELSE {NotificationRemoved(id)}
    BY <2>4, OneRemovalSignals
  <2>6. \A s \in Range(signals) : s.signal # "notificationUpdated"
    BY <2>5 DEF NotificationRemoved
  <2>7. managed[id].relayed = "yes" /\ id \in DOMAIN feedback.idToEventId => id \in StoppedIds(signals)
    BY <2>5 DEF NotificationRemoved, StoppedIds, Stops
  <2> HIDE DEF signals
  <2>8. QED
    BY <2>1, <2>2, <2>3, <2>6, <2>7, FeedbackKept
<1>5. QED
  BY <1>1, <1>2, <1>3, <1>4 DEF NotificationStep

LEMMA FeedbackKeptByCamera ==
    ASSUME FeedbackInv, FeedbackActs
    PROVE  FeedbackInv'
<1>1. CASE CameraChanges
  BY <1>1 DEF CameraChanges, managerVars, FeedbackInv, ManagedType, FeedbackType, Sounding
<1>2. CASE ApplyUseMode
  <2>1. /\ UNCHANGED <<managed, playing>>
        /\ feedback' = [feedback EXCEPT !.appEventsEnabled = useMode.value # "videorecording"]
    BY <1>2 DEF ApplyUseMode, managerVars
  <2>2. FeedbackType' /\ feedback'.idToEventId = feedback.idToEventId
    BY <2>1 DEF FeedbackInv, FeedbackType
  <2>3. QED
    BY <2>1, <2>2 DEF FeedbackInv, ManagedType, Sounding
<1>3. QED
  BY <1>1, <1>2 DEF FeedbackActs

\* What plays belongs to a notification that is there and was signalled, and stops
\* with it: for any number of notifications, however often their identifiers are
\* issued again, and whenever a video recording begins or ends
\* (ngfnotificationsink.cpp:40-61).
THEOREM FeedbackAlwaysEnds == ListenersSpec => []FeedbackFollowsNotifications
<1> DEFINE Inv == watched = "feedback" => FeedbackInv
<1>1. ListenersInit => Inv
  BY FeedbackStarts DEF ListenersInit
<1>2. Inv /\ [ListenersNext]_listenerVars => Inv'
  <2> SUFFICES ASSUME FeedbackInv, watched' = watched, watched = "feedback", [ListenersNext]_listenerVars
               PROVE  FeedbackInv'
    BY DEF ListenersNext, listenerVars
  <2>1. CASE NotificationStep(FeedbackListens)
    BY <2>1, FeedbackKeptByNotifications
  <2>2. CASE FeedbackActs
    BY <2>2, FeedbackKeptByCamera
  <2>3. CASE UNCHANGED listenerVars
    BY <2>3 DEF listenerVars, managerVars, feedbackVars, FeedbackInv, ManagedType, FeedbackType, Sounding
  <2>4. QED
    BY <2>1, <2>2, <2>3 DEF ListenersNext, AreaWatched, IndicatorWatched, FeedbackWatched, MissedWatched
<1>3. Inv => FeedbackFollowsNotifications
  BY DEF FeedbackInv, Sounding, FeedbackFollowsNotifications, FeedbackEndsWithItsNotification
<1>4. QED
  BY <1>1, <1>2, <1>3, PTL DEF ListenersSpec

-----------------------------------------------------------------------------
(* The missed events: unlocknotifications.cpp.                             *)

\* A row in which nothing is laid out twice.
IsRow(row, items) == row \in Seq(items) /\ IsInjective(row)

LEMMA RowOf ==
    ASSUME NEW S, NEW row \in Seq(S)
    PROVE  Len(row) \in Nat /\ DOMAIN row = 1..Len(row) /\ Range(row) \subseteq S
           /\ row = [i \in 1..Len(row) |-> row[i]]
BY DEF Range

LEMMA RemovedAt ==
    ASSUME NEW S, NEW row \in Seq(S), NEW i \in DOMAIN row
    PROVE  /\ RemoveAt(row, i) \in Seq(S)
           /\ Len(RemoveAt(row, i)) = Len(row) - 1
           /\ \A j \in 1..(Len(row) - 1) : RemoveAt(row, i)[j] = IF j < i THEN row[j] ELSE row[j + 1]
<1>1. Len(row) \in Nat /\ i \in 1..Len(row)
  BY RowOf
<1> DEFINE a == SubSeq(row, 1, i - 1)
           b == SubSeq(row, i + 1, Len(row))
<1>2. /\ a \in Seq(S) /\ Len(a) = i - 1
      /\ \A j \in 1..(i - 1) : a[j] = row[j]
  BY <1>1
<1>3. /\ b \in Seq(S) /\ Len(b) = Len(row) - i
      /\ \A j \in 1..(Len(row) - i) : b[j] = row[j + i]
  BY <1>1
<1> HIDE DEF a, b
<1>4. /\ a \o b \in Seq(S) /\ Len(a \o b) = Len(row) - 1
      /\ \A j \in 1..(Len(row) - 1) : (a \o b)[j] = IF j <= i - 1 THEN a[j] ELSE b[j - (i - 1)]
  <2>1. /\ a \o b \in Seq(S) /\ Len(a \o b) = Len(a) + Len(b)
        /\ \A j \in 1..(Len(a) + Len(b)) : (a \o b)[j] = IF j <= Len(a) THEN a[j] ELSE b[j - Len(a)]
    BY <1>2, <1>3, ConcatProperties
  <2>2. Len(a) + Len(b) = Len(row) - 1
    BY <1>1, <1>2, <1>3
  <2>3. QED
    BY <1>2, <2>1, <2>2
<1>5. ASSUME NEW j \in 1..(Len(row) - 1)
      PROVE  (a \o b)[j] = IF j < i THEN row[j] ELSE row[j + 1]
  <2>1. CASE j < i
    BY <1>1, <1>2, <1>4, <2>1
  <2>2. CASE ~(j < i)
    <3>1. (a \o b)[j] = b[j - (i - 1)] /\ j - (i - 1) \in 1..(Len(row) - i)
      BY <1>1, <1>4, <2>2
    <3>2. b[j - (i - 1)] = row[(j - (i - 1)) + i]
      BY <1>3, <3>1
    <3>3. QED
      BY <1>1, <2>2, <3>1, <3>2
  <2>3. QED
    BY <2>1, <2>2
<1>6. QED
  BY <1>4, <1>5 DEF RemoveAt, a, b

LEMMA TakenOutOfRow ==
    ASSUME NEW S, NEW row, IsRow(row, S), NEW item
    PROVE  IsRow(ItemOut(row, item), S) /\ Range(ItemOut(row, item)) = Range(row) \ {item}
<1>1. row \in Seq(S) /\ IsInjective(row)
  BY DEF IsRow
<1>2. CASE item \notin Range(row)
  BY <1>2 DEF ItemOut, IsRow
<1>3. CASE item \in Range(row)
  <2>1. PICK i \in DOMAIN row : row[i] = item /\ ItemOut(row, item) = RemoveAt(row, i)
    <3>1. \E i \in DOMAIN row : row[i] = item
      BY <1>3 DEF Range
    <3>2. (CHOOSE i \in DOMAIN row : row[i] = item) \in {i \in DOMAIN row : row[i] = item}
      BY <3>1
    <3>3. QED
      BY <1>3, <3>2 DEF ItemOut
  <2>2. PICK r : r = RemoveAt(row, i)
    OBVIOUS
  <2>3. Len(row) \in Nat /\ i \in 1..Len(row) /\ DOMAIN row = 1..Len(row)
    BY <1>1, RowOf
  <2>4. /\ r \in Seq(S) /\ Len(r) = Len(row) - 1
        /\ \A j \in 1..(Len(row) - 1) : r[j] = IF j < i THEN row[j] ELSE row[j + 1]
    BY <1>1, <2>2, RemovedAt
  <2>5. DOMAIN r = 1..(Len(row) - 1)
    BY <2>4
  <2>6. IsInjective(r)
    <3>1. ASSUME NEW j \in DOMAIN r, NEW k \in DOMAIN r, r[j] = r[k]
          PROVE  j = k
      <4>1. \A n \in 1..(Len(row) - 1) : n \in DOMAIN row /\ n + 1 \in DOMAIN row
        BY <2>3
      <4>2. ASSUME NEW m \in 1..(Len(row) - 1)
            PROVE  r[m] = row[IF m < i THEN m ELSE m + 1]
        BY <2>4
      <4>3. (IF j < i THEN j ELSE j + 1) = (IF k < i THEN k ELSE k + 1)
        BY <1>1, <2>3, <2>5, <3>1, <4>1, <4>2 DEF IsInjective
      <4>4. QED
        BY <2>3, <2>5, <4>3
    <3>2. QED
      BY <3>1 DEF IsInjective
  <2>7. ASSUME NEW x \in Range(r)
        PROVE  x \in Range(row) \ {item}
    <3>1. PICK j \in 1..(Len(row) - 1) : x = r[j]
      BY <2>5 DEF Range
    <3>2. PICK k \in 1..Len(row) : x = row[k] /\ k # i
      BY <2>3, <2>4, <3>1
    <3>3. QED
      BY <1>1, <2>1, <2>3, <3>2 DEF Range, IsInjective
  <2>8. ASSUME NEW x \in Range(row) \ {item}
        PROVE  x \in Range(r)
    <3>1. PICK k \in 1..Len(row) : x = row[k] /\ k # i
      BY <2>1, <2>3 DEF Range
    <3>2. PICK j \in 1..(Len(row) - 1) : x = r[j]
      <4>1. CASE k < i
        BY <2>3, <2>4, <3>1, <4>1
      <4>2. CASE ~(k < i)
        <5>1. k - 1 \in 1..(Len(row) - 1) /\ ~(k - 1 < i) /\ (k - 1) + 1 = k
          BY <2>3, <3>1, <4>2
        <5>2. r[k - 1] = row[k]
          BY <2>4, <5>1
        <5>3. QED
          BY <3>1, <5>1, <5>2
      <4>3. QED
        BY <4>1, <4>2
    <3>3. QED
      BY <2>5, <3>2 DEF Range
  <2>9. QED
    BY <2>1, <2>2, <2>4, <2>6, <2>7, <2>8 DEF IsRow
<1>4. QED
  BY <1>2, <1>3

LEMMA PairTakenOut ==
    ASSUME NEW S, NEW row, IsRow(row, S), NEW t
    PROVE  IsRow(Out(row, t), S) /\ Range(Out(row, t)) = Range(row) \ {Icon(t), Label(t)}
<1>1. IsRow(ItemOut(row, Icon(t)), S) /\ Range(ItemOut(row, Icon(t))) = Range(row) \ {Icon(t)}
  BY TakenOutOfRow
<1>2. /\ IsRow(Out(row, t), S)
      /\ Range(Out(row, t)) = Range(ItemOut(row, Icon(t))) \ {Label(t)}
  BY <1>1, TakenOutOfRow DEF Out
<1>3. QED
  BY <1>1, <1>2

\* Two items are put into a row, in front or in its midst.
LEMMA PairInserted ==
    ASSUME NEW S, NEW row, IsRow(row, S), NEW index \in Nat,
           NEW a \in S, NEW b \in S, a # b, a \notin Range(row), b \notin Range(row)
    PROVE  /\ IsRow(InsertedAt(row, index, <<a, b>>), S)
           /\ Range(InsertedAt(row, index, <<a, b>>)) = Range(row) \cup {a, b}
<1>1. row \in Seq(S) /\ IsInjective(row) /\ Len(row) \in Nat /\ DOMAIN row = 1..Len(row)
  BY RowOf DEF IsRow
<1>2. PICK i \in 0..Len(row) :
          InsertedAt(row, index, <<a, b>>) =
              (SubSeq(row, 1, i) \o <<a, b>>) \o SubSeq(row, i + 1, Len(row))
  <2>1. (IF index > Len(row) THEN Len(row) ELSE index) \in 0..Len(row)
    BY <1>1
  <2>2. QED
    BY <2>1 DEF InsertedAt
<1>3. PICK p : p = SubSeq(row, 1, i)
  OBVIOUS
<1>4. PICK q : q = SubSeq(row, i + 1, Len(row))
  OBVIOUS
<1>5. p \in Seq(S) /\ Len(p) = i /\ \A j \in 1..i : p[j] = row[j]
  BY <1>1, <1>2, <1>3
<1>6. q \in Seq(S) /\ Len(q) = Len(row) - i /\ \A j \in 1..(Len(row) - i) : q[j] = row[j + i]
  <2>1. /\ i + 1 \in Int /\ Len(row) \in Int
        /\ \A j \in (i + 1)..Len(row) : row[j] \in S
    BY <1>1, <1>2
  <2>2. /\ q \in Seq(S) /\ Len(q) = IF i + 1 <= Len(row) THEN Len(row) - (i + 1) + 1 ELSE 0
        /\ \A j \in 1..(Len(row) - (i + 1) + 1) : q[j] = row[(i + 1) + j - 1]
    BY <1>4, <2>1, SubSeqProperties
  <2>3. /\ Len(row) - (i + 1) + 1 = Len(row) - i
        /\ ~(i + 1 <= Len(row)) => Len(row) - i = 0
    <3>1. Len(row) \in Int /\ i \in Int /\ i <= Len(row)
      BY <1>1, <1>2
    <3>2. QED
      BY <3>1
  <2>4. Len(q) = Len(row) - i
    BY <2>2, <2>3
  <2>5. ASSUME NEW j \in 1..(Len(row) - i)
        PROVE  q[j] = row[j + i]
    <3>1. q[j] = row[(i + 1) + j - 1]
      BY <2>2, <2>3
    <3>2. (i + 1) + j - 1 = j + i
      BY <1>2
    <3>3. QED
      BY <3>1, <3>2
  <2>6. QED
    BY <2>2, <2>4, <2>5
<1>7. PICK m : m = p \o <<a, b>>
  OBVIOUS
<1>8. /\ m \in Seq(S) /\ Len(m) = i + 2
      /\ \A j \in 1..i : m[j] = row[j]
      /\ m[i + 1] = a /\ m[i + 2] = b
  <2>1. PICK ab : ab = <<a, b>>
    OBVIOUS
  <2>2. ab \in Seq(S) /\ Len(ab) = 2 /\ ab[1] = a /\ ab[2] = b
    BY <2>1
  <2>3. /\ m \in Seq(S) /\ Len(m) = Len(p) + Len(ab)
        /\ \A j \in 1..(Len(p) + Len(ab)) : m[j] = IF j <= Len(p) THEN p[j] ELSE ab[j - Len(p)]
    BY <1>5, <1>7, <2>1, <2>2, ConcatProperties
  <2>4. i \in Nat /\ Len(p) + Len(ab) = i + 2
    BY <1>2, <1>5, <2>2
  <2>5. \A j \in 1..i : m[j] = row[j]
    BY <1>5, <2>3, <2>4
  <2>6. m[i + 1] = a /\ m[i + 2] = b
    <3>1. /\ i + 1 \in 1..(i + 2) /\ ~(i + 1 <= i) /\ (i + 1) - i = 1
          /\ i + 2 \in 1..(i + 2) /\ ~(i + 2 <= i) /\ (i + 2) - i = 2
      BY <2>4
    <3>2. m[i + 1] = ab[(i + 1) - i] /\ m[i + 2] = ab[(i + 2) - i]
      BY <1>5, <2>3, <2>4, <3>1
    <3>3. QED
      BY <2>2, <3>1, <3>2
  <2>7. QED
    BY <2>3, <2>4, <2>5, <2>6
<1>9. PICK r : r = m \o q
  OBVIOUS
<1>10. /\ r \in Seq(S) /\ Len(r) = Len(row) + 2
       /\ \A j \in 1..(Len(row) + 2) : r[j] = IF j <= i + 2 THEN m[j] ELSE q[j - (i + 2)]
  <2>1. /\ r \in Seq(S) /\ Len(r) = Len(m) + Len(q)
        /\ \A j \in 1..(Len(m) + Len(q)) : r[j] = IF j <= Len(m) THEN m[j] ELSE q[j - Len(m)]
    BY <1>6, <1>8, <1>9, ConcatProperties
  <2>2. Len(m) + Len(q) = Len(row) + 2
    BY <1>1, <1>2, <1>6, <1>8
  <2>3. QED
    BY <1>8, <2>1, <2>2
<1>11. DOMAIN r = 1..(Len(row) + 2)
  BY <1>10
<1>12. ASSUME NEW j \in 1..(Len(row) + 2)
       PROVE  r[j] = IF j <= i THEN row[j] ELSE IF j = i + 1 THEN a ELSE IF j = i + 2 THEN b
                     ELSE row[j - 2]
  <2>1. CASE j <= i + 2
    BY <1>2, <1>8, <1>10, <2>1
  <2>2. CASE ~(j <= i + 2)
    <3>1. r[j] = q[j - (i + 2)] /\ j - (i + 2) \in 1..(Len(row) - i)
      BY <1>1, <1>2, <1>10, <2>2
    <3>2. q[j - (i + 2)] = row[(j - (i + 2)) + i] /\ (j - (i + 2)) + i = j - 2
      BY <1>1, <1>2, <1>6, <3>1
    <3>3. QED
      BY <1>2, <2>2, <3>1, <3>2
  <2>3. QED
    BY <2>1, <2>2
<1>13. \A k \in 1..Len(row) : row[k] # a /\ row[k] # b
  BY <1>1 DEF Range
<1>14. IsInjective(r)
  <2>1. ASSUME NEW j \in DOMAIN r, NEW k \in DOMAIN r, r[j] = r[k]
        PROVE  j = k
    <3>1. /\ j \in 1..(Len(row) + 2) /\ k \in 1..(Len(row) + 2)
          /\ \A n \in 1..(Len(row) + 2) : n <= i => n \in 1..Len(row)
          /\ \A n \in 1..(Len(row) + 2) : n > i + 2 => n - 2 \in 1..Len(row)
      BY <1>1, <1>2, <1>11
    <3>2. \A n \in 1..(Len(row) + 2) :
              /\ n <= i => r[n] = row[n]
              /\ n > i + 2 => r[n] = row[n - 2]
              /\ n = i + 1 => r[n] = a
              /\ n = i + 2 => r[n] = b
      BY <1>1, <1>2, <1>12
    <3>3. \A n \in 1..(Len(row) + 2) : n <= i \/ n = i + 1 \/ n = i + 2 \/ n > i + 2
      BY <1>2
    <3>4. CASE (j <= i \/ j > i + 2) /\ (k <= i \/ k > i + 2)
      <4>1. \A x \in 1..Len(row), y \in 1..Len(row) : row[x] = row[y] => x = y
        BY <1>1 DEF IsInjective
      <4>2. CASE j <= i /\ k <= i
        BY <2>1, <3>1, <3>2, <4>1, <4>2
      <4>3. CASE j <= i /\ k > i + 2
        <5>1. j = k - 2
          BY <2>1, <3>1, <3>2, <4>1, <4>3
        <5>2. QED
          BY <1>2, <3>1, <4>3, <5>1
      <4>4. CASE j > i + 2 /\ k <= i
        <5>1. j - 2 = k
          BY <2>1, <3>1, <3>2, <4>1, <4>4
        <5>2. QED
          BY <1>2, <3>1, <4>4, <5>1
      <4>5. CASE j > i + 2 /\ k > i + 2
        <5>1. j - 2 = k - 2
          BY <2>1, <3>1, <3>2, <4>1, <4>5
        <5>2. QED
          BY <1>2, <3>1, <4>5, <5>1
      <4>6. QED
        BY <3>4, <4>2, <4>3, <4>4, <4>5
    <3>5. CASE j \in {i + 1, i + 2} /\ (k <= i \/ k > i + 2)
      <4>1. r[j] \in {a, b}
        BY <3>1, <3>2, <3>5
      <4>2. r[k] \notin {a, b}
        BY <1>13, <3>1, <3>2, <3>5
      <4>3. QED
        BY <2>1, <4>1, <4>2
    <3>6. CASE (j <= i \/ j > i + 2) /\ k \in {i + 1, i + 2}
      <4>1. r[k] \in {a, b}
        BY <3>1, <3>2, <3>6
      <4>2. r[j] \notin {a, b}
        BY <1>13, <3>1, <3>2, <3>6
      <4>3. QED
        BY <2>1, <4>1, <4>2
    <3>7. CASE j \in {i + 1, i + 2} /\ k \in {i + 1, i + 2}
      BY <1>2, <2>1, <3>1, <3>2, <3>7
    <3>8. QED
      BY <3>1, <3>3, <3>4, <3>5, <3>6, <3>7
  <2>2. QED
    BY <2>1 DEF IsInjective
<1>15. ASSUME NEW x \in Range(r)
       PROVE  x \in Range(row) \cup {a, b}
  <2>1. PICK j \in 1..(Len(row) + 2) : x = r[j]
    BY <1>11 DEF Range
  <2>2. CASE j <= i
    BY <1>1, <1>2, <1>12, <2>1, <2>2 DEF Range
  <2>3. CASE j > i + 2
    <3>1. x = row[j - 2] /\ j - 2 \in DOMAIN row
      <4>1. /\ ~(j <= i) /\ j # i + 1 /\ j # i + 2
            /\ j - 2 \in 1..Len(row)
        BY <1>1, <1>2, <2>1, <2>3
      <4>2. QED
        BY <1>1, <1>12, <2>1, <4>1
    <3>2. QED
      BY <3>1 DEF Range
  <2>4. CASE j \in {i + 1, i + 2}
    <3>1. r[j] \in {a, b}
      BY <1>2, <1>12, <2>1, <2>4
    <3>2. QED
      BY <2>1, <3>1
  <2>5. j <= i \/ j > i + 2 \/ j \in {i + 1, i + 2}
    BY <1>2, <2>1
  <2>6. QED
    BY <2>2, <2>3, <2>4, <2>5
<1>16. ASSUME NEW x \in Range(row) \cup {a, b}
       PROVE  x \in Range(r)
  <2>1. \E j \in 1..(Len(row) + 2) : x = r[j]
    <3>1. CASE x = a
      <4>1. r[i + 1] = a /\ i + 1 \in 1..(Len(row) + 2)
        BY <1>1, <1>2, <1>12
      <4>2. QED
        BY <3>1, <4>1
    <3>2. CASE x = b
      <4>1. r[i + 2] = b /\ i + 2 \in 1..(Len(row) + 2)
        BY <1>1, <1>2, <1>12
      <4>2. QED
        BY <3>2, <4>1
    <3>3. CASE x \in Range(row)
      <4>1. PICK k \in 1..Len(row) : x = row[k]
        BY <1>1, <3>3 DEF Range
      <4>2. CASE k <= i
        BY <1>1, <1>2, <1>12, <4>1, <4>2
      <4>3. CASE ~(k <= i)
        <5>1. k + 2 \in 1..(Len(row) + 2) /\ k + 2 > i + 2 /\ (k + 2) - 2 = k
          BY <1>1, <1>2, <4>3
        <5>2. r[k + 2] = row[(k + 2) - 2]
          BY <1>2, <1>12, <5>1
        <5>3. QED
          BY <4>1, <5>1, <5>2
      <4>4. QED
        BY <4>2, <4>3
    <3>4. QED
      BY <3>1, <3>2, <3>3
  <2>2. QED
    BY <1>11, <2>1 DEF Range
<1>17. QED
  BY <1>2, <1>3, <1>4, <1>7, <1>9, <1>10, <1>14, <1>15, <1>16 DEF IsRow

-----------------------------------------------------------------------------
LastTypes == Types \cup {NotifyLast}
Items == {Icon(t) : t \in LastTypes} \cup {Label(t) : t \in LastTypes}
PairItems(t) == {Icon(t), Label(t)}

LEMMA PairsDiffer ==
    /\ \A t \in LastTypes : Icon(t) \in Items /\ Label(t) \in Items
    /\ \A t, u : Icon(t) # Label(u)
    /\ \A t, u : t # u => Icon(t) # Icon(u) /\ Label(t) # Label(u)
    /\ \A t : Pair(t) = <<Icon(t), Label(t)>> /\ Range(Pair(t)) = PairItems(t)
    /\ LastIcon = Icon(NotifyLast) /\ LastSubject = Label(NotifyLast)
    /\ NotifyLast \notin Types /\ Urgent \subseteq Types
<1>1. \A t \in LastTypes : Icon(t) \in Items /\ Label(t) \in Items
  BY DEF Items
<1>2. /\ \A t, u : Icon(t) # Label(u)
      /\ \A t, u : t # u => Icon(t) # Icon(u) /\ Label(t) # Label(u)
  BY DEF Icon, Label
<1>3. \A t : Pair(t) = <<Icon(t), Label(t)>>
  BY DEF Pair
<1>4. \A a, b : Range(<<a, b>>) = {a, b}
  BY DEF Range
<1>5. LastIcon = Icon(NotifyLast) /\ LastSubject = Label(NotifyLast)
  BY DEF LastIcon, LastSubject
<1>6. NotifyLast \notin Types /\ Urgent \subseteq Types
  BY DEF NotifyLast, Types, Urgent
<1>7. QED
  BY <1>1, <1>2, <1>3, <1>4, <1>5, <1>6 DEF PairItems

Labellings == UNION {[D -> Nat] : D \in SUBSET Types}

Widgets ==
    [visible : BOOLEAN, mostRecentVisible : BOOLEAN, lastType : LastTypes, lastText : Nat,
     labels : Labellings, row : {row \in Seq(Items) : IsInjective(row)}]

Events == [counts : [Types -> Nat], lastType : LastTypes]

\* What the row has besides the most recent event.
LabelledItems(w) == UNION {PairItems(t) : t \in DOMAIN w.labels}

\* The widget agrees with the labels it has.
Agrees(w) ==
    /\ w \in Widgets
    /\ Range(w.row) \ PairItems(NotifyLast) = LabelledItems(w)
    /\ DOMAIN w.labels \cap Urgent # {} => w.lastType \in Urgent

\* And its labels with the events, which are forgotten together.
TellsEvents(w, events) ==
    /\ w.visible <=> DOMAIN w.labels # {}
    /\ \A t \in DOMAIN w.labels : w.labels[t] = events.counts[t]
    /\ events.lastType = NotifyLast => ~w.visible

MissedInv ==
    /\ missedEvents \in Events
    /\ lockSink \in BOOLEAN
    /\ touchLock \in [locked : BOOLEAN, signals : Seq(BOOLEAN)]
    /\ Agrees(lockWidget)
    /\ TellsEvents(lockWidget, missedEvents)
    /\ lockWidget.visible => lockSink

LEMMA RowOfWidget ==
    ASSUME NEW w \in Widgets
    PROVE  IsRow(w.row, Items)
BY DEF Widgets, IsRow

\* The items of the most recent event alone make a row.
LEMMA LastPairRow == IsRow(Pair(NotifyLast), Items) /\ Range(Pair(NotifyLast)) = PairItems(NotifyLast)
<1>1. PICK a \in Items : a = Icon(NotifyLast)
  BY PairsDiffer DEF LastTypes
<1>2. PICK b \in Items : b = Label(NotifyLast)
  BY PairsDiffer DEF LastTypes
<1>3. Pair(NotifyLast) = <<a, b>> /\ a # b
  BY <1>1, <1>2, PairsDiffer
<1>4. <<a, b>> \in Seq(Items) /\ IsInjective(<<a, b>>)
  BY <1>3 DEF IsInjective
<1>5. QED
  BY <1>3, <1>4, PairsDiffer DEF IsRow

LEMMA EmptyRow == IsRow(<<>>, Items) /\ Range(<<>>) = {}
BY DEF IsRow, IsInjective, Range

LEMMA WidgetMade == Agrees(NewWidget) /\ ~NewWidget.visible /\ DOMAIN NewWidget.labels = {}
<1>1. /\ NewWidget.row = Pair(NotifyLast) /\ NewWidget.labels = <<>>
      /\ NewWidget.lastType = NotifyLast /\ ~NewWidget.visible
  BY DEF NewWidget
<1>2. <<>> \in [{} -> Nat] /\ DOMAIN <<>> = {} /\ {} \in SUBSET Types
  OBVIOUS
<1>3. NewWidget \in Widgets
  BY <1>2, LastPairRow DEF NewWidget, Widgets, Labellings, IsRow, LastTypes
<1>4. LabelledItems(NewWidget) = {}
  BY <1>1, <1>2 DEF LabelledItems
<1>5. QED
  BY <1>1, <1>2, <1>3, <1>4, LastPairRow DEF Agrees

TurnedWith(w, r, b) == [w EXCEPT !.row = r, !.mostRecentVisible = b]

AgreesLike(v, w) ==
    /\ Agrees(v)
    /\ v.labels = w.labels /\ v.lastType = w.lastType /\ v.visible = w.visible

LEMMA OrientationAgrees ==
    ASSUME NEW w, Agrees(w), NEW towards
    PROVE  AgreesLike(OrientationChanged(w, towards), w)
<1> DEFINE others == Out(w.row, NotifyLast)
<1>1. w \in Widgets /\ IsRow(w.row, Items)
  BY RowOfWidget DEF Agrees
<1>2. PICK row : row = others
  OBVIOUS
<1>3. IsRow(row, Items) /\ Range(row) = Range(w.row) \ PairItems(NotifyLast)
  BY <1>1, <1>2, PairTakenOut DEF PairItems
<1>4. ASSUME NEW r, IsRow(r, Items), Range(r) \ PairItems(NotifyLast) = Range(row) \ PairItems(NotifyLast),
             NEW b \in BOOLEAN
      PROVE  AgreesLike(TurnedWith(w, r, b), w)
  <2>1. PICK v : v = TurnedWith(w, r, b)
    OBVIOUS
  <2>2. /\ v \in Widgets /\ v.row = r
        /\ v.labels = w.labels /\ v.lastType = w.lastType /\ v.visible = w.visible
    BY <1>1, <1>4, <2>1 DEF Widgets, IsRow, TurnedWith
  <2>3. LabelledItems(v) = LabelledItems(w)
    BY <2>2 DEF LabelledItems
  <2>4. Range(v.row) \ PairItems(NotifyLast) = LabelledItems(v)
    BY <1>3, <1>4, <2>2, <2>3 DEF Agrees
  <2>5. Agrees(v)
    BY <2>2, <2>4 DEF Agrees
  <2>6. QED
    BY <2>1, <2>2, <2>5 DEF AgreesLike
<1>5. CASE towards = "landscape"
  <2>1. PICK r : r = Pair(NotifyLast) \o row
    OBVIOUS
  <2>2. IsRow(r, Items) /\ Range(r) = Range(row) \cup PairItems(NotifyLast)
    <3>1. /\ Icon(NotifyLast) \in Items /\ Label(NotifyLast) \in Items
          /\ Icon(NotifyLast) # Label(NotifyLast)
      BY PairsDiffer DEF LastTypes
    <3>2. /\ Icon(NotifyLast) \notin Range(row)
          /\ Label(NotifyLast) \notin Range(row)
      BY <1>3 DEF PairItems
    <3>3. InsertedAt(row, 0, <<Icon(NotifyLast), Label(NotifyLast)>>) = r
      <4>1. row \in Seq(Items)
        BY <1>3 DEF IsRow
      <4>2. SubSeq(row, 1, 0) = <<>> /\ SubSeq(row, 1, Len(row)) = row /\ ~(0 > Len(row)) /\ 0 + 1 = 1
        BY <4>1
      <4>3. <<Icon(NotifyLast), Label(NotifyLast)>> \in Seq(Items)
        BY <3>1
      <4>4. <<>> \o <<Icon(NotifyLast), Label(NotifyLast)>> = <<Icon(NotifyLast), Label(NotifyLast)>>
        BY <4>3
      <4>5. QED
        BY <2>1, <4>2, <4>4 DEF InsertedAt, Pair
    <3>4. QED
      BY <1>3, <3>1, <3>2, <3>3, PairInserted DEF PairItems
  <2>3. OrientationChanged(w, towards) = TurnedWith(w, r, FALSE)
    BY <1>2, <1>5, <2>1 DEF OrientationChanged, TurnedWith
  <2>4. Range(r) \ PairItems(NotifyLast) = Range(row) \ PairItems(NotifyLast)
    BY <2>2
  <2>5. QED
    BY <1>4, <2>2, <2>3, <2>4
<1>6. CASE towards # "landscape"
  <2>1. OrientationChanged(w, towards) = TurnedWith(w, row, TRUE)
    BY <1>2, <1>6 DEF OrientationChanged, TurnedWith
  <2>2. QED
    BY <1>3, <1>4, <2>1
<1>7. QED
  BY <1>5, <1>6

WithLatest(w, t, n) == [w EXCEPT !.lastType = t, !.lastText = n]

LEMMA MostRecentAgrees ==
    ASSUME NEW w, Agrees(w), NEW events \in Events, events.lastType \in Types
    PROVE  /\ Agrees(MostRecentShown(w, events))
           /\ MostRecentShown(w, events).row = w.row
           /\ MostRecentShown(w, events).labels = w.labels
           /\ MostRecentShown(w, events).visible = w.visible
           /\ events.lastType \in Urgent => MostRecentShown(w, events).lastType \in Urgent
<1>1. CASE w.lastType \in Urgent /\ events.lastType \notin Urgent
  BY <1>1 DEF MostRecentShown
<1>2. CASE ~(w.lastType \in Urgent /\ events.lastType \notin Urgent)
  <2>1. PICK t \in LastTypes : t = events.lastType
    BY DEF Events
  <2>2. PICK n \in Nat : n = events.counts[events.lastType]
    BY DEF Events
  <2>3. PICK v : v = WithLatest(w, t, n)
    OBVIOUS
  <2>4. MostRecentShown(w, events) = v
    BY <1>2, <2>1, <2>2, <2>3 DEF MostRecentShown, WithLatest
  <2>5. /\ v \in Widgets /\ v.row = w.row /\ v.labels = w.labels /\ v.visible = w.visible
        /\ v.lastType = t
    BY <2>3 DEF Agrees, Widgets, WithLatest
  <2>6. LabelledItems(v) = LabelledItems(w)
    BY <2>5 DEF LabelledItems
  <2>7. Agrees(v)
    BY <1>2, <2>1, <2>5, <2>6 DEF Agrees
  <2>8. QED
    BY <2>1, <2>4, <2>5, <2>7
<1>3. QED
  BY <1>1, <1>2

ShownWidget(w) == [w EXCEPT !.visible = TRUE]

LEMMA ShownAgrees ==
    ASSUME NEW w, Agrees(w)
    PROVE  /\ Agrees(ShownWidget(w)) /\ ShownWidget(w).visible
           /\ ShownWidget(w).labels = w.labels
<1>1. PICK v : v = ShownWidget(w)
  OBVIOUS
<1>2. /\ v \in Widgets /\ v.row = w.row /\ v.labels = w.labels /\ v.visible
      /\ v.lastType = w.lastType
  BY <1>1 DEF Agrees, Widgets, ShownWidget
<1>3. LabelledItems(v) = LabelledItems(w)
  BY <1>2 DEF LabelledItems
<1>4. QED
  BY <1>1, <1>2, <1>3 DEF Agrees

LabelledWith(w, t, n, r) == [w EXCEPT !.labels = With(@, t, n), !.row = r]

LEMMA WithLabel ==
    ASSUME NEW labels \in Labellings, NEW t \in Types, NEW n \in Nat
    PROVE  /\ With(labels, t, n) \in Labellings
           /\ DOMAIN With(labels, t, n) = DOMAIN labels \cup {t}
           /\ With(labels, t, n)[t] = n
           /\ \A u \in DOMAIN labels \ {t} : With(labels, t, n)[u] = labels[u]
<1>1. PICK D \in SUBSET Types : labels \in [D -> Nat]
  BY DEF Labellings
<1>2. With(labels, t, n) \in [D \cup {t} -> Nat] /\ D \cup {t} \in SUBSET Types
  BY <1>1 DEF With
<1>3. QED
  BY <1>1, <1>2 DEF With, Labellings

LabelAdded(v, w, t, n) ==
    /\ Agrees(v) /\ v.visible = w.visible
    /\ DOMAIN v.labels = DOMAIN w.labels \cup {t}
    /\ v.labels[t] = n
    /\ \A u \in DOMAIN w.labels \ {t} : v.labels[u] = w.labels[u]

\* A label with its icon, new or taken out of the row before, is put into it.
LEMMA LabelAgrees ==
    ASSUME NEW w, Agrees(w), NEW t \in Types, NEW n \in Nat, NEW index \in Nat,
           t \in Urgent => w.lastType \in Urgent,
           NEW others, others = IF t \in DOMAIN w.labels THEN Out(w.row, t) ELSE w.row
    PROVE  LabelAdded(LabelledWith(w, t, n, InsertedAt(others, index, Pair(t))), w, t, n)
<1>1. /\ w \in Widgets /\ IsRow(w.row, Items)
      /\ Range(w.row) \ PairItems(NotifyLast) = LabelledItems(w)
      /\ DOMAIN w.labels \cap Urgent # {} => w.lastType \in Urgent
  BY RowOfWidget DEF Agrees
<1>2. /\ Icon(t) \in Items /\ Label(t) \in Items /\ Icon(t) # Label(t)
      /\ Pair(t) = <<Icon(t), Label(t)>>
      /\ t # NotifyLast
  BY PairsDiffer DEF LastTypes
<1>3. IsRow(others, Items) /\ Range(others) = Range(w.row) \ PairItems(t)
  <2>1. CASE t \in DOMAIN w.labels
    BY <1>1, <2>1, PairTakenOut DEF PairItems
  <2>2. CASE t \notin DOMAIN w.labels
    <3>1. ASSUME NEW x \in Range(w.row), x \in PairItems(t)
          PROVE  FALSE
      <4>1. x \notin PairItems(NotifyLast)
        BY <1>2, <3>1, PairsDiffer DEF PairItems
      <4>2. PICK u \in DOMAIN w.labels : x \in PairItems(u)
        BY <1>1, <3>1, <4>1 DEF LabelledItems
      <4>3. u = t
        BY <3>1, <4>2, PairsDiffer DEF PairItems
      <4>4. QED
        BY <2>2, <4>2, <4>3
    <3>2. others = w.row
      BY <2>2
    <3>3. QED
      BY <1>1, <3>1, <3>2
  <2>3. QED
    BY <2>1, <2>2
<1>4. PICK r : r = InsertedAt(others, index, Pair(t))
  OBVIOUS
<1>5. IsRow(r, Items) /\ Range(r) = Range(others) \cup PairItems(t)
  <2>1. Icon(t) \notin Range(others) /\ Label(t) \notin Range(others)
    BY <1>3 DEF PairItems
  <2>2. r = InsertedAt(others, index, <<Icon(t), Label(t)>>)
    BY <1>2, <1>4
  <2>3. QED
    BY <1>2, <1>3, <2>1, <2>2, PairInserted DEF PairItems
<1>6. PICK v : v = LabelledWith(w, t, n, r)
  OBVIOUS
<1>7. /\ v \in Widgets /\ v.row = r /\ v.labels = With(w.labels, t, n)
      /\ v.visible = w.visible /\ v.lastType = w.lastType
  <2>1. PICK labels \in Labellings : labels = With(w.labels, t, n)
    BY <1>1, WithLabel DEF Widgets
  <2>2. r \in {row \in Seq(Items) : IsInjective(row)}
    BY <1>5 DEF IsRow
  <2>3. v = [w EXCEPT !.labels = labels, !.row = r]
    BY <1>6, <2>1 DEF LabelledWith
  <2>4. QED
    BY <1>1, <2>1, <2>2, <2>3 DEF Widgets
<1>8. /\ DOMAIN v.labels = DOMAIN w.labels \cup {t}
      /\ v.labels[t] = n
      /\ \A u \in DOMAIN w.labels \ {t} : v.labels[u] = w.labels[u]
  <2>1. PICK labels \in Labellings : labels = w.labels
    BY <1>1 DEF Widgets
  <2>2. PICK more : more = With(labels, t, n)
    OBVIOUS
  <2>3. /\ DOMAIN more = DOMAIN labels \cup {t}
        /\ more[t] = n
        /\ \A u \in DOMAIN labels \ {t} : more[u] = labels[u]
    BY <2>1, <2>2, WithLabel
  <2>4. v.labels = more /\ w.labels = labels
    BY <1>7, <2>1, <2>2
  <2>5. QED
    BY <2>3, <2>4
<1>9. LabelledItems(v) = LabelledItems(w) \cup PairItems(t)
  BY <1>8 DEF LabelledItems
<1>10. PairItems(t) \cap PairItems(NotifyLast) = {}
  BY <1>2, PairsDiffer DEF PairItems
<1>11. Range(v.row) \ PairItems(NotifyLast) = LabelledItems(v)
  <2>1. Range(v.row) = Range(w.row) \cup PairItems(t)
    BY <1>3, <1>5, <1>7
  <2>2. QED
    BY <1>1, <1>9, <1>10, <2>1
<1>12. DOMAIN v.labels \cap Urgent # {} => v.lastType \in Urgent
  BY <1>1, <1>7, <1>8
<1>13. Agrees(v)
  BY <1>7, <1>11, <1>12 DEF Agrees
<1>14. QED
  BY <1>4, <1>6, <1>7, <1>8, <1>13 DEF LabelAdded

LEMMA UpdatedAgrees ==
    ASSUME NEW w, Agrees(w), NEW events \in Events, events.lastType \in Types, NEW seen \in BOOLEAN
    PROVE  LET v == Updated(w, events, seen)
               t == events.lastType
           IN  /\ Agrees(v) /\ v.visible
               /\ DOMAIN v.labels = DOMAIN w.labels \cup {t}
               /\ v.labels[t] = events.counts[t]
               /\ \A u \in DOMAIN w.labels \ {t} : v.labels[u] = w.labels[u]
<1>1. PICK t \in Types : t = events.lastType
  OBVIOUS
<1>2. PICK n \in Nat : n = events.counts[t]
  BY <1>1 DEF Events
<1>3. PICK o : o = OrientationChanged(ShownWidget(w), orientation)
  OBVIOUS
<1>4. Agrees(o) /\ o.visible /\ o.labels = w.labels
  BY <1>3, ShownAgrees, OrientationAgrees DEF AgreesLike
<1>5. PICK shown : shown = MostRecentShown(o, events)
  OBVIOUS
<1>6. /\ Agrees(shown) /\ shown.visible /\ shown.labels = w.labels
      /\ t \in Urgent => shown.lastType \in Urgent
  BY <1>1, <1>4, <1>5, MostRecentAgrees
<1>7. PICK others : others = IF t \in DOMAIN shown.labels THEN Out(shown.row, t) ELSE shown.row
  OBVIOUS
<1>8. PICK index \in Nat : index = IF ~seen /\ others # <<>> THEN 2 ELSE 0
  OBVIOUS
<1>9. t # NotifyLast
  BY PairsDiffer
<1>10. Updated(w, events, seen) = LabelledWith(shown, t, n, InsertedAt(others, index, Pair(t)))
  BY <1>1, <1>2, <1>3, <1>5, <1>6, <1>7, <1>8, <1>9 DEF Updated, ShownWidget, LabelledWith
<1>11. QED
  <2>1. PICK v : v = Updated(w, events, seen)
    OBVIOUS
  <2>2. LabelAdded(v, shown, t, n)
    BY <1>6, <1>7, <1>10, <2>1, LabelAgrees
  <2>3. QED
    BY <1>1, <1>2, <1>6, <2>1, <2>2 DEF LabelAdded

\* The contents are cleared.
LEMMA ClearedAgrees ==
    ASSUME NEW w, Agrees(w)
    PROVE  /\ Agrees(Cleared(w)) /\ ~Cleared(w).visible
           /\ DOMAIN Cleared(w).labels = {}
<1>1. w \in Widgets
  BY DEF Agrees
<1>2. PICK r : r = OnlyMostRecent(w.row)
  OBVIOUS
<1>3. IsRow(r, Items) /\ Range(r) \subseteq PairItems(NotifyLast)
  BY <1>2, LastPairRow, EmptyRow DEF OnlyMostRecent
<1>4. PICK v : v = Cleared(w)
  OBVIOUS
<1>5. <<>> \in [{} -> Nat] /\ DOMAIN <<>> = {} /\ {} \in SUBSET Types /\ NotifyLast \in LastTypes
  BY DEF LastTypes
<1>6. /\ v \in Widgets /\ v.row = r /\ DOMAIN v.labels = {} /\ ~v.visible
  <2>1. PICK labels \in Labellings : labels = <<>>
    BY <1>5 DEF Labellings
  <2>2. r \in {row \in Seq(Items) : IsInjective(row)}
    BY <1>3 DEF IsRow
  <2>3. v = [w EXCEPT !.visible = FALSE, !.labels = labels, !.lastType = NotifyLast,
                      !.lastText = 0, !.row = r]
    BY <1>2, <1>4, <2>1 DEF Cleared
  <2>4. v \in Widgets /\ v.row = r /\ v.labels = labels /\ ~v.visible
    BY <1>1, <1>5, <2>1, <2>2, <2>3 DEF Widgets
  <2>5. QED
    BY <1>5, <2>1, <2>4
<1>7. LabelledItems(v) = {}
  BY <1>6 DEF LabelledItems
<1>8. QED
  BY <1>3, <1>4, <1>6, <1>7 DEF Agrees

-----------------------------------------------------------------------------
(* The steps.                                                              *)

LEMMA MissedStarts == MissedInit => MissedInv
<1> SUFFICES ASSUME MissedInit
             PROVE  MissedInv
  OBVIOUS
<1>1. missedEvents \in Events /\ missedEvents.lastType = NotifyLast
  BY DEF MissedInit, NoEvents, Events, LastTypes
<1>2. lockWidget = NewWidget /\ lockSink = FALSE
  BY DEF MissedInit
<1>3. TellsEvents(lockWidget, missedEvents)
  BY <1>2, WidgetMade DEF TellsEvents
<1>4. touchLock \in [locked : BOOLEAN, signals : Seq(BOOLEAN)]
  <2>1. <<>> \in Seq(BOOLEAN)
    OBVIOUS
  <2>2. QED
    BY <2>1 DEF MissedInit
<1>5. Agrees(lockWidget) /\ ~lockWidget.visible
  BY <1>2, WidgetMade
<1>6. QED
  BY <1>1, <1>2, <1>3, <1>4, <1>5 DEF MissedInv

\* The singleton is cleared, or counts one more event.
LEMMA EventsCleared ==
    ASSUME MissedInv, ClearAll
    PROVE  /\ missedEvents' \in Events /\ Agrees(lockWidget') /\ ~lockWidget'.visible
           /\ TellsEvents(lockWidget', missedEvents')
<1>1. CASE missedEvents.lastType = NotifyLast
  BY <1>1 DEF ClearAll, MissedInv, TellsEvents
<1>2. CASE missedEvents.lastType # NotifyLast
  <2>1. missedEvents' = NoEvents /\ \E seen \in {FALSE, orientation = "portrait"} :
            lockWidget' = Updated(lockWidget, NoEvents, seen)
    BY <1>2 DEF ClearAll, EventsBecome
  <2>2. NoEvents \in Events /\ NoEvents.lastType = NotifyLast
    BY DEF NoEvents, Events, LastTypes
  <2>3. lockWidget' = Cleared(lockWidget)
    BY <2>1, <2>2 DEF Updated
  <2>4. Agrees(lockWidget') /\ ~lockWidget'.visible /\ DOMAIN lockWidget'.labels = {}
    BY <2>3, ClearedAgrees DEF MissedInv
  <2>5. QED
    BY <2>1, <2>2, <2>4 DEF TellsEvents
<1>3. QED
  BY <1>1, <1>2

Counted(events, t) == [events EXCEPT !.counts[t] = @ + 1, !.lastType = t]

LEMMA CountedEvents ==
    ASSUME NEW events \in Events, NEW t \in Types
    PROVE  /\ Counted(events, t) \in Events /\ Counted(events, t).lastType = t
           /\ \A u \in Types \ {t} : Counted(events, t).counts[u] = events.counts[u]
<1>1. PICK counts \in [Types -> Nat] : counts = events.counts
  BY DEF Events
<1>2. PICK more : more = [counts EXCEPT ![t] = @ + 1]
  OBVIOUS
<1>3. more \in [Types -> Nat] /\ \A u \in Types \ {t} : more[u] = counts[u]
  BY <1>2
<1>4. t \in LastTypes
  BY DEF LastTypes
<1>5. Counted(events, t) = [counts |-> more, lastType |-> t]
  <2>1. events = [counts |-> counts, lastType |-> events.lastType]
    BY <1>1 DEF Events
  <2>2. Counted(events, t) = [events EXCEPT !.counts = more, !.lastType = t]
    BY <1>1, <1>2 DEF Counted
  <2>3. QED
    BY <2>1, <2>2
<1>6. QED
  BY <1>1, <1>3, <1>4, <1>5 DEF Events

LEMMA EventCounted ==
    ASSUME MissedInv, NEW t \in Types, EventsBecome(Counted(missedEvents, t))
    PROVE  /\ missedEvents' \in Events /\ Agrees(lockWidget')
           /\ TellsEvents(lockWidget', missedEvents')
<1>1. PICK events : events = Counted(missedEvents, t)
  OBVIOUS
<1>2. /\ events \in Events /\ events.lastType = t
      /\ \A u \in Types \ {t} : events.counts[u] = missedEvents.counts[u]
  BY <1>1, CountedEvents DEF MissedInv
<1>3. missedEvents' = events /\ \E seen \in {FALSE, orientation = "portrait"} :
          lockWidget' = Updated(lockWidget, events, seen)
  BY <1>1 DEF EventsBecome
<1>4. PICK seen \in BOOLEAN : lockWidget' = Updated(lockWidget, events, seen)
  BY <1>3
<1>5. Agrees(lockWidget) /\ DOMAIN lockWidget.labels \subseteq Types
  BY DEF MissedInv, Agrees, Widgets, Labellings
<1>6. /\ Agrees(lockWidget') /\ lockWidget'.visible
      /\ DOMAIN lockWidget'.labels = DOMAIN lockWidget.labels \cup {t}
      /\ lockWidget'.labels[t] = events.counts[t]
      /\ \A u \in DOMAIN lockWidget.labels \ {t} : lockWidget'.labels[u] = lockWidget.labels[u]
  BY <1>2, <1>4, <1>5, UpdatedAgrees
<1>7. \A u \in DOMAIN lockWidget'.labels : lockWidget'.labels[u] = events.counts[u]
  BY <1>2, <1>5, <1>6 DEF MissedInv, TellsEvents
<1>8. t # NotifyLast
  BY PairsDiffer
<1>9. QED
  BY <1>2, <1>3, <1>6, <1>7, <1>8 DEF TellsEvents

LEMMA MissedHears ==
    ASSUME MissedInv, NEW signals, MissedListens(signals)
    PROVE  MissedInv'
<1>1. touchLock' = touchLock /\ lockSink' = lockSink
  BY DEF MissedListens
<1>2. CASE UNCHANGED <<missedEvents, lockWidget>>
  BY <1>1, <1>2 DEF MissedInv
<1>3. ASSUME NEW s \in Range(signals), CanMiss(s),
             EventsBecome([missedEvents EXCEPT !.counts[s.content.missed] = @ + 1,
                                               !.lastType = s.content.missed])
      PROVE  MissedInv'
  <2>1. PICK t \in Types : t = s.content.missed /\ lockSink
    BY <1>3 DEF CanMiss
  <2>2. EventsBecome(Counted(missedEvents, t))
    BY <1>3, <2>1 DEF Counted
  <2>3. /\ missedEvents' \in Events /\ Agrees(lockWidget')
        /\ TellsEvents(lockWidget', missedEvents')
    BY <2>2, EventCounted
  <2>4. QED
    BY <1>1, <2>1, <2>3 DEF MissedInv
<1>4. QED
  BY <1>2, <1>3 DEF MissedListens

LEMMA MissedActsKeep ==
    ASSUME MissedInv, MissedActs
    PROVE  MissedInv'
<1>1. CASE TouchLockChanges
  <2>1. UNCHANGED <<missedEvents, lockSink, lockWidget>>
    BY <1>1 DEF TouchLockChanges
  <2>2. touchLock' \in [locked : BOOLEAN, signals : Seq(BOOLEAN)]
    BY <1>1 DEF TouchLockChanges, MissedInv
  <2>3. QED
    BY <2>1, <2>2 DEF MissedInv
<1>2. CASE LocksChanged
  <2>1. /\ touchLock.signals # <<>>
        /\ touchLock' = [touchLock EXCEPT !.signals = Tail(@)]
        /\ SetLockedState(Head(touchLock.signals))
    BY <1>2 DEF LocksChanged
  <2>2. /\ touchLock' \in [locked : BOOLEAN, signals : Seq(BOOLEAN)]
        /\ Head(touchLock.signals) \in BOOLEAN
    <3>1. PICK signals \in Seq(BOOLEAN) : signals = touchLock.signals
      BY DEF MissedInv
    <3>2. Tail(signals) \in Seq(BOOLEAN) /\ Head(signals) \in BOOLEAN
      BY <2>1, <3>1, HeadTailProperties
    <3>3. QED
      BY <2>1, <3>1, <3>2 DEF MissedInv
  <2>3. CASE Head(touchLock.signals) = lockSink
    BY <2>1, <2>2, <2>3 DEF SetLockedState, MissedInv
  <2>4. CASE Head(touchLock.signals) # lockSink
    <3>1. lockSink' = Head(touchLock.signals) /\ ClearAll
      BY <2>1, <2>4 DEF SetLockedState
    <3>2. QED
      BY <2>2, <3>1, EventsCleared DEF MissedInv
  <2>5. QED
    BY <2>3, <2>4
<1>3. CASE Turn
  <2>1. UNCHANGED <<touchLock, missedEvents, lockSink>>
    BY <1>3 DEF Turn
  <2>2. AgreesLike(lockWidget', lockWidget)
    BY <1>3, OrientationAgrees DEF Turn, MissedInv
  <2>3. QED
    BY <2>1, <2>2 DEF MissedInv, AgreesLike, TellsEvents
<1>4. CASE ReplaceView
  <2>1. lockSink' = FALSE /\ lockWidget' = NewWidget /\ UNCHANGED <<touchLock, missedEvents>>
    BY <1>4 DEF ReplaceView
  <2>2. TellsEvents(lockWidget', missedEvents')
    BY <2>1, WidgetMade DEF TellsEvents
  <2>3. QED
    BY <2>1, <2>2, WidgetMade DEF MissedInv
<1>5. QED
  BY <1>1, <1>2, <1>3, <1>4 DEF MissedActs

LEMMA MissedKeptByNotifications ==
    ASSUME MissedInv, NotificationStep(MissedListens)
    PROVE  MissedInv'
<1>1. \A signals : MissedListens(signals) => MissedInv'
  BY MissedHears
<1>2. QED
  BY <1>1 DEF NotificationStep, ManagerAdds, ManagerRelays, ManagerUpdates, ManagerRemoves

\* Whatever came, and however the device was turned, locked and its view replaced in
\* between: what the lock screen lays out is what was counted since it was locked,
\* each type once, and an sms or a call stays in front
\* (unlocknotificationsink.cpp:75-84, unlocknotifications.cpp:184-313).
THEOREM MissedEventsAlwaysShown == ListenersSpec => []MissedEventsShown
<1>1. ListenersInit => MissedInv
  BY MissedStarts DEF ListenersInit
<1>2. MissedInv /\ [ListenersNext]_listenerVars => MissedInv'
  <2> SUFFICES ASSUME MissedInv, [ListenersNext]_listenerVars
               PROVE  MissedInv'
    OBVIOUS
  <2>1. CASE NotificationStep(MissedListens)
    BY <2>1, MissedKeptByNotifications
  <2>2. CASE MissedActs
    BY <2>2, MissedActsKeep
  <2>3. CASE UNCHANGED missedVars
    BY <2>3 DEF missedVars, MissedInv
  <2>4. QED
    BY <2>1, <2>2, <2>3
    DEF ListenersNext, AreaWatched, IndicatorWatched, FeedbackWatched, MissedWatched, listenerVars
<1>3. MissedInv => MissedEventsShown
  <2> SUFFICES ASSUME MissedInv
               PROVE  MissedEventsShown
    OBVIOUS
  <2>1. /\ Range(lockWidget.row) \ PairItems(NotifyLast) = LabelledItems(lockWidget)
        /\ lockWidget \in Widgets
    BY DEF MissedInv, Agrees
  <2>2. {LastIcon, LastSubject} = PairItems(NotifyLast)
    BY PairsDiffer DEF PairItems
  <2>3. UNION {Range(Pair(t)) : t \in DOMAIN lockWidget.labels} = LabelledItems(lockWidget)
    BY PairsDiffer DEF LabelledItems
  <2>4. lockWidget.labels # <<>> <=> DOMAIN lockWidget.labels # {}
    <3>1. PICK D : lockWidget.labels \in [D -> Nat]
      BY <2>1 DEF Widgets, Labellings
    <3>2. D = {} => lockWidget.labels = <<>>
      BY <3>1
    <3>3. QED
      BY <3>1, <3>2
  <2>5. IsInjective(lockWidget.row)
    BY <2>1, RowOfWidget DEF IsRow
  <2>6. QED
    BY <2>1, <2>2, <2>3, <2>4, <2>5 DEF MissedEventsShown, MissedInv, Agrees, TellsEvents
<1>4. QED
  BY <1>1, <1>2, <1>3, PTL DEF ListenersSpec

-----------------------------------------------------------------------------
(* The icon of the status area.                                            *)

\* The signals of removals name what was signalled before, each once.
LEMMA RemovalsSignalled ==
    ASSUME NEW ids, ids \subseteq Int, IsFiniteSet(ids),
           NEW heard, heard = {id \in ids : managed[id].relayed # "waits"}
    PROVE  /\ Cardinality(heard) \in Nat
           /\ \E T : RemovalSignals(ids) \in Seq(T)
           /\ Len(RemovalSignals(ids)) = Cardinality(heard)
           /\ DOMAIN RemovalSignals(ids) = 1..Cardinality(heard)
           /\ \A i \in 1..Cardinality(heard) :
                  /\ RemovalSignals(ids)[i] = NotificationRemoved(Nth(heard, i))
                  /\ Nth(heard, i) \in heard
           /\ \A x \in heard : \E i \in 1..Cardinality(heard) : Nth(heard, i) = x
<1>1. RemovalSignals(ids) = [i \in 1..Cardinality(heard) |-> NotificationRemoved(Nth(heard, i))]
  BY DEF RemovalSignals
<1>2. heard \subseteq Int /\ IsFiniteSet(heard)
  <2>1. heard \in SUBSET ids
    OBVIOUS
  <2>2. QED
    BY <2>1, FS_Subset
<1>3. /\ Cardinality(heard) \in Nat
      /\ \A i \in 1..Cardinality(heard) : Nth(heard, i) \in heard
      /\ \A x \in heard : \E i \in 1..Cardinality(heard) : Nth(heard, i) = x
  BY <1>2, Numbered
<1>4. RemovalSignals(ids) \in Seq({NotificationRemoved(x) : x \in heard})
  <2>1. PICK T : T = {NotificationRemoved(x) : x \in heard}
    OBVIOUS
  <2>2. \A i \in 1..Cardinality(heard) : NotificationRemoved(Nth(heard, i)) \in T
    BY <1>3, <2>1
  <2>3. PICK count \in Nat : count = Cardinality(heard)
    BY <1>3
  <2>4. PICK signals : signals = RemovalSignals(ids)
    OBVIOUS
  <2>5. signals \in [1..count -> T]
    <3>1. signals = [i \in 1..count |-> NotificationRemoved(Nth(heard, i))]
      BY <1>1, <2>3, <2>4, Zenon
    <3>2. \A i \in 1..count : NotificationRemoved(Nth(heard, i)) \in T
      BY <2>2, <2>3, Zenon
    <3>3. QED
      BY <3>1, <3>2, Zenon
  <2>6. signals \in Seq(T)
    <3>1. \A S : \A n \in Nat : \A f \in [1..n -> S] : f \in Seq(S)
      BY SeqDef, Zenon
    <3>2. QED
      BY <2>3, <2>5, <3>1, Zenon
  <2>7. QED
    BY <2>1, <2>4, <2>6
<1>5. \E T : RemovalSignals(ids) \in Seq(T)
  BY <1>4
<1>6. /\ Len(RemovalSignals(ids)) = Cardinality(heard)
      /\ DOMAIN RemovalSignals(ids) = 1..Cardinality(heard)
      /\ \A i \in 1..Cardinality(heard) : RemovalSignals(ids)[i] = NotificationRemoved(Nth(heard, i))
  BY <1>1, <1>3
<1>7. QED
  BY <1>3, <1>5, <1>6

\* What the indicator is in turn, as it hears one signal after the other.
HearsInTurn(after, n, signals) ==
    /\ after[0] = n
    /\ \A i \in 1..Len(signals) : after[i] = IndicatorHears(after[i - 1], signals[i])
    /\ AfterAll(IndicatorHears, n, signals) = after[Len(signals)]

LEMMA IndicatorHearsAll ==
    ASSUME NEW n, NEW signals, Len(signals) \in Nat
    PROVE  \E after : HearsInTurn(after, n, signals)
<1> DEFINE Steps(a, m) == a = [i \in 0..m |-> IF i = 0 THEN n ELSE IndicatorHears(a[i - 1], signals[i])]
           T == {m \in 0..Len(signals) : ~\E a : Steps(a, m)}
<1>1. T = {}
  <2> SUFFICES ASSUME T # {} PROVE FALSE
    OBVIOUS
  <2>8. T \subseteq Nat
    OBVIOUS
  <2> HIDE DEF T
  <2>9. PICK m \in T : \A k \in T : m <= k
    BY <2>8, LeastExists
  <2> USE DEF T
  <2>1. m \in 0..Len(signals) /\ m \in T /\ \A k \in T : m <= k
    BY <2>9
  <2>2. m # 0
    <3>1. Steps([i \in 0..0 |-> n], 0)
      OBVIOUS
    <3>2. QED
      BY <2>1, <3>1
  <2>3. m - 1 \in 0..Len(signals) /\ m - 1 \notin T
    <3> HIDE DEF T
    <3>1. m - 1 \in 0..Len(signals) /\ ~(m <= m - 1)
      BY <2>1, <2>2
    <3>2. QED
      BY <2>1, <3>1
  <2>4. PICK a : Steps(a, m - 1)
    BY <2>3
  <2>5. PICK b : b = [i \in 0..m |-> IF i = m THEN IndicatorHears(a[m - 1], signals[m]) ELSE a[i]]
    OBVIOUS
  <2>6. Steps(b, m)
    <3>1. ASSUME NEW i \in 0..m
          PROVE  b[i] = IF i = 0 THEN n ELSE IndicatorHears(b[i - 1], signals[i])
      BY <2>1, <2>2, <2>4, <2>5
    <3>2. QED
      BY <2>5, <3>1
  <2>7. QED
    BY <2>1, <2>6
<1>2. PICK a : Steps(a, Len(signals))
  <2>1. Len(signals) \in 0..Len(signals)
    OBVIOUS
  <2>2. QED
    BY <1>1, <2>1
<1>3. PICK after : after = CHOOSE a2 : Steps(a2, Len(signals))
  OBVIOUS
<1>4. Steps(after, Len(signals))
  BY <1>2, <1>3
<1>5. AfterAll(IndicatorHears, n, signals) = after[Len(signals)]
  BY <1>3 DEF AfterAll
<1>6. QED
  BY <1>4, <1>5 DEF HearsInTurn

-----------------------------------------------------------------------------
(* The icon: notificationstatusindicatorsink.cpp.                          *)

\* Of a list's numbers none is higher than some number.
LEMMA PrioritiesBounded ==
    ASSUME NEW m \in Nat, NEW d, \A i \in 1..m : d[i].priority \in Int
    PROVE  \E b \in Nat : \A i \in 1..m : d[i].priority <= b
<1> DEFINE T == {n \in 0..m : ~\E b \in Nat : \A i \in 1..n : d[i].priority <= b}
<1>1. T = {}
  <2> SUFFICES ASSUME T # {} PROVE FALSE
    OBVIOUS
  <2>1. T \subseteq Nat
    OBVIOUS
  <2> HIDE DEF T
  <2>2. PICK n \in T : \A k \in T : n <= k
    BY <2>1, LeastExists
  <2> USE DEF T
  <2>3. n \in 0..m /\ ~\E b \in Nat : \A i \in 1..n : d[i].priority <= b
    BY <2>2
  <2>4. n # 0
    BY <2>3
  <2>5. n - 1 \in 0..m /\ n - 1 \notin T
    <3> HIDE DEF T
    <3>1. n - 1 \in 0..m /\ ~(n <= n - 1)
      BY <2>3, <2>4
    <3>2. QED
      BY <2>2, <3>1
  <2>6. PICK b \in Nat : \A i \in 1..(n - 1) : d[i].priority <= b
    BY <2>5
  <2>7. PICK p \in Int : p = d[n].priority
    BY <2>3, <2>4
  <2>8. PICK c \in Nat : c = IF b <= p THEN p ELSE b
    OBVIOUS
  <2>9. b <= c /\ p <= c
    BY <2>8
  <2>10. ASSUME NEW i \in 1..n
         PROVE  d[i].priority <= c
    <3>1. CASE i = n
      BY <2>7, <2>9, <3>1
    <3>2. CASE i # n
      <4>1. i \in 1..(n - 1) /\ i \in 1..m
        BY <2>3, <3>2
      <4>2. d[i].priority <= b /\ d[i].priority \in Int
        BY <2>6, <4>1
      <4>3. QED
        BY <2>9, <4>2
    <3>3. QED
      BY <3>1, <3>2
  <2>11. QED
    BY <2>3, <2>8, <2>10
<1>2. m \in 0..m
  OBVIOUS
<1>3. QED
  BY <1>1, <1>2

\* The icon is that of one of the highest priority, if one is not negative.
LEMMA MostImportantChosen ==
    ASSUME NEW m \in Nat, NEW d, DOMAIN d = 1..m, \A i \in 1..m : d[i].priority \in Int,
           NEW shown, shown = {i \in 1..m : d[i].priority >= 0}
    PROVE  IF shown = {} THEN MostImportant(d) = NoIcon
           ELSE \E i \in shown : /\ MostImportant(d) = d[i].icon
                                 /\ \A j \in shown : d[j].priority <= d[i].priority
<1>1. {i \in DOMAIN d : d[i].priority >= 0} = shown
  OBVIOUS
<1>2. CASE shown = {}
  BY <1>1, <1>2 DEF MostImportant
<1>3. CASE shown # {}
  <2> DEFINE B == {b \in Nat : \A i \in shown : d[i].priority <= b}
             Best(i) == \A j \in shown :
                            \/ d[i].priority > d[j].priority
                            \/ (d[i].priority = d[j].priority /\ i <= j)
  <2>1. B # {} /\ B \subseteq Nat
    <3>1. PICK b \in Nat : \A i \in 1..m : d[i].priority <= b
      BY PrioritiesBounded
    <3>2. QED
      BY <3>1
  <2> HIDE DEF B
  <2>2. PICK b \in B : \A k \in B : b <= k
    BY <2>1, LeastExists
  <2> USE DEF B
  <2>3. b \in Nat /\ \A i \in shown : d[i].priority <= b
    BY <2>2
  <2> DEFINE top == {i \in shown : d[i].priority = b}
  <2>4. top # {}
    <3> SUFFICES ASSUME \A i \in shown : d[i].priority # b PROVE FALSE
      OBVIOUS
    <3>1. \A i \in shown : d[i].priority <= b - 1
      BY <2>3
    <3>2. b - 1 \in Nat
      BY <1>3, <2>3, <3>1
    <3>3. b - 1 \in B /\ ~(b <= b - 1)
      BY <2>3, <3>1, <3>2
    <3> HIDE DEF B
    <3>4. QED
      BY <2>2, <3>3
  <2>5. top \subseteq Nat
    OBVIOUS
  <2> HIDE DEF top
  <2>6. PICK k \in top : \A i \in top : k <= i
    BY <2>4, <2>5, LeastExists
  <2> USE DEF top
  <2>7. k \in shown /\ Best(k)
    <3>1. k \in shown /\ d[k].priority = b
      BY <2>6
    <3>2. ASSUME NEW j \in shown
          PROVE  d[k].priority > d[j].priority \/ (d[k].priority = d[j].priority /\ k <= j)
      <4>1. d[j].priority \in Int /\ d[j].priority <= b
        BY <2>3
      <4>2. CASE d[j].priority = b
        BY <2>6, <3>1, <4>2
      <4>3. CASE d[j].priority # b
        BY <2>3, <3>1, <4>1, <4>3
      <4>4. QED
        BY <4>2, <4>3
    <3>3. QED
      BY <3>1, <3>2
  <2> HIDE DEF top, B
  <2>8. PICK best : best = CHOOSE i \in shown : Best(i)
    OBVIOUS
  <2>9. best \in shown /\ Best(best)
    BY <2>7, <2>8
  <2>10. MostImportant(d) = d[best].icon
    BY <1>1, <1>3, <2>8 DEF MostImportant
  <2>11. ASSUME NEW j \in shown
         PROVE  d[j].priority <= d[best].priority
    BY <2>9
  <2>12. QED
    BY <1>3, <2>9, <2>10, <2>11
<1>4. QED
  BY <1>2, <1>3

(* What the sink knows, and with what it is kept:                          *)
(* groups      groupForNotification                                        *)
(* members     notificationsForGroup                                       *)
(* dataFor     dataForNotification and dataForGroup                        *)
(* datas       the keys of the data that is shown                          *)
SinkWith(groups, members, dataFor, datas, iconId) ==
    [groupForNotification |-> groups, notificationsForGroup |-> members,
     dataFor |-> dataFor, datas |-> datas, iconId |-> iconId]

Shown(dataFor, datas) == [i \in DOMAIN datas |-> dataFor[datas[i]]]

SinkOf(groups, members, dataFor, datas) ==
    SinkWith(groups, members, dataFor, datas, MostImportant(Shown(dataFor, datas)))

(* What the sink shall know of: apps, the application notifications that   *)
(* were signalled, and contents, those of the groups.                      *)
Apps == [id \in RelayedApplications |-> managed[id]]

Fit(apps, contents) ==
    /\ DOMAIN contents \subseteq GroupIds
    /\ DOMAIN apps \subseteq NotificationIds
    /\ \A id \in DOMAIN apps : apps[id].group \in DOMAIN contents \cup {NoGroup}

GroupsOf(apps) == [id \in DOMAIN apps |-> apps[id].group]
Inhabitants(apps, g) == {id \in DOMAIN apps : apps[id].group = g}
Alone(apps) == {ForNotification(id) : id \in Inhabitants(apps, NoGroup)}

KnowsGroups(apps, contents, members) ==
    /\ DOMAIN contents \subseteq DOMAIN members /\ DOMAIN members \subseteq GroupIds
    /\ members = [g \in DOMAIN members |-> Inhabitants(apps, g)]

KnowsData(apps, contents, members, dataFor) ==
    /\ dataFor = [key \in Alone(apps) \cup {ForGroup(g) : g \in DOMAIN members} |-> dataFor[key]]
    /\ \A id \in Inhabitants(apps, NoGroup) : dataFor[ForNotification(id)] = Data(apps[id].content)
    /\ \A g \in DOMAIN contents : dataFor[ForGroup(g)] = Data(contents[g])

KnowsDatas(apps, contents, datas) ==
    /\ datas \in Seq(Range(datas))
    /\ Range(datas) = Alone(apps) \cup
           {ForGroup(g) : g \in {h \in DOMAIN contents : Inhabitants(apps, h) # {}}}

Follows(n, apps, contents) ==
    /\ Fit(apps, contents)
    /\ \E members, dataFor, datas :
           /\ n = SinkOf(GroupsOf(apps), members, dataFor, datas)
           /\ KnowsGroups(apps, contents, members)
           /\ KnowsData(apps, contents, members, dataFor)
           /\ KnowsDatas(apps, contents, datas)

-----------------------------------------------------------------------------
(* What the functions of the sink do to it.                                *)

LEMMA KeysDiffer ==
    /\ \A a, b : ForNotification(a) = ForNotification(b) => a = b
    /\ \A a, b : ForGroup(a) = ForGroup(b) => a = b
    /\ \A a, b : ForNotification(a) # ForGroup(b)
BY DEF ForNotification, ForGroup

LEMMA Checked ==
    ASSUME NEW groups, NEW members, NEW dataFor, NEW datas, NEW iconId
    PROVE  CheckMostImportantNotification(SinkWith(groups, members, dataFor, datas, iconId)) =
               SinkOf(groups, members, dataFor, datas)
<1>1. Datas(SinkWith(groups, members, dataFor, datas, iconId)) = Shown(dataFor, datas)
  BY DEF Datas, Shown, SinkWith
<1>2. QED
  BY <1>1 DEF CheckMostImportantNotification, SinkOf, SinkWith

DataBecomes(f, dataFor, key, content) == f = [dataFor EXCEPT ![key] = Data(content)]

LEMMA DataKnown ==
    ASSUME NEW groups, NEW members, NEW dataFor, NEW datas, NEW key \in DOMAIN dataFor, NEW content,
           NEW f, DataBecomes(f, dataFor, key, content)
    PROVE  UpdateData(SinkOf(groups, members, dataFor, datas), key, content) =
               SinkOf(groups, members, f, datas)
<1>1. PICK iconId : SinkOf(groups, members, dataFor, datas) = SinkWith(groups, members, dataFor, datas, iconId)
  BY DEF SinkOf
<1>2. PICK n : n = SinkWith(groups, members, dataFor, datas, iconId)
  OBVIOUS
<1>3. n.dataFor = dataFor
  BY <1>2 DEF SinkWith
<1>4. [n EXCEPT !.dataFor[key] = Data(content)] = SinkWith(groups, members, f, datas, iconId)
  BY <1>2 DEF SinkWith, DataBecomes
<1>5. QED
  BY <1>1, <1>2, <1>3, <1>4, Checked DEF UpdateData

LEMMA DataUnknown ==
    ASSUME NEW groups, NEW members, NEW dataFor, NEW datas, NEW key, NEW content,
           key \notin DOMAIN dataFor
    PROVE  UpdateData(SinkOf(groups, members, dataFor, datas), key, content) =
               SinkOf(groups, members, dataFor, datas)
<1>1. PICK n : n = SinkOf(groups, members, dataFor, datas)
  OBVIOUS
<1>2. n.dataFor = dataFor
  BY <1>1 DEF SinkOf, SinkWith
<1>3. QED
  BY <1>1, <1>2 DEF UpdateData

LEMMA DataTaken ==
    ASSUME NEW groups, NEW members, NEW dataFor, NEW datas, NEW iconId, NEW key
    PROVE  TakenFromDatas(SinkWith(groups, members, dataFor, datas, iconId), key) =
               IF key \in DOMAIN dataFor
               THEN SinkOf(groups, members, dataFor, Removed(datas, key))
               ELSE SinkWith(groups, members, dataFor, datas, iconId)
<1>2. PICK n : n = SinkWith(groups, members, dataFor, datas, iconId)
  OBVIOUS
<1>3. n.dataFor = dataFor
  BY <1>2 DEF SinkWith
<1>4. CASE key \notin DOMAIN dataFor
  BY <1>2, <1>3, <1>4 DEF TakenFromDatas
<1>5. CASE key \in DOMAIN dataFor
  <2>1. [n EXCEPT !.datas = Removed(@, key)] =
            SinkWith(groups, members, dataFor, Removed(datas, key), iconId)
    BY <1>2 DEF SinkWith
  <2>3. QED
    BY <1>2, <1>3, <1>5, <2>1, Checked DEF TakenFromDatas
<1>6. QED
  BY <1>4, <1>5

LEMMA DataPrepended ==
    ASSUME NEW groups, NEW members, NEW dataFor, NEW datas, NEW iconId, NEW key
    PROVE  Prepended(SinkWith(groups, members, dataFor, datas, iconId), key) =
               SinkOf(groups, members, dataFor, <<key>> \o datas)
<1>1. PICK n : n = SinkWith(groups, members, dataFor, datas, iconId)
  OBVIOUS
<1>2. PICK list : list = <<key>> \o datas
  OBVIOUS
<1>3. n.datas = datas /\ [n EXCEPT !.datas = list] = SinkWith(groups, members, dataFor, list, iconId)
  BY <1>1 DEF SinkWith
<1>4. [n EXCEPT !.datas = <<key>> \o @] = [n EXCEPT !.datas = list]
  BY <1>2, <1>3
<1>5. QED
  BY <1>1, <1>2, <1>3, <1>4, Checked DEF Prepended

LEMMA PrependedToList ==
    ASSUME NEW list, list \in Seq(Range(list)), NEW key, NEW r, r = <<key>> \o list
    PROVE  r \in Seq(Range(r)) /\ Range(r) = Range(list) \cup {key}
<1>1. PICK T : T = Range(list) \cup {key}
  OBVIOUS
<1>2. list \in Seq(T) /\ <<key>> \in Seq(T)
  <2>1. /\ DOMAIN list = 1..Len(list) /\ Len(list) \in Nat
        /\ list = [i \in 1..Len(list) |-> list[i]]
    OBVIOUS
  <2>2. \A i \in 1..Len(list) : list[i] \in T
    BY <1>1, <2>1 DEF Range
  <2>3. list \in Seq(T)
    BY <2>1, <2>2
  <2>4. QED
    BY <1>1, <2>3
<1>3. /\ r \in Seq(T) /\ Len(r) = 1 + Len(list)
      /\ \A i \in 1..Len(r) : r[i] = IF i <= 1 THEN key ELSE list[i - 1]
  BY <1>2
<1>4. /\ Len(list) \in Nat /\ DOMAIN list = 1..Len(list) /\ DOMAIN r = 1..Len(r)
  BY <1>2, <1>3
<1>5. r[1] = key /\ \A i \in 1..Len(list) : r[i + 1] = list[i] /\ i + 1 \in 1..Len(r)
  BY <1>3, <1>4
<1>6. T \subseteq Range(r)
  <2>1. 1 \in DOMAIN r
    BY <1>3, <1>4
  <2>2. QED
    BY <1>1, <1>4, <1>5, <2>1 DEF Range
<1>7. Range(r) \subseteq T
  BY <1>3, <1>4 DEF Range
<1>8. QED
  BY <1>1, <1>3, <1>6, <1>7

\* A notification of the group and with the content comes or changes.
Becomes(apps, more, id, group, content) ==
    /\ DOMAIN more = DOMAIN apps \cup {id}
    /\ more[id].group = group /\ more[id].content = content
    /\ \A k \in DOMAIN apps \ {id} : more[k] = apps[k]

LEMMA KnownAreFinite ==
    ASSUME NEW apps, NEW contents, Fit(apps, contents)
    PROVE  IsFiniteSet(DOMAIN apps)
<1>1. IsFiniteSet(NotificationIds) /\ DOMAIN apps \in SUBSET NotificationIds
  BY Identifiers DEF Fit
<1>2. QED
  BY <1>1, FS_Subset

LEMMA AppUpdated ==
    ASSUME NEW n, NEW apps, NEW contents, Follows(n, apps, contents),
           NEW id \in DOMAIN apps, NEW content, content.type = "application",
           NEW group, NEW more, Becomes(apps, more, id, apps[id].group, content)
    PROVE  Follows(IndicatorAdds(n, id, group, content), more, contents)
<1>1. PICK members, dataFor, datas :
           /\ n = SinkOf(GroupsOf(apps), members, dataFor, datas)
           /\ KnowsGroups(apps, contents, members)
           /\ KnowsData(apps, contents, members, dataFor)
           /\ KnowsDatas(apps, contents, datas)
  BY DEF Follows
<1>2. /\ DOMAIN more = DOMAIN apps
      /\ \A k \in DOMAIN apps : more[k].group = apps[k].group
      /\ more[id].content = content
      /\ \A k \in DOMAIN apps \ {id} : more[k] = apps[k]
  BY DEF Becomes
<1>3. /\ GroupsOf(more) = GroupsOf(apps)
      /\ \A g : Inhabitants(more, g) = Inhabitants(apps, g)
      /\ Fit(more, contents)
  BY <1>2 DEF GroupsOf, Inhabitants, Fit, Follows
<1>4. Alone(more) = Alone(apps)
  BY <1>3 DEF Alone
<1>5. KnowsGroups(more, contents, members) /\ KnowsDatas(more, contents, datas)
  BY <1>1, <1>3, <1>4 DEF KnowsGroups, KnowsDatas
<1>6. IndicatorAdds(n, id, group, content) = UpdateData(n, ForNotification(id), content)
  <2>1. n.groupForNotification = GroupsOf(apps)
    BY <1>1 DEF SinkOf, SinkWith
  <2>2. id \in DOMAIN n.groupForNotification
    BY <2>1 DEF GroupsOf
  <2>3. QED
    BY <2>2 DEF IndicatorAdds
<1>7. PICK f : f = IF ForNotification(id) \in DOMAIN dataFor
                   THEN [dataFor EXCEPT ![ForNotification(id)] = Data(content)] ELSE dataFor
  OBVIOUS
<1>8. IndicatorAdds(n, id, group, content) = SinkOf(GroupsOf(more), members, f, datas)
  <2>1. CASE ForNotification(id) \in DOMAIN dataFor
    <3>1. PICK key \in DOMAIN dataFor : key = ForNotification(id)
      BY <2>1
    <3>2. DataBecomes(f, dataFor, key, content)
      BY <1>7, <3>1 DEF DataBecomes
    <3>3. UpdateData(SinkOf(GroupsOf(apps), members, dataFor, datas), key, content) =
              SinkOf(GroupsOf(apps), members, f, datas)
      BY <3>2, DataKnown
    <3>4. QED
      BY <1>1, <1>3, <1>6, <3>1, <3>3
  <2>2. CASE ForNotification(id) \notin DOMAIN dataFor
    <3>1. PICK key : key = ForNotification(id) /\ key \notin DOMAIN dataFor
      BY <2>2
    <3>2. UpdateData(SinkOf(GroupsOf(apps), members, dataFor, datas), key, content) =
              SinkOf(GroupsOf(apps), members, dataFor, datas)
      BY <3>1, DataUnknown
    <3>3. QED
      BY <1>1, <1>3, <1>6, <1>7, <3>1, <3>2
  <2>3. QED
    BY <2>1, <2>2
<1>9. DOMAIN dataFor = Alone(apps) \cup {ForGroup(g) : g \in DOMAIN members}
  BY <1>1 DEF KnowsData
<1>10. KnowsData(more, contents, members, f)
  <2>1. f = [key \in Alone(apps) \cup {ForGroup(g) : g \in DOMAIN members} |-> f[key]]
    BY <1>7, <1>9, <1>1 DEF KnowsData
  <2>2. ASSUME NEW k \in Inhabitants(more, NoGroup)
        PROVE  f[ForNotification(k)] = Data(more[k].content)
    <3>1. k \in Inhabitants(apps, NoGroup) /\ ForNotification(k) \in DOMAIN dataFor
      BY <1>3, <1>9 DEF Alone
    <3>2. dataFor[ForNotification(k)] = Data(apps[k].content)
      BY <1>1, <3>1 DEF KnowsData
    <3>3. CASE k = id
      BY <1>2, <1>7, <3>1, <3>3
    <3>4. CASE k # id
      <4>1. ForNotification(k) # ForNotification(id) /\ more[k] = apps[k]
        BY <1>2, <3>1, <3>4, KeysDiffer DEF Inhabitants
      <4>2. QED
        BY <1>7, <3>1, <3>2, <4>1
    <3>5. QED
      BY <3>3, <3>4
  <2>3. ASSUME NEW g \in DOMAIN contents
        PROVE  f[ForGroup(g)] = Data(contents[g])
    <3>1. dataFor[ForGroup(g)] = Data(contents[g]) /\ ForGroup(g) \in DOMAIN dataFor
      BY <1>1, <1>9 DEF KnowsData, KnowsGroups
    <3>2. ForGroup(g) # ForNotification(id)
      BY KeysDiffer
    <3>3. QED
      BY <1>7, <3>1, <3>2
  <2>4. QED
    BY <1>4, <2>1, <2>2, <2>3 DEF KnowsData
<1>11. QED
  BY <1>3, <1>5, <1>8, <1>10 DEF Follows

\* What a new application notification changes in what there is.
LEMMA OneMore ==
    ASSUME NEW apps, NEW contents, Fit(apps, contents), NEW id \in NotificationIds \ DOMAIN apps,
           NEW group \in DOMAIN contents \cup {NoGroup}, NEW content,
           NEW more, Becomes(apps, more, id, group, content)
    PROVE  /\ Fit(more, contents)
           /\ GroupsOf(more) = With(GroupsOf(apps), id, group)
           /\ \A g : Inhabitants(more, g) = Inhabitants(apps, g) \cup (IF g = group THEN {id} ELSE {})
           /\ Alone(more) = Alone(apps) \cup (IF group = NoGroup THEN {ForNotification(id)} ELSE {})
           /\ ForNotification(id) \notin Alone(apps)
           /\ more[id].content = content /\ \A k \in DOMAIN apps : more[k] = apps[k]
<1>1. /\ DOMAIN more = DOMAIN apps \cup {id} /\ id \notin DOMAIN apps
      /\ more[id].group = group /\ more[id].content = content
      /\ \A k \in DOMAIN apps : more[k] = apps[k]
  BY DEF Becomes
<1>2. Fit(more, contents)
  BY <1>1 DEF Fit
<1>3. GroupsOf(more) = With(GroupsOf(apps), id, group)
  BY <1>1 DEF GroupsOf, With
<1>4. \A g : Inhabitants(more, g) = Inhabitants(apps, g) \cup (IF g = group THEN {id} ELSE {})
  BY <1>1 DEF Inhabitants
<1>5. Alone(more) = Alone(apps) \cup (IF group = NoGroup THEN {ForNotification(id)} ELSE {})
  BY <1>4 DEF Alone
<1>6. ForNotification(id) \notin Alone(apps)
  BY <1>1, KeysDiffer DEF Alone, Inhabitants
<1>7. QED
  BY <1>1, <1>2, <1>3, <1>4, <1>5, <1>6

LEMMA AppAddedAlone ==
    ASSUME NEW n, NEW apps, NEW contents, Follows(n, apps, contents),
           NEW id \in NotificationIds \ DOMAIN apps, NEW content, content.type = "application",
           NEW more, Becomes(apps, more, id, NoGroup, content)
    PROVE  Follows(IndicatorAdds(n, id, NoGroup, content), more, contents)
<1>1. PICK members, dataFor, datas :
           /\ n = SinkOf(GroupsOf(apps), members, dataFor, datas)
           /\ KnowsGroups(apps, contents, members)
           /\ KnowsData(apps, contents, members, dataFor)
           /\ KnowsDatas(apps, contents, datas)
  BY DEF Follows
<1>2. /\ Fit(more, contents)
      /\ GroupsOf(more) = With(GroupsOf(apps), id, NoGroup)
      /\ \A g : Inhabitants(more, g) = Inhabitants(apps, g) \cup (IF g = NoGroup THEN {id} ELSE {})
      /\ Alone(more) = Alone(apps) \cup {ForNotification(id)}
      /\ ForNotification(id) \notin Alone(apps)
      /\ more[id].content = content /\ \A k \in DOMAIN apps : more[k] = apps[k]
  <2>1. Fit(apps, contents)
    BY DEF Follows
  <2>2. QED
    BY <2>1, OneMore
<1>3. DOMAIN members \subseteq Nat \ {0} /\ DOMAIN contents \subseteq DOMAIN members
  BY <1>1, Identifiers DEF KnowsGroups
<1>4. KnowsGroups(more, contents, members)
  <2>1. \A g \in DOMAIN members : Inhabitants(more, g) = Inhabitants(apps, g)
    BY <1>2, <1>3 DEF NoGroup
  <2>2. QED
    BY <1>1, <2>1 DEF KnowsGroups
<1>5. /\ DOMAIN dataFor = Alone(apps) \cup {ForGroup(g) : g \in DOMAIN members}
      /\ ForNotification(id) \notin DOMAIN dataFor
  BY <1>1, <1>2, KeysDiffer DEF KnowsData
<1>6. PICK f : f = With(dataFor, ForNotification(id), Data(content))
  OBVIOUS
<1>7. PICK list : list = <<ForNotification(id)>> \o datas
  OBVIOUS
<1>8. IndicatorAdds(n, id, NoGroup, content) = SinkOf(GroupsOf(more), members, f, list)
  <2>1. PICK iconId : n = SinkWith(GroupsOf(apps), members, dataFor, datas, iconId)
    BY <1>1 DEF SinkOf
  <2>2. n.groupForNotification = GroupsOf(apps) /\ id \notin DOMAIN n.groupForNotification
    BY <2>1 DEF SinkWith, GroupsOf
  <2>3. UpdateData(n, ForNotification(id), content) = n
    <3>1. PICK key : key = ForNotification(id) /\ key \notin DOMAIN dataFor
      BY <1>5
    <3>2. UpdateData(SinkOf(GroupsOf(apps), members, dataFor, datas), key, content) =
              SinkOf(GroupsOf(apps), members, dataFor, datas)
      BY <3>1, DataUnknown
    <3>3. QED
      BY <1>1, <3>1, <3>2
  <2>4. PICK known : known = [n EXCEPT !.groupForNotification = With(@, id, NoGroup)]
    OBVIOUS
  <2>5. known = SinkWith(GroupsOf(more), members, dataFor, datas, iconId)
    BY <1>2, <2>1, <2>4 DEF SinkWith
  <2>6. IndicatorAdds(n, id, NoGroup, content) = AddStandaloneNotification(known, id, content)
    BY <2>2, <2>3, <2>4 DEF IndicatorAdds, NoGroup
  <2>7. known.dataFor = dataFor /\ [known EXCEPT !.dataFor = f] =
            SinkWith(GroupsOf(more), members, f, datas, iconId)
    BY <2>5 DEF SinkWith
  <2>8. [known EXCEPT !.dataFor = With(@, ForNotification(id), Data(content))] =
            SinkWith(GroupsOf(more), members, f, datas, iconId)
    BY <1>6, <2>7
  <2>9. QED
    BY <1>7, <2>6, <2>8, DataPrepended DEF AddStandaloneNotification
<1>9. KnowsData(more, contents, members, f)
  <2>1. f = [key \in Alone(more) \cup {ForGroup(g) : g \in DOMAIN members} |-> f[key]]
    BY <1>2, <1>5, <1>6 DEF With
  <2>2. ASSUME NEW k \in Inhabitants(more, NoGroup)
        PROVE  f[ForNotification(k)] = Data(more[k].content)
    <3>1. CASE k = id
      BY <1>2, <1>6, <3>1 DEF With
    <3>2. CASE k # id
      <4>1. k \in Inhabitants(apps, NoGroup)
        BY <1>2, <3>2
      <4>2. ForNotification(k) # ForNotification(id) /\ ForNotification(k) \in DOMAIN dataFor
        BY <1>5, <3>2, <4>1, KeysDiffer DEF Alone
      <4>3. dataFor[ForNotification(k)] = Data(more[k].content)
        BY <1>1, <1>2, <4>1 DEF KnowsData, Inhabitants
      <4>4. QED
        BY <1>6, <4>2, <4>3 DEF With
    <3>3. QED
      BY <3>1, <3>2
  <2>3. ASSUME NEW g \in DOMAIN contents
        PROVE  f[ForGroup(g)] = Data(contents[g])
    <3>1. ForGroup(g) # ForNotification(id) /\ ForGroup(g) \in DOMAIN dataFor
      BY <1>3, <1>5, KeysDiffer
    <3>2. QED
      BY <1>1, <1>6, <3>1 DEF With, KnowsData
  <2>4. QED
    BY <2>1, <2>2, <2>3 DEF KnowsData
<1>10. KnowsDatas(more, contents, list)
  <2>1. list \in Seq(Range(list)) /\ Range(list) = Range(datas) \cup {ForNotification(id)}
    BY <1>1, <1>7, PrependedToList DEF KnowsDatas
  <2>2. \A g \in DOMAIN contents : Inhabitants(more, g) = Inhabitants(apps, g)
    BY <1>2, <1>3 DEF NoGroup
  <2>3. QED
    BY <1>1, <1>2, <2>1, <2>2 DEF KnowsDatas
<1>11. QED
  BY <1>2, <1>4, <1>8, <1>9, <1>10 DEF Follows

\* Whether a set with one more element has only that one.
LEMMA OnlyOne ==
    ASSUME NEW S, IsFiniteSet(S), NEW x, x \notin S
    PROVE  Cardinality(S \cup {x}) = 1 <=> S = {}
<1>1. Cardinality(S \cup {x}) = Cardinality(S) + 1 /\ Cardinality(S) \in Nat
  BY FS_AddElement, FS_CardinalityType
<1>2. Cardinality(S) = 0 <=> S = {}
  BY FS_EmptySet
<1>3. QED
  BY <1>1, <1>2

LEMMA AppAddedToGroup ==
    ASSUME NEW n, NEW apps, NEW contents, Follows(n, apps, contents),
           NEW id \in NotificationIds \ DOMAIN apps, NEW content, content.type = "application",
           NEW group \in DOMAIN contents, NEW more, Becomes(apps, more, id, group, content)
    PROVE  Follows(IndicatorAdds(n, id, group, content), more, contents)
<1>1. PICK members, dataFor, datas :
           /\ n = SinkOf(GroupsOf(apps), members, dataFor, datas)
           /\ KnowsGroups(apps, contents, members)
           /\ KnowsData(apps, contents, members, dataFor)
           /\ KnowsDatas(apps, contents, datas)
  BY DEF Follows
<1>2. Fit(apps, contents)
  BY DEF Follows
<1>3. group \in Nat \ {0} /\ group # NoGroup
  <2>1. group \in GroupIds
    BY <1>2 DEF Fit
  <2>2. QED
    BY <2>1, Identifiers DEF NoGroup
<1>4. /\ Fit(more, contents)
      /\ GroupsOf(more) = With(GroupsOf(apps), id, group)
      /\ \A g : Inhabitants(more, g) = Inhabitants(apps, g) \cup (IF g = group THEN {id} ELSE {})
      /\ Alone(more) = Alone(apps)
      /\ ForNotification(id) \notin Alone(apps)
      /\ \A k \in DOMAIN apps : more[k] = apps[k]
  <2>1. /\ Fit(more, contents)
        /\ GroupsOf(more) = With(GroupsOf(apps), id, group)
        /\ \A g : Inhabitants(more, g) = Inhabitants(apps, g) \cup (IF g = group THEN {id} ELSE {})
        /\ Alone(more) = Alone(apps) \cup (IF group = NoGroup THEN {ForNotification(id)} ELSE {})
        /\ ForNotification(id) \notin Alone(apps)
        /\ \A k \in DOMAIN apps : more[k] = apps[k]
    <3>1. group \in DOMAIN contents \cup {NoGroup}
      OBVIOUS
    <3>2. QED
      BY <1>2, <3>1, OneMore
  <2>2. QED
    BY <1>3, <2>1
<1>5. /\ DOMAIN dataFor = Alone(apps) \cup {ForGroup(g) : g \in DOMAIN members}
      /\ ForNotification(id) \notin DOMAIN dataFor
      /\ group \in DOMAIN members
      /\ ForGroup(group) \in DOMAIN dataFor
  BY <1>1, <1>4, KeysDiffer DEF KnowsData, KnowsGroups
<1>6. PICK now : now = Inhabitants(apps, group) \cup {id}
  OBVIOUS
<1>7. now = Inhabitants(more, group) /\ members[group] = Inhabitants(apps, group)
  BY <1>1, <1>4, <1>5, <1>6 DEF KnowsGroups
<1>8. Cardinality(now) = 1 <=> Inhabitants(apps, group) = {}
  <2>1. IsFiniteSet(DOMAIN apps) /\ Inhabitants(apps, group) \in SUBSET DOMAIN apps
    BY <1>2, KnownAreFinite DEF Inhabitants
  <2>2. IsFiniteSet(Inhabitants(apps, group)) /\ id \notin Inhabitants(apps, group)
    BY <2>1, FS_Subset
  <2>3. QED
    BY <1>6, <2>2, OnlyOne
<1>9. PICK all : all = With(members, group, now)
  OBVIOUS
<1>10. KnowsGroups(more, contents, all)
  <2>1. DOMAIN all = DOMAIN members
    BY <1>5, <1>9 DEF With
  <2>2. \A g \in DOMAIN members : all[g] = Inhabitants(more, g)
    <3>1. ASSUME NEW g \in DOMAIN members, g # group
          PROVE  all[g] = Inhabitants(more, g)
      <4>1. members[g] = Inhabitants(apps, g) /\ Inhabitants(more, g) = Inhabitants(apps, g)
        BY <1>1, <1>4, <3>1 DEF KnowsGroups
      <4>2. QED
        BY <1>9, <3>1, <4>1 DEF With
    <3>2. all[group] = now
      BY <1>9 DEF With
    <3>3. QED
      BY <1>7, <3>1, <3>2
  <2>3. all = [g \in DOMAIN members |-> all[g]]
    BY <2>1, <1>9 DEF With
  <2>4. QED
    BY <1>1, <2>1, <2>2, <2>3 DEF KnowsGroups
<1>11. KnowsData(more, contents, all, dataFor)
  <2>1. DOMAIN all = DOMAIN members
    BY <1>5, <1>9 DEF With
  <2>2. \A k \in Inhabitants(more, NoGroup) : k \in Inhabitants(apps, NoGroup) /\ more[k] = apps[k]
    BY <1>3, <1>4 DEF Inhabitants
  <2>3. QED
    BY <1>1, <1>4, <2>1, <2>2 DEF KnowsData
<1>12. PICK list : list = IF Cardinality(now) = 1 THEN <<ForGroup(group)>> \o datas ELSE datas
  OBVIOUS
<1>13. KnowsDatas(more, contents, list)
  <2>1. list \in Seq(Range(list)) /\ Range(list) = Range(datas) \cup
            (IF Cardinality(now) = 1 THEN {ForGroup(group)} ELSE {})
    <3>1. CASE Cardinality(now) = 1
      BY <1>1, <1>12, <3>1, PrependedToList DEF KnowsDatas
    <3>2. CASE Cardinality(now) # 1
      BY <1>1, <1>12, <3>2 DEF KnowsDatas
    <3>3. QED
      BY <3>1, <3>2
  <2>2. \A g \in DOMAIN contents \ {group} : Inhabitants(more, g) = Inhabitants(apps, g)
    BY <1>4
  <2>3. Inhabitants(more, group) # {}
    BY <1>6, <1>7
  <2>4. {ForGroup(g) : g \in {h \in DOMAIN contents : Inhabitants(more, h) # {}}} =
        {ForGroup(g) : g \in {h \in DOMAIN contents : Inhabitants(apps, h) # {}}} \cup {ForGroup(group)}
    BY <2>2, <2>3
  <2>5. Cardinality(now) # 1 =>
            ForGroup(group) \in {ForGroup(g) : g \in {h \in DOMAIN contents : Inhabitants(apps, h) # {}}}
    BY <1>8
  <2>6. QED
    BY <1>1, <1>4, <2>1, <2>4, <2>5 DEF KnowsDatas
<1>14. IndicatorAdds(n, id, group, content) = SinkOf(GroupsOf(more), all, dataFor, list)
  <2>1. PICK iconId : /\ n = SinkWith(GroupsOf(apps), members, dataFor, datas, iconId)
                      /\ iconId = MostImportant(Shown(dataFor, datas))
    BY <1>1 DEF SinkOf
  <2>2. n.groupForNotification = GroupsOf(apps) /\ id \notin DOMAIN n.groupForNotification
    BY <2>1 DEF SinkWith, GroupsOf
  <2>3. UpdateData(n, ForNotification(id), content) = n
    <3>1. PICK key : key = ForNotification(id) /\ key \notin DOMAIN dataFor
      BY <1>5
    <3>2. UpdateData(SinkOf(GroupsOf(apps), members, dataFor, datas), key, content) =
              SinkOf(GroupsOf(apps), members, dataFor, datas)
      BY <3>1, DataUnknown
    <3>3. QED
      BY <1>1, <3>1, <3>2
  <2>4. PICK known : known = [n EXCEPT !.groupForNotification = With(@, id, group)]
    OBVIOUS
  <2>5. known = SinkWith(GroupsOf(more), members, dataFor, datas, iconId)
    BY <1>4, <2>1, <2>4 DEF SinkWith
  <2>6. IndicatorAdds(n, id, group, content) = AddToIndicatorGroup(known, id, group)
    BY <1>3, <2>2, <2>3, <2>4 DEF IndicatorAdds
  <2>7. /\ known.dataFor = dataFor /\ known.notificationsForGroup = members
        /\ [known EXCEPT !.notificationsForGroup = all] =
               SinkWith(GroupsOf(more), all, dataFor, datas, iconId)
    BY <2>5 DEF SinkWith
  <2>8. [known EXCEPT !.notificationsForGroup = With(@, group, now)] =
            SinkWith(GroupsOf(more), all, dataFor, datas, iconId)
    BY <1>9, <2>7
  <2>9. AddToIndicatorGroup(known, id, group) =
            IF Cardinality(now) = 1
            THEN Prepended(SinkWith(GroupsOf(more), all, dataFor, datas, iconId), ForGroup(group))
            ELSE SinkWith(GroupsOf(more), all, dataFor, datas, iconId)
    <3>1. (IF group \in DOMAIN known.notificationsForGroup
           THEN known.notificationsForGroup[group] ELSE {}) \cup {id} = now
      BY <1>5, <1>6, <1>7, <2>7
    <3>2. PICK grown : grown = SinkWith(GroupsOf(more), all, dataFor, datas, iconId)
      OBVIOUS
    <3>3. grown.dataFor = dataFor
      BY <3>2 DEF SinkWith
    <3>4. QED
      BY <1>5, <2>7, <2>8, <3>1, <3>2, <3>3 DEF AddToIndicatorGroup
  <2>10. QED
    BY <1>12, <2>1, <2>6, <2>9, DataPrepended DEF SinkOf
<1>15. QED
  BY <1>4, <1>10, <1>11, <1>13, <1>14 DEF Follows

\* A function without some of what it is given for.
LeavesOnly(left, f, key) == left = Without(f, {key})
IsAFunction(f) == f = [k \in DOMAIN f |-> f[k]]

Lacks(less, apps, contents, id) ==
    /\ Fit(less, contents)
    /\ LeavesOnly(GroupsOf(less), GroupsOf(apps), id)
    /\ \A g : Inhabitants(less, g) = Inhabitants(apps, g) \ {id}
    /\ Alone(less) = Alone(apps) \ {ForNotification(id)}
    /\ \A k \in DOMAIN less : less[k] = apps[k]
    /\ DOMAIN less = DOMAIN apps \ {id}

\* What the removal of a notification changes in what there is.
LEMMA OneLess ==
    ASSUME NEW apps, NEW contents, Fit(apps, contents), NEW id,
           NEW less, LeavesOnly(less, apps, id)
    PROVE  Lacks(less, apps, contents, id)
<1>1. DOMAIN less = DOMAIN apps \ {id} /\ \A k \in DOMAIN less : less[k] = apps[k]
  BY DEF LeavesOnly, Without, Restrict
<1>2. Fit(less, contents)
  BY <1>1 DEF Fit
<1>3. LeavesOnly(GroupsOf(less), GroupsOf(apps), id)
  <2>1. PICK groups : groups = GroupsOf(apps)
    OBVIOUS
  <2>2. DOMAIN groups = DOMAIN apps /\ \A k \in DOMAIN apps : groups[k] = apps[k].group
    BY <2>1 DEF GroupsOf
  <2>3. PICK left : left = Without(groups, {id})
    OBVIOUS
  <2>4. /\ DOMAIN left = DOMAIN groups \ {id}
        /\ IsAFunction(left)
        /\ \A k \in DOMAIN left : left[k] = groups[k]
    BY <2>3 DEF IsAFunction, Without, Restrict
  <2>5. left = GroupsOf(less)
    BY <1>1, <2>2, <2>4 DEF GroupsOf, IsAFunction
  <2>6. QED
    BY <2>1, <2>3, <2>5 DEF LeavesOnly
<1>4. \A g : Inhabitants(less, g) = Inhabitants(apps, g) \ {id}
  BY <1>1 DEF Inhabitants
<1>5. Alone(less) = Alone(apps) \ {ForNotification(id)}
  BY <1>4, KeysDiffer DEF Alone
<1>6. QED
  BY <1>1, <1>2, <1>3, <1>4, <1>5 DEF Lacks

\* A list of keys as it is without one of them.
LEMMA KeysTaken ==
    ASSUME NEW datas, datas \in Seq(Range(datas)), NEW key, NEW rest, rest = Removed(datas, key)
    PROVE  rest \in Seq(Range(rest)) /\ Range(rest) = Range(datas) \ {key}
<1>1. PICK T : T = Range(datas)
  OBVIOUS
<1>2. rest \in Seq(T \ {key}) /\ Range(rest) = Range(datas) \ {key}
  BY <1>1, RemovedFromList
<1>3. QED
  BY <1>1, <1>2

LEMMA SameShown ==
    ASSUME NEW f, NEW g, NEW datas, datas \in Seq(Range(datas)),
           \A key \in Range(datas) : f[key] = g[key]
    PROVE  Shown(f, datas) = Shown(g, datas)
<1>1. \A i \in DOMAIN datas : datas[i] \in Range(datas)
  BY DEF Range
<1>2. QED
  BY <1>1 DEF Shown

LEMMA AppRemovedAlone ==
    ASSUME NEW n, NEW apps, NEW contents, Follows(n, apps, contents),
           NEW id, id \in DOMAIN apps => apps[id].group = NoGroup,
           NEW less, LeavesOnly(less, apps, id)
    PROVE  Follows(IndicatorRemoves(n, id), less, contents)
<1>1. PICK members, dataFor, datas :
           /\ n = SinkOf(GroupsOf(apps), members, dataFor, datas)
           /\ KnowsGroups(apps, contents, members)
           /\ KnowsData(apps, contents, members, dataFor)
           /\ KnowsDatas(apps, contents, datas)
  BY DEF Follows
<1>2. Fit(apps, contents)
  BY DEF Follows
<1>3. /\ Fit(less, contents)
      /\ LeavesOnly(GroupsOf(less), GroupsOf(apps), id)
      /\ \A g : Inhabitants(less, g) = Inhabitants(apps, g) \ {id}
      /\ Alone(less) = Alone(apps) \ {ForNotification(id)}
      /\ \A k \in DOMAIN less : less[k] = apps[k]
      /\ DOMAIN less = DOMAIN apps \ {id}
  <2>1. Lacks(less, apps, contents, id)
    BY <1>2, OneLess
  <2>2. QED
    BY <2>1 DEF Lacks
<1>4. DOMAIN members \subseteq Nat \ {0} /\ DOMAIN contents \subseteq DOMAIN members
  BY <1>1, Identifiers DEF KnowsGroups
<1>5. \A g \in DOMAIN members : Inhabitants(less, g) = Inhabitants(apps, g)
  BY <1>3, <1>4 DEF Inhabitants, NoGroup
<1>6. KnowsGroups(less, contents, members)
  BY <1>1, <1>5 DEF KnowsGroups
<1>7. PICK key : key = ForNotification(id)
  OBVIOUS
<1>8. /\ DOMAIN dataFor = Alone(apps) \cup {ForGroup(g) : g \in DOMAIN members}
      /\ \A g : ForGroup(g) # key
      /\ Range(datas) = Alone(apps) \cup
             {ForGroup(g) : g \in {h \in DOMAIN contents : Inhabitants(apps, h) # {}}}
      /\ datas \in Seq(Range(datas))
  BY <1>1, <1>7, KeysDiffer DEF KnowsData, KnowsDatas
<1>9. PICK rest : rest = IF key \in DOMAIN dataFor THEN Removed(datas, key) ELSE datas
  OBVIOUS
<1>10. rest \in Seq(Range(rest)) /\ Range(rest) = Range(datas) \ {key}
  <2>1. CASE key \in DOMAIN dataFor
    BY <1>8, <1>9, <2>1, KeysTaken
  <2>2. CASE key \notin DOMAIN dataFor
    <3>1. key \notin Range(datas)
      BY <1>8, <2>2
    <3>2. QED
      BY <1>8, <1>9, <2>2, <3>1
  <2>3. QED
    BY <2>1, <2>2
<1>11. KnowsDatas(less, contents, rest)
  <2>1. {ForGroup(g) : g \in {h \in DOMAIN contents : Inhabitants(less, h) # {}}} =
        {ForGroup(g) : g \in {h \in DOMAIN contents : Inhabitants(apps, h) # {}}}
    BY <1>4, <1>5
  <2>2. QED
    BY <1>3, <1>7, <1>8, <1>10, <2>1 DEF KnowsDatas
<1>12. PICK f : f = Without(dataFor, {key})
  OBVIOUS
<1>13. /\ DOMAIN f = DOMAIN dataFor \ {key}
       /\ IsAFunction(f)
       /\ \A k \in DOMAIN f : f[k] = dataFor[k]
  <2>1. LeavesOnly(f, dataFor, key)
    BY <1>12 DEF LeavesOnly
  <2>2. QED
    BY <2>1 DEF LeavesOnly, IsAFunction, Without, Restrict
<1>14. KnowsData(less, contents, members, f)
  <2>1. DOMAIN f = Alone(less) \cup {ForGroup(g) : g \in DOMAIN members}
    BY <1>3, <1>7, <1>8, <1>13
  <2>2. ASSUME NEW k \in Inhabitants(less, NoGroup)
        PROVE  f[ForNotification(k)] = Data(less[k].content)
    <3>1. ForNotification(k) \in DOMAIN f
      BY <2>1 DEF Alone
    <3>2. k \in Inhabitants(apps, NoGroup) /\ less[k] = apps[k]
      BY <1>3 DEF Inhabitants
    <3>3. QED
      BY <1>1, <1>13, <3>1, <3>2 DEF KnowsData
  <2>3. ASSUME NEW g \in DOMAIN contents
        PROVE  f[ForGroup(g)] = Data(contents[g])
    <3>1. ForGroup(g) \in DOMAIN f
      BY <1>4, <2>1
    <3>2. QED
      BY <1>1, <1>13, <3>1 DEF KnowsData
  <2>4. QED
    BY <1>13, <2>1, <2>2, <2>3 DEF KnowsData, IsAFunction
<1>15. IndicatorRemoves(n, id) = SinkOf(GroupsOf(less), members, f, rest)
  <2>1. PICK iconId : /\ n = SinkWith(GroupsOf(apps), members, dataFor, datas, iconId)
                      /\ iconId = MostImportant(Shown(dataFor, datas))
    BY <1>1 DEF SinkOf
  <2>2. PICK icon2 : icon2 = MostImportant(Shown(dataFor, rest))
    OBVIOUS
  <2>3. TakenFromDatas(n, key) = SinkWith(GroupsOf(apps), members, dataFor, rest, icon2)
    BY <1>9, <2>1, <2>2, DataTaken DEF SinkOf
  <2>4. icon2 = MostImportant(Shown(f, rest))
    <3>1. \A k \in Range(rest) : f[k] = dataFor[k]
      BY <1>1, <1>8, <1>10, <1>13, <1>4
    <3>2. QED
      BY <1>10, <2>2, <3>1, SameShown
  <2>5. n.groupForNotification = GroupsOf(apps) /\ n.notificationsForGroup = members
    BY <2>1 DEF SinkWith
  <2>6. ~(id \in DOMAIN GroupsOf(apps) /\ GroupsOf(apps)[id] \in DOMAIN members)
    BY <1>4 DEF GroupsOf, NoGroup
  <2>7. PICK taken : taken = TakenFromDatas(n, key)
    OBVIOUS
  <2>8. IndicatorRemoves(n, id) =
            [[taken EXCEPT !.dataFor = Without(@, {key})]
                 EXCEPT !.groupForNotification = Without(@, {id})]
    BY <1>7, <2>5, <2>6, <2>7 DEF IndicatorRemoves, RemoveStandaloneNotification
  <2>9. taken.dataFor = dataFor /\ taken = SinkWith(GroupsOf(apps), members, dataFor, rest, icon2)
    BY <2>3, <2>7 DEF SinkWith
  <2>10. PICK u : u = SinkWith(GroupsOf(apps), members, f, rest, icon2)
    OBVIOUS
  <2>11. [taken EXCEPT !.dataFor = f] = u /\ u.groupForNotification = GroupsOf(apps)
    BY <2>9, <2>10 DEF SinkWith
  <2>12. [taken EXCEPT !.dataFor = Without(@, {key})] = u
    BY <1>12, <2>9, <2>11
  <2>13. [u EXCEPT !.groupForNotification = GroupsOf(less)] =
             SinkWith(GroupsOf(less), members, f, rest, icon2)
    BY <2>10 DEF SinkWith
  <2>14. IndicatorRemoves(n, id) = [u EXCEPT !.groupForNotification = Without(@, {id})]
    BY <2>8, <2>12
  <2>15. IndicatorRemoves(n, id) = SinkWith(GroupsOf(less), members, f, rest, icon2)
    BY <1>3, <2>11, <2>13, <2>14 DEF LeavesOnly
  <2>16. QED
    BY <2>4, <2>15 DEF SinkOf
<1>16. QED
  BY <1>3, <1>6, <1>11, <1>14, <1>15 DEF Follows

LEMMA AppRemovedFromGroup ==
    ASSUME NEW n, NEW apps, NEW contents, Follows(n, apps, contents),
           NEW id \in DOMAIN apps, apps[id].group # NoGroup,
           NEW less, LeavesOnly(less, apps, id)
    PROVE  Follows(IndicatorRemoves(n, id), less, contents)
<1>1. PICK members, dataFor, datas :
           /\ n = SinkOf(GroupsOf(apps), members, dataFor, datas)
           /\ KnowsGroups(apps, contents, members)
           /\ KnowsData(apps, contents, members, dataFor)
           /\ KnowsDatas(apps, contents, datas)
  BY DEF Follows
<1>2. Fit(apps, contents)
  BY DEF Follows
<1>3. /\ Fit(less, contents)
      /\ LeavesOnly(GroupsOf(less), GroupsOf(apps), id)
      /\ \A g : Inhabitants(less, g) = Inhabitants(apps, g) \ {id}
      /\ Alone(less) = Alone(apps) \ {ForNotification(id)}
      /\ \A k \in DOMAIN less : less[k] = apps[k]
      /\ DOMAIN less = DOMAIN apps \ {id}
  <2>1. Lacks(less, apps, contents, id)
    BY <1>2, OneLess
  <2>2. QED
    BY <2>1 DEF Lacks
<1>4. PICK group : group = apps[id].group
  OBVIOUS
<1>5. /\ group \in DOMAIN contents /\ group \in DOMAIN members
      /\ DOMAIN contents \subseteq DOMAIN members
      /\ members[group] = Inhabitants(apps, group)
  BY <1>1, <1>2, <1>4 DEF Fit, KnowsGroups
<1>6. \A g : g # group => Inhabitants(less, g) = Inhabitants(apps, g)
  BY <1>3, <1>4 DEF Inhabitants
<1>7. Alone(less) = Alone(apps)
  BY <1>4, <1>6 DEF Alone
<1>8. PICK all : all = [members EXCEPT ![group] = @ \ {id}]
  OBVIOUS
<1>9. DOMAIN all = DOMAIN members /\ all[group] = Inhabitants(less, group)
  BY <1>3, <1>5, <1>8
<1>10. KnowsGroups(less, contents, all)
  <2>1. ASSUME NEW g \in DOMAIN members
        PROVE  all[g] = Inhabitants(less, g)
    <3>1. CASE g = group
      BY <1>9, <3>1
    <3>2. CASE g # group
      <4>1. all[g] = members[g]
        BY <1>8, <3>2
      <4>2. members[g] = Inhabitants(apps, g)
        BY <1>1 DEF KnowsGroups
      <4>3. QED
        BY <1>6, <3>2, <4>1, <4>2
    <3>3. QED
      BY <3>1, <3>2
  <2>2. all = [g \in DOMAIN members |-> all[g]]
    BY <1>8
  <2>3. QED
    BY <1>1, <1>9, <2>1, <2>2 DEF KnowsGroups
<1>11. KnowsData(less, contents, all, dataFor)
  <2>1. \A k \in Inhabitants(less, NoGroup) : k \in Inhabitants(apps, NoGroup) /\ less[k] = apps[k]
    BY <1>3 DEF Inhabitants
  <2>2. QED
    BY <1>1, <1>7, <1>9, <2>1 DEF KnowsData
<1>12. PICK key : key = ForGroup(group)
  OBVIOUS
<1>13. /\ DOMAIN dataFor = Alone(apps) \cup {ForGroup(g) : g \in DOMAIN members}
       /\ key \in DOMAIN dataFor
       /\ key \notin Alone(apps)
       /\ Range(datas) = Alone(apps) \cup
              {ForGroup(g) : g \in {h \in DOMAIN contents : Inhabitants(apps, h) # {}}}
       /\ datas \in Seq(Range(datas))
  BY <1>1, <1>5, <1>12, KeysDiffer DEF KnowsData, KnowsDatas, Alone
<1>14. PICK rest : rest = IF Inhabitants(less, group) = {} THEN Removed(datas, key) ELSE datas
  OBVIOUS
<1>15. KnowsDatas(less, contents, rest)
  <2>1. DOMAIN contents \ {group} \subseteq DOMAIN contents
    OBVIOUS
  <2>2. CASE Inhabitants(less, group) = {}
    <3>1. rest \in Seq(Range(rest)) /\ Range(rest) = Range(datas) \ {key}
      BY <1>13, <1>14, <2>2, KeysTaken
    <3>2. {h \in DOMAIN contents : Inhabitants(less, h) # {}} =
          {h \in DOMAIN contents : Inhabitants(apps, h) # {}} \ {group}
      BY <1>6, <2>2
    <3>3. {ForGroup(g) : g \in {h \in DOMAIN contents : Inhabitants(less, h) # {}}} =
          {ForGroup(g) : g \in {h \in DOMAIN contents : Inhabitants(apps, h) # {}}} \ {key}
      BY <1>12, <3>2, KeysDiffer
    <3>4. QED
      BY <1>7, <1>13, <3>1, <3>3 DEF KnowsDatas
  <2>3. CASE Inhabitants(less, group) # {}
    <3>1. Inhabitants(apps, group) # {}
      BY <1>3, <2>3
    <3>2. {h \in DOMAIN contents : Inhabitants(less, h) # {}} =
          {h \in DOMAIN contents : Inhabitants(apps, h) # {}}
      BY <1>6, <2>3, <3>1
    <3>3. QED
      BY <1>7, <1>13, <1>14, <2>3, <3>2 DEF KnowsDatas
  <2>4. QED
    BY <2>2, <2>3
<1>16. IndicatorRemoves(n, id) = SinkOf(GroupsOf(less), all, dataFor, rest)
  <2>1. PICK iconId : /\ n = SinkWith(GroupsOf(apps), members, dataFor, datas, iconId)
                      /\ iconId = MostImportant(Shown(dataFor, datas))
    BY <1>1 DEF SinkOf
  <2>2. n.groupForNotification = GroupsOf(apps) /\ n.notificationsForGroup = members
    BY <2>1 DEF SinkWith
  <2>3. id \in DOMAIN GroupsOf(apps) /\ GroupsOf(apps)[id] = group /\ group \in DOMAIN members
    BY <1>4, <1>5 DEF GroupsOf
  <2>4. IndicatorRemoves(n, id) =
            [RemoveFromIndicatorGroup(n, id, group) EXCEPT !.groupForNotification = Without(@, {id})]
    BY <2>2, <2>3 DEF IndicatorRemoves
  <2>5. PICK left : left = SinkWith(GroupsOf(apps), all, dataFor, datas, iconId)
    OBVIOUS
  <2>6. [n EXCEPT !.notificationsForGroup[group] = @ \ {id}] = left
    <3>1. [n EXCEPT !.notificationsForGroup = all] = left
      BY <2>1, <2>5 DEF SinkWith
    <3>2. [n EXCEPT !.notificationsForGroup[group] = @ \ {id}] = [n EXCEPT !.notificationsForGroup = all]
      BY <1>8, <2>1, <2>2 DEF SinkWith
    <3>3. QED
      BY <3>1, <3>2
  <2>7. left.notificationsForGroup[group] = Inhabitants(less, group)
    BY <1>9, <2>5 DEF SinkWith
  <2>8. RemoveFromIndicatorGroup(n, id, group) =
            IF Inhabitants(less, group) = {} THEN TakenFromDatas(left, key) ELSE left
    BY <1>12, <2>6, <2>7 DEF RemoveFromIndicatorGroup
  <2>9. PICK icon2 : icon2 = MostImportant(Shown(dataFor, rest))
    OBVIOUS
  <2>10. RemoveFromIndicatorGroup(n, id, group) = SinkWith(GroupsOf(apps), all, dataFor, rest, icon2)
    <3>1. CASE Inhabitants(less, group) = {}
      BY <1>13, <1>14, <2>5, <2>8, <2>9, <3>1, DataTaken DEF SinkOf
    <3>2. CASE Inhabitants(less, group) # {}
      BY <1>14, <2>1, <2>5, <2>8, <2>9, <3>2
    <3>3. QED
      BY <3>1, <3>2
  <2>11. PICK u : u = SinkWith(GroupsOf(apps), all, dataFor, rest, icon2)
    OBVIOUS
  <2>12. /\ u.groupForNotification = GroupsOf(apps)
         /\ [u EXCEPT !.groupForNotification = GroupsOf(less)] =
                SinkWith(GroupsOf(less), all, dataFor, rest, icon2)
    BY <2>11 DEF SinkWith
  <2>13. IndicatorRemoves(n, id) = SinkWith(GroupsOf(less), all, dataFor, rest, icon2)
    BY <1>3, <2>4, <2>10, <2>11, <2>12 DEF LeavesOnly
  <2>14. QED
    BY <2>9, <2>13 DEF SinkOf
<1>17. QED
  BY <1>3, <1>10, <1>11, <1>15, <1>16 DEF Follows

LEMMA AppRemoved ==
    ASSUME NEW n, NEW apps, NEW contents, Follows(n, apps, contents), NEW id
    PROVE  Follows(IndicatorRemoves(n, id), Without(apps, {id}), contents)
<1>1. PICK less : less = Without(apps, {id})
  OBVIOUS
<1>2. LeavesOnly(less, apps, id)
  BY <1>1 DEF LeavesOnly
<1>3. CASE id \in DOMAIN apps /\ apps[id].group # NoGroup
  BY <1>1, <1>2, <1>3, AppRemovedFromGroup
<1>4. CASE id \in DOMAIN apps => apps[id].group = NoGroup
  BY <1>1, <1>2, <1>4, AppRemovedAlone
<1>5. QED
  BY <1>3, <1>4

LEMMA GroupContentFollows ==
    ASSUME NEW n, NEW apps, NEW contents, Follows(n, apps, contents), NEW group \in GroupIds,
           NEW content, NEW now, DOMAIN now = DOMAIN contents \cup {group}, now[group] = content,
           \A g \in DOMAIN contents \ {group} : now[g] = contents[g]
    PROVE  Follows(IndicatorAddsGroup(n, group, content), apps, now)
<1>1. PICK members, dataFor, datas :
           /\ n = SinkOf(GroupsOf(apps), members, dataFor, datas)
           /\ KnowsGroups(apps, contents, members)
           /\ KnowsData(apps, contents, members, dataFor)
           /\ KnowsDatas(apps, contents, datas)
  BY DEF Follows
<1>2. Fit(apps, contents)
  BY DEF Follows
<1>3. Fit(apps, now)
  BY <1>2 DEF Fit
<1>4. group \notin DOMAIN contents => Inhabitants(apps, group) = {}
  <2>1. group # NoGroup
    BY Identifiers DEF NoGroup
  <2>2. QED
    BY <1>2, <2>1 DEF Fit, Inhabitants
<1>5. KnowsDatas(apps, now, datas)
  <2>1. {h \in DOMAIN now : Inhabitants(apps, h) # {}} = {h \in DOMAIN contents : Inhabitants(apps, h) # {}}
    BY <1>4
  <2>2. QED
    BY <1>1, <2>1 DEF KnowsDatas
<1>6. PICK key : key = ForGroup(group)
  OBVIOUS
<1>7. /\ DOMAIN dataFor = Alone(apps) \cup {ForGroup(g) : g \in DOMAIN members}
      /\ key \in DOMAIN dataFor <=> group \in DOMAIN members
      /\ key \notin Alone(apps) /\ \A id : ForNotification(id) # key
      /\ \A g : ForGroup(g) = key => g = group
      /\ DOMAIN contents \subseteq DOMAIN members /\ DOMAIN members \subseteq GroupIds
      /\ members = [g \in DOMAIN members |-> Inhabitants(apps, g)]
  BY <1>1, <1>6, KeysDiffer DEF KnowsData, KnowsGroups, Alone
<1>8. PICK f : f = IF group \in DOMAIN members THEN [dataFor EXCEPT ![key] = Data(content)]
                   ELSE With(dataFor, key, Data(content))
  OBVIOUS
<1>9. /\ DOMAIN f = DOMAIN dataFor \cup {key} /\ f[key] = Data(content)
      /\ f = [k \in DOMAIN f |-> f[k]]
      /\ \A k \in DOMAIN dataFor \ {key} : f[k] = dataFor[k]
  BY <1>7, <1>8 DEF With
<1>10. PICK all : all = IF group \in DOMAIN members THEN members ELSE With(members, group, {})
  OBVIOUS
<1>11. DOMAIN all = DOMAIN members \cup {group} /\ all = [g \in DOMAIN all |-> Inhabitants(apps, g)]
  <2>1. CASE group \in DOMAIN members
    BY <1>7, <1>10, <2>1
  <2>2. CASE group \notin DOMAIN members
    <3>1. Inhabitants(apps, group) = {}
      BY <1>4, <1>7, <2>2
    <3>2. DOMAIN all = DOMAIN members \cup {group} /\ all = [g \in DOMAIN all |-> all[g]]
      BY <1>10, <2>2 DEF With
    <3>3. \A g \in DOMAIN members : all[g] = Inhabitants(apps, g)
      BY <1>7, <1>10, <2>2 DEF With
    <3>4. all[group] = {}
      BY <1>10, <2>2 DEF With
    <3>5. QED
      BY <3>1, <3>2, <3>3, <3>4
  <2>3. QED
    BY <2>1, <2>2
<1>12. KnowsGroups(apps, now, all)
  BY <1>7, <1>11 DEF KnowsGroups
<1>13. KnowsData(apps, now, all, f)
  <2>1. DOMAIN f = Alone(apps) \cup {ForGroup(g) : g \in DOMAIN all}
    BY <1>6, <1>7, <1>9, <1>11
  <2>2. ASSUME NEW id \in Inhabitants(apps, NoGroup)
        PROVE  f[ForNotification(id)] = Data(apps[id].content)
    <3>1. ForNotification(id) \in DOMAIN dataFor \ {key}
      BY <1>7 DEF Alone
    <3>2. dataFor[ForNotification(id)] = Data(apps[id].content)
      BY <1>1 DEF KnowsData
    <3>3. QED
      BY <1>9, <3>1, <3>2
  <2>3. ASSUME NEW g \in DOMAIN now
        PROVE  f[ForGroup(g)] = Data(now[g])
    <3>1. CASE g = group
      BY <1>6, <1>9, <3>1
    <3>2. CASE g # group
      <4>1. g \in DOMAIN contents /\ now[g] = contents[g]
        BY <3>2
      <4>2. ForGroup(g) \in DOMAIN dataFor \ {key}
        BY <1>7, <3>2, <4>1
      <4>3. dataFor[ForGroup(g)] = Data(contents[g])
        BY <1>1, <4>1 DEF KnowsData
      <4>4. QED
        BY <1>9, <4>1, <4>2, <4>3
    <3>3. QED
      BY <3>1, <3>2
  <2>4. QED
    BY <1>9, <2>1, <2>2, <2>3 DEF KnowsData
<1>14. IndicatorAddsGroup(n, group, content) = SinkOf(GroupsOf(apps), all, f, datas)
  <2>1. PICK iconId : /\ n = SinkWith(GroupsOf(apps), members, dataFor, datas, iconId)
                      /\ iconId = MostImportant(Shown(dataFor, datas))
    BY <1>1 DEF SinkOf
  <2>2. n.notificationsForGroup = members
    BY <2>1 DEF SinkWith
  <2>3. CASE group \in DOMAIN members
    <3>1. key \in DOMAIN dataFor /\ DataBecomes(f, dataFor, key, content)
      BY <1>7, <1>8, <2>3 DEF DataBecomes
    <3>2. UpdateData(SinkOf(GroupsOf(apps), members, dataFor, datas), key, content) =
              SinkOf(GroupsOf(apps), members, f, datas)
      BY <3>1, DataKnown
    <3>3. QED
      BY <1>1, <1>6, <1>10, <2>2, <2>3, <3>2 DEF IndicatorAddsGroup
  <2>4. CASE group \notin DOMAIN members
    <3>1. UpdateData(SinkOf(GroupsOf(apps), members, dataFor, datas), key, content) =
              SinkOf(GroupsOf(apps), members, dataFor, datas)
      BY <1>7, <2>4, DataUnknown
    <3>2. UpdateData(n, key, content) = n
      BY <1>1, <3>1
    <3>3. PICK u : u = [n EXCEPT !.notificationsForGroup = all, !.dataFor = f]
      OBVIOUS
    <3>4. n.dataFor = dataFor /\ u = SinkWith(GroupsOf(apps), all, f, datas, iconId)
      BY <2>1, <3>3 DEF SinkWith
    <3>5. [n EXCEPT !.notificationsForGroup = With(@, group, {}),
                    !.dataFor = With(@, key, Data(content))] = u
      BY <1>8, <1>10, <2>2, <2>4, <3>3, <3>4
    <3>6. IndicatorAddsGroup(n, group, content) = u
      BY <1>6, <2>2, <2>4, <3>2, <3>5 DEF IndicatorAddsGroup
    <3>7. Shown(f, datas) = Shown(dataFor, datas)
      <4>1. \A k \in Range(datas) : k \in DOMAIN dataFor \ {key}
        BY <1>1, <1>7, <2>4 DEF KnowsDatas
      <4>2. \A k \in Range(datas) : f[k] = dataFor[k]
        BY <1>9, <4>1
      <4>3. datas \in Seq(Range(datas))
        BY <1>1 DEF KnowsDatas
      <4>4. QED
        BY <4>2, <4>3, SameShown
    <3>8. QED
      BY <2>1, <3>4, <3>6, <3>7 DEF SinkOf
  <2>5. QED
    BY <2>3, <2>4
<1>15. QED
  BY <1>3, <1>5, <1>12, <1>13, <1>14 DEF Follows

\* The sink hears nothing of it that a group goes, when nothing is in the group.
LEMMA GroupGoneFollows ==
    ASSUME NEW n, NEW apps, NEW contents, Follows(n, apps, contents), NEW now,
           DOMAIN now \subseteq DOMAIN contents, Fit(apps, now),
           \A g \in DOMAIN now : now[g] = contents[g]
    PROVE  Follows(n, apps, now)
<1>1. PICK members, dataFor, datas :
           /\ n = SinkOf(GroupsOf(apps), members, dataFor, datas)
           /\ KnowsGroups(apps, contents, members)
           /\ KnowsData(apps, contents, members, dataFor)
           /\ KnowsDatas(apps, contents, datas)
  BY DEF Follows
<1>2. KnowsGroups(apps, now, members) /\ KnowsData(apps, now, members, dataFor)
  BY <1>1 DEF KnowsGroups, KnowsData
<1>3. {h \in DOMAIN now : Inhabitants(apps, h) # {}} = {h \in DOMAIN contents : Inhabitants(apps, h) # {}}
  <2>1. Fit(apps, contents)
    BY DEF Follows
  <2>2. ASSUME NEW h \in DOMAIN contents, Inhabitants(apps, h) # {}
        PROVE  h \in DOMAIN now
    <3>1. h # NoGroup
      BY <2>1, Identifiers DEF Fit, NoGroup
    <3>2. QED
      BY <2>2, <3>1 DEF Fit, Inhabitants
  <2>3. QED
    BY <2>2
<1>4. KnowsDatas(apps, now, datas)
  BY <1>1, <1>3 DEF KnowsDatas
<1>5. QED
  BY <1>1, <1>2, <1>4 DEF Follows

-----------------------------------------------------------------------------
(* What is heard.                                                          *)

LEMMA HearsEach ==
    ASSUME NEW n, NEW id, NEW x
    PROVE  /\ IndicatorHears(n, NotificationUpdated(id, x)) = IndicatorAdds(n, id, x.group, x.content)
           /\ IndicatorHears(n, NotificationRestored(id, x)) = IndicatorAdds(n, id, x.group, x.content)
           /\ IndicatorHears(n, NotificationRemoved(id)) = IndicatorRemoves(n, id)
           /\ IndicatorHears(n, GroupUpdated(id, x)) = IndicatorAddsGroup(n, id, x)
           /\ IndicatorHears(n, GroupRemoved(id)) = n
<1>1. PICK s : s = NotificationUpdated(id, x)
  OBVIOUS
<1>2. s.signal = "notificationUpdated" /\ s.id = id /\ s.group = x.group /\ s.content = x.content
  BY <1>1 DEF NotificationUpdated
<1>3. IndicatorHears(n, s) = IndicatorAdds(n, id, x.group, x.content)
  BY <1>2 DEF IndicatorHears
<1>4. PICK r : r = NotificationRestored(id, x)
  OBVIOUS
<1>5. r.signal = "notificationRestored" /\ r.id = id /\ r.group = x.group /\ r.content = x.content
  BY <1>4 DEF NotificationRestored, NotificationUpdated
<1>6. IndicatorHears(n, r) = IndicatorAdds(n, id, x.group, x.content)
  BY <1>5 DEF IndicatorHears
<1>7. PICK gone : gone = NotificationRemoved(id)
  OBVIOUS
<1>8. gone.signal = "notificationRemoved" /\ gone.id = id
  BY <1>7 DEF NotificationRemoved
<1>9. IndicatorHears(n, gone) = IndicatorRemoves(n, id)
  BY <1>8 DEF IndicatorHears
<1>10. PICK g : g = GroupUpdated(id, x)
  OBVIOUS
<1>11. g.signal = "groupUpdated" /\ g.id = id /\ g.content = x
  BY <1>10 DEF GroupUpdated
<1>12. IndicatorHears(n, g) = IndicatorAddsGroup(n, id, x)
  BY <1>11 DEF IndicatorHears
<1>13. PICK h : h = GroupRemoved(id)
  OBVIOUS
<1>14. h.signal = "groupRemoved"
  BY <1>13 DEF GroupRemoved
<1>15. IndicatorHears(n, h) = n
  BY <1>14 DEF IndicatorHears
<1>16. QED
  BY <1>1, <1>3, <1>4, <1>6, <1>7, <1>9, <1>10, <1>12, <1>13, <1>15

LEMMA HearsFew ==
    ASSUME NEW n, NEW s
    PROVE  /\ AfterAll(IndicatorHears, n, <<>>) = n
           /\ AfterAll(IndicatorHears, n, <<s>>) = IndicatorHears(n, s)
<1>1. AfterAll(IndicatorHears, n, <<>>) = n
  <2>1. PICK signals : signals = <<>>
    OBVIOUS
  <2>2. Len(signals) = 0 /\ Len(signals) \in Nat
    BY <2>1
  <2>3. PICK after : HearsInTurn(after, n, signals)
    BY <2>2, IndicatorHearsAll, Zenon
  <2>4. QED
    BY <2>1, <2>2, <2>3 DEF HearsInTurn
<1>2. AfterAll(IndicatorHears, n, <<s>>) = IndicatorHears(n, s)
  <2>1. PICK signals : signals = <<s>>
    OBVIOUS
  <2>2. Len(signals) = 1 /\ Len(signals) \in Nat /\ signals[1] = s
    BY <2>1
  <2>3. PICK after : HearsInTurn(after, n, signals)
    BY <2>2, IndicatorHearsAll, Zenon
  <2>4. 1 \in 1..Len(signals) /\ 1 - 1 = 0
    BY <2>2
  <2>5. after[1] = IndicatorHears(after[1 - 1], signals[1])
    BY <2>3, <2>4 DEF HearsInTurn
  <2>6. after[1] = IndicatorHears(n, s)
    BY <2>2, <2>3, <2>4, <2>5 DEF HearsInTurn
  <2>7. QED
    BY <2>1, <2>2, <2>3, <2>6 DEF HearsInTurn
<1>3. QED
  BY <1>1, <1>2

LEMMA HearsOne ==
    ASSUME NEW n, NEW id, NEW x
    PROVE  /\ AfterAll(IndicatorHears, n, <<NotificationUpdated(id, x)>>) = IndicatorAdds(n, id, x.group, x.content)
           /\ AfterAll(IndicatorHears, n, <<GroupUpdated(id, x)>>) = IndicatorAddsGroup(n, id, x)
<1>1. PICK s, g : s = NotificationUpdated(id, x) /\ g = GroupUpdated(id, x)
  OBVIOUS
<1>2. IndicatorHears(n, s) = IndicatorAdds(n, id, x.group, x.content)
  BY <1>1, HearsEach
<1>3. IndicatorHears(n, g) = IndicatorAddsGroup(n, id, x)
  BY <1>1, HearsEach
<1>4. AfterAll(IndicatorHears, n, <<s>>) = IndicatorHears(n, s)
  BY HearsFew, Zenon
<1>5. AfterAll(IndicatorHears, n, <<g>>) = IndicatorHears(n, g)
  BY HearsFew, Zenon
<1>6. QED
  BY <1>1, <1>2, <1>3, <1>4, <1>5, Zenon

Rest(apps, gone) == [k \in DOMAIN apps \ gone |-> apps[k]]

LEMMA RestWithout ==
    ASSUME NEW apps, NEW gone, NEW id
    PROVE  Without(Rest(apps, gone), {id}) = Rest(apps, gone \cup {id})
<1>1. PICK rest : rest = Rest(apps, gone)
  OBVIOUS
<1>2. DOMAIN rest = DOMAIN apps \ gone /\ \A k \in DOMAIN rest : rest[k] = apps[k]
  BY <1>1 DEF Rest
<1>3. PICK less : less = Without(rest, {id})
  OBVIOUS
<1>4. LeavesOnly(less, rest, id)
  BY <1>3 DEF LeavesOnly
<1>5. DOMAIN less = DOMAIN rest \ {id} /\ IsAFunction(less) /\ \A k \in DOMAIN less : less[k] = rest[k]
  BY <1>4 DEF LeavesOnly, IsAFunction, Without, Restrict
<1>6. less = Rest(apps, gone \cup {id})
  BY <1>2, <1>5 DEF Rest, IsAFunction
<1>7. QED
  BY <1>1, <1>3, <1>6

\* The sink follows as it hears of one removal after the other.
LEMMA RemovalsFollow ==
    ASSUME NEW apps, NEW contents, NEW heard, heard \subseteq Int, IsFiniteSet(heard),
           NEW signals, Len(signals) \in Nat, Cardinality(heard) <= Len(signals),
           \A i \in 1..Cardinality(heard) : signals[i] = NotificationRemoved(Nth(heard, i)),
           NEW after, Follows(after[0], Rest(apps, {}), contents),
           \A i \in 1..Len(signals) : after[i] = IndicatorHears(after[i - 1], signals[i])
    PROVE  Follows(after[Cardinality(heard)], Rest(apps, heard), contents)
<1> DEFINE n == Cardinality(heard)
           Gone(i) == {Nth(heard, j) : j \in 1..i}
           T == {i \in 0..n : ~Follows(after[i], Rest(apps, Gone(i)), contents)}
<1>1. n \in Nat /\ \A i \in 1..n : Nth(heard, i) \in heard
  BY Numbered
<1>2. heard = Gone(n)
  <2>1. \A x \in heard : \E i \in 1..n : Nth(heard, i) = x
    BY Numbered
  <2>2. QED
    BY <1>1, <2>1
<1>3. T = {}
  <2> SUFFICES ASSUME T # {} PROVE FALSE
    OBVIOUS
  <2>1. T \subseteq Nat
    BY <1>1
  <2> HIDE DEF T
  <2>2. PICK i \in T : \A k \in T : i <= k
    BY <2>1, LeastExists
  <2> USE DEF T
  <2>3. i \in 0..n /\ ~Follows(after[i], Rest(apps, Gone(i)), contents)
    BY <2>2
  <2>4. i # 0
    <3>1. 1..0 = {}
      OBVIOUS
    <3>2. Gone(0) = {}
      BY <3>1
    <3>3. QED
      BY <2>3, <3>2
  <2>5. i - 1 \in 0..n /\ i - 1 \notin T
    <3> HIDE DEF T
    <3>1. i - 1 \in 0..n /\ ~(i <= i - 1)
      BY <1>1, <2>3, <2>4
    <3>2. QED
      BY <2>2, <3>1
  <2>6. Follows(after[i - 1], Rest(apps, Gone(i - 1)), contents)
    BY <2>5
  <2>7. i \in 1..n /\ i \in 1..Len(signals)
    BY <1>1, <2>3, <2>4
  <2>8. PICK id : id = Nth(heard, i)
    OBVIOUS
  <2>9. after[i] = IndicatorRemoves(after[i - 1], id)
    <3>1. after[i] = IndicatorHears(after[i - 1], NotificationRemoved(id))
      BY <2>7, <2>8
    <3>2. QED
      BY <3>1, HearsEach
  <2>10. Gone(i) = Gone(i - 1) \cup {id}
    <3>1. 1..i = 1..(i - 1) \cup {i}
      BY <2>7
    <3>2. QED
      BY <2>8, <3>1
  <2> HIDE DEF Gone, T
  <2>11. Follows(after[i], Without(Rest(apps, Gone(i - 1)), {id}), contents)
    BY <2>6, <2>9, AppRemoved
  <2>12. PICK gone : gone = Gone(i - 1)
    OBVIOUS
  <2>13. Without(Rest(apps, gone), {id}) = Rest(apps, gone \cup {id})
    BY RestWithout, Zenon
  <2>14. QED
    BY <2>3, <2>10, <2>11, <2>12, <2>13
<1>4. n \in 0..n
  BY <1>1
<1>5. Follows(after[n], Rest(apps, Gone(n)), contents)
  BY <1>3, <1>4
<1>6. QED
  BY <1>2, <1>5

\* The containers of the manager: each notification is in a group that there is.
ContainersFit ==
    /\ ManagedType
    /\ DOMAIN managedGroups \subseteq GroupIds
    /\ \A g \in DOMAIN managedGroups : managedGroups[g] \in Contents
    /\ \A id \in DOMAIN managed : managed[id].group \in DOMAIN managedGroups \cup {NoGroup}

IconInv == ContainersFit /\ Follows(indicator, Apps, managedGroups)

LEMMA AppsOfManaged ==
    /\ DOMAIN Apps = RelayedApplications
    /\ \A id \in RelayedApplications : Apps[id] = managed[id]
    /\ ContainersFit => Fit(Apps, managedGroups)
BY DEF Apps, RelayedApplications, ContainersFit, Fit, ManagedType

LEMMA AppsOfManagedNext ==
    /\ DOMAIN Apps' = RelayedApplications'
    /\ \A id \in RelayedApplications' : Apps'[id] = managed'[id]
    /\ ContainersFit' => Fit(Apps', managedGroups')
BY DEF Apps, RelayedApplications, ContainersFit, Fit, ManagedType

\* A notification, id, comes or changes, and is note then.
Stored(id, note) ==
    /\ DOMAIN managed' = DOMAIN managed \cup {id} /\ managed'[id] = note
    /\ \A k \in DOMAIN managed \ {id} : managed'[k] = managed[k]
    /\ managedGroups' = managedGroups

LEMMA StoredFits ==
    ASSUME ContainersFit, NEW id \in NotificationIds, NEW note \in Notes, Stored(id, note),
           note.group \in DOMAIN managedGroups \cup {NoGroup}
    PROVE  ContainersFit'
BY DEF ContainersFit, ManagedType, Stored

\* It is not signalled, for it waits or was dropped.
LEMMA UnheardApps ==
    ASSUME NEW id, NEW note, Stored(id, note), note.relayed # "yes",
           id \in DOMAIN managed => managed[id].relayed # "yes"
    PROVE  Apps' = Apps
<1>1. RelayedApplications' = RelayedApplications
  BY DEF RelayedApplications, Stored
<1>2. \A k \in RelayedApplications : managed'[k] = managed[k]
  BY DEF RelayedApplications, Stored
<1>3. QED
  BY <1>1, <1>2 DEF Apps

LEMMA StoredUnheard ==
    ASSUME IconInv, NEW id \in NotificationIds, NEW note \in Notes, Stored(id, note),
           note.group \in DOMAIN managedGroups \cup {NoGroup}, note.relayed # "yes",
           id \in DOMAIN managed => managed[id].relayed # "yes",
           indicator' = indicator
    PROVE  IconInv'
<1>1. ContainersFit'
  BY StoredFits DEF IconInv
<1>2. Apps' = Apps
  BY UnheardApps
<1>3. managedGroups' = managedGroups
  BY DEF Stored
<1>4. QED
  BY <1>1, <1>2, <1>3 DEF IconInv

\* It is signalled.
LEMMA HeardApps ==
    ASSUME NEW id, NEW note, Stored(id, note), note.relayed = "yes",
           id \in DOMAIN managed => managed[id].content.type = note.content.type
    PROVE  IF note.content.type = "application" THEN Becomes(Apps, Apps', id, note.group, note.content)
           ELSE Apps' = Apps
<1>1. CASE note.content.type # "application"
  <2>1. RelayedApplications' = RelayedApplications
    BY <1>1 DEF RelayedApplications, Stored
  <2>2. \A k \in RelayedApplications : managed'[k] = managed[k]
    BY <1>1 DEF RelayedApplications, Stored
  <2>3. QED
    BY <1>1, <2>1, <2>2 DEF Apps
<1>2. CASE note.content.type = "application"
  <2>1. RelayedApplications' = RelayedApplications \cup {id}
    BY <1>2 DEF RelayedApplications, Stored
  <2>2. \A k \in RelayedApplications \ {id} : managed'[k] = managed[k]
    BY DEF RelayedApplications, Stored
  <2>3. managed'[id] = note
    BY DEF Stored
  <2>4. Becomes(Apps, Apps', id, note.group, note.content)
    BY <2>1, <2>2, <2>3, AppsOfManaged, AppsOfManagedNext DEF Becomes
  <2>5. QED
    BY <1>2, <2>4
<1>3. QED
  BY <1>1, <1>2

LEMMA StoredHeard ==
    ASSUME IconInv, NEW id \in NotificationIds, NEW note \in Notes, Stored(id, note),
           note.group \in DOMAIN managedGroups \cup {NoGroup}, note.relayed = "yes",
           id \in DOMAIN managed => managed[id].group = note.group
                                    /\ managed[id].content.type = note.content.type,
           indicator' = IndicatorAdds(indicator, id, note.group, note.content)
    PROVE  IconInv'
<1>1. ContainersFit'
  BY StoredFits DEF IconInv
<1>2. managedGroups' = managedGroups
  BY DEF Stored
<1>3. CASE note.content.type # "application"
  <2>1. indicator' = indicator
    BY <1>3 DEF IndicatorAdds
  <2>2. Apps' = Apps
    BY <1>3, HeardApps
  <2>3. QED
    BY <1>1, <1>2, <2>1, <2>2 DEF IconInv
<1>4. CASE note.content.type = "application"
  <2>1. Becomes(Apps, Apps', id, note.group, note.content)
    BY <1>4, HeardApps
  <2>2. PICK apps, more, content, group :
            /\ apps = Apps /\ more = Apps' /\ content = note.content /\ group = note.group
    OBVIOUS
  <2>3. Follows(indicator, apps, managedGroups) /\ content.type = "application"
    BY <1>4, <2>2 DEF IconInv
  <2>4. Follows(IndicatorAdds(indicator, id, group, content), more, managedGroups)
    <3>1. CASE id \in DOMAIN apps
      <4>1. apps[id] = managed[id] /\ id \in DOMAIN managed
        BY <2>2, <3>1, AppsOfManaged DEF RelayedApplications
      <4>2. apps[id].group = group
        BY <2>2, <4>1
      <4>3. Becomes(apps, more, id, apps[id].group, content)
        BY <2>1, <2>2, <4>2
      <4>4. QED
        BY <2>3, <3>1, <4>3, AppUpdated
    <3>2. CASE id \notin DOMAIN apps
      <4>1. id \in NotificationIds \ DOMAIN apps /\ Becomes(apps, more, id, group, content)
        BY <2>1, <2>2, <3>2
      <4>2. CASE group = NoGroup
        <5>1. Becomes(apps, more, id, NoGroup, content)
          BY <4>1, <4>2
        <5>2. Follows(IndicatorAdds(indicator, id, NoGroup, content), more, managedGroups)
          BY <2>3, <4>1, <5>1, AppAddedAlone
        <5>3. QED
          BY <4>2, <5>2
      <4>3. CASE group # NoGroup
        <5>1. group \in DOMAIN managedGroups
          BY <2>2, <4>3
        <5>2. QED
          BY <2>3, <4>1, <5>1, AppAddedToGroup
      <4>4. QED
        BY <4>2, <4>3
    <3>3. QED
      BY <3>1, <3>2
  <2>5. QED
    BY <1>1, <1>2, <2>2, <2>4 DEF IconInv
<1>5. QED
  BY <1>3, <1>4

\* Notifications go, and with them what was signalled of them.
LEMMA GoneAreGone ==
    ASSUME ContainersFit, NEW ids, ids \subseteq DOMAIN managed, managed' = Without(managed, ids),
           DOMAIN managedGroups' \subseteq DOMAIN managedGroups,
           \A g \in DOMAIN managedGroups' : managedGroups'[g] = managedGroups[g],
           \A id \in DOMAIN managed \ ids : managed[id].group \in DOMAIN managedGroups' \cup {NoGroup}
    PROVE  /\ ContainersFit'
           /\ Apps' = Rest(Apps, {id \in ids : managed[id].relayed # "waits"})
           /\ IsFiniteSet(ids) /\ ids \subseteq Int
<1>1. /\ DOMAIN managed' = DOMAIN managed \ ids
      /\ \A k \in DOMAIN managed' : managed'[k] = managed[k]
  BY DEF Without, Restrict
<1>2. ContainersFit'
  BY <1>1 DEF ContainersFit, ManagedType
<1>3. RelayedApplications' = RelayedApplications \ {id \in ids : managed[id].relayed # "waits"}
  BY <1>1 DEF RelayedApplications
<1>4. \A k \in RelayedApplications' : managed'[k] = Apps[k]
  <2>1. ASSUME NEW k \in RelayedApplications'
        PROVE  managed'[k] = Apps[k]
    <3>1. k \in RelayedApplications /\ k \in DOMAIN managed'
      BY <1>3 DEF RelayedApplications
    <3>2. Apps[k] = managed[k]
      BY <3>1, AppsOfManaged
    <3>3. QED
      BY <1>1, <3>1, <3>2
  <2>2. QED
    BY <2>1
<1>5. Apps' = Rest(Apps, {id \in ids : managed[id].relayed # "waits"})
  <2>1. PICK apps : apps = Apps
    OBVIOUS
  <2>2. DOMAIN apps = RelayedApplications
    BY <2>1, AppsOfManaged
  <2>3. Apps' = [id \in RelayedApplications' |-> managed'[id]]
    BY DEF Apps
  <2>4. QED
    BY <1>3, <1>4, <2>1, <2>2, <2>3 DEF Rest
<1>6. IsFiniteSet(ids) /\ ids \subseteq Int
  <2>1. ids \in SUBSET NotificationIds
    BY DEF ContainersFit, ManagedType
  <2>2. IsFiniteSet(NotificationIds)
    BY Identifiers
  <2>3. IsFiniteSet(ids)
    BY <2>1, <2>2, FS_Subset
  <2>4. ASSUME NEW id \in ids
        PROVE  id \in Int
    <3>1. id \in NotificationIds
      BY <2>1
    <3>2. QED
      BY <3>1, Identifiers
  <2>5. QED
    BY <2>3, <2>4
<1>7. QED
  BY <1>2, <1>5, <1>6

LEMMA AppsWhole == Rest(Apps, {}) = Apps
<1>1. PICK apps : apps = Apps
  OBVIOUS
<1>2. apps = [id \in RelayedApplications |-> managed[id]]
  BY <1>1 DEF Apps
<1>3. apps = [id \in DOMAIN apps \ {} |-> apps[id]]
  BY <1>2
<1>4. QED
  BY <1>1, <1>3 DEF Rest

LEMMA GoneFollows ==
    ASSUME IconInv, NEW ids, ids \subseteq DOMAIN managed, IsFiniteSet(ids), ids \subseteq Int,
           NEW heard, heard = {id \in ids : managed[id].relayed # "waits"},
           NEW signals, Len(signals) \in Nat,
           Len(RemovalSignals(ids)) <= Len(signals),
           \A i \in 1..Len(RemovalSignals(ids)) : signals[i] = RemovalSignals(ids)[i],
           \/ Len(signals) = Len(RemovalSignals(ids))
           \/ /\ Len(signals) = Len(RemovalSignals(ids)) + 1
              /\ \E g : signals[Len(signals)] = GroupRemoved(g),
           IndicatorListens(signals)
    PROVE  Follows(indicator', Rest(Apps, heard), managedGroups)
<1> DEFINE n == Cardinality(heard)
<1>1. /\ n \in Nat /\ Len(RemovalSignals(ids)) = n
      /\ \A i \in 1..n : RemovalSignals(ids)[i] = NotificationRemoved(Nth(heard, i))
  BY RemovalsSignalled
<1>2. heard \subseteq Int /\ IsFiniteSet(heard)
  <2>1. heard \in SUBSET ids
    OBVIOUS
  <2>2. QED
    BY <2>1, FS_Subset
<1>3. PICK after : HearsInTurn(after, indicator, signals)
  BY IndicatorHearsAll, Zenon
<1>4. /\ after[0] = indicator
      /\ \A i \in 1..Len(signals) : after[i] = IndicatorHears(after[i - 1], signals[i])
      /\ indicator' = after[Len(signals)]
  BY <1>3 DEF HearsInTurn, IndicatorListens
<1>5. PICK apps : apps = Apps
  OBVIOUS
<1>6. Follows(after[0], Rest(apps, {}), managedGroups)
  BY <1>4, <1>5, AppsWhole DEF IconInv
<1>7. Follows(after[n], Rest(apps, heard), managedGroups)
  <2>1. \A i \in 1..n : signals[i] = NotificationRemoved(Nth(heard, i))
    BY <1>1
  <2>2. n <= Len(signals)
    BY <1>1
  <2>3. QED
    BY <1>2, <1>4, <1>6, <2>1, <2>2, RemovalsFollow
<1>8. after[Len(signals)] = after[n]
  <2>1. CASE Len(signals) = n
    BY <2>1
  <2>2. CASE Len(signals) # n
    <3>1. PICK g : Len(signals) = n + 1 /\ signals[Len(signals)] = GroupRemoved(g)
      BY <1>1, <2>2
    <3>2. Len(signals) \in 1..Len(signals) /\ Len(signals) - 1 = n
      BY <1>1, <3>1
    <3>3. after[Len(signals)] = IndicatorHears(after[n], GroupRemoved(g))
      BY <1>4, <3>1, <3>2
    <3>4. QED
      BY <3>3, HearsEach
  <2>3. QED
    BY <2>1, <2>2
<1>9. QED
  BY <1>4, <1>5, <1>7, <1>8

LEMMA IconKeptByNotifications ==
    ASSUME IconInv, NotificationStep(IndicatorListens)
    PROVE  IconInv'
<1>1. ContainersFit /\ ManagedType
  BY DEF IconInv, ContainersFit
<1>2. ASSUME NEW group \in GroupIds \cup {NoGroup}, NEW content \in Contents,
             ManagerAdds(group, content, IndicatorListens)
      PROVE  IconInv'
  <2> DEFINE lowest == LowestFree(NotificationIds, DOMAIN managed)
  <2>1. PICK relayed \in Marks :
            LET n == [group |-> group, content |-> content, relayed |-> relayed]
            IN  /\ managed' = With(managed, lowest, n)
                /\ IndicatorListens(IF relayed = "yes" THEN <<NotificationUpdated(lowest, n)>> ELSE <<>>)
    BY <1>2 DEF ManagerAdds, Marks
  <2>2. PICK id, note : /\ id = lowest
                        /\ note = [group |-> group, content |-> content, relayed |-> relayed]
    OBVIOUS
  <2>3. /\ note \in Notes /\ note.group = group /\ note.relayed = relayed
        /\ group \in DOMAIN managedGroups \cup {NoGroup}
    BY <1>2, <2>2 DEF Notes, ManagerAdds
  <2>4. id \in NotificationIds \ DOMAIN managed
    BY <1>1, <1>2, <2>2, Identifiers, LowestIsFree DEF ManagedType, ManagerAdds
  <2>5. Stored(id, note)
    BY <1>2, <2>1, <2>2, <2>4 DEF Stored, With, ManagerAdds
  <2>6. CASE relayed = "yes"
    <3>1. indicator' = AfterAll(IndicatorHears, indicator, <<NotificationUpdated(id, note)>>)
      BY <2>1, <2>2, <2>6 DEF IndicatorListens
    <3>2. indicator' = IndicatorAdds(indicator, id, note.group, note.content)
      BY <3>1, HearsOne, Zenon
    <3>3. QED
      BY <2>3, <2>4, <2>5, <2>6, <3>2, StoredHeard
  <2>7. CASE relayed # "yes"
    <3>1. indicator' = indicator
      BY <2>1, <2>7, HearsFew DEF IndicatorListens
    <3>2. QED
      BY <2>3, <2>4, <2>5, <2>7, <3>1, StoredUnheard
  <2>8. QED
    BY <2>6, <2>7
<1>3. ASSUME NEW id \in DOMAIN managed, ManagerRelays(id, IndicatorListens)
      PROVE  IconInv'
  <2>1. PICK note : note = [managed[id] EXCEPT !.relayed = "yes"]
    OBVIOUS
  <2>2. managed[id] \in Notes /\ id \in NotificationIds /\ managed[id].relayed = "waits"
    BY <1>1, <1>3 DEF ManagedType, ManagerRelays
  <2>3. /\ note \in Notes /\ note.relayed = "yes"
        /\ note.group = managed[id].group /\ note.content = managed[id].content
    BY <2>1, <2>2 DEF Notes, Marks
  <2>4. Stored(id, note)
    BY <1>3, <2>1 DEF Stored, ManagerRelays
  <2>5. indicator' = AfterAll(IndicatorHears, indicator, <<NotificationUpdated(id, managed[id])>>)
    BY <1>3 DEF ManagerRelays, IndicatorListens
  <2>6. indicator' = IndicatorAdds(indicator, id, note.group, note.content)
    <3>1. indicator' = IndicatorAdds(indicator, id, managed[id].group, managed[id].content)
      BY <2>5, HearsOne, Zenon
    <3>2. QED
      BY <2>3, <3>1
  <2>7. note.group \in DOMAIN managedGroups \cup {NoGroup}
    BY <1>1, <2>3 DEF ContainersFit
  <2>8. QED
    BY <2>2, <2>3, <2>4, <2>6, <2>7, StoredHeard
<1>4. ASSUME NEW id \in DOMAIN managed, NEW content \in Contents,
             ManagerUpdates(id, content, IndicatorListens)
      PROVE  IconInv'
  <2>1. PICK note : note = [managed[id] EXCEPT !.content = content,
                                               !.relayed = IF @ = "waits" THEN "waits" ELSE "yes"]
    OBVIOUS
  <2>2. managed[id] \in Notes /\ id \in NotificationIds
    BY <1>1 DEF ManagedType
  <2>3. /\ note \in Notes /\ note.relayed \in {"waits", "yes"}
        /\ note.relayed = "waits" => managed[id].relayed = "waits"
        /\ note.group = managed[id].group
        /\ note.content = content /\ content.type = managed[id].content.type
    BY <1>4, <2>1, <2>2 DEF Notes, Marks, ManagerUpdates
  <2>4. /\ managed' = [managed EXCEPT ![id] = note] /\ managedGroups' = managedGroups
        /\ IndicatorListens(IF note.relayed = "waits" THEN <<>> ELSE <<NotificationUpdated(id, note)>>)
    BY <1>4, <2>1 DEF ManagerUpdates
  <2>5. Stored(id, note)
    BY <2>4 DEF Stored
  <2>6. note.group \in DOMAIN managedGroups \cup {NoGroup}
    BY <1>1, <2>3 DEF ContainersFit
  <2>7. CASE note.relayed = "waits"
    <3>1. indicator' = indicator
      BY <2>4, <2>7, HearsFew DEF IndicatorListens
    <3>2. QED
      BY <2>2, <2>3, <2>5, <2>6, <2>7, <3>1, StoredUnheard
  <2>8. CASE note.relayed = "yes"
    <3>1. indicator' = AfterAll(IndicatorHears, indicator, <<NotificationUpdated(id, note)>>)
      BY <2>4, <2>8 DEF IndicatorListens
    <3>2. indicator' = IndicatorAdds(indicator, id, note.group, note.content)
      BY <3>1, HearsOne, Zenon
    <3>3. QED
      BY <2>2, <2>3, <2>5, <2>6, <2>8, <3>2, StoredHeard
  <2>9. QED
    BY <2>3, <2>7, <2>8
<1>5. ASSUME NEW id \in DOMAIN managed, ManagerRemoves({id}, IndicatorListens)
      PROVE  IconInv'
  <2>1. PICK ids : ids = {id}
    OBVIOUS
  <2>2. /\ managed' = Without(managed, ids) /\ managedGroups' = managedGroups
        /\ IndicatorListens(RemovalSignals(ids))
    BY <1>5, <2>1 DEF ManagerRemoves
  <2>3. ids \subseteq DOMAIN managed
    BY <2>1
  <2>4. PICK heard : heard = {k \in ids : managed[k].relayed # "waits"}
    OBVIOUS
  <2>5. ContainersFit' /\ Apps' = Rest(Apps, heard) /\ IsFiniteSet(ids) /\ ids \subseteq Int
    <3>1. \A k \in DOMAIN managed \ ids : managed[k].group \in DOMAIN managedGroups' \cup {NoGroup}
      BY <1>1, <2>2 DEF ContainersFit
    <3>2. QED
      BY <1>1, <2>2, <2>3, <2>4, <3>1, GoneAreGone
  <2>6. Len(RemovalSignals(ids)) \in Nat
    BY <2>4, <2>5, RemovalsSignalled
  <2>7. Follows(indicator', Rest(Apps, heard), managedGroups)
    BY <2>2, <2>3, <2>4, <2>5, <2>6, GoneFollows
  <2>8. QED
    BY <2>2, <2>5, <2>7 DEF IconInv
<1>6. QED
  BY <1>2, <1>3, <1>4, <1>5 DEF NotificationStep

LEMMA IconKeptByGroups ==
    ASSUME IconInv, GroupStep(IndicatorListens)
    PROVE  IconInv'
<1>1. ContainersFit /\ ManagedType
  BY DEF IconInv, ContainersFit
<1>2. ASSUME NEW group \in GroupIds, NEW content \in Contents,
             ManagerUpdatesGroup(group, content, IndicatorListens)
      PROVE  IconInv'
  <2>1. /\ managedGroups' = With(managedGroups, group, content) /\ managed' = managed
        /\ indicator' = AfterAll(IndicatorHears, indicator, <<GroupUpdated(group, content)>>)
    BY <1>2 DEF ManagerUpdatesGroup, IndicatorListens
  <2>2. /\ DOMAIN managedGroups' = DOMAIN managedGroups \cup {group}
        /\ managedGroups'[group] = content
        /\ \A g \in DOMAIN managedGroups \ {group} : managedGroups'[g] = managedGroups[g]
    BY <2>1 DEF With
  <2>3. ContainersFit'
    BY <1>1, <2>1, <2>2 DEF ContainersFit, ManagedType
  <2>4. Apps' = Apps
    BY <2>1 DEF Apps, RelayedApplications
  <2>5. indicator' = IndicatorAddsGroup(indicator, group, content)
    BY <2>1, HearsOne, Zenon
  <2>6. Follows(indicator, Apps, managedGroups)
    BY DEF IconInv
  <2>7. Follows(IndicatorAddsGroup(indicator, group, content), Apps, managedGroups')
    BY <2>2, <2>6, GroupContentFollows
  <2>8. QED
    BY <2>3, <2>4, <2>5, <2>7 DEF IconInv
<1>3. ASSUME NEW group \in DOMAIN managedGroups, ManagerRemovesGroup(group, IndicatorListens)
      PROVE  IconInv'
  <2>1. PICK ids : ids = MembersOf(group)
    OBVIOUS
  <2>2. PICK signals : signals = Append(RemovalSignals(ids), GroupRemoved(group))
    OBVIOUS
  <2>3. /\ managed' = Without(managed, ids) /\ managedGroups' = Without(managedGroups, {group})
        /\ IndicatorListens(signals)
    BY <1>3, <2>1, <2>2 DEF ManagerRemovesGroup
  <2>4. PICK left : left = managedGroups'
    OBVIOUS
  <2>5. /\ DOMAIN left = DOMAIN managedGroups \ {group}
        /\ \A g \in DOMAIN left : left[g] = managedGroups[g]
    BY <2>3, <2>4 DEF Without, Restrict
  <2>6. /\ ids \subseteq DOMAIN managed
        /\ \A id \in DOMAIN managed \ ids : managed[id].group \in DOMAIN left \cup {NoGroup}
    BY <1>1, <2>1, <2>5 DEF MembersOf, ContainersFit
  <2>7. PICK heard : heard = {k \in ids : managed[k].relayed # "waits"}
    OBVIOUS
  <2>8. ContainersFit' /\ Apps' = Rest(Apps, heard) /\ IsFiniteSet(ids) /\ ids \subseteq Int
    BY <1>1, <2>3, <2>4, <2>5, <2>6, <2>7, GoneAreGone
  <2>9. PICK removals : removals = RemovalSignals(ids)
    OBVIOUS
  <2>10. Len(removals) \in Nat /\ \E T : removals \in Seq(T)
    BY <2>7, <2>8, <2>9, RemovalsSignalled
  <2>11. /\ Len(signals) = Len(removals) + 1 /\ signals[Len(signals)] = GroupRemoved(group)
         /\ \A i \in 1..Len(removals) : signals[i] = removals[i]
    <3>1. PICK e : e = GroupRemoved(group)
      OBVIOUS
    <3>2. PICK T : removals \in Seq(T)
      BY <2>10
    <3>3. PICK U : U = T \cup {e}
      OBVIOUS
    <3>4. removals \in Seq(U) /\ e \in U
      BY <3>2, <3>3
    <3>5. signals = Append(removals, e)
      BY <2>2, <2>9, <3>1
    <3>6. QED
      BY <3>1, <3>4, <3>5
  <2>12. Follows(indicator', Rest(Apps, heard), managedGroups)
    <3>1. Len(signals) \in Nat /\ Len(removals) <= Len(signals)
      BY <2>10, <2>11
    <3>2. QED
      BY <2>3, <2>6, <2>7, <2>8, <2>9, <2>11, <3>1, GoneFollows
  <2>13. Follows(indicator', Apps', left)
    <3>1. Fit(Apps', left)
      BY <2>4, <2>8, AppsOfManagedNext
    <3>2. Follows(indicator', Apps', managedGroups)
      BY <2>8, <2>12
    <3>3. QED
      BY <2>5, <3>1, <3>2, GroupGoneFollows
  <2>14. QED
    BY <2>4, <2>8, <2>13 DEF IconInv
<1>4. QED
  BY <1>2, <1>3 DEF GroupStep

LEMMA NewFollows ==
    ASSUME NEW apps, NEW contents, DOMAIN apps = {}, DOMAIN contents = {}
    PROVE  Follows(NewIndicatorSink, apps, contents)
<1>1. PICK none : none = <<>>
  OBVIOUS
<1>2. DOMAIN none = {} /\ Range(none) = {} /\ none \in Seq({}) /\ none = [x \in {} |-> none[x]]
  BY <1>1 DEF Range
<1>3. Fit(apps, contents)
  BY DEF Fit
<1>4. /\ \A g : Inhabitants(apps, g) = {}
      /\ Alone(apps) = {}
  BY DEF Inhabitants, Alone
<1>5. GroupsOf(apps) = none
  BY <1>2 DEF GroupsOf
<1>6. KnowsGroups(apps, contents, none)
  BY <1>2 DEF KnowsGroups
<1>7. KnowsData(apps, contents, none, none)
  BY <1>2, <1>4 DEF KnowsData
<1>8. KnowsDatas(apps, contents, none)
  BY <1>2, <1>4 DEF KnowsDatas
<1>9. MostImportant(Shown(none, none)) = NoIcon
  <2>1. PICK d : d = Shown(none, none)
    OBVIOUS
  <2>2. DOMAIN d = {}
    BY <1>2, <2>1 DEF Shown
  <2>3. {i \in DOMAIN d : d[i].priority >= 0} = {}
    BY <2>2
  <2>4. QED
    BY <2>1, <2>3 DEF MostImportant
<1>10. NewIndicatorSink = SinkOf(none, none, none, none)
  BY <1>1, <1>9 DEF NewIndicatorSink, SinkOf, SinkWith
<1>11. QED
  BY <1>3, <1>5, <1>6, <1>7, <1>8, <1>10 DEF Follows

LEMMA IconStarts == SignalsInit /\ IndicatorInit => IconInv
<1> SUFFICES ASSUME SignalsInit, IndicatorInit
             PROVE  IconInv
  OBVIOUS
<1>1. indicator = AfterAll(IndicatorHears, NewIndicatorSink, RestoredSignals)
  BY DEF IndicatorInit
<1>2. ManagedType
  BY SignalsStart
<1>3. CASE managed = <<>> /\ managedGroups = <<>>
  <2>1. DOMAIN managed = {} /\ DOMAIN managedGroups = {}
    BY <1>3
  <2>2. ContainersFit
    BY <1>2, <2>1 DEF ContainersFit
  <2>3. DOMAIN Apps = {}
    BY <2>1, AppsOfManaged DEF RelayedApplications
  <2>4. RestoredSignals = <<>>
    <3>1. Cardinality(DOMAIN managed) = 0 /\ Cardinality(DOMAIN managedGroups) = 0
      BY <2>1, FS_EmptySet
    <3>2. 1..0 = {}
      OBVIOUS
    <3>3. /\ [i \in 1..0 |-> GroupUpdated(i, managedGroups[i])] = <<>>
          /\ [i \in 1..0 |-> NotificationRestored(i, managed[i])] = <<>>
      BY <3>2
    <3>4. QED
      BY <3>1, <3>3 DEF RestoredSignals
  <2>5. indicator = NewIndicatorSink
    BY <1>1, <2>4, HearsFew
  <2>6. QED
    BY <2>1, <2>2, <2>3, <2>5, NewFollows DEF IconInv
<1>4. ASSUME NEW content \in Contents, content.type = "application", NEW group \in {NoGroup, 1},
             managed = With(<<>>, 1, [group |-> group, content |-> content, relayed |-> "yes"]),
             managedGroups = IF group = NoGroup THEN <<>> ELSE With(<<>>, 1, content)
      PROVE  IconInv
  <2>1. PICK note : note = [group |-> group, content |-> content, relayed |-> "yes"]
    OBVIOUS
  <2>2. note.group = group /\ note.content = content /\ note.relayed = "yes"
    BY <2>1
  <2>3. DOMAIN managed = {1} /\ managed[1] = note
    BY <1>4, <2>1 DEF With
  <2>4. 1 \in NotificationIds /\ 1 \in GroupIds /\ 1 # NoGroup
    BY Identifiers DEF NoGroup
  <2>5. /\ RelayedApplications = {1} /\ DOMAIN Apps = {1}
        /\ Apps[1].group = group /\ Apps[1].content = content
    <3>1. RelayedApplications = {1}
      BY <1>4, <2>2, <2>3 DEF RelayedApplications
    <3>2. DOMAIN Apps = {1} /\ Apps[1] = managed[1]
      BY <3>1, AppsOfManaged
    <3>3. QED
      BY <2>2, <2>3, <3>1, <3>2
  <2>6. PICK none, apps, n : none = <<>> /\ apps = Apps /\ n = NewIndicatorSink
    OBVIOUS
  <2>7. DOMAIN none = {} /\ Follows(n, none, none)
    BY <2>6, NewFollows
  <2>8. 1 \in NotificationIds \ DOMAIN none /\ Becomes(none, apps, 1, group, content)
    BY <2>4, <2>5, <2>6, <2>7 DEF Becomes
  <2>9. PICK restored : restored = NotificationRestored(1, managed[1])
    OBVIOUS
  <2>10. \A s : IndicatorHears(s, restored) = IndicatorAdds(s, 1, group, content)
    BY <2>2, <2>3, <2>9, HearsEach
  <2>11. /\ Cardinality(DOMAIN managed) = 1
         /\ [i \in 1..1 |-> NotificationRestored(i, managed[i])] = <<restored>>
    <3>1. Cardinality(DOMAIN managed) = 1
      BY <2>3, FS_Singleton
    <3>2. 1..1 = {1}
      OBVIOUS
    <3>3. QED
      BY <2>9, <3>1, <3>2
  <2>12. CASE group = NoGroup
    <3>1. managedGroups = none /\ DOMAIN managedGroups = {}
      BY <1>4, <2>6, <2>12
    <3>2. ContainersFit
      BY <1>2, <2>2, <2>3, <2>12, <3>1 DEF ContainersFit
    <3>3. RestoredSignals = <<restored>>
      <4>1. Cardinality(DOMAIN managedGroups) = 0
        BY <3>1, FS_EmptySet
      <4>2. [i \in 1..0 |-> GroupUpdated(i, managedGroups[i])] = <<>>
        OBVIOUS
      <4>3. <<>> \o <<restored>> = <<restored>>
        OBVIOUS
      <4>4. QED
        BY <2>11, <4>1, <4>2, <4>3 DEF RestoredSignals
    <3>4. indicator = IndicatorAdds(n, 1, NoGroup, content)
      <4>1. AfterAll(IndicatorHears, n, <<restored>>) = IndicatorHears(n, restored)
        BY HearsFew, Zenon
      <4>2. QED
        BY <1>1, <2>6, <2>10, <2>12, <3>3, <4>1
    <3>5. Becomes(none, apps, 1, NoGroup, content)
      BY <2>8, <2>12
    <3>6. Follows(IndicatorAdds(n, 1, NoGroup, content), apps, none)
      BY <1>4, <2>7, <2>8, <3>5, AppAddedAlone
    <3>7. QED
      BY <2>6, <3>1, <3>2, <3>4, <3>6 DEF IconInv
  <2>13. CASE group = 1
    <3>1. DOMAIN managedGroups = {1} /\ managedGroups[1] = content
      BY <1>4, <2>4, <2>13 DEF With
    <3>2. ContainersFit
      BY <1>2, <1>4, <2>2, <2>3, <2>4, <2>13, <3>1 DEF ContainersFit
    <3>3. PICK now, told : now = managedGroups /\ told = GroupUpdated(1, managedGroups[1])
      OBVIOUS
    <3>4. IndicatorHears(n, told) = IndicatorAddsGroup(n, 1, content)
      BY <3>1, <3>3, HearsEach
    <3>5. PICK signals : signals = RestoredSignals
      OBVIOUS
    <3>6. Len(signals) = 2 /\ Len(signals) \in Nat /\ signals[1] = told /\ signals[2] = restored
      <4>1. Cardinality(DOMAIN managedGroups) = 1
        BY <3>1, FS_Singleton
      <4>2. [i \in 1..1 |-> GroupUpdated(i, managedGroups[i])] = <<told>>
        <5>1. 1..1 = {1}
          OBVIOUS
        <5>2. QED
          BY <3>3, <5>1
      <4>3. signals = <<told>> \o <<restored>>
        BY <2>11, <3>5, <4>1, <4>2 DEF RestoredSignals
      <4>4. QED
        BY <4>3
    <3>7. PICK after : HearsInTurn(after, n, signals)
      BY <3>6, IndicatorHearsAll, Zenon
    <3>8. /\ after[0] = n
          /\ after[1] = IndicatorHears(after[0], told)
          /\ after[2] = IndicatorHears(after[1], restored)
          /\ indicator = after[2]
      <4>1. 1 \in 1..Len(signals) /\ 2 \in 1..Len(signals) /\ 1 - 1 = 0 /\ 2 - 1 = 1
        BY <3>6
      <4>2. \A i \in 1..Len(signals) : after[i] = IndicatorHears(after[i - 1], signals[i])
        BY <3>7 DEF HearsInTurn
      <4>3. after[1] = IndicatorHears(after[1 - 1], signals[1]) /\ after[2] = IndicatorHears(after[2 - 1], signals[2])
        BY <4>1, <4>2
      <4>4. after[0] = n /\ indicator = after[2]
        BY <1>1, <2>6, <3>5, <3>6, <3>7 DEF HearsInTurn
      <4>5. QED
        BY <3>6, <4>1, <4>3, <4>4
    <3>9. Follows(after[1], none, now)
      <4>1. /\ DOMAIN now = DOMAIN none \cup {1} /\ now[1] = content
            /\ \A g \in DOMAIN none \ {1} : now[g] = none[g]
        BY <2>7, <3>1, <3>3
      <4>2. Follows(IndicatorAddsGroup(n, 1, content), none, now)
        BY <2>4, <2>7, <4>1, GroupContentFollows
      <4>3. QED
        BY <3>4, <3>8, <4>2
    <3>10. Becomes(none, apps, 1, 1, content) /\ 1 \in DOMAIN now
      BY <2>8, <2>13, <3>1, <3>3
    <3>11. Follows(IndicatorAdds(after[1], 1, 1, content), apps, now)
      BY <1>4, <2>8, <3>9, <3>10, AppAddedToGroup
    <3>12. indicator = IndicatorAdds(after[1], 1, 1, content)
      BY <2>10, <2>13, <3>8
    <3>13. QED
      BY <2>6, <3>2, <3>3, <3>11, <3>12 DEF IconInv
  <2>14. QED
    BY <2>12, <2>13
<1>5. QED
  BY <1>3, <1>4 DEF SignalsInit

\* What the sink shows is what it shall know of.
LEMMA IconOfFollowed ==
    ASSUME IconInv
    PROVE  IconOfMostImportant
<1>1. PICK members, dataFor, datas :
           /\ indicator = SinkOf(GroupsOf(Apps), members, dataFor, datas)
           /\ KnowsGroups(Apps, managedGroups, members)
           /\ KnowsData(Apps, managedGroups, members, dataFor)
           /\ KnowsDatas(Apps, managedGroups, datas)
  BY DEF IconInv, Follows
<1> DEFINE ContentOf(id) == IF managed[id].group = NoGroup THEN managed[id].content
                            ELSE managedGroups[managed[id].group]
           contents == {ContentOf(id) : id \in RelayedApplications}
           KeyOf(id) == IF managed[id].group = NoGroup THEN ForNotification(id)
                        ELSE ForGroup(managed[id].group)
<1>2. PICK d, m : d = Shown(dataFor, datas) /\ m = Len(datas)
  OBVIOUS
<1>3. m \in Nat /\ DOMAIN datas = 1..m
  BY <1>1, <1>2 DEF KnowsDatas
<1>4. DOMAIN d = 1..m /\ \A i \in 1..m : d[i] = dataFor[datas[i]]
  BY <1>2, <1>3 DEF Shown
<1>5. /\ Range(datas) = {KeyOf(id) : id \in RelayedApplications}
      /\ \A id \in RelayedApplications :
             dataFor[KeyOf(id)] = Data(ContentOf(id)) /\ ContentOf(id) \in Contents
  <2>1. /\ DOMAIN Apps = RelayedApplications
        /\ \A id \in RelayedApplications : Apps[id] = managed[id]
    BY AppsOfManaged
  <2>2. PICK apps : apps = Apps
    OBVIOUS
  <2>3. \A id \in RelayedApplications :
            managed[id].group # NoGroup => managed[id].group \in DOMAIN managedGroups
    BY DEF IconInv, ContainersFit, RelayedApplications
  <2>4. NoGroup \notin DOMAIN managedGroups
    BY Identifiers DEF IconInv, ContainersFit, NoGroup
  <2>5. Alone(apps) = {ForNotification(id) : id \in {k \in RelayedApplications : managed[k].group = NoGroup}}
    BY <2>1, <2>2 DEF Alone, Inhabitants
  <2>6. {h \in DOMAIN managedGroups : Inhabitants(apps, h) # {}} =
        {managed[id].group : id \in {k \in RelayedApplications : managed[k].group # NoGroup}}
    BY <2>1, <2>2, <2>3, <2>4 DEF Inhabitants
  <2>7. Range(datas) = {KeyOf(id) : id \in RelayedApplications}
    <3>1. Range(datas) = Alone(apps) \cup
              {ForGroup(g) : g \in {h \in DOMAIN managedGroups : Inhabitants(apps, h) # {}}}
      BY <1>1, <2>2 DEF KnowsDatas
    <3>2. QED
      BY <2>5, <2>6, <3>1
  <2>8. ASSUME NEW id \in RelayedApplications
        PROVE  dataFor[KeyOf(id)] = Data(ContentOf(id)) /\ ContentOf(id) \in Contents
    <3>1. CASE managed[id].group = NoGroup
      <4>1. id \in Inhabitants(apps, NoGroup) /\ apps[id] = managed[id]
        BY <2>1, <2>2, <3>1 DEF Inhabitants
      <4>2. dataFor[ForNotification(id)] = Data(managed[id].content)
        BY <1>1, <2>2, <4>1 DEF KnowsData
      <4>3. managed[id].content \in Contents
        BY DEF IconInv, ContainersFit, ManagedType, Notes, RelayedApplications
      <4>4. QED
        BY <3>1, <4>2, <4>3
    <3>2. CASE managed[id].group # NoGroup
      <4>1. PICK g \in DOMAIN managedGroups : g = managed[id].group
        BY <2>3, <3>2
      <4>2. dataFor[ForGroup(g)] = Data(managedGroups[g]) /\ managedGroups[g] \in Contents
        BY <1>1 DEF KnowsData, IconInv, ContainersFit
      <4>3. QED
        BY <3>2, <4>1, <4>2
    <3>3. QED
      BY <3>1, <3>2
  <2>9. QED
    BY <2>7, <2>8
<1> HIDE DEF ContentOf, KeyOf
<1>6. /\ \A i \in 1..m : \E id \in RelayedApplications : d[i] = Data(ContentOf(id))
      /\ \A id \in RelayedApplications : \E i \in 1..m : d[i] = Data(ContentOf(id))
      /\ \A id \in RelayedApplications : ContentOf(id).priority \in Int
  <2>1. Range(datas) = {datas[i] : i \in 1..m}
    BY <1>3 DEF Range
  <2>2. \A i \in 1..m : \E id \in RelayedApplications : datas[i] = KeyOf(id)
    BY <1>5, <2>1
  <2>3. \A id \in RelayedApplications : \E i \in 1..m : datas[i] = KeyOf(id)
    BY <1>5, <2>1
  <2>4. \A id \in RelayedApplications : ContentOf(id).priority \in Int
    BY <1>5, PrioritiesAssumption
  <2>5. QED
    BY <1>4, <1>5, <2>2, <2>3, <2>4
<1>7. \A content : Data(content).icon = content.icon /\ Data(content).priority = content.priority
  BY DEF Data
<1>8. PICK shown : shown = {i \in 1..m : d[i].priority >= 0}
  OBVIOUS
<1>9. PICK some : some = {content \in contents : content.priority >= 0}
  OBVIOUS
<1>10. IF shown = {} THEN MostImportant(d) = NoIcon
       ELSE \E i \in shown : /\ MostImportant(d) = d[i].icon
                             /\ \A j \in shown : d[j].priority <= d[i].priority
  <2>1. \A i \in 1..m : d[i].priority \in Int
    BY <1>6, <1>7
  <2>2. QED
    BY <1>3, <1>4, <1>8, <2>1, MostImportantChosen
<1>11. indicator.iconId = MostImportant(d)
  BY <1>1, <1>2 DEF SinkOf, SinkWith
<1>12. \A i \in shown : \E content \in some :
           content.icon = d[i].icon /\ content.priority = d[i].priority
  BY <1>6, <1>7, <1>8, <1>9
<1>13. \A content \in some : \E i \in shown : content.priority = d[i].priority
  BY <1>6, <1>7, <1>8, <1>9
<1>14. IF some = {} THEN indicator.iconId = NoIcon
       ELSE \E content \in some : /\ content.icon = indicator.iconId
                                  /\ \A other \in some : other.priority <= content.priority
  <2>1. CASE some = {}
    BY <1>10, <1>11, <1>12, <2>1
  <2>2. CASE some # {}
    <3>1. shown # {}
      BY <1>13, <2>2
    <3>2. PICK i \in shown : /\ indicator.iconId = d[i].icon
                             /\ \A j \in shown : d[j].priority <= d[i].priority
      BY <1>10, <1>11, <3>1
    <3>3. PICK content \in some : content.icon = d[i].icon /\ content.priority = d[i].priority
      BY <1>12, <3>2
    <3>4. QED
      BY <1>13, <2>2, <3>2, <3>3
  <2>3. QED
    BY <2>1, <2>2
<1>15. QED
  <2>1. contents = {IF managed[id].group = NoGroup THEN managed[id].content
                    ELSE managedGroups[managed[id].group] : id \in RelayedApplications}
    BY DEF ContentOf
  <2>2. QED
    BY <1>9, <1>14, <2>1 DEF IconOfMostImportant, ContentOf

\* However many notifications come, change and go, with their groups or without: the
\* icon is that of one of the highest priority, although the sink hears of the
\* removal of a group only what it hears of its notifications
\* (notificationstatusindicatorsink.cpp:40-209).
THEOREM IconAlwaysFollows == ListenersSpec => []IconFollowsNotifications
<1> DEFINE Inv == watched = "indicator" => IconInv
<1>1. ListenersInit => Inv
  BY IconStarts DEF ListenersInit
<1>2. Inv /\ [ListenersNext]_listenerVars => Inv'
  <2> SUFFICES ASSUME Inv, [ListenersNext]_listenerVars, watched' = "indicator"
               PROVE  IconInv'
    OBVIOUS
  <2>1. watched' = watched
    BY DEF ListenersNext, listenerVars
  <2>2. IconInv
    BY <2>1
  <2>3. CASE ManagerStep(IndicatorListens)
    BY <2>2, <2>3, IconKeptByNotifications, IconKeptByGroups DEF ManagerStep
  <2>4. CASE UNCHANGED listenerVars
    <3>1. UNCHANGED <<managed, managedGroups, indicator>>
      BY <2>4 DEF listenerVars, managerVars
    <3>2. QED
      BY <2>2, <3>1 DEF IconInv, ContainersFit, ManagedType, Apps, RelayedApplications
  <2>5. QED
    BY <2>1, <2>3, <2>4 DEF ListenersNext, AreaWatched, IndicatorWatched, FeedbackWatched, MissedWatched
<1>3. Inv => IconFollowsNotifications
  BY IconOfFollowed DEF IconFollowsNotifications
<1>4. QED
  BY <1>1, <1>2, <1>3, PTL DEF ListenersSpec

-----------------------------------------------------------------------------
(* The notification area: notificationareasink.cpp, notificationarea.cpp.  *)

(* A banner that was laid out has a parent.                                *)
LaidOutBanner(content) == [content |-> content, parented |-> TRUE]

AreaBanner(content, laidOut) == IF laidOut THEN LaidOutBanner(content) ELSE InfoBanner(content)

(* What the area keeps:                                                    *)
(* alone     the content of the notifications that are in no group         *)
(* contents  the content of the groups                                     *)
(* made      the groups that have a banner                                 *)
(* out       those of them whose banner is laid out                        *)
(* counts    notificationCountOfGroup                                      *)
(* groupOf   notificationIdToGroupId                                       *)
(* banners   what is laid out                                              *)
AloneBanners(alone) == [id \in DOMAIN alone |-> LaidOutBanner(alone[id])]

GroupBanners(contents, made, out) ==
    [g \in DOMAIN contents |-> IF g \in made THEN AreaBanner(contents[g], g \in out) ELSE NULL]

AreaWith(aloneBanners, contents, groupBanners, counts, groupOf, banners) ==
    [created |-> TRUE,
     notificationIdToMBanner |-> aloneBanners,
     notificationGroupParameters |-> contents,
     groupIdToMBanner |-> groupBanners,
     notificationCountOfGroup |-> counts,
     notificationIdToGroupId |-> groupOf,
     banners |-> banners]

AreaOf(alone, contents, made, out, counts, groupOf, banners) ==
    AreaWith(AloneBanners(alone), contents, GroupBanners(contents, made, out), counts, groupOf, banners)

CountIn(counts, g) == IF g \in DOMAIN counts THEN counts[g] ELSE 0
CountedIn(groupOf, g) == {id \in DOMAIN groupOf : groupOf[id] = g}

(* Each banner is laid out once.                                           *)
LaysOut(alone, out, banners) ==
    /\ banners \in Seq(Range(banners))
    /\ IsInjective(banners)
    /\ Range(banners) = {ABanner(id) : id \in DOMAIN alone} \cup {AGroupBanner(g) : g \in out}

(* A count may be more than the notifications it counts, as updates count  *)
(* too, but never less.                                                    *)
CountsEach(out, counts, groupOf) ==
    /\ IsFiniteSet(DOMAIN groupOf)
    /\ \A g \in DOMAIN counts : counts[g] \in Nat
    /\ \A id \in DOMAIN groupOf : groupOf[id] \in out
    /\ \A g \in out : Cardinality(CountedIn(groupOf, g)) <= CountIn(counts, g)

(* Each notification that was signalled has its banner or is counted.      *)
Shows(apps, alone, groupOf) ==
    \A id \in DOMAIN apps :
        IF apps[id].group = NoGroup THEN id \in DOMAIN alone /\ alone[id] = apps[id].content
        ELSE id \in DOMAIN groupOf /\ groupOf[id] = apps[id].group

AreaFits(a, apps, contents) ==
    /\ Fit(apps, contents)
    /\ \E alone, made, out, counts, groupOf, banners :
           /\ a = AreaOf(alone, contents, made, out, counts, groupOf, banners)
           /\ out \subseteq made /\ made \subseteq DOMAIN contents
           /\ LaysOut(alone, out, banners)
           /\ CountsEach(out, counts, groupOf)
           /\ Shows(apps, alone, groupOf)

-----------------------------------------------------------------------------
(* Banners and lists of them.                                              *)

LEMMA BannersDiffer ==
    /\ \A a, b : ABanner(a) = ABanner(b) => a = b
    /\ \A a, b : AGroupBanner(a) = AGroupBanner(b) => a = b
    /\ \A a, b : ABanner(a) # AGroupBanner(b)
BY DEF ABanner, AGroupBanner

LEMMA BannerKinds ==
    ASSUME NEW content
    PROVE  /\ InfoBanner(content) # NULL /\ LaidOutBanner(content) # NULL
           /\ InfoBanner(content).content = content /\ InfoBanner(content).parented = FALSE
           /\ LaidOutBanner(content).content = content /\ LaidOutBanner(content).parented = TRUE
<1>1. DOMAIN InfoBanner(content) = {"content", "parented"}
  BY DEF InfoBanner
<1>2. DOMAIN LaidOutBanner(content) = {"content", "parented"}
  BY DEF LaidOutBanner
<1>3. DOMAIN NULL = {"content"}
  BY DEF NULL
<1>4. InfoBanner(content).content = content /\ InfoBanner(content).parented = FALSE
  BY DEF InfoBanner
<1>5. LaidOutBanner(content).content = content /\ LaidOutBanner(content).parented = TRUE
  BY DEF LaidOutBanner
<1>6. {"content", "parented"} # {"content"}
  OBVIOUS
<1>7. QED
  BY <1>1, <1>2, <1>3, <1>4, <1>5, <1>6

LEMMA LaidOutWithParent ==
    ASSUME NEW content, NEW banner, banner = InfoBanner(content)
    PROVE  [banner EXCEPT !.parented = TRUE] = LaidOutBanner(content)
<1>1. PICK x : x = [content |-> content, parented |-> FALSE]
  OBVIOUS
<1>2. PICK y : y = [x EXCEPT !.parented = TRUE]
  OBVIOUS
<1>3. y = [content |-> content, parented |-> TRUE]
  BY <1>1, <1>2
<1>4. banner = x
  BY <1>1 DEF InfoBanner
<1>5. QED
  BY <1>2, <1>3, <1>4, Zenon DEF LaidOutBanner

\* A new banner is laid out in front.
LEMMA LaidOutInFront ==
    ASSUME NEW list, list \in Seq(Range(list)), IsInjective(list), NEW b, b \notin Range(list),
           NEW r, r = <<b>> \o list
    PROVE  r \in Seq(Range(r)) /\ IsInjective(r) /\ Range(r) = Range(list) \cup {b}
<1>1. r \in Seq(Range(r)) /\ Range(r) = Range(list) \cup {b}
  BY PrependedToList
<1>2. PICK T : T = Range(list) \cup {b}
  OBVIOUS
<1>3. list \in Seq(T) /\ b \in T
  <2>1. /\ DOMAIN list = 1..Len(list) /\ Len(list) \in Nat
        /\ list = [i \in 1..Len(list) |-> list[i]]
    OBVIOUS
  <2>2. \A i \in 1..Len(list) : list[i] \in T
    BY <1>2, <2>1 DEF Range
  <2>3. QED
    BY <1>2, <2>1, <2>2
<1>4. /\ Len(r) = Len(list) + 1 /\ r[1] = b /\ \A i \in 1..Len(list) : r[i + 1] = list[i]
      /\ DOMAIN r = 1..(Len(list) + 1) /\ Len(list) \in Nat /\ DOMAIN list = 1..Len(list)
  BY <1>3
<1>5. ASSUME NEW m \in DOMAIN r, NEW n \in DOMAIN r, r[m] = r[n]
      PROVE  m = n
  <2>1. ASSUME NEW i \in DOMAIN r, i # 1
        PROVE  i - 1 \in DOMAIN list /\ r[i] = list[i - 1] /\ r[i] \in Range(list) /\ i \in Int
    <3>1. i - 1 \in 1..Len(list) /\ (i - 1) + 1 = i
      BY <1>4, <2>1
    <3>2. r[i] = list[i - 1]
      BY <1>4, <3>1
    <3>3. QED
      BY <1>4, <3>1, <3>2 DEF Range
  <2>2. CASE m = 1 \/ n = 1
    BY <1>4, <1>5, <2>1, <2>2
  <2>3. CASE m # 1 /\ n # 1
    <3>1. m - 1 = n - 1
      BY <1>5, <2>1, <2>3 DEF IsInjective
    <3>2. QED
      BY <2>1, <2>3, <3>1
  <2>4. QED
    BY <2>2, <2>3
<1>6. QED
  BY <1>1, <1>5 DEF IsInjective

\* One that is there can be taken out.
LEMMA TakenFromLayout ==
    ASSUME NEW list, list \in Seq(Range(list)), IsInjective(list), NEW b, NEW r,
           r = RemovedOne(list, b) \/ r = Removed(list, b)
    PROVE  r \in Seq(Range(r)) /\ IsInjective(r) /\ Range(r) = Range(list) \ {b}
<1>1. PICK T : T = Range(list)
  OBVIOUS
<1>2. list \in Seq(T) /\ \A m, n \in DOMAIN list : list[m] = list[n] => m = n
  BY <1>1 DEF IsInjective
<1>3. r = Removed(list, b)
  BY <1>2, RemovedOnce
<1>4. r \in Seq(T \ {b}) /\ Range(r) = Range(list) \ {b}
  BY <1>2, <1>3, RemovedFromList
<1>5. \A m, n \in DOMAIN r : r[m] = r[n] => m = n
  BY <1>2, <1>3, RemovedDistinct
<1>6. QED
  BY <1>1, <1>4, <1>5 DEF IsInjective

\* It can be moved to the front.
LEMMA MovedToFront ==
    ASSUME NEW list, list \in Seq(Range(list)), IsInjective(list), NEW b, b \in Range(list), NEW r,
           r = <<b>> \o Removed(list, b)
    PROVE  r \in Seq(Range(r)) /\ IsInjective(r) /\ Range(r) = Range(list)
<1>1. PICK rest : rest = Removed(list, b)
  OBVIOUS
<1>2. rest \in Seq(Range(rest)) /\ IsInjective(rest) /\ Range(rest) = Range(list) \ {b}
  BY <1>1, TakenFromLayout
<1>3. r \in Seq(Range(r)) /\ IsInjective(r) /\ Range(r) = Range(rest) \cup {b}
  BY <1>1, <1>2, LaidOutInFront
<1>4. QED
  BY <1>2, <1>3

-----------------------------------------------------------------------------
(* What the functions of the sink do to it.                                *)

\* The banner of a group.
LEMMA BannerOfGroup ==
    ASSUME NEW alone, NEW contents, NEW made, NEW out, out \subseteq made, made \subseteq DOMAIN contents,
           NEW counts, NEW groupOf, NEW banners, NEW g,
           NEW a, a = AreaOf(alone, contents, made, out, counts, groupOf, banners)
    PROVE  /\ BannerOf(a, g) = IF g \in made THEN AreaBanner(contents[g], g \in out) ELSE NULL
           /\ BannerOf(a, g) # NULL <=> g \in made
           /\ BannerOf(a, g) # NULL /\ BannerOf(a, g).parented <=> g \in out
<1>1. a.groupIdToMBanner = GroupBanners(contents, made, out)
  BY DEF AreaOf, AreaWith
<1>2. BannerOf(a, g) = IF g \in made THEN AreaBanner(contents[g], g \in out) ELSE NULL
  BY <1>1 DEF BannerOf, GroupBanners
<1>3. CASE g \in out
  <2>1. BannerOf(a, g) = LaidOutBanner(contents[g])
    BY <1>2, <1>3 DEF AreaBanner
  <2>2. QED
    BY <1>2, <1>3, <2>1, BannerKinds
<1>4. CASE g \in made /\ g \notin out
  <2>1. BannerOf(a, g) = InfoBanner(contents[g])
    BY <1>2, <1>4 DEF AreaBanner
  <2>2. QED
    BY <1>2, <1>4, <2>1, BannerKinds
<1>5. CASE g \notin made
  BY <1>2, <1>5
<1>6. QED
  BY <1>3, <1>4, <1>5

LEMMA AreaAddsGroup ==
    ASSUME NEW alone, NEW contents, NEW made, NEW out, out \subseteq made, made \subseteq DOMAIN contents,
           NEW counts, NEW groupOf, NEW banners, NEW g, NEW content,
           NEW more, more = With(contents, g, content),
           NEW a, a = AreaOf(alone, contents, made, out, counts, groupOf, banners)
    PROVE  AddGroup(a, g, content) = AreaOf(alone, more, made \cup {g}, out, counts, groupOf, banners)
<1>1. PICK old : old = GroupBanners(contents, made, out)
  OBVIOUS
<1>2. PICK banner : banner = IF BannerOf(a, g) = NULL THEN InfoBanner(content)
                             ELSE [BannerOf(a, g) EXCEPT !.content = content]
  OBVIOUS
<1>3. banner = AreaBanner(content, g \in out)
  <2>1. CASE g \in out
    <3>1. BannerOf(a, g) = LaidOutBanner(contents[g]) /\ BannerOf(a, g) # NULL
      BY <2>1, BannerOfGroup DEF AreaBanner
    <3>2. banner = [LaidOutBanner(contents[g]) EXCEPT !.content = content]
      BY <1>2, <3>1
    <3>3. banner = LaidOutBanner(content)
      BY <3>2 DEF LaidOutBanner
    <3>4. QED
      BY <2>1, <3>3 DEF AreaBanner
  <2>2. CASE g \in made /\ g \notin out
    <3>1. BannerOf(a, g) = InfoBanner(contents[g]) /\ BannerOf(a, g) # NULL
      BY <2>2, BannerOfGroup DEF AreaBanner
    <3>2. banner = [InfoBanner(contents[g]) EXCEPT !.content = content]
      BY <1>2, <3>1
    <3>3. banner = InfoBanner(content)
      BY <3>2 DEF InfoBanner
    <3>4. QED
      BY <2>2, <3>3 DEF AreaBanner
  <2>3. CASE g \notin made
    <3>1. BannerOf(a, g) = NULL
      BY <2>3, BannerOfGroup
    <3>2. banner = InfoBanner(content)
      BY <1>2, <3>1
    <3>3. QED
      BY <2>3, <3>2 DEF AreaBanner
  <2>4. QED
    BY <2>1, <2>2, <2>3
<1>4. PICK new : new = With(old, g, banner)
  OBVIOUS
<1>5. new = GroupBanners(more, made \cup {g}, out)
  <2>1. DOMAIN old = DOMAIN contents /\ DOMAIN more = DOMAIN contents \cup {g}
    BY <1>1 DEF GroupBanners, With
  <2>2. new = [h \in DOMAIN more |-> IF h = g THEN banner ELSE old[h]]
    BY <1>4, <2>1 DEF With
  <2>3. ASSUME NEW h \in DOMAIN more
        PROVE  (IF h = g THEN banner ELSE old[h]) =
                   IF h \in made \cup {g} THEN AreaBanner(more[h], h \in out) ELSE NULL
    <3>1. CASE h = g
      <4>1. more[g] = content
        BY <2>3, <3>1 DEF With
      <4>2. QED
        BY <1>3, <3>1, <4>1
    <3>2. CASE h # g
      <4>1. h \in DOMAIN contents /\ more[h] = contents[h]
        BY <2>1, <2>3, <3>2 DEF With
      <4>2. old[h] = IF h \in made THEN AreaBanner(contents[h], h \in out) ELSE NULL
        BY <1>1, <4>1 DEF GroupBanners
      <4>3. QED
        BY <3>2, <4>1, <4>2
    <3>3. QED
      BY <3>1, <3>2
  <2>4. QED
    BY <2>2, <2>3 DEF GroupBanners
<1>6. AddGroup(a, g, content) = AreaWith(AloneBanners(alone), more, new, counts, groupOf, banners)
  <2>1. PICK aloneBanners : aloneBanners = AloneBanners(alone)
    OBVIOUS
  <2>2. a = AreaWith(aloneBanners, contents, old, counts, groupOf, banners)
    BY <1>1, <2>1 DEF AreaOf
  <2>3. a.groupIdToMBanner = old /\ a.notificationGroupParameters = contents
    BY <2>2 DEF AreaWith
  <2>4. AddGroup(a, g, content) = [a EXCEPT !.groupIdToMBanner = new, !.notificationGroupParameters = more]
    BY <1>2, <1>4, <2>3 DEF AddGroup
  <2>5. PICK b : b = a
    OBVIOUS
  <2>6. PICK r : r = [b EXCEPT !.groupIdToMBanner = new, !.notificationGroupParameters = more]
    OBVIOUS
  <2>7. b = AreaWith(aloneBanners, contents, old, counts, groupOf, banners)
    BY <2>2, <2>5
  <2>8. r = AreaWith(aloneBanners, more, new, counts, groupOf, banners)
    BY <2>6, <2>7 DEF AreaWith
  <2>9. AddGroup(a, g, content) = r
    BY <2>4, <2>5, <2>6, Zenon
  <2>10. QED
    BY <2>1, <2>8, <2>9
<1>7. QED
  BY <1>5, <1>6 DEF AreaOf

\* What is counted in a group is forgotten with its banner.
Uncounted(groupOf, g) == Without(groupOf, CountedIn(groupOf, g))

LEMMA AreaForgetsGroup ==
    ASSUME NEW aloneBanners, NEW contents, NEW groupBanners, NEW counts, NEW groupOf, NEW banners, NEW g,
           NEW a, a = AreaWith(aloneBanners, contents, groupBanners, counts, groupOf, banners)
    PROVE  DeleteGroupFromNotificationCountOfGroup(a, g) =
               AreaWith(aloneBanners, contents, groupBanners, Without(counts, {g}), Uncounted(groupOf, g), banners)
<1>1. a.notificationCountOfGroup = counts /\ a.notificationIdToGroupId = groupOf
  BY DEF AreaWith
<1>2. PICK fewer, known : fewer = Without(counts, {g}) /\ known = Uncounted(groupOf, g)
  OBVIOUS
<1>3. known = Without(groupOf, {id \in DOMAIN groupOf : groupOf[id] = g})
  BY <1>2 DEF Uncounted, CountedIn
<1>4. DeleteGroupFromNotificationCountOfGroup(a, g) =
          [a EXCEPT !.notificationCountOfGroup = fewer, !.notificationIdToGroupId = known]
  BY <1>1, <1>2, <1>3 DEF DeleteGroupFromNotificationCountOfGroup
<1>5. QED
  BY <1>2, <1>4 DEF AreaWith

TakenFrom(banners, g, out) == IF g \in out THEN RemovedOne(banners, AGroupBanner(g)) ELSE banners

LEMMA AreaTakesOut ==
    ASSUME NEW alone, NEW contents, NEW made, NEW out, out \subseteq made, made \subseteq DOMAIN contents,
           NEW counts, NEW groupOf, NEW banners, NEW g,
           NEW a, a = AreaOf(alone, contents, made, out, counts, groupOf, banners)
    PROVE  TakenOut(a, g) = AreaOf(alone, contents, made, out, counts, groupOf, TakenFrom(banners, g, out))
<1>1. PICK aloneBanners, groupBanners, left :
          /\ aloneBanners = AloneBanners(alone) /\ groupBanners = GroupBanners(contents, made, out)
          /\ left = TakenFrom(banners, g, out)
  OBVIOUS
<1>2. a = AreaWith(aloneBanners, contents, groupBanners, counts, groupOf, banners)
  BY <1>1 DEF AreaOf
<1>3. BannerOf(a, g) # NULL /\ BannerOf(a, g).parented <=> g \in out
  BY BannerOfGroup
<1>4. CASE g \in out
  <2>1. TakenOut(a, g) = RemoveFromModel(a, AGroupBanner(g))
    BY <1>3, <1>4 DEF TakenOut
  <2>2. TakenOut(a, g) = [a EXCEPT !.banners = left]
    <3>1. a.banners = banners
      BY <1>2 DEF AreaWith
    <3>2. left = RemovedOne(banners, AGroupBanner(g))
      BY <1>1, <1>4 DEF TakenFrom
    <3>3. QED
      BY <2>1, <3>1, <3>2 DEF RemoveFromModel
  <2>3. PICK b : b = a
    OBVIOUS
  <2>4. PICK r : r = [b EXCEPT !.banners = left]
    OBVIOUS
  <2>5. b = AreaWith(aloneBanners, contents, groupBanners, counts, groupOf, banners)
    BY <1>2, <2>3
  <2>6. r = AreaWith(aloneBanners, contents, groupBanners, counts, groupOf, left)
    BY <2>4, <2>5 DEF AreaWith
  <2>7. TakenOut(a, g) = r
    BY <2>2, <2>3, <2>4, Zenon
  <2>8. QED
    BY <1>1, <2>6, <2>7 DEF AreaOf
<1>5. CASE g \notin out
  <2>1. TakenOut(a, g) = a
    BY <1>3, <1>5 DEF TakenOut
  <2>2. left = banners
    BY <1>1, <1>5 DEF TakenFrom
  <2>3. QED
    BY <1>1, <2>1, <2>2
<1>6. QED
  BY <1>4, <1>5

\* A group goes with its banner.
LEMMA AreaRemovesGroup ==
    ASSUME NEW alone, NEW contents, NEW made, NEW out, out \subseteq made, made \subseteq DOMAIN contents,
           NEW counts, NEW groupOf, NEW banners, NEW g \in DOMAIN contents,
           NEW left, left = Without(contents, {g}),
           NEW a, a = AreaOf(alone, contents, made, out, counts, groupOf, banners)
    PROVE  RemoveGroup(a, g) =
               AreaOf(alone, left, made \ {g}, out \ {g}, Without(counts, {g}), Uncounted(groupOf, g),
                      TakenFrom(banners, g, out))
<1>1. PICK aloneBanners, groupBanners, fewer, known, shown :
          /\ aloneBanners = AloneBanners(alone) /\ groupBanners = GroupBanners(contents, made, out)
          /\ fewer = Without(counts, {g}) /\ known = Uncounted(groupOf, g)
          /\ shown = TakenFrom(banners, g, out)
  OBVIOUS
<1>2. PICK b : b = TakenOut(a, g)
  OBVIOUS
<1>3. b = AreaWith(aloneBanners, contents, groupBanners, counts, groupOf, shown)
  <2>1. b = AreaOf(alone, contents, made, out, counts, groupOf, shown)
    BY <1>1, <1>2, AreaTakesOut
  <2>2. QED
    BY <1>1, <2>1 DEF AreaOf
<1>4. PICK without : without = Without(groupBanners, {g})
  OBVIOUS
<1>5. PICK c : c = [b EXCEPT !.groupIdToMBanner = without]
  OBVIOUS
<1>6. c = AreaWith(aloneBanners, contents, without, counts, groupOf, shown)
  BY <1>3, <1>5 DEF AreaWith
<1>7. PICK gone : gone = DeleteGroupFromNotificationCountOfGroup(c, g)
  OBVIOUS
<1>8. gone = AreaWith(aloneBanners, contents, without, fewer, known, shown)
  BY <1>1, <1>6, <1>7, AreaForgetsGroup
<1>9. RemoveGroup(a, g) = [gone EXCEPT !.notificationGroupParameters = left]
  <2>1. a.groupIdToMBanner = groupBanners
    BY <1>1 DEF AreaOf, AreaWith
  <2>2. g \in DOMAIN a.groupIdToMBanner
    BY <1>1, <2>1 DEF GroupBanners
  <2>3. b.groupIdToMBanner = groupBanners
    BY <1>3 DEF AreaWith
  <2>4. gone.notificationGroupParameters = contents
    BY <1>8 DEF AreaWith
  <2>5. gone = DeleteGroupFromNotificationCountOfGroup(
                   [TakenOut(a, g) EXCEPT !.groupIdToMBanner = Without(@, {g})], g)
    BY <1>2, <1>4, <1>5, <1>7, <2>3
  <2>6. QED
    BY <2>2, <2>4, <2>5 DEF RemoveGroup
<1>10. RemoveGroup(a, g) = AreaWith(aloneBanners, left, without, fewer, known, shown)
  BY <1>8, <1>9 DEF AreaWith
<1>11. without = GroupBanners(left, made \ {g}, out \ {g})
  <2>1. DOMAIN left = DOMAIN contents \ {g} /\ \A h \in DOMAIN left : left[h] = contents[h]
    BY DEF Without, Restrict
  <2>2. without = [h \in DOMAIN left |-> groupBanners[h]]
    BY <1>1, <1>4, <2>1 DEF Without, Restrict, GroupBanners
  <2>3. ASSUME NEW h \in DOMAIN left
        PROVE  groupBanners[h] = IF h \in made \ {g} THEN AreaBanner(left[h], h \in out \ {g}) ELSE NULL
    <3>1. h # g /\ h \in DOMAIN contents /\ left[h] = contents[h]
      BY <2>1
    <3>2. groupBanners[h] = IF h \in made THEN AreaBanner(contents[h], h \in out) ELSE NULL
      BY <1>1, <3>1 DEF GroupBanners
    <3>3. CASE h \in out
      BY <3>1, <3>2, <3>3 DEF AreaBanner
    <3>4. CASE h \notin out
      BY <3>1, <3>2, <3>4 DEF AreaBanner
    <3>5. QED
      BY <3>3, <3>4
  <2>4. QED
    BY <2>2, <2>3 DEF GroupBanners
<1>12. QED
  BY <1>1, <1>10, <1>11 DEF AreaOf

\* A banner goes while its group stays.
LEMMA AreaRemovesGroupBanner ==
    ASSUME NEW alone, NEW contents, NEW made, NEW out, out \subseteq made, made \subseteq DOMAIN contents,
           NEW counts, NEW groupOf, NEW banners, NEW g \in out,
           NEW a, a = AreaOf(alone, contents, made, out, counts, groupOf, banners)
    PROVE  RemoveGroupBanner(a, g) =
               AreaOf(alone, contents, made \ {g}, out \ {g}, Without(counts, {g}), Uncounted(groupOf, g),
                      RemovedOne(banners, AGroupBanner(g)))
<1>1. PICK aloneBanners, groupBanners, fewer, known, shown :
          /\ aloneBanners = AloneBanners(alone) /\ groupBanners = GroupBanners(contents, made, out)
          /\ fewer = Without(counts, {g}) /\ known = Uncounted(groupOf, g)
          /\ shown = RemovedOne(banners, AGroupBanner(g))
  OBVIOUS
<1>2. PICK b : b = TakenOut(a, g)
  OBVIOUS
<1>3. b = AreaWith(aloneBanners, contents, groupBanners, counts, groupOf, shown)
  <2>1. shown = TakenFrom(banners, g, out)
    BY <1>1 DEF TakenFrom
  <2>2. b = AreaOf(alone, contents, made, out, counts, groupOf, shown)
    BY <1>2, <2>1, AreaTakesOut
  <2>3. QED
    BY <1>1, <2>2 DEF AreaOf
<1>4. PICK changed : changed = [groupBanners EXCEPT ![g] = NULL]
  OBVIOUS
<1>5. PICK c : c = [b EXCEPT !.groupIdToMBanner[g] = NULL]
  OBVIOUS
<1>6. c = AreaWith(aloneBanners, contents, changed, counts, groupOf, shown)
  BY <1>3, <1>4, <1>5 DEF AreaWith
<1>7. RemoveGroupBanner(a, g) = DeleteGroupFromNotificationCountOfGroup(c, g)
  <2>1. BannerOf(a, g) # NULL /\ BannerOf(a, g).parented
    BY BannerOfGroup
  <2>2. QED
    BY <1>2, <1>5, <2>1 DEF RemoveGroupBanner
<1>8. RemoveGroupBanner(a, g) = AreaWith(aloneBanners, contents, changed, fewer, known, shown)
  BY <1>1, <1>6, <1>7, AreaForgetsGroup
<1>9. changed = GroupBanners(contents, made \ {g}, out \ {g})
  <2>1. DOMAIN groupBanners = DOMAIN contents
    BY <1>1 DEF GroupBanners
  <2>2. changed = [h \in DOMAIN contents |-> IF h = g THEN NULL ELSE groupBanners[h]]
    BY <1>4, <2>1
  <2>3. ASSUME NEW h \in DOMAIN contents
        PROVE  (IF h = g THEN NULL ELSE groupBanners[h]) =
                   IF h \in made \ {g} THEN AreaBanner(contents[h], h \in out \ {g}) ELSE NULL
    <3>1. CASE h = g
      BY <3>1
    <3>2. CASE h # g
      <4>1. groupBanners[h] = IF h \in made THEN AreaBanner(contents[h], h \in out) ELSE NULL
        BY <1>1 DEF GroupBanners
      <4>2. CASE h \in out
        BY <3>2, <4>1, <4>2 DEF AreaBanner
      <4>3. CASE h \notin out
        BY <3>2, <4>1, <4>3 DEF AreaBanner
      <4>4. QED
        BY <4>2, <4>3
    <3>3. QED
      BY <3>1, <3>2
  <2>4. QED
    BY <2>2, <2>3 DEF GroupBanners
<1>10. QED
  BY <1>1, <1>8, <1>9 DEF AreaOf

InFront(banners, b, there) == <<b>> \o (IF there THEN Removed(banners, b) ELSE banners)

\* The banner of a group that has none is made again.
LEMMA AreaMakesGroupBanner ==
    ASSUME NEW alone, NEW contents, NEW made, NEW out, out \subseteq made, made \subseteq DOMAIN contents,
           NEW counts, NEW groupOf, NEW banners, NEW g \in DOMAIN contents,
           NEW a, a = AreaOf(alone, contents, made, out, counts, groupOf, banners)
    PROVE  CreateGroupBanner(a, g) = AreaOf(alone, contents, made \cup {g}, out, counts, groupOf, banners)
<1>1. PICK aloneBanners, groupBanners :
          aloneBanners = AloneBanners(alone) /\ groupBanners = GroupBanners(contents, made, out)
  OBVIOUS
<1>2. a = AreaWith(aloneBanners, contents, groupBanners, counts, groupOf, banners)
  BY <1>1 DEF AreaOf
<1>3. a.groupIdToMBanner = groupBanners /\ a.notificationGroupParameters = contents
  BY <1>2 DEF AreaWith
<1>4. groupBanners[g] = BannerOf(a, g)
  BY <1>1, <1>3 DEF BannerOf, GroupBanners
<1>5. CASE g \in made
  <2>1. CreateGroupBanner(a, g) = a
    BY <1>3, <1>4, <1>5, BannerOfGroup DEF CreateGroupBanner
  <2>2. made \cup {g} = made
    BY <1>5
  <2>3. QED
    BY <2>1, <2>2
<1>6. CASE g \notin made
  <2>1. PICK banner : banner = InfoBanner(contents[g])
    OBVIOUS
  <2>2. PICK changed : changed = [groupBanners EXCEPT ![g] = banner]
    OBVIOUS
  <2>3. groupBanners[g] = NULL
    BY <1>4, <1>6, BannerOfGroup
  <2>4. CreateGroupBanner(a, g) = [a EXCEPT !.groupIdToMBanner[g] = banner]
    BY <1>3, <2>1, <2>3 DEF CreateGroupBanner
  <2>5. CreateGroupBanner(a, g) = AreaWith(aloneBanners, contents, changed, counts, groupOf, banners)
    <3>1. PICK b : b = a
      OBVIOUS
    <3>2. PICK r : r = [b EXCEPT !.groupIdToMBanner[g] = banner]
      OBVIOUS
    <3>3. b = AreaWith(aloneBanners, contents, groupBanners, counts, groupOf, banners)
      BY <1>2, <3>1
    <3>4. r = AreaWith(aloneBanners, contents, changed, counts, groupOf, banners)
      BY <2>2, <3>2, <3>3 DEF AreaWith
    <3>5. CreateGroupBanner(a, g) = r
      BY <2>4, <3>1, <3>2, Zenon
    <3>6. QED
      BY <3>4, <3>5
  <2>6. changed = GroupBanners(contents, made \cup {g}, out)
    <3>1. DOMAIN groupBanners = DOMAIN contents
      BY <1>1 DEF GroupBanners
    <3>2. changed = [h \in DOMAIN contents |-> IF h = g THEN banner ELSE groupBanners[h]]
      BY <2>2, <3>1
    <3>3. ASSUME NEW h \in DOMAIN contents
          PROVE  (IF h = g THEN banner ELSE groupBanners[h]) =
                     IF h \in made \cup {g} THEN AreaBanner(contents[h], h \in out) ELSE NULL
      <4>1. CASE h = g
        <5>1. g \notin out
          BY <1>6
        <5>2. QED
          BY <2>1, <4>1, <5>1 DEF AreaBanner
      <4>2. CASE h # g
        <5>1. groupBanners[h] = IF h \in made THEN AreaBanner(contents[h], h \in out) ELSE NULL
          BY <1>1 DEF GroupBanners
        <5>2. QED
          BY <4>2, <5>1
      <4>3. QED
        BY <4>1, <4>2
    <3>4. QED
      BY <3>2, <3>3 DEF GroupBanners
  <2>7. QED
    BY <1>1, <2>5, <2>6 DEF AreaOf
<1>7. QED
  BY <1>5, <1>6

\* It is laid out with the first notification, and moved to the top with any other.
LEMMA AreaLaysGroupOut ==
    ASSUME NEW alone, NEW contents, NEW made, NEW out, out \subseteq made, made \subseteq DOMAIN contents,
           NEW counts, NEW groupOf, NEW banners, NEW g \in DOMAIN contents,
           g \in out => banners # <<>>, NEW id,
           NEW a, a = AreaOf(alone, contents, made, out, counts, groupOf, banners)
    PROVE  AddNotificationToGroup(a, id, g) =
               AreaOf(alone, contents, made \cup {g}, out \cup {g},
                      With(counts, g, CountIn(counts, g) + 1), With(groupOf, id, g),
                      InFront(banners, AGroupBanner(g), g \in out))
<1>1. PICK aloneBanners, groupBanners, more, known, shown :
          /\ aloneBanners = AloneBanners(alone) /\ groupBanners = GroupBanners(contents, made \cup {g}, out)
          /\ more = With(counts, g, CountIn(counts, g) + 1) /\ known = With(groupOf, id, g)
          /\ shown = InFront(banners, AGroupBanner(g), g \in out)
  OBVIOUS
<1>2. PICK b : b = CreateGroupBanner(a, g)
  OBVIOUS
<1>3. b = AreaOf(alone, contents, made \cup {g}, out, counts, groupOf, banners)
  BY <1>2, AreaMakesGroupBanner
<1>4. b = AreaWith(aloneBanners, contents, groupBanners, counts, groupOf, banners)
  BY <1>1, <1>3 DEF AreaOf
<1>5. b.groupIdToMBanner = groupBanners /\ b.banners = banners
  BY <1>4 DEF AreaWith
<1>6. g \in DOMAIN a.groupIdToMBanner
  <2>1. a.groupIdToMBanner = GroupBanners(contents, made, out)
    BY DEF AreaOf, AreaWith
  <2>2. QED
    BY <2>1 DEF GroupBanners
<1>7. groupBanners[g] = AreaBanner(contents[g], g \in out)
  BY <1>1 DEF GroupBanners
<1>8. PICK changed : changed = GroupBanners(contents, made \cup {g}, out \cup {g})
  OBVIOUS
<1>9. PICK laid : laid = IF groupBanners[g].parented THEN MoveNotificationToTop(b, AGroupBanner(g))
                         ELSE AddToModel([b EXCEPT !.groupIdToMBanner[g].parented = TRUE], AGroupBanner(g))
  OBVIOUS
<1>10. laid = AreaWith(aloneBanners, contents, changed, counts, groupOf, shown)
  <2>1. CASE g \in out
    <3>1. groupBanners[g].parented
      BY <1>7, <2>1, BannerKinds DEF AreaBanner
    <3>2. shown = <<AGroupBanner(g)>> \o Removed(banners, AGroupBanner(g))
      BY <1>1, <2>1 DEF InFront
    <3>3. laid = [b EXCEPT !.banners = shown]
      BY <1>5, <1>9, <2>1, <3>1, <3>2 DEF MoveNotificationToTop
    <3>4. laid = AreaWith(aloneBanners, contents, groupBanners, counts, groupOf, shown)
      BY <1>4, <3>3 DEF AreaWith
    <3>5. out \cup {g} = out
      BY <2>1
    <3>6. QED
      BY <1>1, <1>8, <3>4, <3>5
  <2>2. CASE g \notin out
    <3>1. ~groupBanners[g].parented /\ groupBanners[g] = InfoBanner(contents[g])
      BY <1>7, <2>2, BannerKinds DEF AreaBanner
    <3>2. shown = <<AGroupBanner(g)>> \o banners
      BY <1>1, <2>2 DEF InFront
    <3>3. PICK parented : parented = [groupBanners EXCEPT ![g] = [groupBanners[g] EXCEPT !.parented = TRUE]]
      OBVIOUS
    <3>4. PICK c : c = [b EXCEPT !.groupIdToMBanner[g].parented = TRUE]
      OBVIOUS
    <3>5. c = AreaWith(aloneBanners, contents, parented, counts, groupOf, banners)
      BY <1>4, <3>3, <3>4 DEF AreaWith
    <3>6. laid = [c EXCEPT !.banners = shown]
      <4>1. c.banners = banners
        BY <3>5 DEF AreaWith
      <4>2. laid = AddToModel(c, AGroupBanner(g))
        BY <1>9, <3>1, <3>4
      <4>3. QED
        BY <3>2, <4>1, <4>2 DEF AddToModel
    <3>7. laid = AreaWith(aloneBanners, contents, parented, counts, groupOf, shown)
      BY <3>5, <3>6 DEF AreaWith
    <3>8. parented = changed
      <4>1. DOMAIN groupBanners = DOMAIN contents
        BY <1>1 DEF GroupBanners
      <4>2. PICK banner : banner = LaidOutBanner(contents[g])
        OBVIOUS
      <4>3. [groupBanners[g] EXCEPT !.parented = TRUE] = banner
        BY <3>1, <4>2, LaidOutWithParent, Zenon
      <4>4. parented = [h \in DOMAIN contents |-> IF h = g THEN banner ELSE groupBanners[h]]
        BY <3>3, <4>1, <4>3
      <4>5. ASSUME NEW h \in DOMAIN contents
            PROVE  (IF h = g THEN banner ELSE groupBanners[h]) =
                       IF h \in made \cup {g} THEN AreaBanner(contents[h], h \in out \cup {g}) ELSE NULL
        <5>1. CASE h = g
          BY <4>2, <5>1 DEF AreaBanner
        <5>2. CASE h # g
          <6>1. groupBanners[h] = IF h \in made \cup {g} THEN AreaBanner(contents[h], h \in out) ELSE NULL
            BY <1>1 DEF GroupBanners
          <6>2. QED
            BY <5>2, <6>1 DEF AreaBanner
        <5>3. QED
          BY <5>1, <5>2
      <4>6. QED
        BY <1>8, <4>4, <4>5 DEF GroupBanners
    <3>9. QED
      BY <3>7, <3>8
  <2>3. QED
    BY <2>1, <2>2
<1>11. AddNotificationToGroup(a, id, g) = AreaWith(aloneBanners, contents, changed, more, known, shown)
  <2>1. laid.notificationCountOfGroup = counts /\ laid.notificationIdToGroupId = groupOf
    BY <1>10 DEF AreaWith
  <2>2. Count(laid, g) = CountIn(counts, g)
    BY <2>1 DEF Count, CountIn
  <2>3. IncreaseNotificationCountOfGroup(laid, id, g) =
            [laid EXCEPT !.notificationCountOfGroup = more, !.notificationIdToGroupId = known]
    BY <1>1, <2>1, <2>2 DEF IncreaseNotificationCountOfGroup
  <2>4. AddNotificationToGroup(a, id, g) = IncreaseNotificationCountOfGroup(laid, id, g)
    BY <1>2, <1>5, <1>6, <1>9 DEF AddNotificationToGroup
  <2>5. QED
    BY <1>10, <2>3, <2>4 DEF AreaWith
<1>12. QED
  BY <1>1, <1>8, <1>11 DEF AreaOf

WithAlone(banners, alone, id) == IF id \in DOMAIN alone THEN banners ELSE <<ABanner(id)>> \o banners

\* A notification in no group has a banner of its own.
LEMMA AreaLaysNotificationOut ==
    ASSUME NEW alone, NEW contents, NEW groupBanners, NEW counts, NEW groupOf, NEW banners, NEW id, NEW content,
           NEW old, old = AloneBanners(alone), NEW more, more = With(alone, id, content), NEW shown,
           shown = WithAlone(banners, alone, id),
           NEW a, a = AreaWith(old, contents, groupBanners, counts, groupOf, banners)
    PROVE  AddStandAloneNotification(a, id, content) =
               AreaWith(AloneBanners(more), contents, groupBanners, counts, groupOf, shown)
<1>1. PICK new : new = With(old, id, LaidOutBanner(content))
  OBVIOUS
<1>2. [InfoBanner(content) EXCEPT !.parented = TRUE] = LaidOutBanner(content)
  <2>1. PICK banner : banner = InfoBanner(content)
    OBVIOUS
  <2>2. [banner EXCEPT !.parented = TRUE] = LaidOutBanner(content)
    BY <2>1, LaidOutWithParent
  <2>3. QED
    BY <2>1, <2>2, Zenon
<1>3. a.notificationIdToMBanner = old
  BY DEF AreaWith
<1>4. DOMAIN old = DOMAIN alone
  BY DEF AloneBanners
<1>5. new = AloneBanners(more)
  <2>1. DOMAIN more = DOMAIN alone \cup {id}
    BY DEF With
  <2>2. new = [k \in DOMAIN more |-> IF k = id THEN LaidOutBanner(content) ELSE old[k]]
    BY <1>1, <1>4, <2>1 DEF With
  <2>3. ASSUME NEW k \in DOMAIN more
        PROVE  (IF k = id THEN LaidOutBanner(content) ELSE old[k]) = LaidOutBanner(more[k])
    <3>1. CASE k = id
      BY <3>1 DEF With
    <3>2. CASE k # id
      <4>1. k \in DOMAIN alone /\ more[k] = alone[k]
        BY <2>1, <3>2 DEF With
      <4>2. old[k] = LaidOutBanner(alone[k])
        BY <4>1 DEF AloneBanners
      <4>3. QED
        BY <3>2, <4>1, <4>2
    <3>3. QED
      BY <3>1, <3>2
  <2>4. QED
    BY <2>2, <2>3 DEF AloneBanners
<1>6. PICK b : b = [a EXCEPT !.notificationIdToMBanner = new]
  OBVIOUS
<1>7. b = AreaWith(new, contents, groupBanners, counts, groupOf, banners)
  BY <1>6 DEF AreaWith
<1>8. AddStandAloneNotification(a, id, content) =
          IF id \in DOMAIN alone THEN b ELSE AddToModel(b, ABanner(id))
  BY <1>1, <1>2, <1>3, <1>4, <1>6 DEF AddStandAloneNotification
<1>9. CASE id \in DOMAIN alone
  BY <1>5, <1>7, <1>8, <1>9 DEF WithAlone
<1>10. CASE id \notin DOMAIN alone
  <2>1. b.banners = banners
    BY <1>7 DEF AreaWith
  <2>2. PICK s : s = [b EXCEPT !.banners = shown]
    OBVIOUS
  <2>3. AddToModel(b, ABanner(id)) = s
    BY <1>10, <2>1, <2>2 DEF AddToModel, WithAlone
  <2>4. s = AreaWith(new, contents, groupBanners, counts, groupOf, shown)
    BY <1>7, <2>2 DEF AreaWith
  <2>5. QED
    BY <1>5, <1>8, <1>10, <2>3, <2>4
<1>11. QED
  BY <1>9, <1>10

WithoutAlone(banners, alone, id) ==
    IF id \in DOMAIN alone THEN RemovedOne(banners, ABanner(id)) ELSE banners

WithoutBanner(a, id) ==
    IF id \notin DOMAIN a.notificationIdToMBanner THEN a
    ELSE RemoveFromModel([a EXCEPT !.notificationIdToMBanner = Without(@, {id})], ABanner(id))

\* A banner goes with its notification.
LEMMA AreaTakesNotificationOut ==
    ASSUME NEW alone, NEW contents, NEW groupBanners, NEW counts, NEW groupOf, NEW banners, NEW id,
           NEW less, less = Without(alone, {id}), NEW shown,
           shown = WithoutAlone(banners, alone, id),
           NEW old, old = AloneBanners(alone),
           NEW a, a = AreaWith(old, contents, groupBanners, counts, groupOf, banners)
    PROVE  WithoutBanner(a, id) = AreaWith(AloneBanners(less), contents, groupBanners, counts, groupOf, shown)
<1>1. PICK new : new = Without(old, {id})
  OBVIOUS
<1>2. a = AreaWith(old, contents, groupBanners, counts, groupOf, banners)
  OBVIOUS
<1>3. a.notificationIdToMBanner = old
  BY <1>2 DEF AreaWith
<1>4. DOMAIN old = DOMAIN alone
  BY DEF AloneBanners
<1>5. new = AloneBanners(less)
  <2>1. DOMAIN less = DOMAIN alone \ {id} /\ \A k \in DOMAIN less : less[k] = alone[k]
    BY DEF Without, Restrict
  <2>2. new = [k \in DOMAIN less |-> old[k]]
    BY <1>1, <1>4, <2>1 DEF Without, Restrict
  <2>3. \A k \in DOMAIN less : old[k] = LaidOutBanner(less[k])
    BY <2>1 DEF AloneBanners
  <2>4. QED
    BY <2>2, <2>3 DEF AloneBanners
<1>6. CASE id \in DOMAIN alone
  <2>1. PICK b : b = [a EXCEPT !.notificationIdToMBanner = new]
    OBVIOUS
  <2>2. b = AreaWith(new, contents, groupBanners, counts, groupOf, banners)
    BY <2>1 DEF AreaWith
  <2>3. b.banners = banners
    BY <2>2 DEF AreaWith
  <2>4. WithoutBanner(a, id) = RemoveFromModel(b, ABanner(id))
    BY <1>1, <1>3, <1>4, <1>6, <2>1 DEF WithoutBanner
  <2>5. PICK s : s = [b EXCEPT !.banners = shown]
    OBVIOUS
  <2>6. s = AreaWith(new, contents, groupBanners, counts, groupOf, shown)
    BY <2>2, <2>5 DEF AreaWith
  <2>7. WithoutBanner(a, id) = s
    BY <1>6, <2>3, <2>4, <2>5 DEF RemoveFromModel, WithoutAlone
  <2>8. QED
    BY <1>5, <2>6, <2>7
<1>7. CASE id \notin DOMAIN alone
  <2>1. new = old
    <3>1. DOMAIN old \ {id} = DOMAIN old
      BY <1>4, <1>7
    <3>2. old = [k \in DOMAIN old |-> old[k]]
      BY DEF AloneBanners
    <3>3. QED
      BY <1>1, <3>1, <3>2 DEF Without, Restrict
  <2>2. WithoutBanner(a, id) = a
    BY <1>3, <1>4, <1>7 DEF WithoutBanner
  <2>3. QED
    BY <1>2, <1>5, <1>7, <2>1, <2>2 DEF WithoutAlone
<1>8. QED
  BY <1>6, <1>7

LEMMA AreaRemovesAlone ==
    ASSUME NEW alone, NEW contents, NEW made, NEW out, NEW counts, NEW groupOf, NEW banners,
           NEW id, id \notin DOMAIN groupOf,
           NEW less, less = Without(alone, {id}), NEW shown,
           shown = WithoutAlone(banners, alone, id),
           NEW a, a = AreaOf(alone, contents, made, out, counts, groupOf, banners)
    PROVE  RemoveNotification(a, id) = AreaOf(less, contents, made, out, counts, groupOf, shown)
<1>1. PICK groupBanners, old : groupBanners = GroupBanners(contents, made, out) /\ old = AloneBanners(alone)
  OBVIOUS
<1>2. a = AreaWith(old, contents, groupBanners, counts, groupOf, banners)
  BY <1>1 DEF AreaOf
<1>3. PICK s : s = WithoutBanner(a, id)
  OBVIOUS
<1>4. s = AreaWith(AloneBanners(less), contents, groupBanners, counts, groupOf, shown)
  BY <1>1, <1>2, <1>3, AreaTakesNotificationOut
<1>5. a.notificationIdToGroupId = groupOf
  BY <1>2 DEF AreaWith
<1>6. RemoveNotification(a, id) = s
  BY <1>3, <1>5 DEF RemoveNotification, WithoutBanner
<1>7. QED
  BY <1>1, <1>4, <1>6 DEF AreaOf

(* Without one element, by a name.                                         *)
Dropped(f, x) == Without(f, {x})
AllBut(S, x) == S \ {x}

LEMMA AreaStopsCounting ==
    ASSUME NEW alone, NEW contents, NEW made, NEW out, out \subseteq made, made \subseteq DOMAIN contents,
           NEW counts, NEW groupOf, NEW banners,
           NEW id \in DOMAIN groupOf, NEW g \in out, g = groupOf[id],
           NEW c \in Nat, c = CountIn(counts, g), c > 0, NEW d, d = c - 1,
           NEW less, less = Dropped(alone, id), NEW shown, shown = WithoutAlone(banners, alone, id),
           NEW fewer, fewer = With(counts, g, d), NEW none, none = Dropped(fewer, g),
           NEW left, left = Dropped(groupOf, id), NEW rest, rest = Dropped(Uncounted(groupOf, g), id),
           NEW last, last = RemovedOne(shown, AGroupBanner(g)),
           NEW a, a = AreaOf(alone, contents, made, out, counts, groupOf, banners)
    PROVE  /\ c = 1 => RemoveNotification(a, id) =
                           AreaOf(less, contents, AllBut(made, g), AllBut(out, g), none, rest, last)
           /\ c # 1 => RemoveNotification(a, id) = AreaOf(less, contents, made, out, fewer, left, shown)
<1>1. PICK groupBanners, old : groupBanners = GroupBanners(contents, made, out) /\ old = AloneBanners(alone)
  OBVIOUS
<1>2. a = AreaWith(old, contents, groupBanners, counts, groupOf, banners)
  BY <1>1 DEF AreaOf
<1>3. PICK s : s = WithoutBanner(a, id)
  OBVIOUS
<1>4. s = AreaWith(AloneBanners(less), contents, groupBanners, counts, groupOf, shown)
  <2>1. less = Without(alone, {id})
    BY DEF Dropped
  <2>2. QED
    BY <1>1, <1>2, <1>3, <2>1, AreaTakesNotificationOut
<1>5. PICK new : new = AloneBanners(less)
  OBVIOUS
<1>6. a.notificationIdToGroupId = groupOf
  BY <1>2 DEF AreaWith
<1>7. s = AreaWith(new, contents, groupBanners, counts, groupOf, shown)
  BY <1>4, <1>5
<1>8. PICK counted : counted = DecreaseNotificationCountOfGroup(s, g)
  OBVIOUS
<1>9. counted = AreaWith(new, contents, groupBanners, fewer, groupOf, shown)
  <2>1. s.notificationCountOfGroup = counts
    BY <1>7 DEF AreaWith
  <2>2. Count(s, g) = c
    BY <2>1 DEF Count, CountIn
  <2>3. counted = [s EXCEPT !.notificationCountOfGroup = fewer]
    BY <1>8, <2>1, <2>2 DEF DecreaseNotificationCountOfGroup
  <2>4. QED
    BY <1>7, <2>3 DEF AreaWith
<1>10. Count(counted, g) = c - 1
  <2>1. counted.notificationCountOfGroup = fewer
    BY <1>9 DEF AreaWith
  <2>2. g \in DOMAIN fewer /\ fewer[g] = c - 1
    BY DEF With
  <2>3. QED
    BY <2>1, <2>2 DEF Count
<1>11. PICK removed : removed = IF Count(counted, g) = 0 THEN RemoveGroupBanner(counted, g) ELSE counted
  OBVIOUS
<1>12. RemoveNotification(a, id) = [removed EXCEPT !.notificationIdToGroupId = Without(@, {id})]
  BY <1>3, <1>6, <1>8, <1>11 DEF RemoveNotification, WithoutBanner
<1>13. CASE c = 1
  <2>1. PICK known, gone :
            known = Uncounted(groupOf, g) /\ gone = GroupBanners(contents, made \ {g}, out \ {g})
    OBVIOUS
  <2>2. removed = RemoveGroupBanner(counted, g)
    BY <1>10, <1>11, <1>13
  <2>3. counted = AreaOf(less, contents, made, out, fewer, groupOf, shown)
    BY <1>1, <1>5, <1>9 DEF AreaOf
  <2>4. removed = AreaOf(less, contents, made \ {g}, out \ {g}, none, known, last)
    <3>1. none = Without(fewer, {g})
      BY DEF Dropped
    <3>2. QED
      BY <2>1, <2>2, <2>3, <3>1, AreaRemovesGroupBanner
  <2>5. removed = AreaWith(new, contents, gone, none, known, last)
    BY <1>5, <2>1, <2>4 DEF AreaOf
  <2>6. removed.notificationIdToGroupId = known
    BY <2>5 DEF AreaWith
  <2>7. RemoveNotification(a, id) = [removed EXCEPT !.notificationIdToGroupId = rest]
    BY <1>12, <2>1, <2>6 DEF Dropped
  <2>8. RemoveNotification(a, id) = AreaWith(new, contents, gone, none, rest, last)
    BY <2>5, <2>7 DEF AreaWith
  <2>9. QED
    BY <1>5, <1>13, <2>1, <2>8 DEF AreaOf, AllBut
<1>14. CASE c # 1
  <2>1. removed = counted
    BY <1>10, <1>11, <1>14
  <2>2. removed.notificationIdToGroupId = groupOf
    BY <1>9, <2>1 DEF AreaWith
  <2>3. RemoveNotification(a, id) = [removed EXCEPT !.notificationIdToGroupId = left]
    BY <1>12, <2>2 DEF Dropped
  <2>4. RemoveNotification(a, id) = AreaWith(new, contents, groupBanners, fewer, left, shown)
    BY <1>9, <2>1, <2>3 DEF AreaWith
  <2>5. QED
    BY <1>1, <1>5, <1>14, <2>4 DEF AreaOf
<1>15. QED
  BY <1>13, <1>14

-----------------------------------------------------------------------------
(* The area fits the notifications, whatever it hears.                     *)

\* What is counted in a group is finite.
LEMMA CountedFinite ==
    ASSUME NEW groupOf, IsFiniteSet(DOMAIN groupOf), NEW g
    PROVE  IsFiniteSet(CountedIn(groupOf, g)) /\ Cardinality(CountedIn(groupOf, g)) \in Nat
<1>1. CountedIn(groupOf, g) \in SUBSET DOMAIN groupOf
  BY DEF CountedIn
<1>2. QED
  BY <1>1, FS_Subset, FS_CardinalityType

LEMMA CountsAreNumbers ==
    ASSUME NEW counts, \A g \in DOMAIN counts : counts[g] \in Nat, NEW g
    PROVE  CountIn(counts, g) \in Nat
BY DEF CountIn

\* One more, or the same once more.
LEMMA CountsOneMore ==
    ASSUME NEW out, NEW counts, NEW groupOf, CountsEach(out, counts, groupOf), NEW id, NEW g,
           NEW more, more = With(counts, g, CountIn(counts, g) + 1),
           NEW known, known = With(groupOf, id, g)
    PROVE  CountsEach(out \cup {g}, more, known)
<1>1. /\ DOMAIN known = DOMAIN groupOf \cup {id} /\ known[id] = g
      /\ \A k \in DOMAIN groupOf \ {id} : known[k] = groupOf[k]
  BY DEF With
<1>2. /\ DOMAIN more = DOMAIN counts \cup {g} /\ more[g] = CountIn(counts, g) + 1
      /\ \A h \in DOMAIN counts \ {g} : more[h] = counts[h]
  BY DEF With
<1>3. IsFiniteSet(DOMAIN known)
  <2>1. IsFiniteSet(DOMAIN groupOf)
    BY DEF CountsEach
  <2>2. IsFiniteSet(DOMAIN groupOf \cup {id})
    BY <2>1, FS_AddElement
  <2>3. QED
    BY <1>1, <2>2
<1>4. \A h \in DOMAIN more : more[h] \in Nat
  <2>1. CountIn(counts, g) \in Nat /\ \A h \in DOMAIN counts : counts[h] \in Nat
    BY CountsAreNumbers DEF CountsEach
  <2>2. QED
    BY <1>2, <2>1
<1>5. \A k \in DOMAIN known : known[k] \in out \cup {g}
  BY <1>1 DEF CountsEach
<1>6. ASSUME NEW h \in out \cup {g}
      PROVE  Cardinality(CountedIn(known, h)) <= CountIn(more, h)
  <2>1. /\ IsFiniteSet(CountedIn(groupOf, h)) /\ Cardinality(CountedIn(groupOf, h)) \in Nat
        /\ IsFiniteSet(CountedIn(known, h)) /\ Cardinality(CountedIn(known, h)) \in Nat
    BY <1>3, CountedFinite DEF CountsEach
  <2>2. Cardinality(CountedIn(groupOf, h)) <= CountIn(counts, h) /\ CountIn(counts, h) \in Nat
    <3>1. CountIn(counts, h) \in Nat
      BY CountsAreNumbers DEF CountsEach
    <3>2. CASE h \in out
      BY <3>1, <3>2 DEF CountsEach
    <3>3. CASE h \notin out
      <4>1. CountedIn(groupOf, h) = {}
        BY <3>3 DEF CountedIn, CountsEach
      <4>2. Cardinality(CountedIn(groupOf, h)) = 0
        BY <4>1, FS_EmptySet
      <4>3. QED
        BY <3>1, <4>2
    <3>4. QED
      BY <3>1, <3>2, <3>3
  <2>3. CASE h = g
    <3>1. PICK old : old = CountedIn(groupOf, g)
      OBVIOUS
    <3>2. CountedIn(known, g) \in SUBSET (old \cup {id})
      BY <1>1, <3>1 DEF CountedIn
    <3>3. IsFiniteSet(old \cup {id}) /\ Cardinality(old \cup {id}) <= Cardinality(old) + 1
          /\ Cardinality(old \cup {id}) \in Nat
      <4>1. IsFiniteSet(old) /\ Cardinality(old) \in Nat
        BY <2>1, <2>3, <3>1
      <4>2. /\ IsFiniteSet(old \cup {id})
            /\ Cardinality(old \cup {id}) = IF id \in old THEN Cardinality(old) ELSE Cardinality(old) + 1
        BY <4>1, FS_AddElement
      <4>3. QED
        BY <4>1, <4>2
    <3>4. Cardinality(CountedIn(known, g)) <= Cardinality(old \cup {id})
      BY <3>2, <3>3, FS_Subset
    <3>5. CountIn(more, g) = CountIn(counts, g) + 1
      BY <1>2 DEF CountIn
    <3>6. QED
      BY <2>1, <2>2, <2>3, <3>1, <3>3, <3>4, <3>5
  <2>4. CASE h # g
    <3>1. CountedIn(known, h) \in SUBSET CountedIn(groupOf, h)
      BY <1>1, <2>4 DEF CountedIn
    <3>2. Cardinality(CountedIn(known, h)) <= Cardinality(CountedIn(groupOf, h))
      BY <2>1, <3>1, FS_Subset
    <3>3. CountIn(more, h) = CountIn(counts, h)
      BY <1>2, <2>4 DEF CountIn
    <3>4. QED
      BY <2>1, <2>2, <3>2, <3>3
  <2>5. QED
    BY <2>3, <2>4
<1>7. QED
  BY <1>3, <1>4, <1>5, <1>6 DEF CountsEach

\* One less.
LEMMA CountsOneLess ==
    ASSUME NEW out, NEW counts, NEW groupOf, CountsEach(out, counts, groupOf),
           NEW id \in DOMAIN groupOf, NEW g, g = groupOf[id],
           NEW fewer, fewer = With(counts, g, CountIn(counts, g) - 1),
           NEW left, left = Without(groupOf, {id})
    PROVE  /\ g \in out /\ CountIn(counts, g) \in Nat /\ CountIn(counts, g) > 0
           /\ CountsEach(out, fewer, left)
           /\ CountIn(counts, g) = 1 => CountedIn(groupOf, g) = {id}
<1>1. g \in out
  BY DEF CountsEach
<1>2. PICK old, c : old = CountedIn(groupOf, g) /\ c = CountIn(counts, g)
  OBVIOUS
<1>3. IsFiniteSet(old) /\ Cardinality(old) \in Nat /\ id \in old
  <2>1. id \in old
    BY <1>2 DEF CountedIn
  <2>2. QED
    BY <1>2, <2>1, CountedFinite DEF CountsEach
<1>4. c \in Nat /\ Cardinality(old) <= c
  BY <1>1, <1>2, CountsAreNumbers DEF CountsEach
<1>5. IsFiniteSet(old \ {id}) /\ Cardinality(old \ {id}) = Cardinality(old) - 1
      /\ Cardinality(old \ {id}) \in Nat
  <2>1. IsFiniteSet(old \ {id})
        /\ Cardinality(old \ {id}) = IF id \in old THEN Cardinality(old) - 1 ELSE Cardinality(old)
    BY <1>3, FS_RemoveElement
  <2>2. QED
    BY <1>3, <2>1, FS_CardinalityType
<1>6. c > 0
  BY <1>3, <1>4, <1>5
<1>7. c = 1 => old = {id}
  <2>1. c = 1 => Cardinality(old \ {id}) = 0
    BY <1>3, <1>4, <1>5
  <2>2. c = 1 => old \ {id} = {}
    BY <1>5, <2>1, FS_EmptySet
  <2>3. QED
    BY <1>3, <2>2
<1>8. CountsEach(out, fewer, left)
  <2>1. /\ DOMAIN left = DOMAIN groupOf \ {id}
        /\ \A k \in DOMAIN left : left[k] = groupOf[k]
    BY DEF Without, Restrict
  <2>2. /\ DOMAIN fewer = DOMAIN counts \cup {g} /\ fewer[g] = c - 1
        /\ \A h \in DOMAIN counts \ {g} : fewer[h] = counts[h]
    BY <1>2 DEF With
  <2>3. IsFiniteSet(DOMAIN left)
    <3>1. IsFiniteSet(DOMAIN groupOf) /\ DOMAIN left \in SUBSET DOMAIN groupOf
      BY <2>1 DEF CountsEach
    <3>2. QED
      BY <3>1, FS_Subset
  <2>4. \A h \in DOMAIN fewer : fewer[h] \in Nat
    BY <1>4, <1>6, <2>2 DEF CountsEach
  <2>5. \A k \in DOMAIN left : left[k] \in out
    BY <2>1 DEF CountsEach
  <2>6. ASSUME NEW h \in out
        PROVE  Cardinality(CountedIn(left, h)) <= CountIn(fewer, h)
    <3>1. CASE h = g
      <4>1. CountedIn(left, g) = old \ {id}
        BY <1>2, <2>1 DEF CountedIn
      <4>2. CountIn(fewer, g) = c - 1
        BY <2>2 DEF CountIn
      <4>3. Cardinality(old \ {id}) <= c - 1
        BY <1>3, <1>4, <1>5
      <4>4. QED
        BY <3>1, <4>1, <4>2, <4>3
    <3>2. CASE h # g
      <4>1. CountedIn(left, h) = CountedIn(groupOf, h)
        BY <2>1, <3>2 DEF CountedIn
      <4>2. CountIn(fewer, h) = CountIn(counts, h)
        BY <2>2, <3>2 DEF CountIn
      <4>3. QED
        BY <4>1, <4>2 DEF CountsEach
    <3>3. QED
      BY <3>1, <3>2
  <2>7. QED
    BY <2>3, <2>4, <2>5, <2>6 DEF CountsEach
<1>9. QED
  BY <1>1, <1>2, <1>4, <1>6, <1>7, <1>8

\* None any more.
LEMMA CountsNone ==
    ASSUME NEW out, NEW counts, NEW groupOf, CountsEach(out, counts, groupOf), NEW g,
           NEW fewer, fewer = Without(counts, {g}),
           NEW left, left = Uncounted(groupOf, g)
    PROVE  /\ CountsEach(out \ {g}, fewer, left)
           /\ DOMAIN left = {k \in DOMAIN groupOf : groupOf[k] # g}
           /\ \A k \in DOMAIN left : left[k] = groupOf[k]
<1>1. /\ DOMAIN left = {k \in DOMAIN groupOf : groupOf[k] # g}
      /\ \A k \in DOMAIN left : left[k] = groupOf[k]
  BY DEF Uncounted, CountedIn, Without, Restrict
<1>2. DOMAIN fewer = DOMAIN counts \ {g} /\ \A h \in DOMAIN fewer : fewer[h] = counts[h]
  BY DEF Without, Restrict
<1>3. IsFiniteSet(DOMAIN left)
  <2>1. IsFiniteSet(DOMAIN groupOf) /\ DOMAIN left \in SUBSET DOMAIN groupOf
    BY <1>1 DEF CountsEach
  <2>2. QED
    BY <2>1, FS_Subset
<1>4. \A h \in DOMAIN fewer : fewer[h] \in Nat
  BY <1>2 DEF CountsEach
<1>5. \A k \in DOMAIN left : left[k] \in out \ {g}
  BY <1>1 DEF CountsEach
<1>6. ASSUME NEW h \in out \ {g}
      PROVE  Cardinality(CountedIn(left, h)) <= CountIn(fewer, h)
  <2>1. CountedIn(left, h) = CountedIn(groupOf, h)
    BY <1>1 DEF CountedIn
  <2>2. CountIn(fewer, h) = CountIn(counts, h)
    BY <1>2 DEF CountIn
  <2>3. QED
    BY <2>1, <2>2 DEF CountsEach
<1>7. QED
  BY <1>1, <1>3, <1>4, <1>5, <1>6 DEF CountsEach

\* Without one of the notifications, and of those counted, and without the banner
\* of its own, each of the others is still shown.
LEMMA OthersStillShown ==
    ASSUME NEW apps, NEW alone, NEW groupOf, Shows(apps, alone, groupOf), NEW id,
           NEW less, DOMAIN less = DOMAIN apps \ {id}, \A k \in DOMAIN less : less[k] = apps[k],
           NEW left, DOMAIN groupOf \ {id} \subseteq DOMAIN left,
           \A k \in DOMAIN groupOf \ {id} : left[k] = groupOf[k]
    PROVE  Shows(less, Without(alone, {id}), left)
<1>1. PICK few : few = Without(alone, {id})
  OBVIOUS
<1>2. DOMAIN few = DOMAIN alone \ {id} /\ \A k \in DOMAIN few : few[k] = alone[k]
  BY <1>1 DEF Without, Restrict
<1>3. ASSUME NEW k \in DOMAIN less
      PROVE  IF less[k].group = NoGroup THEN k \in DOMAIN few /\ few[k] = less[k].content
             ELSE k \in DOMAIN left /\ left[k] = less[k].group
  <2>1. k \in DOMAIN apps /\ k # id /\ less[k] = apps[k]
    OBVIOUS
  <2>2. IF apps[k].group = NoGroup THEN k \in DOMAIN alone /\ alone[k] = apps[k].content
        ELSE k \in DOMAIN groupOf /\ groupOf[k] = apps[k].group
    BY <2>1 DEF Shows
  <2>3. CASE apps[k].group = NoGroup
    BY <1>2, <2>1, <2>2, <2>3
  <2>4. CASE apps[k].group # NoGroup
    BY <2>1, <2>2, <2>4
  <2>5. QED
    BY <2>3, <2>4
<1>4. QED
  BY <1>1, <1>3 DEF Shows

LEMMA AreaKeepsFewer ==
    ASSUME NEW a, NEW apps, NEW contents, AreaFits(a, apps, contents),
           NEW less, DOMAIN less \subseteq DOMAIN apps, \A k \in DOMAIN less : less[k] = apps[k]
    PROVE  AreaFits(a, less, contents)
<1>1. PICK alone, made, out, counts, groupOf, banners :
          /\ a = AreaOf(alone, contents, made, out, counts, groupOf, banners)
          /\ out \subseteq made /\ made \subseteq DOMAIN contents
          /\ LaysOut(alone, out, banners) /\ CountsEach(out, counts, groupOf)
          /\ Shows(apps, alone, groupOf)
  BY Zenon DEF AreaFits
<1>2. Fit(less, contents)
  BY DEF AreaFits, Fit
<1>3. Shows(less, alone, groupOf)
  BY <1>1 DEF Shows
<1>4. QED
  BY <1>1, <1>2, <1>3, Zenon DEF AreaFits

\* A notification comes or changes.
LEMMA AreaFitsAdded ==
    ASSUME NEW a, NEW apps, NEW contents, AreaFits(a, apps, contents),
           NEW id, NEW group, NEW content, content.type = "application",
           NEW more, Becomes(apps, more, id, group, content), Fit(more, contents)
    PROVE  AreaFits(AddNotification(a, id, group, content), more, contents)
<1>1. PICK alone, made, out, counts, groupOf, banners :
          /\ a = AreaOf(alone, contents, made, out, counts, groupOf, banners)
          /\ out \subseteq made /\ made \subseteq DOMAIN contents
          /\ LaysOut(alone, out, banners) /\ CountsEach(out, counts, groupOf)
          /\ Shows(apps, alone, groupOf)
  BY Zenon DEF AreaFits
<1>2. /\ DOMAIN more = DOMAIN apps \cup {id} /\ more[id].group = group /\ more[id].content = content
      /\ \A k \in DOMAIN apps \ {id} : more[k] = apps[k]
  BY DEF Becomes
<1>3. group \in DOMAIN contents \cup {NoGroup} /\ DOMAIN contents \subseteq Nat \ {0}
  BY <1>2, Identifiers DEF Fit
<1>4. CASE group = NoGroup
  <2>1. PICK new, shown :
            /\ new = With(alone, id, content)
            /\ shown = WithAlone(banners, alone, id)
    OBVIOUS
  <2>2. AddNotification(a, id, group, content) = AddStandAloneNotification(a, id, content)
    BY <1>4 DEF AddNotification, NoGroup
  <2>3. AddNotification(a, id, group, content) = AreaOf(new, contents, made, out, counts, groupOf, shown)
    <3>1. PICK groupBanners, old :
              groupBanners = GroupBanners(contents, made, out) /\ old = AloneBanners(alone)
      OBVIOUS
    <3>2. a = AreaWith(old, contents, groupBanners, counts, groupOf, banners)
      BY <1>1, <3>1 DEF AreaOf
    <3>3. AddStandAloneNotification(a, id, content) =
              AreaWith(AloneBanners(new), contents, groupBanners, counts, groupOf, shown)
      BY <2>1, <3>1, <3>2, AreaLaysNotificationOut
    <3>4. QED
      BY <2>2, <3>1, <3>3 DEF AreaOf
  <2>4. /\ DOMAIN new = DOMAIN alone \cup {id} /\ new[id] = content
        /\ \A k \in DOMAIN alone \ {id} : new[k] = alone[k]
    BY <2>1 DEF With
  <2>5. LaysOut(new, out, shown)
    <3>1. CASE id \in DOMAIN alone
      BY <1>1, <2>1, <2>4, <3>1 DEF LaysOut, WithAlone
    <3>2. CASE id \notin DOMAIN alone
      <4>1. ABanner(id) \notin Range(banners)
        BY <1>1, <3>2, BannersDiffer DEF LaysOut
      <4>2. banners \in Seq(Range(banners)) /\ IsInjective(banners) /\ shown = <<ABanner(id)>> \o banners
        BY <1>1, <2>1, <3>2 DEF LaysOut, WithAlone
      <4>3. /\ shown \in Seq(Range(shown)) /\ IsInjective(shown)
            /\ Range(shown) = Range(banners) \cup {ABanner(id)}
        BY <4>1, <4>2, LaidOutInFront
      <4>4. QED
        BY <1>1, <2>4, <4>3 DEF LaysOut
    <3>3. QED
      BY <3>1, <3>2
  <2>6. Shows(more, new, groupOf)
    <3>1. ASSUME NEW k \in DOMAIN more
          PROVE  IF more[k].group = NoGroup THEN k \in DOMAIN new /\ new[k] = more[k].content
                 ELSE k \in DOMAIN groupOf /\ groupOf[k] = more[k].group
      <4>1. CASE k = id
        BY <1>2, <1>4, <2>4, <4>1
      <4>2. CASE k # id
        <5>1. k \in DOMAIN apps /\ more[k] = apps[k]
          BY <1>2, <4>2
        <5>2. IF apps[k].group = NoGroup THEN k \in DOMAIN alone /\ alone[k] = apps[k].content
              ELSE k \in DOMAIN groupOf /\ groupOf[k] = apps[k].group
          BY <1>1, <5>1 DEF Shows
        <5>3. QED
          BY <2>4, <4>2, <5>1, <5>2
      <4>3. QED
        BY <4>1, <4>2
    <3>2. QED
      BY <3>1 DEF Shows
  <2>7. QED
    BY <1>1, <2>3, <2>5, <2>6, Zenon DEF AreaFits
<1>5. CASE group # NoGroup
  <2>1. group \in DOMAIN contents /\ group > 0
    BY <1>3, <1>5
  <2>2. PICK increased, known, shown :
            /\ increased = With(counts, group, CountIn(counts, group) + 1)
            /\ known = With(groupOf, id, group)
            /\ shown = InFront(banners, AGroupBanner(group), group \in out)
    OBVIOUS
  <2>3. AddNotification(a, id, group, content) = AddNotificationToGroup(a, id, group)
    BY <2>1 DEF AddNotification
  <2>4. group \in out => AGroupBanner(group) \in Range(banners)
    BY <1>1 DEF LaysOut
  <2>5. AddNotification(a, id, group, content) =
            AreaOf(alone, contents, made \cup {group}, out \cup {group}, increased, known, shown)
    <3>1. group \in out => banners # <<>>
      BY <2>4 DEF Range
    <3>2. QED
      BY <1>1, <2>1, <2>2, <2>3, <3>1, AreaLaysGroupOut
  <2>6. /\ DOMAIN known = DOMAIN groupOf \cup {id} /\ known[id] = group
        /\ \A k \in DOMAIN groupOf \ {id} : known[k] = groupOf[k]
    BY <2>2 DEF With
  <2>7. LaysOut(alone, out \cup {group}, shown)
    <3>1. banners \in Seq(Range(banners)) /\ IsInjective(banners)
      BY <1>1 DEF LaysOut
    <3>2. CASE group \in out
      <4>1. shown = <<AGroupBanner(group)>> \o Removed(banners, AGroupBanner(group))
        BY <2>2, <3>2 DEF InFront
      <4>2. shown \in Seq(Range(shown)) /\ IsInjective(shown) /\ Range(shown) = Range(banners)
        BY <2>4, <3>1, <3>2, <4>1, MovedToFront
      <4>3. out \cup {group} = out
        BY <3>2
      <4>4. QED
        BY <1>1, <4>2, <4>3 DEF LaysOut
    <3>3. CASE group \notin out
      <4>1. shown = <<AGroupBanner(group)>> \o banners
        BY <2>2, <3>3 DEF InFront
      <4>2. AGroupBanner(group) \notin Range(banners)
        BY <1>1, <3>3, BannersDiffer DEF LaysOut
      <4>3. /\ shown \in Seq(Range(shown)) /\ IsInjective(shown)
            /\ Range(shown) = Range(banners) \cup {AGroupBanner(group)}
        BY <3>1, <4>1, <4>2, LaidOutInFront
      <4>4. QED
        BY <1>1, <4>3 DEF LaysOut
    <3>4. QED
      BY <3>2, <3>3
  <2>8. CountsEach(out \cup {group}, increased, known)
    BY <1>1, <2>2, CountsOneMore
  <2>9. Shows(more, alone, known)
    <3>1. ASSUME NEW k \in DOMAIN more
          PROVE  IF more[k].group = NoGroup THEN k \in DOMAIN alone /\ alone[k] = more[k].content
                 ELSE k \in DOMAIN known /\ known[k] = more[k].group
      <4>1. CASE k = id
        BY <1>2, <1>5, <2>6, <4>1
      <4>2. CASE k # id
        <5>1. k \in DOMAIN apps /\ more[k] = apps[k]
          BY <1>2, <4>2
        <5>2. IF apps[k].group = NoGroup THEN k \in DOMAIN alone /\ alone[k] = apps[k].content
              ELSE k \in DOMAIN groupOf /\ groupOf[k] = apps[k].group
          BY <1>1, <5>1 DEF Shows
        <5>3. QED
          BY <2>6, <4>2, <5>1, <5>2
      <4>3. QED
        BY <4>1, <4>2
    <3>2. QED
      BY <3>1 DEF Shows
  <2>10. out \cup {group} \subseteq made \cup {group} /\ made \cup {group} \subseteq DOMAIN contents
    BY <1>1, <2>1
  <2>11. QED
    BY <2>5, <2>7, <2>8, <2>9, <2>10, Zenon DEF AreaFits
<1>6. QED
  BY <1>4, <1>5

\* A notification goes.
LEMMA AreaFitsRemoved ==
    ASSUME NEW a, NEW apps, NEW contents, AreaFits(a, apps, contents), NEW id,
           NEW less, less = Without(apps, {id})
    PROVE  AreaFits(RemoveNotification(a, id), less, contents)
<1>1. PICK alone, made, out, counts, groupOf, banners :
          /\ a = AreaOf(alone, contents, made, out, counts, groupOf, banners)
          /\ out \subseteq made /\ made \subseteq DOMAIN contents
          /\ LaysOut(alone, out, banners) /\ CountsEach(out, counts, groupOf)
          /\ Shows(apps, alone, groupOf)
  BY Zenon DEF AreaFits
<1>2. DOMAIN less = DOMAIN apps \ {id} /\ \A k \in DOMAIN less : less[k] = apps[k]
  BY DEF Without, Restrict
<1>3. Fit(less, contents)
  BY <1>2 DEF AreaFits, Fit
<1>4. PICK few, shown :
          /\ few = Without(alone, {id})
          /\ shown = WithoutAlone(banners, alone, id)
  OBVIOUS
<1>5. DOMAIN few = DOMAIN alone \ {id}
  BY <1>4 DEF Without, Restrict
<1>6. LaysOut(few, out, shown)
  <2>1. banners \in Seq(Range(banners)) /\ IsInjective(banners)
    BY <1>1 DEF LaysOut
  <2>2. CASE id \in DOMAIN alone
    <3>1. /\ shown \in Seq(Range(shown)) /\ IsInjective(shown)
          /\ Range(shown) = Range(banners) \ {ABanner(id)}
      BY <1>4, <2>1, <2>2, TakenFromLayout DEF WithoutAlone
    <3>2. {ABanner(k) : k \in DOMAIN few} = {ABanner(k) : k \in DOMAIN alone} \ {ABanner(id)}
      BY <1>5, BannersDiffer
    <3>3. ABanner(id) \notin {AGroupBanner(g) : g \in out}
      BY BannersDiffer
    <3>4. QED
      BY <1>1, <3>1, <3>2, <3>3 DEF LaysOut
  <2>3. CASE id \notin DOMAIN alone
    <3>1. DOMAIN few = DOMAIN alone /\ shown = banners
      BY <1>4, <1>5, <2>3 DEF WithoutAlone
    <3>2. QED
      BY <1>1, <3>1 DEF LaysOut
  <2>4. QED
    BY <2>2, <2>3
<1>7. CASE id \notin DOMAIN groupOf
  <2>1. RemoveNotification(a, id) = AreaOf(few, contents, made, out, counts, groupOf, shown)
    BY <1>1, <1>4, <1>7, AreaRemovesAlone
  <2>2. Shows(less, few, groupOf)
    BY <1>1, <1>2, <1>4, OthersStillShown
  <2>3. QED
    BY <1>1, <1>3, <1>6, <2>1, <2>2, Zenon DEF AreaFits
<1>8. CASE id \in DOMAIN groupOf
  <2>1. PICK g, c : g = groupOf[id] /\ c = CountIn(counts, g)
    OBVIOUS
  <2>2. PICK fewer, left : fewer = With(counts, g, c - 1) /\ left = Without(groupOf, {id})
    OBVIOUS
  <2>3. /\ g \in out /\ c \in Nat /\ c > 0 /\ CountsEach(out, fewer, left)
        /\ c = 1 => CountedIn(groupOf, g) = {id}
    BY <1>1, <1>8, <2>1, <2>2, CountsOneLess
  <2>4. DOMAIN left = DOMAIN groupOf \ {id} /\ \A k \in DOMAIN left : left[k] = groupOf[k]
    BY <2>2 DEF Without, Restrict
  <2>5. Shows(less, few, left)
    BY <1>1, <1>2, <1>4, <2>4, OthersStillShown
  <2>6. PICK none, rest, last :
            /\ none = Without(fewer, {g}) /\ rest = Without(Uncounted(groupOf, g), {id})
            /\ last = RemovedOne(shown, AGroupBanner(g))
    OBVIOUS
  <2>7. /\ c = 1 => RemoveNotification(a, id) =
                        AreaOf(few, contents, made \ {g}, out \ {g}, none, rest, last)
        /\ c # 1 => RemoveNotification(a, id) = AreaOf(few, contents, made, out, fewer, left, shown)
    <3>1. /\ a = AreaOf(alone, contents, made, out, counts, groupOf, banners)
          /\ out \subseteq made /\ made \subseteq DOMAIN contents
      BY <1>1
    <3>2. PICK d : d = c - 1
      OBVIOUS
    <3>3. fewer = With(counts, g, d) /\ left = Without(groupOf, {id})
      BY <2>2, <3>2
    <3>4. g \in out /\ c \in Nat /\ c > 0
      BY <2>3
    <3>5. few = Dropped(alone, id) /\ shown = WithoutAlone(banners, alone, id)
      BY <1>4 DEF Dropped
    <3>6. /\ none = Dropped(fewer, g) /\ rest = Dropped(Uncounted(groupOf, g), id)
          /\ last = RemovedOne(shown, AGroupBanner(g))
      BY <2>6 DEF Dropped
    <3>7. left = Dropped(groupOf, id)
      BY <3>3 DEF Dropped
    <3>8. /\ c = 1 => RemoveNotification(a, id) =
                          AreaOf(few, contents, AllBut(made, g), AllBut(out, g), none, rest, last)
          /\ c # 1 => RemoveNotification(a, id) = AreaOf(few, contents, made, out, fewer, left, shown)
      BY <1>8, <2>1, <3>1, <3>2, <3>3, <3>4, <3>5, <3>6, <3>7, AreaStopsCounting
    <3>9. QED
      BY <3>8 DEF AllBut
  <2>8. CASE c # 1
    BY <1>1, <1>3, <1>6, <2>3, <2>5, <2>7, <2>8, Zenon DEF AreaFits
  <2>9. CASE c = 1
    <3>1. rest = left
      <4>1. PICK known : known = Uncounted(groupOf, g)
        OBVIOUS
      <4>2. /\ DOMAIN known = DOMAIN groupOf \ {id}
            /\ \A k \in DOMAIN known : known[k] = groupOf[k]
        <5>1. CountedIn(groupOf, g) = {id}
          BY <2>3, <2>9
        <5>2. QED
          BY <4>1, <5>1 DEF Uncounted, Without, Restrict
      <4>3. rest = [k \in (DOMAIN known) \ {id} |-> known[k]]
        BY <2>6, <4>1 DEF Without, Restrict
      <4>4. left = [k \in (DOMAIN groupOf) \ {id} |-> groupOf[k]]
        BY <2>2 DEF Without, Restrict
      <4>5. QED
        BY <4>2, <4>3, <4>4
    <3>2. CountsEach(out \ {g}, none, left)
      <4>1. PICK gone : gone = Uncounted(left, g)
        OBVIOUS
      <4>2. CountsEach(out \ {g}, none, gone)
        BY <2>3, <2>6, <4>1, CountsNone
      <4>3. gone = left
        <5>1. \A k \in DOMAIN left : left[k] # g
          BY <2>3, <2>4, <2>9 DEF CountedIn
        <5>2. CountedIn(left, g) = {}
          BY <5>1 DEF CountedIn
        <5>3. left = [k \in DOMAIN left |-> left[k]]
          BY <2>2 DEF Without, Restrict
        <5>4. QED
          BY <4>1, <5>2, <5>3 DEF Uncounted, Without, Restrict
      <4>4. QED
        BY <4>2, <4>3
    <3>3. LaysOut(few, out \ {g}, last)
      <4>1. shown \in Seq(Range(shown)) /\ IsInjective(shown)
        BY <1>6 DEF LaysOut
      <4>2. /\ last \in Seq(Range(last)) /\ IsInjective(last)
            /\ Range(last) = Range(shown) \ {AGroupBanner(g)}
        BY <2>6, <4>1, TakenFromLayout
      <4>3. {AGroupBanner(h) : h \in out \ {g}} = {AGroupBanner(h) : h \in out} \ {AGroupBanner(g)}
        BY BannersDiffer
      <4>4. AGroupBanner(g) \notin {ABanner(k) : k \in DOMAIN few}
        BY BannersDiffer
      <4>5. QED
        BY <1>6, <4>2, <4>3, <4>4 DEF LaysOut
    <3>4. out \ {g} \subseteq made \ {g} /\ made \ {g} \subseteq DOMAIN contents
      BY <1>1
    <3>5. RemoveNotification(a, id) = AreaOf(few, contents, made \ {g}, out \ {g}, none, left, last)
      BY <2>7, <2>9, <3>1
    <3>6. QED
      BY <1>3, <2>5, <3>2, <3>3, <3>4, <3>5, Zenon DEF AreaFits
  <2>10. QED
    BY <2>8, <2>9
<1>9. QED
  BY <1>7, <1>8

\* A group comes or changes.
LEMMA AreaFitsGroupAdded ==
    ASSUME NEW a, NEW apps, NEW contents, AreaFits(a, apps, contents),
           NEW g \in GroupIds, NEW content, NEW more, more = With(contents, g, content)
    PROVE  AreaFits(AddGroup(a, g, content), apps, more)
<1>1. PICK alone, made, out, counts, groupOf, banners :
          /\ a = AreaOf(alone, contents, made, out, counts, groupOf, banners)
          /\ out \subseteq made /\ made \subseteq DOMAIN contents
          /\ LaysOut(alone, out, banners) /\ CountsEach(out, counts, groupOf)
          /\ Shows(apps, alone, groupOf)
  BY Zenon DEF AreaFits
<1>2. DOMAIN more = DOMAIN contents \cup {g}
  BY DEF With
<1>3. Fit(apps, more)
  BY <1>2 DEF AreaFits, Fit
<1>4. AddGroup(a, g, content) = AreaOf(alone, more, made \cup {g}, out, counts, groupOf, banners)
  BY <1>1, AreaAddsGroup
<1>5. out \subseteq made \cup {g} /\ made \cup {g} \subseteq DOMAIN more
  BY <1>1, <1>2
<1>6. QED
  BY <1>1, <1>3, <1>4, <1>5, Zenon DEF AreaFits

\* A group goes that has no notification left.
LEMMA AreaFitsGroupRemoved ==
    ASSUME NEW a, NEW apps, NEW contents, AreaFits(a, apps, contents),
           NEW g \in DOMAIN contents, \A k \in DOMAIN apps : apps[k].group # g,
           NEW less, less = Without(contents, {g})
    PROVE  AreaFits(RemoveGroup(a, g), apps, less)
<1>1. PICK alone, made, out, counts, groupOf, banners :
          /\ a = AreaOf(alone, contents, made, out, counts, groupOf, banners)
          /\ out \subseteq made /\ made \subseteq DOMAIN contents
          /\ LaysOut(alone, out, banners) /\ CountsEach(out, counts, groupOf)
          /\ Shows(apps, alone, groupOf)
  BY Zenon DEF AreaFits
<1>2. DOMAIN less = DOMAIN contents \ {g}
  BY DEF Without, Restrict
<1>3. Fit(apps, less)
  BY <1>2 DEF AreaFits, Fit
<1>4. PICK fewer, left, shown :
          /\ fewer = Without(counts, {g}) /\ left = Uncounted(groupOf, g)
          /\ shown = TakenFrom(banners, g, out)
  OBVIOUS
<1>5. RemoveGroup(a, g) = AreaOf(alone, less, made \ {g}, out \ {g}, fewer, left, shown)
  BY <1>1, <1>4, AreaRemovesGroup
<1>6. /\ CountsEach(out \ {g}, fewer, left)
      /\ DOMAIN left = {k \in DOMAIN groupOf : groupOf[k] # g}
      /\ \A k \in DOMAIN left : left[k] = groupOf[k]
  <2>1. fewer = Without(counts, {g}) /\ left = Uncounted(groupOf, g) /\ CountsEach(out, counts, groupOf)
    BY <1>1, <1>4
  <2>2. CountsEach(out \ {g}, fewer, left)
    BY <2>1, CountsNone, Zenon
  <2>3. /\ DOMAIN left = {k \in DOMAIN groupOf : groupOf[k] # g}
        /\ \A k \in DOMAIN left : left[k] = groupOf[k]
    BY <2>1 DEF Uncounted, CountedIn, Without, Restrict
  <2>4. QED
    BY <2>2, <2>3
<1>7. LaysOut(alone, out \ {g}, shown)
  <2>1. banners \in Seq(Range(banners)) /\ IsInjective(banners)
    BY <1>1 DEF LaysOut
  <2>2. CASE g \in out
    <3>1. shown = RemovedOne(banners, AGroupBanner(g))
      BY <1>4, <2>2 DEF TakenFrom
    <3>2. /\ shown \in Seq(Range(shown)) /\ IsInjective(shown)
          /\ Range(shown) = Range(banners) \ {AGroupBanner(g)}
      BY <2>1, <3>1, TakenFromLayout
    <3>3. {AGroupBanner(h) : h \in out \ {g}} = {AGroupBanner(h) : h \in out} \ {AGroupBanner(g)}
      BY BannersDiffer
    <3>4. AGroupBanner(g) \notin {ABanner(k) : k \in DOMAIN alone}
      BY BannersDiffer
    <3>5. QED
      BY <1>1, <3>2, <3>3, <3>4 DEF LaysOut
  <2>3. CASE g \notin out
    <3>1. shown = banners /\ out \ {g} = out
      BY <1>4, <2>3 DEF TakenFrom
    <3>2. QED
      BY <1>1, <3>1
  <2>4. QED
    BY <2>2, <2>3
<1>8. Shows(apps, alone, left)
  <2>1. ASSUME NEW k \in DOMAIN apps
        PROVE  IF apps[k].group = NoGroup THEN k \in DOMAIN alone /\ alone[k] = apps[k].content
               ELSE k \in DOMAIN left /\ left[k] = apps[k].group
    BY <1>1, <1>6 DEF Shows
  <2>2. QED
    BY <2>1 DEF Shows
<1>9. out \ {g} \subseteq made \ {g} /\ made \ {g} \subseteq DOMAIN less
  BY <1>1, <1>2
<1>10. QED
  BY <1>3, <1>5, <1>6, <1>7, <1>8, <1>9, Zenon DEF AreaFits

LEMMA AreaFitsNew ==
    ASSUME NEW apps, NEW contents, DOMAIN apps = {}, contents = <<>>
    PROVE  AreaFits(NewArea, apps, contents)
<1>1. PICK none : none = <<>>
  OBVIOUS
<1>2. DOMAIN none = {} /\ Range(none) = {} /\ none \in Seq({})
  BY <1>1 DEF Range
<1>3. Fit(apps, contents)
  BY <1>1, <1>2 DEF Fit
<1>4. AloneBanners(none) = none
  BY <1>1, <1>2 DEF AloneBanners
<1>5. GroupBanners(contents, {}, {}) = none
  BY <1>1, <1>2 DEF GroupBanners
<1>6. NewArea = AreaOf(none, contents, {}, {}, none, none, none)
  BY <1>1, <1>4, <1>5 DEF NewArea, AreaOf, AreaWith
<1>7. LaysOut(none, {}, none)
  BY <1>2 DEF LaysOut, IsInjective
<1>8. CountsEach({}, none, none)
  BY <1>2, FS_EmptySet DEF CountsEach
<1>9. Shows(apps, none, none)
  BY DEF Shows
<1>10. QED
  BY <1>1, <1>3, <1>6, <1>7, <1>8, <1>9, Zenon DEF AreaFits

-----------------------------------------------------------------------------
(* What the area hears.                                                    *)

\* A set that has 0, and each number up to n with the one before, has them all.
LEMMA OneByOne ==
    ASSUME NEW n \in Nat, NEW S, 0 \in S, \A i \in 1..n : i - 1 \in S => i \in S
    PROVE  \A i \in 0..n : i \in S
<1>1. PICK T : T = {i \in 0..n : i \notin S}
  OBVIOUS
<1>2. T = {}
  <2> SUFFICES ASSUME T # {} PROVE FALSE
    OBVIOUS
  <2>1. T \subseteq Nat
    BY <1>1
  <2>2. PICK i \in T : \A k \in T : i <= k
    BY <2>1, LeastExists
  <2>3. i \in 0..n /\ i \notin S
    BY <1>1, <2>2
  <2>4. i \in 1..n /\ i - 1 \in 0..n
    BY <2>3
  <2>5. i - 1 \notin T
    <3>1. ~(i <= i - 1)
      BY <2>3
    <3>2. QED
      BY <2>2, <3>1
  <2>6. QED
    BY <1>1, <2>3, <2>4, <2>5
<1>3. QED
  BY <1>1, <1>2

\* What the area is in turn, as it hears one signal after the other.
AreaHearsInTurn(after, a, signals) ==
    /\ after[0] = a
    /\ \A i \in 1..Len(signals) : after[i] = AreaHears(after[i - 1], signals[i])
    /\ AfterAll(AreaHears, a, signals) = after[Len(signals)]

LEMMA AreaHearsAll ==
    ASSUME NEW n, NEW signals, Len(signals) \in Nat
    PROVE  \E after : AreaHearsInTurn(after, n, signals)
<1> DEFINE Steps(a, m) == a = [i \in 0..m |-> IF i = 0 THEN n ELSE AreaHears(a[i - 1], signals[i])]
           S == {m \in 0..Len(signals) : \E a : Steps(a, m)}
<1>1. Len(signals) \in S
  <2>1. 0 \in S
    <3>1. Steps([i \in 0..0 |-> n], 0)
      OBVIOUS
    <3>2. 0 \in 0..Len(signals)
      OBVIOUS
    <3> HIDE DEF Steps
    <3>3. QED
      BY <3>1, <3>2
  <2>2. ASSUME NEW m \in 1..Len(signals), m - 1 \in S
        PROVE  m \in S
    <3>1. PICK a : Steps(a, m - 1)
      BY <2>2
    <3>2. PICK b : b = [i \in 0..m |-> IF i = m THEN AreaHears(a[m - 1], signals[m]) ELSE a[i]]
      OBVIOUS
    <3>3. Steps(b, m)
      <4>1. ASSUME NEW i \in 0..m
            PROVE  b[i] = IF i = 0 THEN n ELSE AreaHears(b[i - 1], signals[i])
        BY <3>1, <3>2
      <4>2. QED
        BY <3>2, <4>1
    <3>4. QED
      BY <3>3
  <2> HIDE DEF S
  <2>3. \A m \in 0..Len(signals) : m \in S
    BY <2>1, <2>2, OneByOne
  <2>4. QED
    BY <2>3
<1>2. PICK a : Steps(a, Len(signals))
  BY <1>1
<1>3. PICK after : after = CHOOSE a2 : Steps(a2, Len(signals))
  OBVIOUS
<1>4. Steps(after, Len(signals))
  BY <1>2, <1>3
<1>5. AfterAll(AreaHears, n, signals) = after[Len(signals)]
  BY <1>3 DEF AfterAll
<1>6. QED
  BY <1>4, <1>5 DEF AreaHearsInTurn

\* An area that is not there hears nothing.
LEMMA NoAreaHears ==
    ASSUME NEW signals, Len(signals) \in Nat
    PROVE  AfterAll(AreaHears, NoArea, signals) = NoArea
<1>1. PICK none : none = NoArea
  OBVIOUS
<1>2. \A s : AreaHears(none, s) = none
  <2>1. none.created = FALSE
    BY <1>1 DEF NoArea
  <2>2. QED
    BY <2>1 DEF AreaHears
<1>3. PICK after : AreaHearsInTurn(after, none, signals)
  BY AreaHearsAll, Zenon
<1>4. PICK S : S = {i \in 0..Len(signals) : after[i] = none}
  OBVIOUS
<1>5. 0 \in S
  BY <1>3, <1>4 DEF AreaHearsInTurn
<1>6. ASSUME NEW i \in 1..Len(signals), i - 1 \in S
      PROVE  i \in S
  <2>1. after[i] = AreaHears(after[i - 1], signals[i]) /\ after[i - 1] = none
    BY <1>3, <1>4, <1>6 DEF AreaHearsInTurn
  <2>2. QED
    BY <1>2, <1>4, <2>1
<1>7. \A i \in 0..Len(signals) : i \in S
  BY <1>5, <1>6, OneByOne
<1>8. after[Len(signals)] = none
  BY <1>4, <1>7
<1>9. QED
  BY <1>1, <1>3, <1>8 DEF AreaHearsInTurn

LEMMA AreaHearsEach ==
    ASSUME NEW a, a.created = TRUE, NEW id, NEW x
    PROVE  /\ AreaHears(a, NotificationUpdated(id, x)) = AddNotification(a, id, x.group, x.content)
           /\ AreaHears(a, NotificationRemoved(id)) = RemoveNotification(a, id)
           /\ AreaHears(a, GroupUpdated(id, x)) = AddGroup(a, id, x)
           /\ AreaHears(a, GroupRemoved(id)) = RemoveGroup(a, id)
<1>1. PICK s : s = NotificationUpdated(id, x)
  OBVIOUS
<1>2. s.signal = "notificationUpdated" /\ s.id = id /\ s.group = x.group /\ s.content = x.content
  BY <1>1 DEF NotificationUpdated
<1>3. AreaHears(a, s) = AddNotification(a, id, x.group, x.content)
  BY <1>2 DEF AreaHears
<1>4. PICK gone : gone = NotificationRemoved(id)
  OBVIOUS
<1>5. gone.signal = "notificationRemoved" /\ gone.id = id
  BY <1>4 DEF NotificationRemoved
<1>6. AreaHears(a, gone) = RemoveNotification(a, id)
  BY <1>5 DEF AreaHears
<1>7. PICK g : g = GroupUpdated(id, x)
  OBVIOUS
<1>8. g.signal = "groupUpdated" /\ g.id = id /\ g.content = x
  BY <1>7 DEF GroupUpdated
<1>9. AreaHears(a, g) = AddGroup(a, id, x)
  BY <1>8 DEF AreaHears
<1>10. PICK h : h = GroupRemoved(id)
  OBVIOUS
<1>11. h.signal = "groupRemoved" /\ h.id = id
  BY <1>10 DEF GroupRemoved
<1>12. AreaHears(a, h) = RemoveGroup(a, id)
  BY <1>11 DEF AreaHears
<1>13. QED
  BY <1>1, <1>3, <1>4, <1>6, <1>7, <1>9, <1>10, <1>12

LEMMA AreaHearsFew ==
    ASSUME NEW a, NEW s
    PROVE  /\ AfterAll(AreaHears, a, <<>>) = a
           /\ AfterAll(AreaHears, a, <<s>>) = AreaHears(a, s)
<1>1. AfterAll(AreaHears, a, <<>>) = a
  <2>1. PICK signals : signals = <<>>
    OBVIOUS
  <2>2. Len(signals) = 0 /\ Len(signals) \in Nat
    BY <2>1
  <2>3. PICK after : AreaHearsInTurn(after, a, signals)
    BY <2>2, AreaHearsAll, Zenon
  <2>4. QED
    BY <2>1, <2>2, <2>3 DEF AreaHearsInTurn
<1>2. AfterAll(AreaHears, a, <<s>>) = AreaHears(a, s)
  <2>1. PICK signals : signals = <<s>>
    OBVIOUS
  <2>2. Len(signals) = 1 /\ Len(signals) \in Nat /\ signals[1] = s
    BY <2>1
  <2>3. PICK after : AreaHearsInTurn(after, a, signals)
    BY <2>2, AreaHearsAll, Zenon
  <2>4. 1 \in 1..Len(signals) /\ 1 - 1 = 0
    BY <2>2
  <2>5. after[1] = AreaHears(after[1 - 1], signals[1])
    BY <2>3, <2>4 DEF AreaHearsInTurn
  <2>6. after[1] = AreaHears(a, s)
    BY <2>2, <2>3, <2>4, <2>5 DEF AreaHearsInTurn
  <2>7. QED
    BY <2>1, <2>2, <2>3, <2>6 DEF AreaHearsInTurn
<1>3. QED
  BY <1>1, <1>2

LEMMA AreaFitsCreated ==
    ASSUME NEW a, NEW apps, NEW contents, AreaFits(a, apps, contents)
    PROVE  a.created = TRUE
<1>1. PICK alone, made, out, counts, groupOf, banners :
          a = AreaOf(alone, contents, made, out, counts, groupOf, banners)
  BY Zenon DEF AreaFits
<1>2. QED
  BY <1>1 DEF AreaOf, AreaWith

\* The area fits as it hears of one removal after the other.
LEMMA AreaRemovalsFit ==
    ASSUME NEW apps, NEW contents, NEW heard, heard \subseteq Int, IsFiniteSet(heard),
           NEW signals, Len(signals) \in Nat, Cardinality(heard) <= Len(signals),
           \A i \in 1..Cardinality(heard) : signals[i] = NotificationRemoved(Nth(heard, i)),
           NEW after, AreaFits(after[0], Rest(apps, {}), contents),
           \A i \in 1..Len(signals) : after[i] = AreaHears(after[i - 1], signals[i])
    PROVE  AreaFits(after[Cardinality(heard)], Rest(apps, heard), contents)
<1> DEFINE n == Cardinality(heard)
           Gone(i) == {Nth(heard, j) : j \in 1..i}
           S == {i \in 0..n : AreaFits(after[i], Rest(apps, Gone(i)), contents)}
<1>1. n \in Nat /\ \A i \in 1..n : Nth(heard, i) \in heard
  BY Numbered
<1>2. heard = Gone(n)
  <2>1. \A x \in heard : \E i \in 1..n : Nth(heard, i) = x
    BY Numbered
  <2>2. QED
    BY <1>1, <2>1
<1>3. 0 \in S
  <2>1. 1..0 = {}
    OBVIOUS
  <2>2. Gone(0) = {} /\ 0 \in 0..n
    BY <1>1, <2>1
  <2> HIDE DEF Gone, n
  <2>3. QED
    BY <2>2
<1>4. ASSUME NEW i \in 1..n, i - 1 \in S
      PROVE  i \in S
  <2>1. AreaFits(after[i - 1], Rest(apps, Gone(i - 1)), contents)
    BY <1>4
  <2>2. i \in 1..Len(signals) /\ i \in 0..n
    BY <1>1
  <2>3. PICK id : id = Nth(heard, i)
    OBVIOUS
  <2>4. Gone(i) = Gone(i - 1) \cup {id}
    <3>1. 1..i = 1..(i - 1) \cup {i}
      BY <2>2
    <3>2. QED
      BY <2>3, <3>1
  <2>5. PICK gone, before, rest : gone = Gone(i - 1) /\ before = after[i - 1] /\ rest = Rest(apps, gone)
    OBVIOUS
  <2> HIDE DEF Gone, S
  <2>6. after[i] = RemoveNotification(before, id)
    <3>1. after[i] = AreaHears(before, NotificationRemoved(id))
      BY <2>2, <2>3, <2>5
    <3>2. before.created = TRUE
      BY <2>1, <2>5, AreaFitsCreated
    <3>3. QED
      BY <3>1, <3>2, AreaHearsEach
  <2>7. PICK less : less = Without(rest, {id})
    OBVIOUS
  <2>8. AreaFits(after[i], less, contents)
    BY <2>1, <2>5, <2>6, <2>7, AreaFitsRemoved
  <2>9. less = Rest(apps, gone \cup {id})
    <3>1. Without(Rest(apps, gone), {id}) = Rest(apps, gone \cup {id})
      BY RestWithout, Zenon
    <3>2. QED
      BY <2>5, <2>7, <3>1, Zenon
  <2>10. AreaFits(after[i], Rest(apps, Gone(i)), contents)
    BY <2>4, <2>5, <2>8, <2>9
  <2>11. QED
    BY <2>2, <2>10 DEF S
<1>5. AreaFits(after[n], Rest(apps, Gone(n)), contents)
  <2> HIDE DEF S
  <2>1. \A i \in 0..n : i \in S
    BY <1>1, <1>3, <1>4, OneByOne
  <2>2. n \in S
    BY <1>1, <2>1
  <2>3. QED
    BY <2>2 DEF S
<1>6. QED
  BY <1>2, <1>5


-----------------------------------------------------------------------------
(* The steps.                                                              *)

\* The area has what it needs to know of the manager, or is not there.
AreaKnows(a) == a = NoArea \/ AreaFits(a, Apps, managedGroups)

AreaInv ==
    /\ ContainersFit
    /\ IsAFunction(managedGroups)
    /\ AreaKnows(area)

LEMMA NoAreaIsNotThere == NoArea.created = FALSE
<1>1. PICK none : none = NoArea
  OBVIOUS
<1>2. QED
  BY <1>1 DEF NoArea

LEMMA AreaKeptUnheard ==
    ASSUME AreaInv, NEW id \in NotificationIds, NEW note \in Notes, Stored(id, note),
           note.group \in DOMAIN managedGroups \cup {NoGroup}, note.relayed # "yes",
           id \in DOMAIN managed => managed[id].relayed # "yes",
           area' = AfterAll(AreaHears, area, <<>>)
    PROVE  AreaInv'
<1>1. ContainersFit'
  BY StoredFits DEF AreaInv
<1>2. Apps' = Apps
  BY UnheardApps
<1>3. managedGroups' = managedGroups
  BY DEF Stored
<1>4. area' = area
  BY AreaHearsFew, Zenon
<1>5. QED
  BY <1>1, <1>2, <1>3, <1>4 DEF AreaInv, AreaKnows, IsAFunction

LEMMA AreaKeptHeard ==
    ASSUME AreaInv, NEW id \in NotificationIds, NEW note \in Notes, Stored(id, note),
           note.group \in DOMAIN managedGroups \cup {NoGroup}, note.relayed = "yes",
           id \in DOMAIN managed => managed[id].content.type = note.content.type,
           NEW n, n.group = note.group, n.content = note.content,
           area' = AfterAll(AreaHears, area, <<NotificationUpdated(id, n)>>)
    PROVE  AreaInv'
<1>1. ContainersFit'
  BY StoredFits DEF AreaInv
<1>2. managedGroups' = managedGroups
  BY DEF Stored
<1>3. PICK s : s = NotificationUpdated(id, n)
  OBVIOUS
<1>4. AfterAll(AreaHears, area, <<s>>) = AreaHears(area, s)
  BY AreaHearsFew, Zenon
<1>5. area' = AreaHears(area, s)
  BY <1>3, <1>4
<1>6. CASE area = NoArea
  <2>1. area.created = FALSE
    BY <1>6, NoAreaIsNotThere
  <2>2. area' = area
    BY <1>5, <2>1 DEF AreaHears
  <2>3. QED
    BY <1>1, <1>2, <1>6, <2>2 DEF AreaInv, AreaKnows, IsAFunction
<1>7. CASE area # NoArea
  <2>1. PICK a, apps, more, group, content :
            /\ a = area /\ apps = Apps /\ more = Apps' /\ group = note.group /\ content = note.content
    OBVIOUS
  <2>2. AreaFits(a, apps, managedGroups)
    BY <1>7, <2>1 DEF AreaInv, AreaKnows
  <2>3. a.created = TRUE
    BY <2>2, AreaFitsCreated
  <2>4. AreaHears(a, s) = AddNotification(a, id, n.group, n.content)
    BY <1>3, <2>3, AreaHearsEach, Zenon
  <2>5. area' = AddNotification(a, id, group, content)
    BY <1>5, <2>1, <2>4
  <2>6. IF content.type = "application" THEN Becomes(apps, more, id, group, content) ELSE more = apps
    BY <2>1, HeardApps
  <2>7. CASE content.type = "application"
    <3>1. Fit(more, managedGroups)
      <4>1. Fit(Apps', managedGroups')
        BY <1>1, AppsOfManagedNext
      <4>2. QED
        BY <1>2, <2>1, <4>1
    <3>2. AreaFits(AddNotification(a, id, group, content), more, managedGroups)
      BY <2>2, <2>6, <2>7, <3>1, AreaFitsAdded
    <3>3. AreaFits(area', Apps', managedGroups')
      BY <1>2, <2>1, <2>5, <3>2
    <3>4. QED
      BY <1>1, <1>2, <3>3 DEF AreaInv, AreaKnows, IsAFunction
  <2>8. CASE content.type # "application"
    <3>1. AddNotification(a, id, group, content) = a
      BY <2>8 DEF AddNotification
    <3>2. AreaFits(area', Apps', managedGroups')
      BY <1>2, <2>1, <2>2, <2>5, <2>6, <2>8, <3>1
    <3>3. QED
      BY <1>1, <1>2, <3>2 DEF AreaInv, AreaKnows, IsAFunction
  <2>9. QED
    BY <2>7, <2>8
<1>8. QED
  BY <1>6, <1>7

\* What the area is after it heard of the removals.
LEMMA AreaGoneFits ==
    ASSUME AreaFits(area, Apps, managedGroups), NEW ids, IsFiniteSet(ids), ids \subseteq Int,
           NEW heard, heard = {id \in ids : managed[id].relayed # "waits"},
           NEW signals, Len(signals) \in Nat, Len(RemovalSignals(ids)) <= Len(signals),
           \A i \in 1..Len(RemovalSignals(ids)) : signals[i] = RemovalSignals(ids)[i],
           NEW after, AreaHearsInTurn(after, area, signals)
    PROVE  AreaFits(after[Len(RemovalSignals(ids))], Rest(Apps, heard), managedGroups)
<1> DEFINE n == Cardinality(heard)
<1>1. /\ n \in Nat /\ Len(RemovalSignals(ids)) = n
      /\ \A i \in 1..n : RemovalSignals(ids)[i] = NotificationRemoved(Nth(heard, i))
  BY RemovalsSignalled
<1>2. heard \subseteq Int /\ IsFiniteSet(heard)
  <2>1. heard \in SUBSET ids
    OBVIOUS
  <2>2. QED
    BY <2>1, FS_Subset
<1>3. /\ after[0] = area
      /\ \A i \in 1..Len(signals) : after[i] = AreaHears(after[i - 1], signals[i])
  BY DEF AreaHearsInTurn
<1>4. PICK apps : apps = Apps
  OBVIOUS
<1>5. AreaFits(after[0], Rest(apps, {}), managedGroups)
  BY <1>3, <1>4, AppsWhole
<1>6. (\A i \in 1..n : signals[i] = NotificationRemoved(Nth(heard, i))) /\ n <= Len(signals)
  BY <1>1
<1>7. AreaFits(after[n], Rest(apps, heard), managedGroups)
  BY <1>2, <1>3, <1>5, <1>6, AreaRemovalsFit
<1>8. QED
  BY <1>1, <1>4, <1>7

\* The manager removes what it was asked to.
LEMMA AreaKeptByRemovals ==
    ASSUME AreaInv, NEW ids, ids \subseteq DOMAIN managed,
           managed' = Without(managed, ids), managedGroups' = managedGroups,
           area' = AfterAll(AreaHears, area, RemovalSignals(ids))
    PROVE  AreaInv'
<1>1. ContainersFit
  BY DEF AreaInv
<1>2. PICK heard : heard = {k \in ids : managed[k].relayed # "waits"}
  OBVIOUS
<1>3. ContainersFit' /\ Apps' = Rest(Apps, heard) /\ IsFiniteSet(ids) /\ ids \subseteq Int
  <2>1. \A k \in DOMAIN managed \ ids : managed[k].group \in DOMAIN managedGroups' \cup {NoGroup}
    BY <1>1 DEF ContainersFit
  <2>2. QED
    BY <1>1, <1>2, <2>1, GoneAreGone
<1>4. PICK signals : signals = RemovalSignals(ids)
  OBVIOUS
<1>5. Len(signals) \in Nat
  BY <1>2, <1>3, <1>4, RemovalsSignalled
<1>6. AreaKnows(area)'
  <2>1. CASE area = NoArea
    <3>1. area' = NoArea
      BY <1>4, <1>5, <2>1, NoAreaHears
    <3>2. QED
      BY <3>1 DEF AreaKnows
  <2>2. CASE area # NoArea
    <3>1. AreaFits(area, Apps, managedGroups)
      BY <2>2 DEF AreaInv, AreaKnows
    <3>2. PICK after : AreaHearsInTurn(after, area, signals)
      BY <1>5, AreaHearsAll, Zenon
    <3>3. area' = after[Len(signals)]
      BY <1>4, <3>2 DEF AreaHearsInTurn
    <3>4. AreaFits(after[Len(signals)], Rest(Apps, heard), managedGroups)
      BY <1>2, <1>3, <1>4, <1>5, <3>1, <3>2, AreaGoneFits
    <3>5. AreaFits(area', Apps', managedGroups')
      BY <1>3, <3>3, <3>4
    <3>6. QED
      BY <3>5 DEF AreaKnows
  <2>3. QED
    BY <2>1, <2>2
<1>7. QED
  BY <1>3, <1>6 DEF AreaInv, IsAFunction

LEMMA AreaKeptByNotifications ==
    ASSUME AreaInv, NotificationStep(AreaListens)
    PROVE  AreaInv'
<1>1. ContainersFit /\ ManagedType
  BY DEF AreaInv, ContainersFit
<1>2. ASSUME NEW group \in GroupIds \cup {NoGroup}, NEW content \in Contents,
             ManagerAdds(group, content, AreaListens)
      PROVE  AreaInv'
  <2> DEFINE lowest == LowestFree(NotificationIds, DOMAIN managed)
  <2>1. PICK relayed \in Marks :
            LET n == [group |-> group, content |-> content, relayed |-> relayed]
            IN  /\ managed' = With(managed, lowest, n)
                /\ AreaListens(IF relayed = "yes" THEN <<NotificationUpdated(lowest, n)>> ELSE <<>>)
    BY <1>2 DEF ManagerAdds, Marks
  <2>2. PICK id, note : /\ id = lowest
                        /\ note = [group |-> group, content |-> content, relayed |-> relayed]
    OBVIOUS
  <2>3. /\ note \in Notes /\ note.group = group /\ note.relayed = relayed
        /\ group \in DOMAIN managedGroups \cup {NoGroup}
    BY <1>2, <2>2 DEF Notes, ManagerAdds
  <2>4. id \in NotificationIds \ DOMAIN managed
    BY <1>1, <1>2, <2>2, Identifiers, LowestIsFree DEF ManagedType, ManagerAdds
  <2>5. Stored(id, note)
    BY <1>2, <2>1, <2>2, <2>4 DEF Stored, With, ManagerAdds
  <2>6. CASE relayed = "yes"
    <3>1. area' = AfterAll(AreaHears, area, <<NotificationUpdated(id, note)>>)
      BY <2>1, <2>2, <2>6 DEF AreaListens, AreaListensFor
    <3>2. QED
      BY <2>3, <2>4, <2>5, <2>6, <3>1, AreaKeptHeard
  <2>7. CASE relayed # "yes"
    <3>1. area' = AfterAll(AreaHears, area, <<>>)
      BY <2>1, <2>7 DEF AreaListens, AreaListensFor
    <3>2. QED
      BY <2>3, <2>4, <2>5, <2>7, <3>1, AreaKeptUnheard
  <2>8. QED
    BY <2>6, <2>7
<1>3. ASSUME NEW id \in DOMAIN managed, ManagerRelays(id, AreaListens)
      PROVE  AreaInv'
  <2>1. PICK note : note = [managed[id] EXCEPT !.relayed = "yes"]
    OBVIOUS
  <2>2. managed[id] \in Notes /\ id \in NotificationIds
    BY <1>1 DEF ManagedType
  <2>3. /\ note \in Notes /\ note.relayed = "yes"
        /\ note.group = managed[id].group /\ note.content = managed[id].content
    BY <2>1, <2>2 DEF Notes, Marks
  <2>4. Stored(id, note)
    BY <1>3, <2>1 DEF Stored, ManagerRelays
  <2>5. PICK n : n = managed[id]
    OBVIOUS
  <2>6. area' = AfterAll(AreaHears, area, <<NotificationUpdated(id, n)>>)
    BY <1>3, <2>5 DEF ManagerRelays, AreaListens, AreaListensFor
  <2>7. n.group = note.group /\ n.content = note.content
    BY <2>3, <2>5
  <2>8. /\ note.group \in DOMAIN managedGroups \cup {NoGroup}
        /\ id \in DOMAIN managed => managed[id].content.type = note.content.type
    BY <1>1, <2>3 DEF ContainersFit
  <2>9. QED
    BY <2>2, <2>3, <2>4, <2>6, <2>7, <2>8, AreaKeptHeard
<1>4. ASSUME NEW id \in DOMAIN managed, NEW content \in Contents,
             ManagerUpdates(id, content, AreaListens)
      PROVE  AreaInv'
  <2>1. PICK note : note = [managed[id] EXCEPT !.content = content,
                                               !.relayed = IF @ = "waits" THEN "waits" ELSE "yes"]
    OBVIOUS
  <2>2. managed[id] \in Notes /\ id \in NotificationIds
    BY <1>1 DEF ManagedType
  <2>3. /\ note \in Notes /\ note.relayed \in {"waits", "yes"}
        /\ note.relayed = "waits" => managed[id].relayed = "waits"
        /\ note.group = managed[id].group
        /\ note.content = content /\ content.type = managed[id].content.type
    BY <1>4, <2>1, <2>2 DEF Notes, Marks, ManagerUpdates
  <2>4. /\ managed' = [managed EXCEPT ![id] = note] /\ managedGroups' = managedGroups
        /\ AreaListens(IF note.relayed = "waits" THEN <<>> ELSE <<NotificationUpdated(id, note)>>)
    BY <1>4, <2>1 DEF ManagerUpdates
  <2>5. Stored(id, note)
    BY <2>4 DEF Stored
  <2>6. note.group \in DOMAIN managedGroups \cup {NoGroup}
    BY <1>1, <2>3 DEF ContainersFit
  <2>7. CASE note.relayed = "waits"
    <3>1. area' = AfterAll(AreaHears, area, <<>>)
      BY <2>4, <2>7 DEF AreaListens, AreaListensFor
    <3>2. QED
      BY <2>2, <2>3, <2>5, <2>6, <2>7, <3>1, AreaKeptUnheard
  <2>8. CASE note.relayed = "yes"
    <3>1. area' = AfterAll(AreaHears, area, <<NotificationUpdated(id, note)>>)
      BY <2>4, <2>8 DEF AreaListens, AreaListensFor
    <3>2. QED
      BY <2>2, <2>3, <2>5, <2>6, <2>8, <3>1, AreaKeptHeard
  <2>9. QED
    BY <2>3, <2>7, <2>8
<1>5. ASSUME NEW id \in DOMAIN managed, ManagerRemoves({id}, AreaListens)
      PROVE  AreaInv'
  <2>1. PICK ids : ids = {id}
    OBVIOUS
  <2>2. /\ managed' = Without(managed, ids) /\ managedGroups' = managedGroups
        /\ area' = AfterAll(AreaHears, area, RemovalSignals(ids))
    BY <1>5, <2>1 DEF ManagerRemoves, AreaListens, AreaListensFor
  <2>3. ids \subseteq DOMAIN managed
    BY <2>1
  <2>4. QED
    BY <2>2, <2>3, AreaKeptByRemovals
<1>6. QED
  BY <1>2, <1>3, <1>4, <1>5 DEF NotificationStep

LEMMA AreaKeptByGroups ==
    ASSUME AreaInv, GroupStep(AreaListens)
    PROVE  AreaInv'
<1>1. ContainersFit /\ ManagedType
  BY DEF AreaInv, ContainersFit
<1>2. ASSUME NEW group \in GroupIds, NEW content \in Contents,
             ManagerUpdatesGroup(group, content, AreaListens)
      PROVE  AreaInv'
  <2>1. PICK told : told = GroupUpdated(group, content)
    OBVIOUS
  <2>2. /\ managedGroups' = With(managedGroups, group, content) /\ managed' = managed
        /\ area' = AfterAll(AreaHears, area, <<told>>)
    BY <1>2, <2>1 DEF ManagerUpdatesGroup, AreaListens, AreaListensFor
  <2>3. PICK more : more = managedGroups'
    OBVIOUS
  <2>4. /\ DOMAIN more = DOMAIN managedGroups \cup {group} /\ IsAFunction(more)
        /\ more[group] = content
        /\ \A g \in DOMAIN managedGroups \ {group} : more[g] = managedGroups[g]
    BY <2>2, <2>3 DEF With, IsAFunction
  <2>5. ContainersFit'
    BY <1>1, <2>2, <2>3, <2>4 DEF ContainersFit, ManagedType
  <2>6. Apps' = Apps
    BY <2>2 DEF Apps, RelayedApplications
  <2>7. area' = AreaHears(area, told)
    <3>1. AfterAll(AreaHears, area, <<told>>) = AreaHears(area, told)
      BY AreaHearsFew, Zenon
    <3>2. QED
      BY <2>2, <3>1
  <2>8. AreaKnows(area)'
    <3>1. CASE area = NoArea
      <4>1. area.created = FALSE
        BY <3>1, NoAreaIsNotThere
      <4>2. area' = area
        BY <2>7, <4>1 DEF AreaHears
      <4>3. QED
        BY <3>1, <4>2 DEF AreaKnows
    <3>2. CASE area # NoArea
      <4>1. PICK a, apps : a = area /\ apps = Apps
        OBVIOUS
      <4>2. AreaFits(a, apps, managedGroups)
        BY <3>2, <4>1 DEF AreaInv, AreaKnows
      <4>3. a.created = TRUE
        BY <4>2, AreaFitsCreated
      <4>4. AreaHears(a, told) = AddGroup(a, group, content)
        BY <2>1, <4>3, AreaHearsEach, Zenon
      <4>5. AreaFits(AddGroup(a, group, content), apps, more)
        BY <2>2, <2>3, <4>2, AreaFitsGroupAdded
      <4>6. AreaFits(area', Apps', managedGroups')
        BY <2>3, <2>6, <2>7, <4>1, <4>4, <4>5
      <4>7. QED
        BY <4>6 DEF AreaKnows
    <3>3. QED
      BY <3>1, <3>2
  <2>9. QED
    BY <2>3, <2>4, <2>5, <2>8 DEF AreaInv, IsAFunction
<1>3. ASSUME NEW group \in DOMAIN managedGroups, ManagerRemovesGroup(group, AreaListens)
      PROVE  AreaInv'
  <2>1. PICK ids : ids = MembersOf(group)
    OBVIOUS
  <2>2. PICK told, removals : told = GroupRemoved(group) /\ removals = RemovalSignals(ids)
    OBVIOUS
  <2>3. PICK signals : signals = Append(removals, told)
    OBVIOUS
  <2>4. /\ managed' = Without(managed, ids) /\ managedGroups' = Without(managedGroups, {group})
        /\ area' = AfterAll(AreaHears, area, signals)
    BY <1>3, <2>1, <2>2, <2>3 DEF ManagerRemovesGroup, AreaListens, AreaListensFor
  <2>5. PICK left : left = managedGroups'
    OBVIOUS
  <2>6. /\ DOMAIN left = DOMAIN managedGroups \ {group} /\ IsAFunction(left)
        /\ \A g \in DOMAIN left : left[g] = managedGroups[g]
    BY <2>4, <2>5 DEF Without, Restrict, IsAFunction
  <2>7. /\ ids \subseteq DOMAIN managed
        /\ \A id \in DOMAIN managed \ ids : managed[id].group \in DOMAIN left \cup {NoGroup}
    BY <1>1, <2>1, <2>6 DEF MembersOf, ContainersFit
  <2>8. PICK heard : heard = {k \in ids : managed[k].relayed # "waits"}
    OBVIOUS
  <2>9. ContainersFit' /\ Apps' = Rest(Apps, heard) /\ IsFiniteSet(ids) /\ ids \subseteq Int
    BY <1>1, <2>4, <2>5, <2>6, <2>7, <2>8, GoneAreGone
  <2>10. Len(removals) \in Nat /\ \E T : removals \in Seq(T)
    BY <2>2, <2>8, <2>9, RemovalsSignalled
  <2>11. /\ Len(signals) = Len(removals) + 1 /\ signals[Len(signals)] = told
         /\ \A i \in 1..Len(removals) : signals[i] = removals[i]
    <3>1. PICK T : removals \in Seq(T)
      BY <2>10
    <3>2. PICK U : U = T \cup {told}
      OBVIOUS
    <3>3. removals \in Seq(U) /\ told \in U
      BY <3>1, <3>2
    <3>4. QED
      BY <2>3, <3>3
  <2>12. Len(signals) \in Nat /\ Len(removals) <= Len(signals)
    BY <2>10, <2>11
  <2>13. AreaKnows(area)'
    <3>1. CASE area = NoArea
      <4>1. area' = NoArea
        BY <2>4, <2>12, <3>1, NoAreaHears
      <4>2. QED
        BY <4>1 DEF AreaKnows
    <3>2. CASE area # NoArea
      <4>1. AreaFits(area, Apps, managedGroups)
        BY <3>2 DEF AreaInv, AreaKnows
      <4>2. PICK after : AreaHearsInTurn(after, area, signals)
        BY <2>12, AreaHearsAll, Zenon
      <4>3. PICK n, before, rest : /\ n = Len(removals) /\ before = after[n]
                                   /\ rest = Rest(Apps, heard)
        OBVIOUS
      <4>4. AreaFits(before, rest, managedGroups)
        BY <2>2, <2>8, <2>9, <2>11, <2>12, <4>1, <4>2, <4>3, AreaGoneFits
      <4>5. area' = AreaHears(before, told)
        <5>1. Len(signals) \in 1..Len(signals) /\ Len(signals) - 1 = n
          BY <2>10, <2>11, <2>12, <4>3
        <5>2. after[Len(signals)] = AreaHears(after[Len(signals) - 1], signals[Len(signals)])
          BY <4>2, <5>1 DEF AreaHearsInTurn
        <5>3. area' = after[Len(signals)]
          BY <2>4, <4>2 DEF AreaHearsInTurn
        <5>4. QED
          BY <2>11, <4>3, <5>1, <5>2, <5>3
      <4>6. before.created = TRUE
        BY <4>4, AreaFitsCreated
      <4>7. AreaHears(before, told) = RemoveGroup(before, group)
        BY <2>2, <4>6, AreaHearsEach, Zenon
      <4>8. \A k \in DOMAIN rest : rest[k].group # group
        <5>1. Fit(Apps', managedGroups')
          BY <2>9, AppsOfManagedNext
        <5>2. Fit(rest, left)
          BY <2>5, <2>9, <4>3, <5>1
        <5>3. group # NoGroup
          BY <1>1, <1>3, Identifiers DEF ContainersFit, NoGroup
        <5>4. QED
          BY <2>6, <5>2, <5>3 DEF Fit
      <4>9. AreaFits(RemoveGroup(before, group), rest, left)
        BY <1>3, <2>4, <2>5, <4>4, <4>8, AreaFitsGroupRemoved
      <4>10. AreaFits(area', Apps', managedGroups')
        BY <2>5, <2>9, <4>3, <4>5, <4>7, <4>9
      <4>11. QED
        BY <4>10 DEF AreaKnows
    <3>3. QED
      BY <3>1, <3>2
  <2>14. QED
    BY <2>5, <2>6, <2>9, <2>13 DEF AreaInv, IsAFunction
<1>4. QED
  BY <1>2, <1>3 DEF GroupStep

-----------------------------------------------------------------------------
(* The area is created.                                                    *)

\* An order of a set has each of its elements.
LEMMA OrderOfAll ==
    ASSUME NEW S, IsFiniteSet(S), NEW order \in SetToSeqs(S)
    PROVE  /\ Cardinality(S) \in Nat /\ DOMAIN order = 1..Cardinality(S)
           /\ \A i \in 1..Cardinality(S) : order[i] \in S
           /\ \A x \in S : \E i \in 1..Cardinality(S) : order[i] = x
<1>1. PICK n : n = Cardinality(S)
  OBVIOUS
<1>2. n \in Nat
  BY <1>1, FS_CardinalityType
<1>3. PICK D : D = 1..n
  OBVIOUS
<1>4. order \in [D -> S] /\ \A i, j \in D : i # j => order[i] # order[j]
  BY <1>1, <1>3 DEF SetToSeqs
<1>5. order \in Injection(D, S)
  BY <1>4 DEF Injection, IsInjective
<1>6. Cardinality(D) = n
  <2>1. 1 \in Int /\ n \in Int /\ (1 > n <=> n = 0) /\ n - 1 + 1 = n
    BY <1>2
  <2>2. Cardinality(1..n) = IF 1 > n THEN 0 ELSE n - 1 + 1
    BY <2>1, FS_Interval
  <2>3. QED
    BY <1>3, <2>1, <2>2
<1>7. order \in Surjection(D, S)
  BY <1>1, <1>5, <1>6, FS_Injection
<1>8. \A x \in S : \E i \in D : order[i] = x
  BY <1>7 DEF Surjection
<1>9. QED
  BY <1>1, <1>2, <1>3, <1>4, <1>8

LEMMA UpToNext ==
    ASSUME NEW n \in Nat, NEW i \in 1..n
    PROVE  1..i = 1..(i - 1) \cup {i}
OBVIOUS

LEMMA AreaHearsOfGroup ==
    ASSUME NEW a, NEW apps, NEW contents, AreaFits(a, apps, contents), NEW g, NEW content,
           NEW b, b = AreaHears(a, GroupUpdated(g, content))
    PROVE  b = AddGroup(a, g, content)
<1>1. a.created = TRUE
  BY AreaFitsCreated
<1>2. AreaHears(a, GroupUpdated(g, content)) = AddGroup(a, g, content)
  BY <1>1, AreaHearsEach, Zenon
<1>3. QED
  BY <1>2

LEMMA AreaHearsOfNotification ==
    ASSUME NEW a, NEW apps, NEW contents, AreaFits(a, apps, contents), NEW id, NEW n,
           NEW b, b = AreaHears(a, NotificationUpdated(id, n))
    PROVE  b = AddNotification(a, id, n.group, n.content)
<1>1. a.created = TRUE
  BY AreaFitsCreated
<1>2. AreaHears(a, NotificationUpdated(id, n)) = AddNotification(a, id, n.group, n.content)
  BY <1>1, AreaHearsEach, Zenon
<1>3. QED
  BY <1>2

\* It is told of each group.
LEMMA AreaGroupsTold ==
    ASSUME NEW p \in Nat, NEW order, NEW contents, IsAFunction(contents), DOMAIN contents \subseteq GroupIds,
           \A i \in 1..p : order[i] \in DOMAIN contents,
           \A g \in DOMAIN contents : \E i \in 1..p : order[i] = g,
           NEW apps, NEW none, none = <<>>, NEW after, AreaFits(after[0], apps, none),
           \A i \in 1..p : after[i] = AreaHears(after[i - 1], GroupUpdated(order[i], contents[order[i]]))
    PROVE  AreaFits(after[p], apps, contents)
<1> DEFINE Upto(i) == [g \in {order[j] : j \in 1..i} |-> contents[g]]
           S == {i \in 0..p : AreaFits(after[i], apps, Upto(i))}
<1>1. 0 \in S
  <2>1. 1..0 = {}
    OBVIOUS
  <2>2. Upto(0) = <<>>
    BY <2>1
  <2>3. 0 \in 0..p
    OBVIOUS
  <2> HIDE DEF Upto
  <2>4. QED
    BY <2>2, <2>3
<1>2. ASSUME NEW i \in 1..p, i - 1 \in S
      PROVE  i \in S
  <2>1. PICK before, a, g, content :
            /\ before = Upto(i - 1) /\ a = after[i - 1] /\ g = order[i] /\ content = contents[g]
    OBVIOUS
  <2>2. AreaFits(a, apps, before)
    BY <1>2, <2>1
  <2>3. PICK more : more = Upto(i)
    OBVIOUS
  <2>4. more = With(before, g, content)
    <3>1. 1..i = 1..(i - 1) \cup {i}
      BY UpToNext, Zenon
    <3>2. DOMAIN more = DOMAIN before \cup {g}
      BY <2>1, <2>3, <3>1
    <3>3. more = [h \in DOMAIN before \cup {g} |-> contents[h]]
      BY <2>3, <3>2
    <3>4. \A h \in DOMAIN before \cup {g} : (IF h = g THEN content ELSE before[h]) = contents[h]
      BY <2>1
    <3>5. QED
      BY <3>3, <3>4 DEF With
  <2>5. g \in GroupIds /\ after[i] = AddGroup(a, g, content) /\ i \in 0..p
    <3> HIDE DEF Upto, S
    <3>1. /\ after[i] = AreaHears(after[i - 1], GroupUpdated(order[i], contents[order[i]]))
          /\ order[i] \in GroupIds /\ i \in 0..p
      <4>1. after[i] = AreaHears(after[i - 1], GroupUpdated(order[i], contents[order[i]]))
        OBVIOUS
      <4>2. order[i] \in GroupIds
        OBVIOUS
      <4>3. i \in 0..p
        OBVIOUS
      <4>4. QED
        BY <4>1, <4>2, <4>3
    <3>2. after[i] = AreaHears(a, GroupUpdated(g, content)) /\ g \in GroupIds
      BY <2>1, <3>1
    <3>3. QED
      BY <2>2, <3>1, <3>2, AreaHearsOfGroup
  <2>6. AreaFits(AddGroup(a, g, content), apps, more)
    BY <2>2, <2>4, <2>5, AreaFitsGroupAdded
  <2> HIDE DEF Upto
  <2>7. QED
    BY <2>3, <2>5, <2>6
<1>3. Upto(p) = contents
  <2>1. DOMAIN contents = {order[j] : j \in 1..p}
    OBVIOUS
  <2>2. QED
    BY <2>1 DEF IsAFunction
<1> HIDE DEF S
<1>4. \A i \in 0..p : i \in S
  BY <1>1, <1>2, OneByOne
<1>5. AreaFits(after[p], apps, Upto(p))
  <2>1. p \in S
    BY <1>4
  <2> HIDE DEF Upto
  <2>2. QED
    BY <2>1 DEF S
<1> HIDE DEF Upto
<1>6. QED
  BY <1>3, <1>5

\* And of each notification, whether it was signalled or not.
ApplicationsOf(notes) == [id \in {k \in DOMAIN notes : notes[k].content.type = "application"} |-> notes[id]]

LEMMA AreaNotificationsTold ==
    ASSUME NEW q \in Nat, NEW order, NEW notes, NEW contents, DOMAIN contents \subseteq GroupIds,
           DOMAIN notes \subseteq NotificationIds,
           \A id \in DOMAIN notes : notes[id].group \in DOMAIN contents \cup {NoGroup},
           \A j \in 1..q : order[j] \in DOMAIN notes,
           \A id \in DOMAIN notes : \E j \in 1..q : order[j] = id,
           NEW none, none = <<>>, NEW after, AreaFits(after[0], none, contents),
           \A j \in 1..q : after[j] = AreaHears(after[j - 1], NotificationUpdated(order[j], notes[order[j]]))
    PROVE  AreaFits(after[q], ApplicationsOf(notes), contents)
<1> DEFINE Told(i) == {order[j] : j \in 1..i} \cap DOMAIN ApplicationsOf(notes)
           Upto(i) == [id \in Told(i) |-> notes[id]]
           S == {i \in 0..q : AreaFits(after[i], Upto(i), contents)}
<1>1. 0 \in S
  <2>1. 1..0 = {}
    OBVIOUS
  <2>2. Upto(0) = <<>>
    BY <2>1
  <2>3. 0 \in 0..q
    OBVIOUS
  <2> HIDE DEF Upto
  <2>4. QED
    BY <2>2, <2>3
<1>2. \A id \in DOMAIN notes : id \in DOMAIN ApplicationsOf(notes) <=> notes[id].content.type = "application"
  BY DEF ApplicationsOf
<1>3. \A i : \A id \in Told(i) : id \in DOMAIN notes
  BY DEF ApplicationsOf
<1>4. ASSUME NEW i \in 1..q, i - 1 \in S
      PROVE  i \in S
  <2>1. PICK before, more, a, id, group, content :
            /\ before = Upto(i - 1) /\ more = Upto(i) /\ a = after[i - 1] /\ id = order[i]
            /\ group = notes[id].group /\ content = notes[id].content
    OBVIOUS
  <2>2. AreaFits(a, before, contents)
    BY <1>4, <2>1
  <2>3. id \in DOMAIN notes /\ i \in 0..q
    <3>1. order[i] \in DOMAIN notes /\ i \in 0..q
      OBVIOUS
    <3> HIDE DEF Upto, Told, S
    <3>2. QED
      BY <2>1, <3>1
  <2>4. after[i] = AddNotification(a, id, group, content)
    <3>1. after[i] = AreaHears(after[i - 1], NotificationUpdated(order[i], notes[order[i]]))
      OBVIOUS
    <3> HIDE DEF Upto, Told, S
    <3>2. PICK n : n = notes[id]
      OBVIOUS
    <3>3. after[i] = AreaHears(a, NotificationUpdated(id, n))
      BY <2>1, <3>1, <3>2
    <3>4. after[i] = AddNotification(a, id, n.group, n.content)
      BY <2>2, <3>3, AreaHearsOfNotification
    <3>5. QED
      BY <2>1, <3>2, <3>4
  <2>5. {order[j] : j \in 1..i} = {order[j] : j \in 1..(i - 1)} \cup {id}
    <3>1. 1..i = 1..(i - 1) \cup {i}
      BY UpToNext, Zenon
    <3>2. QED
      BY <2>1, <3>1
  <2>6. CASE content.type = "application"
    <3>1. Told(i) = Told(i - 1) \cup {id}
      BY <1>2, <2>1, <2>3, <2>5, <2>6
    <3>2. Becomes(before, more, id, group, content)
      BY <2>1, <3>1 DEF Becomes
    <3>3. Fit(more, contents)
      BY <1>3, <2>1 DEF Fit
    <3>4. AreaFits(AddNotification(a, id, group, content), more, contents)
      BY <2>2, <2>6, <3>2, <3>3, AreaFitsAdded
    <3> HIDE DEF Upto
    <3>5. QED
      BY <2>1, <2>3, <2>4, <3>4
  <2>7. CASE content.type # "application"
    <3>1. Told(i) = Told(i - 1)
      BY <1>2, <2>1, <2>3, <2>5, <2>7
    <3>2. more = before
      BY <2>1, <3>1
    <3>3. AddNotification(a, id, group, content) = a
      BY <2>7 DEF AddNotification
    <3> HIDE DEF Upto
    <3>4. QED
      BY <2>1, <2>2, <2>3, <2>4, <3>2, <3>3
  <2>8. QED
    BY <2>6, <2>7
<1>5. Upto(q) = ApplicationsOf(notes)
  <2>1. Told(q) = DOMAIN ApplicationsOf(notes)
    BY DEF ApplicationsOf
  <2>2. QED
    BY <2>1 DEF ApplicationsOf
<1> HIDE DEF S
<1>6. \A i \in 0..q : i \in S
  BY <1>1, <1>4, OneByOne
<1>7. AreaFits(after[q], Upto(q), contents)
  <2>1. q \in S
    BY <1>6
  <2> HIDE DEF Upto
  <2>2. QED
    BY <2>1 DEF S
<1> HIDE DEF Upto
<1>8. QED
  BY <1>5, <1>7

\* The signals that tell of the groups and of the notifications, in turn.
TellInTurn(signals, s, p, t, q) ==
    /\ Len(signals) = p + q
    /\ \A i \in 1..p : i \in 1..Len(signals) /\ signals[i] = s[i]
    /\ \A j \in 1..q : /\ p + j \in 1..Len(signals)
                       /\ signals[p + j] = t[j]
                       /\ (p + j) - 1 = p + (j - 1)

LEMMA InTurn ==
    ASSUME NEW p \in Nat, NEW q \in Nat, NEW U, NEW s \in Seq(U), NEW t \in Seq(U), Len(s) = p, Len(t) = q,
           NEW signals, signals = s \o t
    PROVE  TellInTurn(signals, s, p, t, q)
<1>1. /\ Len(signals) = p + q
      /\ \A i \in 1..(p + q) : signals[i] = IF i <= p THEN s[i] ELSE t[i - p]
  BY ConcatProperties
<1>2. ASSUME NEW i \in 1..p
      PROVE  i \in 1..Len(signals) /\ signals[i] = s[i]
  <2>1. i \in 1..(p + q) /\ i <= p
    OBVIOUS
  <2>2. QED
    BY <1>1, <2>1
<1>3. ASSUME NEW j \in 1..q
      PROVE  p + j \in 1..Len(signals) /\ signals[p + j] = t[j] /\ (p + j) - 1 = p + (j - 1)
  <2>1. PICK k : k = p + j
    OBVIOUS
  <2>2. k \in 1..(p + q) /\ ~(k <= p) /\ k - p = j /\ k - 1 = p + (j - 1)
    BY <2>1
  <2>3. signals[k] = t[j]
    BY <1>1, <2>2
  <2>4. QED
    BY <1>1, <2>1, <2>2, <2>3
<1>4. QED
  BY <1>1, <1>2, <1>3 DEF TellInTurn

LEMMA ContainersFinite ==
    ASSUME ContainersFit
    PROVE  IsFiniteSet(DOMAIN managed) /\ IsFiniteSet(DOMAIN managedGroups)
<1>1. /\ DOMAIN managed \in SUBSET NotificationIds /\ DOMAIN managedGroups \in SUBSET GroupIds
      /\ IsFiniteSet(NotificationIds) /\ IsFiniteSet(GroupIds)
  BY SignalsAssumption DEF ContainersFit, ManagedType
<1>2. QED
  BY <1>1, FS_Subset

\* A function on the first numbers is a sequence.
LEMMA ListOf ==
    ASSUME NEW n \in Nat, NEW f, DOMAIN f = 1..n, IsAFunction(f)
    PROVE  f \in Seq(Range(f)) /\ Len(f) = n
<1>1. \A i \in 1..n : f[i] \in Range(f)
  BY DEF Range
<1>2. f \in [1..n -> Range(f)]
  BY <1>1 DEF IsAFunction
<1>3. f \in Seq(Range(f))
  <2>1. \A S : \A m \in Nat : \A g \in [1..m -> S] : g \in Seq(S)
    BY SeqDef, Zenon
  <2>2. QED
    BY <1>2, <2>1, Zenon
<1>4. Len(f) = n
  <2>1. Len(f) \in Nat /\ DOMAIN f = 1..Len(f)
    BY <1>3
  <2>2. QED
    BY <2>1
<1>5. QED
  BY <1>3, <1>4

LEMMA ListsOf ==
    ASSUME NEW p \in Nat, NEW s, DOMAIN s = 1..p, IsAFunction(s),
           NEW q \in Nat, NEW t, DOMAIN t = 1..q, IsAFunction(t)
    PROVE  \E U : s \in Seq(U) /\ t \in Seq(U) /\ Len(s) = p /\ Len(t) = q
<1>1. s \in Seq(Range(s)) /\ Len(s) = p /\ t \in Seq(Range(t)) /\ Len(t) = q
  BY ListOf
<1>2. PICK U : U = Range(s) \cup Range(t)
  OBVIOUS
<1>3. \A i \in 1..p : s[i] \in U
  BY <1>2 DEF Range
<1>4. \A j \in 1..q : t[j] \in U
  BY <1>2 DEF Range
<1>5. s \in [1..p -> U] /\ t \in [1..q -> U]
  BY <1>3, <1>4 DEF IsAFunction
<1>6. s \in Seq(U) /\ t \in Seq(U)
  <2>1. \A S : \A m \in Nat : \A g \in [1..m -> S] : g \in Seq(S)
    BY SeqDef, Zenon
  <2>2. QED
    BY <1>5, <2>1, Zenon
<1>7. QED
  BY <1>1, <1>6

\* The area that is created knows what there is: what waits, too.
LEMMA AreaKnowsWhatThereIs ==
    ASSUME ContainersFit, IsAFunction(managedGroups),
           NEW groupOrder \in SetToSeqs(DOMAIN managedGroups), NEW order \in SetToSeqs(DOMAIN managed)
    PROVE  AreaFits(UpdateCurrentNotifications(NewArea, groupOrder, order), Apps, managedGroups)
<1>1. IsFiniteSet(DOMAIN managed) /\ IsFiniteSet(DOMAIN managedGroups)
  BY ContainersFinite
<1>2. PICK p : p = Cardinality(DOMAIN managedGroups)
  OBVIOUS
<1>3. PICK q : q = Cardinality(DOMAIN managed)
  OBVIOUS
<1>4. /\ p \in Nat /\ DOMAIN groupOrder = 1..p
      /\ \A i \in 1..p : groupOrder[i] \in DOMAIN managedGroups
      /\ \A g \in DOMAIN managedGroups : \E i \in 1..p : groupOrder[i] = g
  BY <1>1, <1>2, OrderOfAll
<1>5. /\ q \in Nat /\ DOMAIN order = 1..q
      /\ \A j \in 1..q : order[j] \in DOMAIN managed
      /\ \A id \in DOMAIN managed : \E j \in 1..q : order[j] = id
  BY <1>1, <1>3, OrderOfAll
<1>6. PICK s : s = [i \in DOMAIN groupOrder |-> GroupUpdated(groupOrder[i], managedGroups[groupOrder[i]])]
  OBVIOUS
<1>7. PICK t : t = [i \in DOMAIN order |-> NotificationUpdated(order[i], managed[order[i]])]
  OBVIOUS
<1>8. DOMAIN s = 1..p /\ IsAFunction(s) /\ DOMAIN t = 1..q /\ IsAFunction(t)
  BY <1>4, <1>5, <1>6, <1>7 DEF IsAFunction
<1>9. PICK U : s \in Seq(U) /\ t \in Seq(U) /\ Len(s) = p /\ Len(t) = q
  BY <1>4, <1>5, <1>8, ListsOf
<1>10. PICK signals : signals = s \o t
  OBVIOUS
<1>11. /\ Len(signals) = p + q
       /\ \A i \in 1..p : i \in 1..Len(signals) /\ signals[i] = s[i]
       /\ \A j \in 1..q : /\ p + j \in 1..Len(signals)
                          /\ signals[p + j] = t[j]
                          /\ (p + j) - 1 = p + (j - 1)
  <2>1. TellInTurn(signals, s, p, t, q)
    BY <1>4, <1>5, <1>9, <1>10, InTurn
  <2>2. QED
    BY <2>1 DEF TellInTurn
<1>12. PICK new : new = NewArea
  OBVIOUS
<1>13. PICK after : AreaHearsInTurn(after, new, signals)
  <2>1. Len(signals) \in Nat
    BY <1>4, <1>5, <1>11
  <2>2. QED
    BY <2>1, AreaHearsAll, Zenon
<1>14. /\ after[0] = new
       /\ \A i \in 1..Len(signals) : after[i] = AreaHears(after[i - 1], signals[i])
       /\ AfterAll(AreaHears, new, signals) = after[p + q]
  BY <1>11, <1>13 DEF AreaHearsInTurn
<1>15. UpdateCurrentNotifications(new, groupOrder, order) = after[p + q]
  BY <1>6, <1>7, <1>10, <1>14 DEF UpdateCurrentNotifications
<1>16. PICK none : none = <<>>
  OBVIOUS
<1>17. DOMAIN none = {} /\ AreaFits(new, none, none)
  BY <1>12, <1>16, AreaFitsNew
<1>18. AreaFits(after[p], none, managedGroups)
  <2>1. \A i \in 1..p : after[i] = AreaHears(after[i - 1],
                                             GroupUpdated(groupOrder[i], managedGroups[groupOrder[i]]))
    <3>1. \A i \in 1..p : s[i] = GroupUpdated(groupOrder[i], managedGroups[groupOrder[i]])
      BY <1>4, <1>6
    <3>2. QED
      BY <1>11, <1>14, <3>1
  <2>2. DOMAIN managedGroups \subseteq GroupIds /\ AreaFits(after[0], none, none)
    BY <1>14, <1>17 DEF ContainersFit
  <2>3. QED
    BY <1>4, <1>16, <2>1, <2>2, AreaGroupsTold
<1>19. AreaFits(after[p + q], ApplicationsOf(managed), managedGroups)
  <2>1. PICK later : later = [j \in 0..q |-> after[p + j]]
    OBVIOUS
  <2>2. later[0] = after[p] /\ later[q] = after[p + q]
    BY <1>4, <1>5, <2>1
  <2>3. ASSUME NEW j \in 1..q
        PROVE  later[j] = AreaHears(later[j - 1], NotificationUpdated(order[j], managed[order[j]]))
    <3>1. j \in 0..q /\ j - 1 \in 0..q
      BY <1>5
    <3>2. later[j] = after[p + j] /\ later[j - 1] = after[p + (j - 1)]
      BY <2>1, <3>1
    <3>3. t[j] = NotificationUpdated(order[j], managed[order[j]])
      BY <1>5, <1>7
    <3>4. after[p + j] = AreaHears(after[(p + j) - 1], signals[p + j])
      BY <1>11, <1>14
    <3>5. signals[p + j] = t[j] /\ (p + j) - 1 = p + (j - 1)
      BY <1>11
    <3>6. QED
      BY <3>2, <3>3, <3>4, <3>5
  <2>4. /\ DOMAIN managedGroups \subseteq GroupIds /\ DOMAIN managed \subseteq NotificationIds
        /\ \A id \in DOMAIN managed : managed[id].group \in DOMAIN managedGroups \cup {NoGroup}
    BY DEF ContainersFit, ManagedType
  <2>5. AreaFits(later[0], none, managedGroups)
    BY <1>18, <2>2
  <2>6. AreaFits(later[q], ApplicationsOf(managed), managedGroups)
    BY <1>5, <1>16, <2>3, <2>4, <2>5, AreaNotificationsTold
  <2>7. QED
    BY <2>2, <2>6
<1>20. PICK apps, all : apps = Apps /\ all = ApplicationsOf(managed)
  OBVIOUS
<1>21. DOMAIN apps \subseteq DOMAIN all /\ \A k \in DOMAIN apps : apps[k] = all[k]
  <2>1. /\ DOMAIN apps = RelayedApplications
        /\ \A k \in DOMAIN apps : apps[k] = managed[k]
    BY <1>20, AppsOfManaged
  <2>2. \A k \in RelayedApplications : k \in DOMAIN all /\ all[k] = managed[k]
    BY <1>20 DEF RelayedApplications, ApplicationsOf
  <2>3. QED
    BY <2>1, <2>2
<1>22. AreaFits(after[p + q], apps, managedGroups)
  BY <1>19, <1>20, <1>21, AreaKeepsFewer
<1>23. QED
  BY <1>12, <1>15, <1>20, <1>22

-----------------------------------------------------------------------------
LEMMA RequestedOfManaged ==
    ASSUME NEW banner
    PROVE  Requested(banner) \subseteq DOMAIN managed
BY DEF Requested, MembersOf

LEMMA AreaKeptUntouched ==
    ASSUME AreaInv, UNCHANGED managerVars, area' = area \/ area' = NoArea
    PROVE  AreaInv'
<1>1. managed' = managed /\ managedGroups' = managedGroups
  BY DEF managerVars
<1>2. ContainersFit'
  BY <1>1 DEF AreaInv, ContainersFit, ManagedType
<1>3. Apps' = Apps
  BY <1>1 DEF Apps, RelayedApplications
<1>4. AreaKnows(area)'
  <2>1. CASE area' = NoArea
    BY <2>1 DEF AreaKnows
  <2>2. CASE area' = area
    BY <1>1, <1>3, <2>2 DEF AreaInv, AreaKnows
  <2>3. QED
    BY <2>1, <2>2
<1>5. QED
  BY <1>1, <1>2, <1>4 DEF AreaInv, IsAFunction

LEMMA AreaKeptByItself ==
    ASSUME AreaInv, AreaActs
    PROVE  AreaInv'
<1>1. CASE CreateArea
  <2>1. PICK groupOrder \in SetToSeqs(DOMAIN managedGroups), order \in SetToSeqs(DOMAIN managed) :
            area' = UpdateCurrentNotifications(NewArea, groupOrder, order)
    BY <1>1 DEF CreateArea
  <2>2. managed' = managed /\ managedGroups' = managedGroups
    BY <1>1 DEF CreateArea, managerVars
  <2>3. ContainersFit /\ IsAFunction(managedGroups)
    BY DEF AreaInv
  <2>4. PICK a : a = UpdateCurrentNotifications(NewArea, groupOrder, order)
    OBVIOUS
  <2>5. AreaFits(a, Apps, managedGroups)
    BY <2>3, <2>4, AreaKnowsWhatThereIs
  <2>6. ContainersFit'
    BY <2>2, <2>3 DEF ContainersFit, ManagedType
  <2>7. Apps' = Apps
    BY <2>2 DEF Apps, RelayedApplications
  <2>8. AreaFits(area', Apps', managedGroups')
    BY <2>1, <2>2, <2>4, <2>5, <2>7
  <2>9. QED
    BY <2>2, <2>3, <2>6, <2>8 DEF AreaInv, AreaKnows, IsAFunction
<1>2. CASE DeleteArea
  BY <1>2, AreaKeptUntouched DEF DeleteArea
<1>3. CASE \E banner \in Range(LaidOut(area)) : ClickBanner(banner)
  BY <1>3, AreaKeptUntouched DEF ClickBanner
<1>4. CASE \E banner \in clicks : InfoBannerClicked(banner)
  <2>1. PICK banner \in clicks : InfoBannerClicked(banner)
    BY <1>4
  <2>2. PICK ids : ids = IF UserRemovable(area, banner) THEN Requested(banner) ELSE {}
    OBVIOUS
  <2>3. /\ managed' = Without(managed, ids) /\ managedGroups' = managedGroups
        /\ area' = AfterAll(AreaHears, area, RemovalSignals(ids))
    BY <2>1, <2>2 DEF InfoBannerClicked, ManagerRemoves, AreaListensFor
  <2>4. ids \subseteq DOMAIN managed
    BY <2>2, RequestedOfManaged
  <2>5. QED
    BY <2>3, <2>4, AreaKeptByRemovals
<1>5. CASE RemoveAllRemovableBanners
  <2>1. PICK ids : ids = UNION {Requested(b) : b \in {c \in Range(area.banners) : UserRemovable(area, c)}}
    OBVIOUS
  <2>2. /\ managed' = Without(managed, ids) /\ managedGroups' = managedGroups
        /\ area' = AfterAll(AreaHears, area, RemovalSignals(ids))
    BY <1>5, <2>1 DEF RemoveAllRemovableBanners, ManagerRemoves, AreaListens, AreaListensFor
  <2>3. ids \subseteq DOMAIN managed
    BY <2>1, RequestedOfManaged
  <2>4. QED
    BY <2>2, <2>3, AreaKeptByRemovals
<1>6. QED
  BY <1>1, <1>2, <1>3, <1>4, <1>5 DEF AreaActs

LEMMA AreaStarts == SignalsInit /\ AreaInit => AreaInv
<1> SUFFICES ASSUME SignalsInit, AreaInit
             PROVE  AreaInv
  OBVIOUS
<1>1. ManagedType
  BY SignalsStart
<1>2. AreaKnows(area)
  BY DEF AreaInit, AreaKnows
<1>3. CASE managed = <<>> /\ managedGroups = <<>>
  <2>1. DOMAIN managed = {} /\ DOMAIN managedGroups = {}
    BY <1>3
  <2>2. IsAFunction(managedGroups)
    BY <2>1, <1>3 DEF IsAFunction
  <2>3. QED
    BY <1>1, <1>2, <2>1, <2>2 DEF AreaInv, ContainersFit
<1>4. ASSUME NEW content \in Contents, NEW group \in {NoGroup, 1},
             managed = With(<<>>, 1, [group |-> group, content |-> content, relayed |-> "yes"]),
             managedGroups = IF group = NoGroup THEN <<>> ELSE With(<<>>, 1, content)
      PROVE  AreaInv
  <2>1. DOMAIN managed = {1} /\ managed[1].group = group
    BY <1>4 DEF With
  <2>2. CASE group = NoGroup
    <3>1. managedGroups = <<>> /\ DOMAIN managedGroups = {}
      BY <1>4, <2>2
    <3>2. IsAFunction(managedGroups)
      BY <3>1 DEF IsAFunction
    <3>3. QED
      BY <1>1, <1>2, <2>1, <2>2, <3>1, <3>2 DEF AreaInv, ContainersFit
  <2>3. CASE group # NoGroup
    <3>1. DOMAIN managedGroups = {1} /\ managedGroups[1] = content /\ IsAFunction(managedGroups)
      BY <1>4, <2>3 DEF With, IsAFunction
    <3>2. 1 \in GroupIds /\ group = 1
      BY <1>4, <2>3, Identifiers
    <3>3. QED
      BY <1>1, <1>2, <1>4, <2>1, <3>1, <3>2 DEF AreaInv, ContainersFit
  <2>4. QED
    BY <2>2, <2>3
<1>5. QED
  BY <1>3, <1>4 DEF SignalsInit

-----------------------------------------------------------------------------
(* What the area shows.                                                    *)

ParentedOf(banners) == {k \in DOMAIN banners : banners[k] # NULL /\ banners[k].parented}

LEMMA ParentedBanners ==
    ASSUME NEW alone, NEW contents, NEW made, NEW out, out \subseteq made, made \subseteq DOMAIN contents,
           NEW a, a = AloneBanners(alone), NEW b, b = GroupBanners(contents, made, out)
    PROVE  ParentedOf(a) = DOMAIN alone /\ ParentedOf(b) = out
<1>1. DOMAIN a = DOMAIN alone /\ DOMAIN b = DOMAIN contents
  BY DEF AloneBanners, GroupBanners
<1>2. \A id \in DOMAIN alone : a[id] # NULL /\ a[id].parented
  <2>1. ASSUME NEW id \in DOMAIN alone
        PROVE  a[id] # NULL /\ a[id].parented
    <3>1. a[id] = LaidOutBanner(alone[id])
      BY DEF AloneBanners
    <3>2. QED
      BY <3>1, BannerKinds
  <2>2. QED
    BY <2>1
<1>3. ASSUME NEW g \in DOMAIN contents
      PROVE  b[g] # NULL /\ b[g].parented <=> g \in out
  <2>1. b[g] = IF g \in made THEN AreaBanner(contents[g], g \in out) ELSE NULL
    BY DEF GroupBanners
  <2>2. CASE g \in out
    <3>1. b[g] = LaidOutBanner(contents[g])
      BY <2>1, <2>2 DEF AreaBanner
    <3>2. QED
      BY <2>2, <3>1, BannerKinds
  <2>3. CASE g \in made /\ g \notin out
    <3>1. b[g] = InfoBanner(contents[g])
      BY <2>1, <2>3 DEF AreaBanner
    <3>2. QED
      BY <2>3, <3>1, BannerKinds
  <2>4. CASE g \notin made
    BY <2>1, <2>4
  <2>5. QED
    BY <2>2, <2>3, <2>4
<1>4. ParentedOf(a) = DOMAIN alone
  BY <1>1, <1>2 DEF ParentedOf
<1>5. ParentedOf(b) = out
  BY <1>1, <1>3 DEF ParentedOf
<1>6. QED
  BY <1>4, <1>5

LEMMA AreaFollows ==
    ASSUME AreaInv
    PROVE  AreaFollowsNotifications
<1>1. CASE area = NoArea
  <2>1. area.created = FALSE
    BY <1>1, NoAreaIsNotThere
  <2>2. QED
    BY <2>1 DEF AreaFollowsNotifications, BannersBelong, AreaMissesNothing
<1>2. CASE area # NoArea
  <2>1. PICK apps : apps = Apps
    OBVIOUS
  <2>2. AreaFits(area, apps, managedGroups)
    BY <1>2, <2>1 DEF AreaInv, AreaKnows
  <2>3. PICK alone, made, out, counts, groupOf, banners :
            /\ area = AreaOf(alone, managedGroups, made, out, counts, groupOf, banners)
            /\ out \subseteq made /\ made \subseteq DOMAIN managedGroups
            /\ LaysOut(alone, out, banners) /\ CountsEach(out, counts, groupOf)
            /\ Shows(apps, alone, groupOf)
    BY <2>2, Zenon DEF AreaFits
  <2>4. /\ area.banners = banners /\ area.notificationIdToGroupId = groupOf
        /\ area.notificationIdToMBanner = AloneBanners(alone)
        /\ area.groupIdToMBanner = GroupBanners(managedGroups, made, out)
    BY <2>3 DEF AreaOf, AreaWith
  <2>5. /\ IsInjective(banners)
        /\ Range(banners) = {ABanner(id) : id \in DOMAIN alone} \cup {AGroupBanner(g) : g \in out}
    BY <2>3 DEF LaysOut
  <2>6. PICK as, gs : as = area.notificationIdToMBanner /\ gs = area.groupIdToMBanner
    OBVIOUS
  <2>7. ParentedOf(as) = DOMAIN alone
    BY <2>3, <2>4, <2>6, ParentedBanners
  <2>8. ParentedOf(gs) = out
    BY <2>3, <2>4, <2>6, ParentedBanners
  <2>9. \A id \in DOMAIN groupOf : BannerOf(area, groupOf[id]) # NULL
    <3>1. ASSUME NEW id \in DOMAIN groupOf
          PROVE  BannerOf(area, groupOf[id]) # NULL
      <4>1. PICK g \in out : g = groupOf[id]
        BY <2>3 DEF CountsEach
      <4>2. BannerOf(area, g) # NULL
        BY <2>3, <4>1, BannerOfGroup
      <4>3. QED
        BY <4>1, <4>2
    <3>2. QED
      BY <3>1
  <2>10. BannersBelong
    BY <2>4, <2>5, <2>6, <2>7, <2>8, <2>9 DEF BannersBelong, ParentedOf
  <2>11. ASSUME NEW b \in Range(banners)
         PROVE  Contains(area.banners, b)
    <3>1. banners \in Seq(Range(banners))
      BY <2>3 DEF LaysOut
    <3>2. DOMAIN banners = 1..Len(banners)
      BY <3>1
    <3>3. QED
      BY <2>4, <3>2 DEF Contains, Range
  <2>12. ASSUME NEW id \in RelayedApplications
         PROVE  IF managed[id].group = NoGroup
                THEN /\ Contains(area.banners, ABanner(id))
                     /\ as[id].content = managed[id].content
                ELSE /\ Contains(area.banners, AGroupBanner(managed[id].group))
                     /\ gs[managed[id].group].content = managedGroups[managed[id].group]
    <3>1. id \in DOMAIN apps /\ apps[id] = managed[id]
      BY <2>1, AppsOfManaged
    <3>2. IF managed[id].group = NoGroup THEN id \in DOMAIN alone /\ alone[id] = managed[id].content
          ELSE id \in DOMAIN groupOf /\ groupOf[id] = managed[id].group
      BY <2>3, <3>1 DEF Shows
    <3>3. CASE managed[id].group = NoGroup
      <4>1. Contains(area.banners, ABanner(id))
        BY <2>5, <2>11, <3>2, <3>3
      <4>2. as[id] = LaidOutBanner(managed[id].content)
        BY <2>4, <2>6, <3>2, <3>3 DEF AloneBanners
      <4>3. QED
        BY <3>3, <4>1, <4>2, BannerKinds
    <3>4. CASE managed[id].group # NoGroup
      <4>1. PICK g \in out : g = managed[id].group
        BY <2>3, <3>2, <3>4 DEF CountsEach
      <4>2. Contains(area.banners, AGroupBanner(g))
        BY <2>5, <2>11, <4>1
      <4>3. gs[g] = LaidOutBanner(managedGroups[g])
        BY <2>3, <2>4, <2>6, <4>1 DEF GroupBanners, AreaBanner
      <4>4. QED
        BY <3>4, <4>1, <4>2, <4>3, BannerKinds
    <3>5. QED
      BY <3>3, <3>4
  <2>13. AreaMissesNothing
    BY <2>6, <2>12 DEF AreaMissesNothing
  <2>14. QED
    BY <2>10, <2>13 DEF AreaFollowsNotifications
<1>3. QED
  BY <1>1, <1>2

\* However many notifications come, change and go, and whenever the menu makes its
\* area and deletes it: each notification that was signalled has its banner, with what
\* it says, and each banner that is laid out is one the area has and is laid out once,
\* although the area counts the updates of a group, too, and keeps identifiers of
\* notifications whose removal it never heard of (notificationareasink.cpp:88-260).
THEOREM AreaAlwaysFollows == ListenersSpec => []AreaFollowsNotifications
<1> DEFINE Inv == IF watched = "area" THEN AreaInv ELSE area = NoArea
<1>1. ListenersInit => Inv
  BY AreaStarts DEF ListenersInit, AreaInit
<1>2. Inv /\ [ListenersNext]_listenerVars => Inv'
  <2> SUFFICES ASSUME Inv, [ListenersNext]_listenerVars
               PROVE  Inv'
    OBVIOUS
  <2>1. watched' = watched
    BY DEF ListenersNext, listenerVars
  <2>2. CASE watched = "area"
    <3>1. AreaInv
      BY <2>2
    <3>2. CASE ManagerStep(AreaListens)
      BY <2>1, <2>2, <3>1, <3>2, AreaKeptByNotifications, AreaKeptByGroups DEF ManagerStep
    <3>3. CASE AreaActs
      BY <2>1, <2>2, <3>1, <3>3, AreaKeptByItself
    <3>4. CASE UNCHANGED listenerVars
      <4>1. UNCHANGED managerVars /\ area' = area
        BY <3>4 DEF listenerVars, areaVars
      <4>2. QED
        BY <2>1, <2>2, <3>1, <4>1, AreaKeptUntouched
    <3>5. QED
      BY <2>2, <3>2, <3>3, <3>4
      DEF ListenersNext, AreaWatched, IndicatorWatched, FeedbackWatched, MissedWatched
  <2>3. CASE watched # "area"
    <3>1. area' = area
      BY <2>3 DEF ListenersNext, AreaWatched, IndicatorWatched, FeedbackWatched, MissedWatched,
                  listenerVars, areaVars
    <3>2. QED
      BY <2>1, <2>3, <3>1
  <2>4. QED
    BY <2>2, <2>3
<1>3. Inv => AreaFollowsNotifications
  <2>1. CASE watched = "area"
    BY <2>1, AreaFollows
  <2>2. ASSUME area = NoArea
        PROVE  AreaFollowsNotifications
    BY <2>2, NoAreaIsNotThere DEF AreaFollowsNotifications, BannersBelong, AreaMissesNothing
  <2>3. QED
    BY <2>1, <2>2
<1>4. QED
  BY <1>1, <1>2, <1>3, PTL DEF ListenersSpec

=============================================================================
