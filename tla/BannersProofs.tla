--------------------------- MODULE BannersProofs ---------------------------
(***************************************************************************)
(* Proofs about the banners of the compositor sink, for any number of      *)
(* notifications: none is used after its deletion, each that waits gets    *)
(* its turn, and no system notification is left without one.               *)
(***************************************************************************)
EXTENDS MCompositorNotificationSink, QtListsProofs, WellFoundedInduction

-----------------------------------------------------------------------------
(* The stack: what is on top of what.  A banner is added by a call of its  *)
(* own, or while the end of the current banner is dealt with.              *)
OnTop(s, frame) == s # <<>> /\ Head(s) = frame

Submits(s, i, base) == OnTop(s, SubmittedFrame(i)) /\ Tail(s) = base
Shows(s, i, kind, base) == OnTop(s, ShowFrame(i, kind)) /\ Submits(Tail(s), i, base)
Clears(s, i, kind, banners, base) == OnTop(s, ClearFrame(banners)) /\ Shows(Tail(s), i, kind, base)
Deletes(s, b, i, kind, banners, base) == OnTop(s, DeleteFrame(b)) /\ Clears(Tail(s), i, kind, banners, base)
EndsThenShows(s, i, kind) == OnTop(s, CurrentDoneFrame) /\ Shows(Tail(s), i, kind, <<>>)

Distinct(list) == \A m, n \in DOMAIN list : list[m] = list[n] => m = n

Current == {currentBanner} \ {NoBanner}

(* What holds in every state.                                              *)
Known ==
    /\ waiting \subseteq DOMAIN live
    /\ notificationIds \subseteq DOMAIN live \ waiting
    /\ DOMAIN idToBanner \subseteq notificationIds
    /\ \A id \in DOMAIN idToBanner : heap[idToBanner[id]] = live[id]
    /\ \A id, other \in DOMAIN idToBanner : idToBanner[id] = idToBanner[other] => id = other
    /\ Mapped \subseteq Queued \cup Current
    /\ Distinct(bannerQueue)
    /\ currentBanner \notin Queued

(* The heap has the banners of notifications, the current one, and those   *)
(* that are about to be deleted.                                           *)
HeapHas(deleted) ==
    /\ DOMAIN heap = Mapped \cup Current \cup deleted
    /\ deleted \cap (Mapped \cup Current) = {}

QueueOwned == Queued \subseteq Mapped

(* While the queue is cleared: banners are those that are left.            *)
Clearing(banners) ==
    /\ Distinct(banners)
    /\ Range(banners) = Queued \cap Mapped

(* The banner on the screen, if there is one, is on its way out or has a   *)
(* timer; if there is none, one that waits is shown by the window.         *)
WindowServes == (window = "visible" /\ ~onDisplay) \/ (bannerQueue = <<>> /\ window # "visible")

Served ==
    /\ currentBanner = NoBanner <=> phase = "disappeared"
    /\ phase = "shown" => bannerTimer
    /\ currentBanner = NoBanner => WindowServes

Ended == currentBanner # NoBanner /\ phase = "disappeared" /\ currentBanner \notin Mapped

ScreenFits(base) == IF base = <<>> THEN Served ELSE Ended

(* System notifications have a banner, but for some.                       *)
NotLeakedBut(ids) ==
    \A id \in DOMAIN live \ waiting :
        live[id] = "system" /\ id \notin ids => id \in DOMAIN idToBanner

Adding(i) ==
    /\ progress = 0
    /\ i \in DOMAIN live \ waiting
    /\ i \notin notificationIds
    /\ live[i] # "textless"

(* What holds between the calls that change the banners.                   *)
Rests(base, ids) == ScreenFits(base) /\ QueueOwned /\ HeapHas({}) /\ NotLeakedBut(ids)

Bases == {<<>>, <<CurrentDoneFrame>>}

(* The calls that are being executed, and what holds meanwhile.            *)
AtBase == stack \in Bases /\ Rests(stack, {})

AtRemove ==
    \E j \in NotificationId :
        /\ OnTop(stack, RemoveFrame(j)) /\ Tail(stack) \in Bases /\ Rests(Tail(stack), {j})

AtUpdate ==
    \E i \in notificationIds :
        /\ OnTop(stack, UpdatedFrame(i)) /\ Tail(stack) = <<>> /\ Rests(<<>>, {})

AtAdd ==
    \E i \in NotificationId, base \in Bases :
        /\ OnTop(stack, UpdatedFrame(i)) /\ Submits(Tail(stack), i, base) /\ Rests(base, {i})
        /\ progress = 0 /\ i \in DOMAIN live \ waiting /\ i \notin notificationIds

AtSubmit ==
    \E i \in NotificationId, base \in Bases :
        /\ Submits(stack, i, base) /\ Rests(base, {}) /\ progress = 0

AtReject ==
    \E i \in NotificationId, base \in Bases :
        /\ OnTop(stack, RemoveFrame(i)) /\ Submits(Tail(stack), i, base) /\ Rests(base, {i}) /\ progress = 0

AtShow ==
    \E i \in DOMAIN live, base \in Bases :
        /\ Shows(stack, i, live[i], base) /\ Rests(base, {i}) /\ Adding(i)

AtClear ==
    \E i \in DOMAIN live, base \in Bases, banners \in Seq(Banner) :
        /\ Clears(stack, i, live[i], banners, base) /\ ScreenFits(base)
        /\ Clearing(banners) /\ HeapHas({}) /\ NotLeakedBut({i}) /\ Adding(i)

AtDelete ==
    \E i \in DOMAIN live, base \in Bases, b \in Banner, banners \in Seq(Banner) :
        /\ Deletes(stack, b, i, live[i], banners, base) /\ ScreenFits(base)
        /\ Clearing(banners) /\ HeapHas({b}) /\ NotLeakedBut({i}) /\ Adding(i)

AtRemoveThenDelete ==
    \E i \in DOMAIN live, j \in NotificationId, base \in Bases, b \in Banner, banners \in Seq(Banner) :
        /\ OnTop(stack, RemoveFrame(j)) /\ j \in notificationIds \ DOMAIN idToBanner
        /\ Deletes(Tail(stack), b, i, live[i], banners, base) /\ ScreenFits(base)
        /\ Clearing(banners) /\ HeapHas({b}) /\ NotLeakedBut({i, j}) /\ Adding(i)

AtEnd ==
    \E i \in DOMAIN live :
        /\ EndsThenShows(stack, i, live[i]) /\ Rests(<<CurrentDoneFrame>>, {i}) /\ Adding(i)

AtRemoveThenEnd ==
    \E i \in DOMAIN live, j \in NotificationId :
        /\ OnTop(stack, RemoveFrame(j)) /\ j \in notificationIds \ DOMAIN idToBanner
        /\ EndsThenShows(Tail(stack), i, live[i]) /\ Rests(<<CurrentDoneFrame>>, {i, j}) /\ Adding(i)

BannersInv ==
    /\ TypeOK /\ Known
    /\ \/ AtBase \/ AtRemove \/ AtUpdate \/ AtAdd \/ AtSubmit \/ AtReject \/ AtShow
       \/ AtClear \/ AtDelete \/ AtRemoveThenDelete \/ AtEnd \/ AtRemoveThenEnd
-----------------------------------------------------------------------------
(* Functions, numbers, the stack.                                          *)

LEMMA WithoutKey ==
    ASSUME NEW f, NEW k, NEW g, g = Without(f, k)
    PROVE  DOMAIN g = DOMAIN f \ {k} /\ \A x \in DOMAIN g : g[x] = f[x]
BY DEF Without, Restrict

LEMMA InsertKey ==
    ASSUME NEW f, NEW k, NEW v, NEW g, g = Insert(f, k, v)
    PROVE  /\ DOMAIN g = DOMAIN f \cup {k} /\ g[k] = v
           /\ \A x \in DOMAIN f \ {k} : g[x] = f[x]
BY DEF Insert

\* What is the smallest of a set is one of it.
LEMMA SmallestIn ==
    ASSUME NEW S, S \subseteq Nat, S # {}
    PROVE  Smallest(S) \in S
<1>1. PICK m \in S : \A k \in S : <<k, m>> \notin OpToRel(<, Nat)
  BY WFMin, NatLessThanWellFounded, Zenon
<1>2. \A k \in S : ~(k < m)
  BY <1>1, Zenon DEF OpToRel
<1>3. \A k \in S : m <= k
  BY <1>2
<1>4. QED
  BY <1>3 DEF Smallest

LEMMA FrameTypes ==
    /\ \A id \in NotificationId :
           /\ UpdatedFrame(id) \in Frame /\ SubmittedFrame(id) \in Frame /\ RemoveFrame(id) \in Frame
           /\ \A kind \in AllKinds : ShowFrame(id, kind) \in Frame
    /\ \A banners \in Seq(Banner) : ClearFrame(banners) \in Frame
    /\ \A b \in Banner : DeleteFrame(b) \in Frame
    /\ CurrentDoneFrame \in Frame
BY DEF Frame, UpdatedFrame, SubmittedFrame, RemoveFrame, ShowFrame, ClearFrame, DeleteFrame, CurrentDoneFrame

\* A call on top of others.
LEMMA Pushed ==
    ASSUME NEW T, NEW f \in T, NEW rest \in Seq(T), NEW s, s = <<f>> \o rest
    PROVE  s \in Seq(T) /\ s # <<>> /\ Head(s) = f /\ Tail(s) = rest
<1>1. Len(s) = Len(rest) + 1 /\ s[1] = f /\ \A i \in 1..Len(rest) : s[i + 1] = rest[i]
  OBVIOUS
<1>2. s \in Seq(T) /\ s # <<>> /\ Head(s) = f
  BY <1>1
<1>3. Tail(s) = rest
  BY <1>1, <1>2
<1>4. QED
  BY <1>2, <1>3

LEMMA PushedTwo ==
    ASSUME NEW T, NEW f \in T, NEW g \in T, NEW rest \in Seq(T), NEW s, s = <<f, g>> \o rest
    PROVE  /\ s \in Seq(T) /\ s # <<>> /\ Head(s) = f
           /\ Tail(s) # <<>> /\ Head(Tail(s)) = g /\ Tail(Tail(s)) = rest
<1>1. PICK pair : pair = <<f, g>>
  OBVIOUS
<1>2. pair \in Seq(T) /\ Len(pair) = 2 /\ pair[1] = f /\ pair[2] = g
  <2>1. DOMAIN pair = 1..2 /\ pair[1] = f /\ pair[2] = g
    BY <1>1
  <2>2. pair = [i \in 1..2 |-> pair[i]]
    BY <1>1
  <2>3. pair \in [1..2 -> T]
    BY <2>1, <2>2
  <2>4. \A S : \A n \in Nat : \A list \in [1..n -> S] : list \in Seq(S)
    BY SeqDef, Zenon
  <2>5. 2 \in Nat
    OBVIOUS
  <2>6. pair \in Seq(T)
    BY <2>3, <2>4, <2>5, Zenon
  <2>7. QED
    BY <1>1, <2>1, <2>6
<1>3. s = pair \o rest
  BY <1>1
<1>4. /\ s \in Seq(T) /\ Len(s) = Len(rest) + 2
      /\ s[1] = f /\ s[2] = g /\ \A i \in 1..Len(rest) : s[i + 2] = rest[i]
  BY <1>2, <1>3
<1>5. s # <<>> /\ Head(s) = f
  BY <1>4
<1>6. PICK t : t = Tail(s)
  OBVIOUS
<1>7. /\ t \in Seq(T) /\ Len(t) = Len(rest) + 1
      /\ t[1] = g /\ \A i \in 1..Len(rest) : t[i + 1] = rest[i]
  BY <1>4, <1>5, <1>6
<1>8. t # <<>> /\ Head(t) = g /\ Tail(t) = rest
  BY <1>7
<1>9. QED
  BY <1>4, <1>5, <1>6, <1>8

-----------------------------------------------------------------------------
(* Types.                                                                  *)

ManagerTypes ==
    /\ DOMAIN live \subseteq NotificationId
    /\ \A id \in DOMAIN live : live[id] \in AllKinds
    /\ waiting \subseteq NotificationId
    /\ progress \in 0 .. MaxNotificationId

SinkTypes ==
    /\ notificationIds \subseteq NotificationId
    /\ DOMAIN idToBanner \subseteq NotificationId
    /\ \A id \in DOMAIN idToBanner : idToBanner[id] \in Banner
    /\ bannerQueue \in Seq(Banner)
    /\ DOMAIN heap \subseteq Banner
    /\ \A b \in DOMAIN heap : heap[b] \in AllKinds

RoomLeft == Banner \ DOMAIN heap # {}

ScreenTypes ==
    /\ currentBanner \in Banner \cup {NoBanner}
    /\ phase \in {"shown", "disappearing", "disappeared"}
    /\ window \in {"none", "hidden", "visible"}
    /\ {bannerTimer, onDisplay} \subseteq BOOLEAN

LockTypes ==
    /\ {allPreviewsDisabled, touchScreenLockActive, displayOff} \subseteq BOOLEAN
    /\ previewKey \in PreviewKeys

LEMMA TypesTogether ==
    TypeOK <=> /\ ManagerTypes /\ SinkTypes /\ RoomLeft /\ ScreenTypes /\ LockTypes
               /\ stack \in Seq(Frame)
BY DEF TypeOK, ManagerTypes, SinkTypes, RoomLeft, ScreenTypes, LockTypes

LEMMA TypesTogetherNext ==
    TypeOK' <=> /\ ManagerTypes' /\ SinkTypes' /\ RoomLeft' /\ ScreenTypes' /\ LockTypes'
                /\ stack' \in Seq(Frame)
BY DEF TypeOK, ManagerTypes, SinkTypes, RoomLeft, ScreenTypes, LockTypes

Addresses(f, D) == {f[id] : id \in D}

\* There is an address left when each notification has a banner, and one is on the
\* screen; or one that is deleted, while a notification has none yet.
LEMMA AddressLeft ==
    ASSUME NEW f, NEW D \in SUBSET NotificationId, NEW c, NEW b, NEW used,
           used \subseteq Addresses(f, D) \cup {c, b},
           D = NotificationId => used \subseteq Addresses(f, D) \cup {c}
    PROVE  Banner \ used # {}
<1>1. MaxNotificationId \in Nat
  BY ConstantsAssumption
<1>2. /\ IsFiniteSet(NotificationId) /\ Cardinality(NotificationId) = MaxNotificationId
      /\ IsFiniteSet(Banner) /\ Cardinality(Banner) = MaxNotificationId + 2
  BY <1>1, FS_Interval DEF NotificationId, Banner
<1>3. /\ IsFiniteSet(D) /\ Cardinality(D) \in Nat
      /\ Cardinality(D) <= MaxNotificationId
      /\ D # NotificationId => Cardinality(D) < MaxNotificationId
  <2>1. IsFiniteSet(D) /\ Cardinality(D) <= MaxNotificationId
        /\ (Cardinality(NotificationId) = Cardinality(D) => NotificationId = D)
    BY <1>2, FS_Subset
  <2>2. Cardinality(D) \in Nat
    BY <2>1, FS_CardinalityType
  <2>3. QED
    BY <1>1, <1>2, <2>1, <2>2
<1>4. PICK mapped : mapped = Addresses(f, D)
  OBVIOUS
<1>5. IsFiniteSet(mapped) /\ Cardinality(mapped) \in Nat /\ Cardinality(mapped) <= Cardinality(D)
  <2>1. PICK g : g = [id \in D |-> f[id]]
    OBVIOUS
  <2>2. g \in Surjection(D, mapped)
    BY <1>4, <2>1 DEF Surjection, Addresses
  <2>3. IsFiniteSet(mapped) /\ Cardinality(mapped) <= Cardinality(D)
    BY <1>3, <2>2, FS_Surjection
  <2>4. QED
    BY <2>3, FS_CardinalityType
<1>6. PICK one : one = mapped \cup {c}
  OBVIOUS
<1>7. /\ IsFiniteSet(one) /\ Cardinality(one) \in Nat
      /\ Cardinality(one) <= Cardinality(mapped) + 1
  <2>1. /\ IsFiniteSet(one)
        /\ Cardinality(one) = Cardinality(mapped) \/ Cardinality(one) = Cardinality(mapped) + 1
    BY <1>5, <1>6, FS_AddElement
  <2>2. QED
    BY <1>5, <2>1
<1>8. PICK two : two = one \cup {b}
  OBVIOUS
<1>9. /\ IsFiniteSet(two) /\ Cardinality(two) \in Nat
      /\ Cardinality(two) <= Cardinality(one) + 1
  <2>1. IsFiniteSet(two) /\ (Cardinality(two) = Cardinality(one) \/ Cardinality(two) = Cardinality(one) + 1)
    BY <1>7, <1>8, FS_AddElement
  <2>2. QED
    BY <1>7, <2>1
<1>10. ASSUME Banner \subseteq used
       PROVE  FALSE
  <2>1. CASE D = NotificationId
    <3>1. Banner \in SUBSET one
      BY <1>4, <1>6, <1>10, <2>1
    <3>2. Cardinality(Banner) <= Cardinality(one)
      BY <1>7, <3>1, FS_Subset
    <3>3. QED
      BY <1>1, <1>2, <1>3, <1>5, <1>7, <3>2
  <2>2. CASE D # NotificationId
    <3>1. Banner \in SUBSET two
      BY <1>4, <1>6, <1>8, <1>10
    <3>2. Cardinality(Banner) <= Cardinality(two)
      BY <1>9, <3>1, FS_Subset
    <3>3. QED
      BY <1>1, <1>2, <1>3, <1>5, <1>7, <1>9, <2>2, <3>2
  <2>3. QED
    BY <2>1, <2>2
<1>11. QED
  BY <1>10

LEMMA RoomAtRest ==
    SinkTypes /\ HeapHas({}) => RoomLeft
<1>1. SUFFICES ASSUME SinkTypes, HeapHas({}) PROVE RoomLeft
  OBVIOUS
<1>2. PICK used : used = DOMAIN heap
  OBVIOUS
<1>3. /\ DOMAIN idToBanner \in SUBSET NotificationId
      /\ used \subseteq Addresses(idToBanner, DOMAIN idToBanner) \cup {currentBanner, currentBanner}
      /\ used \subseteq Addresses(idToBanner, DOMAIN idToBanner) \cup {currentBanner}
  BY <1>1, <1>2 DEF SinkTypes, HeapHas, Mapped, Current, Addresses
<1>4. Banner \ used # {}
  BY <1>3, AddressLeft
<1>5. QED
  BY <1>2, <1>4 DEF RoomLeft

LEMMA RoomAtRestNext ==
    SinkTypes' /\ HeapHas({})' => RoomLeft'
<1>1. SUFFICES ASSUME SinkTypes', HeapHas({})' PROVE RoomLeft'
  OBVIOUS
<1>2. PICK f, c, used : f = idToBanner' /\ c = currentBanner' /\ used = DOMAIN heap'
  OBVIOUS
<1>3. PICK D : D = DOMAIN f
  OBVIOUS
<1>4. D \in SUBSET NotificationId
  BY <1>1, <1>2, <1>3 DEF SinkTypes
<1>5. used \subseteq Addresses(f, D) \cup {c}
  BY <1>1, <1>2, <1>3 DEF HeapHas, Mapped, Current, Addresses
<1>6. Banner \ used # {}
  <2>1. {c} = {c, c}
    OBVIOUS
  <2>2. used \subseteq Addresses(f, D) \cup {c, c}
    BY <1>5, <2>1
  <2>3. QED
    BY <1>4, <1>5, <2>2, AddressLeft
<1>7. QED
  BY <1>2, <1>6 DEF RoomLeft

\* A notification that gets its banner later leaves room for one that is deleted.
LEMMA RoomMeanwhileNext ==
    ASSUME SinkTypes', NEW b, HeapHas({b})', NEW i \in NotificationId, i \notin DOMAIN idToBanner'
    PROVE  RoomLeft'
<1>1. PICK f, c, used : f = idToBanner' /\ c = currentBanner' /\ used = DOMAIN heap'
  OBVIOUS
<1>2. PICK D : D = DOMAIN f
  OBVIOUS
<1>3. D \in SUBSET NotificationId /\ i \notin D
  BY <1>1, <1>2 DEF SinkTypes
<1>4. used \subseteq Addresses(f, D) \cup {c, b}
  BY <1>1, <1>2 DEF HeapHas, Mapped, Current, Addresses
<1>5. D = NotificationId => used \subseteq Addresses(f, D) \cup {c}
  BY <1>3
<1>6. Banner \ used # {}
  BY <1>3, <1>4, <1>5, AddressLeft, Zenon
<1>7. QED
  BY <1>1, <1>6 DEF RoomLeft

-----------------------------------------------------------------------------
(* What is on the stack.                                                   *)

LEMMA FrameFields ==
    /\ \A id : /\ UpdatedFrame(id).op = "updated" /\ UpdatedFrame(id).id = id
               /\ SubmittedFrame(id).op = "submitted" /\ SubmittedFrame(id).id = id
               /\ RemoveFrame(id).op = "remove" /\ RemoveFrame(id).id = id
    /\ \A id, kind : /\ ShowFrame(id, kind).op = "show" /\ ShowFrame(id, kind).id = id
                     /\ ShowFrame(id, kind).kind = kind
    /\ \A banners : ClearFrame(banners).op = "clear" /\ ClearFrame(banners).banners = banners
    /\ \A b : DeleteFrame(b).op = "delete" /\ DeleteFrame(b).banner = b
    /\ CurrentDoneFrame.op = "currentDone"
BY DEF UpdatedFrame, SubmittedFrame, RemoveFrame, ShowFrame, ClearFrame, DeleteFrame, CurrentDoneFrame

LEMMA EndStack ==
    /\ <<CurrentDoneFrame>> # <<>> /\ Head(<<CurrentDoneFrame>>) = CurrentDoneFrame
    /\ Tail(<<CurrentDoneFrame>>) = <<>>
    /\ \A base \in Bases : base \in Seq(Frame)
<1>1. PICK f : f = CurrentDoneFrame
  OBVIOUS
<1>2. f \in Frame
  BY <1>1, FrameTypes
<1>3. <<f>> \in Seq(Frame) /\ <<f>> # <<>> /\ Head(<<f>>) = f /\ Tail(<<f>>) = <<>>
  BY <1>2
<1>4. QED
  BY <1>1, <1>3 DEF Bases

LEMMA Popped ==
    ASSUME NEW T, NEW s \in Seq(T), s # <<>>
    PROVE  Head(s) \in T /\ Tail(s) \in Seq(T)
OBVIOUS

\* Which calls are being executed is seen from the innermost.
LEMMA ShapeTops ==
    /\ AtBase => Idle \/ Top("currentDone")
    /\ AtRemove \/ AtReject \/ AtRemoveThenDelete \/ AtRemoveThenEnd => Top("remove")
    /\ AtUpdate \/ AtAdd => Top("updated")
    /\ AtSubmit => Top("submitted")
    /\ AtShow => Top("show")
    /\ AtClear => Top("clear")
    /\ AtDelete => Top("delete")
    /\ AtEnd => Top("currentDone")
<1>1. AtBase => Idle \/ Top("currentDone")
  BY EndStack, FrameFields DEF AtBase, Bases, Idle, Top
<1>2. ASSUME NEW s, NEW frame, NEW op, OnTop(s, frame), frame.op = op, s = stack
      PROVE  Top(op)
  BY <1>2 DEF OnTop, Top
<1>3. AtRemove \/ AtReject \/ AtRemoveThenDelete \/ AtRemoveThenEnd => Top("remove")
  BY <1>2, FrameFields DEF AtRemove, AtReject, AtRemoveThenDelete, AtRemoveThenEnd
<1>4. AtUpdate \/ AtAdd => Top("updated")
  BY <1>2, FrameFields DEF AtUpdate, AtAdd
<1>5. AtSubmit => Top("submitted")
  BY <1>2, FrameFields DEF AtSubmit, Submits
<1>6. AtShow => Top("show")
  BY <1>2, FrameFields DEF AtShow, Shows
<1>7. AtClear => Top("clear")
  BY <1>2, FrameFields DEF AtClear, Clears
<1>8. AtDelete => Top("delete")
  BY <1>2, FrameFields DEF AtDelete, Deletes
<1>9. AtEnd => Top("currentDone")
  BY <1>2, FrameFields DEF AtEnd, EndsThenShows
<1>10. QED
  BY <1>1, <1>3, <1>4, <1>5, <1>6, <1>7, <1>8, <1>9

LEMMA OneTop ==
    /\ \A op, other : Top(op) /\ Top(other) => op = other
    /\ \A op : Top(op) => ~Idle
BY DEF Top, Idle

LEMMA ShapeCases ==
    ASSUME BannersInv
    PROVE  /\ Idle => AtBase
           /\ Top("remove") => AtRemove \/ AtReject \/ AtRemoveThenDelete \/ AtRemoveThenEnd
           /\ Top("updated") => AtUpdate \/ AtAdd
           /\ Top("submitted") => AtSubmit
           /\ Top("show") => AtShow
           /\ Top("clear") => AtClear
           /\ Top("delete") => AtDelete
           /\ Top("currentDone") => AtBase \/ AtEnd
<1>1. \/ AtBase \/ AtRemove \/ AtUpdate \/ AtAdd \/ AtSubmit \/ AtReject \/ AtShow
      \/ AtClear \/ AtDelete \/ AtRemoveThenDelete \/ AtEnd \/ AtRemoveThenEnd
  BY DEF BannersInv
<1>2. Idle => AtBase
  BY <1>1, ShapeTops, OneTop
<1>3. Top("remove") => AtRemove \/ AtReject \/ AtRemoveThenDelete \/ AtRemoveThenEnd
  BY <1>1, ShapeTops, OneTop
<1>4. Top("updated") => AtUpdate \/ AtAdd
  BY <1>1, ShapeTops, OneTop
<1>5. Top("submitted") => AtSubmit
  BY <1>1, ShapeTops, OneTop
<1>6. Top("show") => AtShow
  BY <1>1, ShapeTops, OneTop
<1>7. Top("clear") => AtClear
  BY <1>1, ShapeTops, OneTop
<1>8. Top("delete") => AtDelete
  BY <1>1, ShapeTops, OneTop
<1>9. Top("currentDone") => AtBase \/ AtEnd
  BY <1>1, ShapeTops, OneTop
<1>10. QED
  BY <1>2, <1>3, <1>4, <1>5, <1>6, <1>7, <1>8, <1>9

-----------------------------------------------------------------------------
(* Steps that leave parts of the state alone.                              *)

LEMMA LocksStay ==
    lockVars' = lockVars /\ LockTypes => LockTypes'
BY DEF lockVars, LockTypes

LEMMA ScreenStays ==
    ASSUME screenVars' = screenVars
    PROVE  /\ ScreenTypes => ScreenTypes'
           /\ currentBanner' = currentBanner /\ phase' = phase
           /\ bannerQueue' = bannerQueue /\ Mapped' = Mapped =>
              \A base : ScreenFits(base) => ScreenFits(base)'
<1>1. ScreenTypes => ScreenTypes'
  BY DEF screenVars, ScreenTypes
<1>2. /\ currentBanner' = currentBanner /\ phase' = phase /\ bannerTimer' = bannerTimer
      /\ window' = window /\ onDisplay' = onDisplay
  BY DEF screenVars
<1>3. ASSUME bannerQueue' = bannerQueue
      PROVE  Served => Served'
  BY <1>2, <1>3 DEF Served, WindowServes
<1>4. ASSUME Mapped' = Mapped
      PROVE  Ended => Ended'
  BY <1>2, <1>4 DEF Ended
<1>5. QED
  BY <1>1, <1>2, <1>3, <1>4 DEF ScreenFits

LEMMA BannersStay ==
    ASSUME bannerVars' = bannerVars
    PROVE  /\ SinkTypes => SinkTypes'
           /\ RoomLeft => RoomLeft'
           /\ Mapped' = Mapped /\ Queued' = Queued /\ bannerQueue' = bannerQueue
           /\ idToBanner' = idToBanner /\ heap' = heap /\ notificationIds' = notificationIds
           /\ QueueOwned => QueueOwned'
<1>1. SinkTypes => SinkTypes'
  BY DEF bannerVars, SinkTypes
<1>2. RoomLeft => RoomLeft'
  BY DEF bannerVars, RoomLeft
<1>3. /\ idToBanner' = idToBanner /\ heap' = heap /\ notificationIds' = notificationIds
      /\ bannerQueue' = bannerQueue
  BY DEF bannerVars
<1>4. Mapped' = Mapped /\ Queued' = Queued
  BY <1>3 DEF Mapped, Queued
<1>5. QueueOwned => QueueOwned'
  BY <1>4 DEF QueueOwned
<1>6. QED
  BY <1>1, <1>2, <1>3, <1>4, <1>5

LEMMA NotificationsStay ==
    ASSUME live' = live, waiting' = waiting, idToBanner' = idToBanner
    PROVE  \A ids : NotLeakedBut(ids) => NotLeakedBut(ids)'
BY DEF NotLeakedBut

\* Nothing of the banners changes but the calls.
LEMMA AllStays ==
    ASSUME live' = live, waiting' = waiting, bannerVars' = bannerVars, screenVars' = screenVars
    PROVE  /\ SinkTypes => SinkTypes'
           /\ RoomLeft => RoomLeft'
           /\ ScreenTypes => ScreenTypes'
           /\ Known => Known'
           /\ \A base, ids : Rests(base, ids) => Rests(base, ids)'
           /\ \A base : ScreenFits(base) => ScreenFits(base)'
           /\ \A banners : Clearing(banners) => Clearing(banners)'
           /\ \A deleted : HeapHas(deleted) => HeapHas(deleted)'
           /\ \A ids : NotLeakedBut(ids) => NotLeakedBut(ids)'
<1>1. /\ Mapped' = Mapped /\ Queued' = Queued /\ bannerQueue' = bannerQueue
      /\ idToBanner' = idToBanner /\ heap' = heap /\ notificationIds' = notificationIds
      /\ currentBanner' = currentBanner
  BY BannersStay, ScreenStays
<1>2. (SinkTypes => SinkTypes') /\ (RoomLeft => RoomLeft') /\ (ScreenTypes => ScreenTypes')
  BY BannersStay, ScreenStays
<1>3. Known => Known'
  BY <1>1 DEF Known, Current, Distinct
<1>4. \A base : ScreenFits(base) => ScreenFits(base)'
  BY <1>1, ScreenStays
<1>5. QueueOwned => QueueOwned'
  BY BannersStay
<1>6. \A deleted : HeapHas(deleted) => HeapHas(deleted)'
  BY <1>1 DEF HeapHas, Current
<1>7. \A ids : NotLeakedBut(ids) => NotLeakedBut(ids)'
  BY <1>1, NotificationsStay
<1>8. \A banners : Clearing(banners) => Clearing(banners)'
  BY <1>1 DEF Clearing, Distinct
<1>9. \A base, ids : Rests(base, ids) => Rests(base, ids)'
  BY <1>4, <1>5, <1>6, <1>7 DEF Rests
<1>10. QED
  BY <1>2, <1>3, <1>4, <1>6, <1>7, <1>8, <1>9

-----------------------------------------------------------------------------
(* Calls that change no banner.                                            *)

LEMMA FinishSubmitKeeps ==
    ASSUME BannersInv, FinishSubmit
    PROVE  BannersInv'
<1>1. Top("submitted") /\ progress' = Head(stack).id /\ stack' = Tail(stack)
      /\ UNCHANGED <<live, waiting, bannerVars, screenVars, lockVars>>
  BY DEF FinishSubmit
<1>2. PICK i \in NotificationId, base \in Bases :
          Submits(stack, i, base) /\ Rests(base, {}) /\ progress = 0
  BY <1>1, ShapeCases DEF AtSubmit
<1>3. progress' = i /\ stack' = base
  BY <1>1, <1>2, FrameFields DEF Submits, OnTop
<1>4. live' = live /\ waiting' = waiting /\ bannerVars' = bannerVars /\ screenVars' = screenVars
      /\ lockVars' = lockVars
  BY <1>1
<1>5. TypeOK'
  <2>1. ManagerTypes /\ SinkTypes /\ RoomLeft /\ ScreenTypes /\ LockTypes
    BY TypesTogether DEF BannersInv
  <2>2. ManagerTypes'
    BY <1>3, <1>4, <2>1, ConstantsAssumption DEF ManagerTypes, NotificationId
  <2>3. stack' \in Seq(Frame)
    BY <1>3, EndStack
  <2>4. SinkTypes' /\ RoomLeft' /\ ScreenTypes' /\ LockTypes'
    BY <1>4, <2>1, AllStays, LocksStay
  <2>5. QED
    BY <2>2, <2>3, <2>4, TypesTogetherNext
<1>6. Known'
  BY <1>4, AllStays DEF BannersInv
<1>7. AtBase'
  <2>1. Rests(base, {})'
    BY <1>2, <1>4, AllStays
  <2>2. QED
    BY <1>3, <2>1 DEF AtBase
<1>8. QED
  BY <1>5, <1>6, <1>7 DEF BannersInv

LEMMA TypesKept ==
    ASSUME BannersInv, ManagerTypes', LockTypes', bannerVars' = bannerVars, screenVars' = screenVars,
           stack' \in Seq(Frame)
    PROVE  TypeOK'
<1>1. ManagerTypes /\ SinkTypes /\ RoomLeft /\ ScreenTypes /\ LockTypes
  BY TypesTogether DEF BannersInv
<1>2. SinkTypes' /\ RoomLeft' /\ ScreenTypes'
  BY <1>1, BannersStay, ScreenStays
<1>3. QED
  BY <1>2, TypesTogetherNext

LEMMA AddNotificationKeeps ==
    ASSUME BannersInv, AddNotification
    PROVE  BannersInv'
<1>1. live' = live /\ waiting' = waiting /\ progress' = progress /\ managerVars' = managerVars
      /\ bannerVars' = bannerVars /\ screenVars' = screenVars /\ lockVars' = lockVars
  BY DEF AddNotification, managerVars
<1>2. /\ notificationIds' = notificationIds
      /\ \A base, ids : Rests(base, ids) => Rests(base, ids)'
  BY <1>1, AllStays, BannersStay
<1>3. ManagerTypes /\ SinkTypes /\ LockTypes /\ stack \in Seq(Frame) /\ Known
  BY TypesTogether DEF BannersInv
<1>4. ManagerTypes' /\ LockTypes' /\ Known'
  BY <1>1, <1>3, AllStays, LocksStay DEF ManagerTypes
<1>5. stack # <<>> /\ Top("updated")
  BY DEF AddNotification, Top
<1>6. PICK id, rest, kind, appEventsEnabled, appsDisabled, systemDisabled :
          /\ id = Head(stack).id /\ rest = Tail(stack) /\ kind = live[id]
          /\ stack' =
                IF ~CanAdd(kind, appEventsEnabled) THEN rest
                ELSE IF PreviewDisabled(kind, appsDisabled, systemDisabled)
                THEN Reject(id, kind, rest)
                ELSE IF id \in notificationIds THEN rest
                ELSE IF window # "none" /\ displayOff
                THEN <<ClearFrame(bannerQueue), ShowFrame(id, kind)>> \o rest
                ELSE <<ShowFrame(id, kind)>> \o rest
  BY DEF AddNotification
<1>7. rest \in Seq(Frame)
  BY <1>3, <1>5, <1>6, Popped
<1>8. CASE AtUpdate
  <2>1. PICK i \in notificationIds :
            OnTop(stack, UpdatedFrame(i)) /\ Tail(stack) = <<>> /\ Rests(<<>>, {})
    BY <1>8 DEF AtUpdate
  <2>2. id = i /\ rest = <<>> /\ i \in NotificationId
    BY <1>3, <1>6, <2>1, FrameFields DEF OnTop, SinkTypes
  <2>3. stack' = rest \/ stack' = <<RemoveFrame(id)>> \o rest
    BY <1>6, <2>2 DEF Reject
  <2>4. CASE stack' = rest
    <3>1. AtBase'
      BY <1>2, <2>1, <2>2, <2>4 DEF AtBase, Bases
    <3>2. TypeOK'
      BY <1>1, <1>4, <1>7, <2>4, TypesKept
    <3>3. QED
      BY <1>4, <3>1, <3>2 DEF BannersInv
  <2>5. CASE stack' = <<RemoveFrame(id)>> \o rest
    <3>1. RemoveFrame(id) \in Frame
      BY <2>2, FrameTypes
    <3>2. stack' \in Seq(Frame) /\ OnTop(stack', RemoveFrame(id)) /\ Tail(stack') = rest
      BY <1>7, <2>5, <3>1, Pushed DEF OnTop
    <3>3. Rests(<<>>, {id})
      BY <2>1 DEF Rests, NotLeakedBut
    <3>4. Rests(<<>>, {id})'
      BY <1>2, <3>3
    <3>5. Tail(stack') = <<>> /\ <<>> \in Bases
      BY <2>2, <3>2 DEF Bases
    <3>6. AtRemove'
      BY <2>2, <3>2, <3>4, <3>5 DEF AtRemove
    <3>7. TypeOK'
      BY <1>1, <1>4, <3>2, TypesKept
    <3>8. QED
      BY <1>4, <3>6, <3>7 DEF BannersInv
  <2>6. QED
    BY <2>3, <2>4, <2>5
<1>9. CASE AtAdd
  <2>1. PICK i \in NotificationId, base \in Bases :
            /\ OnTop(stack, UpdatedFrame(i)) /\ Submits(Tail(stack), i, base) /\ Rests(base, {i})
            /\ progress = 0 /\ i \in DOMAIN live \ waiting /\ i \notin notificationIds
    BY <1>9 DEF AtAdd
  <2>2. id = i /\ Submits(rest, i, base) /\ kind = live[i] /\ kind \in AllKinds
    BY <1>3, <1>6, <2>1, FrameFields DEF OnTop, ManagerTypes
  <2>3. Rests(base, {i})' /\ progress' = 0 /\ i \in DOMAIN live' \ waiting'
        /\ i \notin notificationIds'
    BY <1>1, <1>2, <2>1
  <2>4. ASSUME stack' = rest, kind # "system"
        PROVE  AtSubmit' /\ TypeOK'
    <3>1. Rests(base, {})
      BY <2>1, <2>2, <2>4 DEF Rests, NotLeakedBut
    <3>2. Rests(base, {})'
      BY <1>2, <3>1
    <3>3. AtSubmit'
      BY <2>2, <2>3, <2>4, <3>2 DEF AtSubmit
    <3>4. TypeOK'
      BY <1>1, <1>4, <1>7, <2>4, TypesKept
    <3>5. QED
      BY <3>3, <3>4
  <2>5. ASSUME stack' = <<RemoveFrame(id)>> \o rest
        PROVE  AtReject' /\ TypeOK'
    <3>1. RemoveFrame(id) \in Frame
      BY <2>2, FrameTypes
    <3>2. stack' \in Seq(Frame) /\ OnTop(stack', RemoveFrame(id)) /\ Tail(stack') = rest
      BY <1>7, <2>5, <3>1, Pushed DEF OnTop
    <3>3. AtReject'
      BY <2>2, <2>3, <3>2 DEF AtReject
    <3>4. TypeOK'
      BY <1>1, <1>4, <3>2, TypesKept
    <3>5. QED
      BY <3>3, <3>4
  <2>6. ASSUME kind # "textless", NEW s, s = <<ShowFrame(id, kind)>> \o rest
        PROVE  /\ s \in Seq(Frame) /\ Shows(s, i, kind, base) /\ Adding(i)'
               /\ ShowFrame(id, kind) \in Frame
    <3>1. ShowFrame(id, kind) \in Frame
      BY <2>2, FrameTypes
    <3>2. s \in Seq(Frame) /\ s # <<>> /\ Head(s) = ShowFrame(id, kind) /\ Tail(s) = rest
      BY <1>7, <2>6, <3>1, Pushed
    <3>3. kind = live'[i] /\ id = i
      BY <1>1, <2>2
    <3>4. Submits(Tail(s), i, base)
      BY <2>2, <3>2
    <3>5. Shows(s, i, kind, base)
      BY <3>2, <3>3, <3>4 DEF Shows, OnTop
    <3>6. Adding(i)'
      BY <2>3, <2>6, <3>3 DEF Adding
    <3>7. QED
      BY <3>1, <3>2, <3>5, <3>6
  <2>7. ASSUME stack' = <<ShowFrame(id, kind)>> \o rest, kind # "textless"
        PROVE  AtShow' /\ TypeOK'
    <3>1. stack' \in Seq(Frame) /\ Shows(stack', i, live'[i], base) /\ Adding(i)'
      BY <1>1, <2>2, <2>6, <2>7
    <3>2. i \in DOMAIN live'
      BY <2>3
    <3>3. AtShow'
      BY <2>3, <3>1, <3>2 DEF AtShow
    <3>4. TypeOK'
      BY <1>1, <1>4, <3>1, TypesKept
    <3>5. QED
      BY <3>3, <3>4
  <2>8. ASSUME stack' = <<ClearFrame(bannerQueue), ShowFrame(id, kind)>> \o rest, kind # "textless"
        PROVE  AtClear' /\ TypeOK'
    <3>1. PICK s : s = <<ShowFrame(id, kind)>> \o rest
      OBVIOUS
    <3>2. /\ s \in Seq(Frame) /\ Shows(s, i, kind, base) /\ Adding(i)'
          /\ ShowFrame(id, kind) \in Frame
      BY <2>6, <2>8, <3>1
    <3>3. bannerQueue \in Seq(Banner) /\ ClearFrame(bannerQueue) \in Frame
      BY <1>3, FrameTypes DEF SinkTypes
    <3>4. s # <<>> /\ Head(s) = ShowFrame(id, kind) /\ Tail(s) = rest
      BY <1>7, <3>1, <3>2, Pushed
    <3>5. /\ stack' \in Seq(Frame) /\ OnTop(stack', ClearFrame(bannerQueue))
          /\ Tail(stack') # <<>> /\ Head(Tail(stack')) = ShowFrame(id, kind)
          /\ Tail(Tail(stack')) = rest
      BY <1>7, <2>8, <3>2, <3>3, PushedTwo DEF OnTop
    <3>6. /\ ShowFrame(id, kind) = ShowFrame(i, live'[i])
          /\ Submits(Tail(Tail(stack')), i, base)
      BY <1>1, <2>2, <3>5 DEF ShowFrame
    <3>7. Shows(Tail(stack'), i, live'[i], base)
      BY <3>5, <3>6 DEF Shows, OnTop
    <3>8. PICK banners : banners = bannerQueue
      OBVIOUS
    <3>9. Clears(stack', i, live'[i], banners, base)
      BY <3>5, <3>7, <3>8 DEF Clears
    <3>10. Clearing(banners)
      <4>1. Range(bannerQueue) = Queued
        BY DEF Range, Queued
      <4>2. Queued \subseteq Mapped
        BY <2>1 DEF Rests, QueueOwned
      <4>3. QED
        BY <1>3, <3>8, <4>1, <4>2 DEF Clearing, Known
    <3>11. Clearing(banners)'
      BY <1>1, <3>10, AllStays
    <3>12. i \in DOMAIN live' /\ banners \in Seq(Banner)
      BY <2>3, <3>3, <3>8
    <3>13. AtClear'
      BY <2>3, <3>2, <3>9, <3>11, <3>12 DEF AtClear, Rests
    <3>14. TypeOK'
      BY <1>1, <1>4, <3>5, TypesKept
    <3>15. QED
      BY <3>13, <3>14
  <2>9. \/ stack' = rest /\ kind # "system"
        \/ stack' = <<RemoveFrame(id)>> \o rest
        \/ stack' = <<ShowFrame(id, kind)>> \o rest /\ kind # "textless"
        \/ stack' = <<ClearFrame(bannerQueue), ShowFrame(id, kind)>> \o rest /\ kind # "textless"
    BY <1>6, <2>1, <2>2 DEF CanAdd, Reject
  <2>10. QED
    BY <1>4, <2>4, <2>5, <2>7, <2>8, <2>9 DEF BannersInv
<1>10. QED
  BY <1>5, <1>8, <1>9, ShapeCases

-----------------------------------------------------------------------------
(* Events that change no banner.                                           *)

\* The announcement of the next notification, on top of what was being executed.
LEMMA Announced ==
    ASSUME NEW i \in NotificationId, NEW base \in Bases,
           stack' = <<UpdatedFrame(i), SubmittedFrame(i)>> \o base,
           Rests(base, {i})', progress' = 0, i \in DOMAIN live' \ waiting', i \notin notificationIds'
    PROVE  AtAdd' /\ stack' \in Seq(Frame)
<1>1. base \in Seq(Frame) /\ UpdatedFrame(i) \in Frame /\ SubmittedFrame(i) \in Frame
  BY EndStack, FrameTypes
<1>2. /\ stack' \in Seq(Frame) /\ stack' # <<>> /\ Head(stack') = UpdatedFrame(i)
      /\ Tail(stack') # <<>> /\ Head(Tail(stack')) = SubmittedFrame(i) /\ Tail(Tail(stack')) = base
  BY <1>1, PushedTwo
<1>3. OnTop(stack', UpdatedFrame(i)) /\ Submits(Tail(stack'), i, base)
  BY <1>2 DEF OnTop, Submits
<1>4. QED
  BY <1>2, <1>3 DEF AtAdd

LEMMA RelayKeeps ==
    ASSUME NEW base \in Bases, Relay(base), progress' = 0,
           waiting \subseteq NotificationId, waiting \subseteq DOMAIN live',
           notificationIds' \cap waiting = {},
           ScreenFits(base)', QueueOwned', HeapHas({})',
           \A id \in DOMAIN live' \ waiting : live'[id] = "system" => id \in DOMAIN idToBanner'
    PROVE  /\ AtBase' \/ AtAdd'
           /\ stack' \in Seq(Frame)
           /\ waiting' \subseteq waiting
<1>1. CASE waiting = {} /\ stack' = base /\ waiting' = waiting
  <2>1. NotLeakedBut({})'
    BY <1>1 DEF NotLeakedBut
  <2>2. Rests(base, {})'
    BY <2>1 DEF Rests
  <2>3. QED
    BY <1>1, <2>2, EndStack DEF AtBase
<1>2. ASSUME NEW id \in waiting, waiting' = waiting \ {id},
             stack' = <<UpdatedFrame(id), SubmittedFrame(id)>> \o base
      PROVE  AtAdd' /\ stack' \in Seq(Frame) /\ waiting' \subseteq waiting
  <2>1. NotLeakedBut({id})'
    BY <1>2 DEF NotLeakedBut
  <2>2. Rests(base, {id})'
    BY <2>1 DEF Rests
  <2>3. id \in NotificationId /\ id \in DOMAIN live' \ waiting' /\ id \notin notificationIds'
    BY <1>2
  <2>4. QED
    BY <1>2, <2>2, <2>3, Announced
<1>3. QED
  BY <1>1, <1>2 DEF Relay

LEMMA ClientAddsKeeps ==
    ASSUME BannersInv, NEW kind \in Kinds, ClientAdds(kind)
    PROVE  BannersInv'
<1>1. ManagerTypes /\ SinkTypes /\ ScreenTypes /\ LockTypes /\ Known /\ stack \in Seq(Frame)
  BY TypesTogether DEF BannersInv
<1>2. Idle /\ AtBase /\ stack = <<>>
  BY ShapeCases DEF ClientAdds, Idle
<1>3. progress' = progress /\ bannerVars' = bannerVars /\ screenVars' = screenVars /\ lockVars' = lockVars
  BY DEF ClientAdds
<1>4. PICK id : /\ id = Smallest(NotificationId \ DOMAIN live) /\ live' = Insert(live, id, kind)
                /\ IF progress = 0
                   THEN stack' = <<UpdatedFrame(id), SubmittedFrame(id)>> /\ waiting' = waiting
                   ELSE waiting' = waiting \cup {id} /\ stack' = stack
  BY DEF ClientAdds
<1>5. id \in NotificationId \ DOMAIN live
  <2>1. NotificationId \ DOMAIN live # {} /\ NotificationId \ DOMAIN live \subseteq Nat
    BY ConstantsAssumption DEF ClientAdds, NotificationId
  <2>2. QED
    BY <1>4, <2>1, SmallestIn
<1>6. /\ DOMAIN live' = DOMAIN live \cup {id} /\ live'[id] = kind
      /\ \A x \in DOMAIN live : live'[x] = live[x]
  BY <1>4, <1>5 DEF Insert
<1>7. /\ Mapped' = Mapped /\ Queued' = Queued /\ bannerQueue' = bannerQueue
      /\ idToBanner' = idToBanner /\ heap' = heap /\ notificationIds' = notificationIds
      /\ currentBanner' = currentBanner
  BY <1>3, BannersStay, ScreenStays
<1>8. waiting' \subseteq waiting \cup {id} /\ waiting \subseteq waiting'
  BY <1>4
<1>9. Known'
  BY <1>1, <1>5, <1>6, <1>7, <1>8 DEF Known, Current, Distinct
<1>10. ManagerTypes'
  <2>1. kind \in AllKinds
    BY ConstantsAssumption
  <2>2. QED
    BY <1>1, <1>3, <1>5, <1>6, <1>8, <2>1 DEF ManagerTypes
<1>11. LockTypes'
  BY <1>1, <1>3, LocksStay
<1>12. ScreenFits(<<>>)' /\ QueueOwned' /\ HeapHas({})' /\ NotLeakedBut({})
  <2>1. ScreenFits(<<>>) /\ QueueOwned /\ HeapHas({}) /\ NotLeakedBut({})
    BY <1>2 DEF AtBase, Rests
  <2>2. ScreenFits(<<>>)'
    BY <1>3, <1>7, <2>1, ScreenStays
  <2>3. QueueOwned' /\ HeapHas({})'
    BY <1>7, <2>1 DEF QueueOwned, HeapHas, Current
  <2>4. QED
    BY <2>1, <2>2, <2>3
<1>13. CASE progress = 0
  <2>1. stack' = <<UpdatedFrame(id), SubmittedFrame(id)>> \o <<>> /\ waiting' = waiting
    <3>1. UpdatedFrame(id) \in Frame /\ SubmittedFrame(id) \in Frame
      BY <1>5, FrameTypes
    <3>2. PICK pair : pair = <<UpdatedFrame(id), SubmittedFrame(id)>>
      OBVIOUS
    <3>3. pair \in Seq(Frame)
      <4>1. pair = <<UpdatedFrame(id), SubmittedFrame(id)>> \o <<>>
        BY <3>1, <3>2
      <4>2. <<>> \in Seq(Frame)
        OBVIOUS
      <4>3. QED
        BY <3>1, <4>1, <4>2, PushedTwo
    <3>4. pair \o <<>> = pair
      BY <3>3
    <3>5. QED
      BY <1>4, <1>13, <3>2, <3>4
  <2>2. NotLeakedBut({id})'
    BY <1>6, <1>7, <1>12, <2>1 DEF NotLeakedBut
  <2>3. Rests(<<>>, {id})' /\ <<>> \in Bases
    BY <1>12, <2>2 DEF Rests, Bases
  <2>4. progress' = 0 /\ id \in NotificationId /\ id \in DOMAIN live' \ waiting' /\ id \notin notificationIds'
    BY <1>1, <1>3, <1>5, <1>6, <1>7, <1>13, <2>1 DEF Known
  <2>5. AtAdd' /\ stack' \in Seq(Frame)
    BY <2>1, <2>3, <2>4, Announced
  <2>6. QED
    BY <1>3, <1>9, <1>10, <1>11, <2>5, TypesKept DEF BannersInv
<1>14. CASE progress # 0
  <2>1. stack' = <<>> /\ waiting' = waiting \cup {id}
    BY <1>2, <1>4, <1>14
  <2>2. NotLeakedBut({})'
    BY <1>6, <1>7, <1>12, <2>1 DEF NotLeakedBut
  <2>3. Rests(<<>>, {})' /\ <<>> \in Bases
    BY <1>12, <2>2 DEF Rests, Bases
  <2>4. AtBase' /\ stack' \in Seq(Frame)
    BY <2>1, <2>3 DEF AtBase
  <2>5. QED
    BY <1>3, <1>9, <1>10, <1>11, <2>4, TypesKept DEF BannersInv
<1>15. QED
  BY <1>13, <1>14

LEMMA ClientUpdatesKeeps ==
    ASSUME BannersInv, NEW id \in NotificationId, ClientUpdates(id), Updates # "any"
    PROVE  BannersInv'
<1>1. ManagerTypes /\ SinkTypes /\ LockTypes /\ Known /\ stack \in Seq(Frame)
  BY TypesTogether DEF BannersInv
<1>2. Idle /\ AtBase /\ stack = <<>> /\ Rests(<<>>, {})
  BY ShapeCases DEF ClientUpdates, Idle, AtBase
<1>3. live' = live /\ waiting' = waiting /\ progress' = progress
      /\ bannerVars' = bannerVars /\ screenVars' = screenVars /\ lockVars' = lockVars
  BY DEF ClientUpdates, managerVars
<1>4. id \in notificationIds /\ stack' = <<UpdatedFrame(id)>>
  BY DEF ClientUpdates
<1>5. stack' \in Seq(Frame) /\ OnTop(stack', UpdatedFrame(id)) /\ Tail(stack') = <<>>
  <2>1. UpdatedFrame(id) \in Frame
    BY FrameTypes
  <2>2. PICK f : f = UpdatedFrame(id)
    OBVIOUS
  <2>3. stack' = <<f>> /\ f \in Frame
    BY <1>4, <2>1, <2>2
  <2>4. QED
    BY <2>2, <2>3 DEF OnTop
<1>6. AtUpdate'
  <2>1. Rests(<<>>, {})' /\ notificationIds' = notificationIds
    BY <1>2, <1>3, AllStays, BannersStay
  <2>2. QED
    BY <1>4, <1>5, <2>1 DEF AtUpdate
<1>7. Known' /\ ManagerTypes' /\ LockTypes'
  BY <1>1, <1>3, AllStays, LocksStay DEF ManagerTypes
<1>8. QED
  BY <1>3, <1>5, <1>6, <1>7, TypesKept DEF BannersInv

\* A call on top of what was being executed.
LEMMA Called ==
    ASSUME NEW frame \in Frame, NEW rest \in Seq(Frame), stack' = <<frame>> \o rest
    PROVE  stack' \in Seq(Frame) /\ OnTop(stack', frame) /\ Tail(stack') = rest
BY Pushed DEF OnTop

\* The request of a removal.
LEMMA Requested ==
    ASSUME NEW j \in NotificationId, NEW base \in Bases, stack' = <<RemoveFrame(j)>> \o base,
           Rests(base, {})'
    PROVE  AtRemove' /\ stack' \in Seq(Frame)
<1>1. base \in Seq(Frame) /\ RemoveFrame(j) \in Frame
  BY EndStack, FrameTypes
<1>2. stack' \in Seq(Frame) /\ OnTop(stack', RemoveFrame(j)) /\ Tail(stack') = base
  BY <1>1, Called
<1>3. Rests(base, {j})'
  BY DEF Rests, NotLeakedBut
<1>4. QED
  BY <1>2, <1>3 DEF AtRemove

\* One call: the same without the calls it is on top of.
LEMMA OneCall ==
    ASSUME NEW f \in Frame
    PROVE  <<f>> = <<f>> \o <<>>
<1>1. <<f>> \in Seq(Frame)
  OBVIOUS
<1>2. QED
  BY <1>1

LEMMA ClientRemovesKeeps ==
    ASSUME BannersInv, NEW id \in NotificationId, ClientRemoves(id)
    PROVE  BannersInv'
<1>1. ManagerTypes /\ SinkTypes /\ LockTypes /\ Known /\ stack \in Seq(Frame)
  BY TypesTogether DEF BannersInv
<1>2. Idle /\ AtBase /\ stack = <<>> /\ Rests(<<>>, {})
  BY ShapeCases DEF ClientRemoves, Idle, AtBase
<1>3. live' = live /\ waiting' = waiting /\ progress' = progress
      /\ bannerVars' = bannerVars /\ screenVars' = screenVars /\ lockVars' = lockVars
  BY DEF ClientRemoves, managerVars
<1>4. stack' = <<RemoveFrame(id)>> \o <<>>
  BY FrameTypes, OneCall DEF ClientRemoves
<1>5. AtRemove' /\ stack' \in Seq(Frame)
  <2>1. Rests(<<>>, {})' /\ <<>> \in Bases
    BY <1>2, <1>3, AllStays DEF Bases
  <2>2. QED
    BY <1>4, <2>1, Requested
<1>6. Known' /\ ManagerTypes' /\ LockTypes'
  BY <1>1, <1>3, AllStays, LocksStay DEF ManagerTypes
<1>7. QED
  BY <1>3, <1>5, <1>6, TypesKept DEF BannersInv

LEMMA RelayTimerKeeps ==
    ASSUME BannersInv, RelayTimer
    PROVE  BannersInv'
<1>1. ManagerTypes /\ SinkTypes /\ LockTypes /\ Known /\ stack \in Seq(Frame)
  BY TypesTogether DEF BannersInv
<1>2. Idle /\ AtBase /\ stack = <<>> /\ Rests(<<>>, {})
  BY ShapeCases DEF RelayTimer, Idle, AtBase
<1>3. live' = live /\ progress' = 0 /\ Relay(<<>>)
      /\ bannerVars' = bannerVars /\ screenVars' = screenVars /\ lockVars' = lockVars
  BY DEF RelayTimer
<1>4. /\ Mapped' = Mapped /\ Queued' = Queued /\ bannerQueue' = bannerQueue
      /\ idToBanner' = idToBanner /\ heap' = heap /\ notificationIds' = notificationIds
      /\ currentBanner' = currentBanner
  BY <1>3, BannersStay, ScreenStays
<1>5. ScreenFits(<<>>)' /\ QueueOwned' /\ HeapHas({})' /\ NotLeakedBut({})
  <2>1. ScreenFits(<<>>) /\ QueueOwned /\ HeapHas({}) /\ NotLeakedBut({})
    BY <1>2 DEF Rests
  <2>2. ScreenFits(<<>>)'
    BY <1>3, <1>4, <2>1, ScreenStays
  <2>3. QueueOwned' /\ HeapHas({})'
    BY <1>4, <2>1 DEF QueueOwned, HeapHas, Current
  <2>4. QED
    BY <2>1, <2>2, <2>3
<1>6. (AtBase' \/ AtAdd') /\ stack' \in Seq(Frame) /\ waiting' \subseteq waiting
  <2>1. /\ waiting \subseteq NotificationId /\ waiting \subseteq DOMAIN live'
        /\ notificationIds' \cap waiting = {}
    BY <1>1, <1>3, <1>4 DEF ManagerTypes, Known
  <2>2. \A id \in DOMAIN live' \ waiting : live'[id] = "system" => id \in DOMAIN idToBanner'
    BY <1>3, <1>4, <1>5 DEF NotLeakedBut
  <2>3. <<>> \in Bases
    BY DEF Bases
  <2>4. QED
    BY <1>3, <1>5, <2>1, <2>2, <2>3, RelayKeeps
<1>7. Known'
  BY <1>1, <1>3, <1>4, <1>6 DEF Known, Current, Distinct
<1>8. ManagerTypes' /\ LockTypes'
  BY <1>1, <1>3, <1>6, LocksStay, ConstantsAssumption DEF ManagerTypes
<1>9. QED
  BY <1>3, <1>6, <1>7, <1>8, TypesKept DEF BannersInv

\* The conditions of the previews change nothing else.
LEMMA ConditionsKeep ==
    ASSUME BannersInv, LockTypes', Idle, UNCHANGED <<managerVars, bannerVars, screenVars, stack>>
    PROVE  BannersInv'
<1>1. ManagerTypes /\ Known /\ stack \in Seq(Frame)
  BY TypesTogether DEF BannersInv
<1>2. live' = live /\ waiting' = waiting /\ progress' = progress /\ stack' = stack
      /\ bannerVars' = bannerVars /\ screenVars' = screenVars
  BY DEF managerVars
<1>3. stack = <<>> /\ Rests(<<>>, {})
  BY ShapeCases DEF Idle, AtBase
<1>4. AtBase'
  <2>1. Rests(<<>>, {})'
    BY <1>2, <1>3, AllStays
  <2>2. stack' = <<>> /\ <<>> \in Bases
    BY <1>2, <1>3 DEF Bases
  <2>3. QED
    BY <2>1, <2>2 DEF AtBase
<1>5. Known' /\ ManagerTypes' /\ stack' \in Seq(Frame)
  BY <1>1, <1>2, AllStays DEF ManagerTypes
<1>6. QED
  BY <1>2, <1>4, <1>5, TypesKept DEF BannersInv

LEMMA PreviewModeTypes ==
    ASSUME LockTypes, ChangePreviewMode, touchScreenLockActive' \in BOOLEAN, displayOff' \in BOOLEAN,
           previewKey' \in PreviewKeys
    PROVE  LockTypes'
<1>1. allPreviewsDisabled \in BOOLEAN
  BY DEF LockTypes
<1>2. allPreviewsDisabled' \in BOOLEAN
  BY <1>1, Zenon DEF ChangePreviewMode
<1>3. QED
  BY <1>2 DEF LockTypes

LEMMA ConditionChangesKeep ==
    ASSUME BannersInv, TouchScreenLockChanges \/ DisplayStateChanges \/ PreviewKeyChanges
    PROVE  BannersInv'
<1>1. LockTypes
  BY TypesTogether DEF BannersInv
<1>2. /\ Idle /\ ChangePreviewMode /\ UNCHANGED <<managerVars, bannerVars, screenVars, stack>>
      /\ touchScreenLockActive' \in BOOLEAN /\ displayOff' \in BOOLEAN /\ previewKey' \in PreviewKeys
  BY <1>1 DEF TouchScreenLockChanges, DisplayStateChanges, PreviewKeyChanges, LockTypes
<1>3. LockTypes'
  BY <1>1, <1>2, PreviewModeTypes
<1>4. QED
  BY <1>2, <1>3, ConditionsKeep

-----------------------------------------------------------------------------
(* The next banner.                                                        *)

LEMMA HeadAndTail ==
    ASSUME NEW T, NEW list \in Seq(T), list # <<>>, Distinct(list)
    PROVE  /\ Head(list) \in T /\ Tail(list) \in Seq(T) /\ Distinct(Tail(list))
           /\ Range(list) = {Head(list)} \cup Range(Tail(list))
           /\ Head(list) \notin Range(Tail(list))
<1>1. PICK rest : rest = Tail(list)
  OBVIOUS
<1>2. /\ rest \in Seq(T) /\ Len(rest) = Len(list) - 1 /\ Len(list) \in Nat /\ Len(list) # 0
      /\ \A n \in 1..Len(rest) : rest[n] = list[n + 1]
      /\ DOMAIN rest = 1..Len(rest) /\ DOMAIN list = 1..Len(list) /\ Head(list) = list[1]
  BY <1>1
<1>3. Distinct(rest)
  <2>1. ASSUME NEW m \in DOMAIN rest, NEW n \in DOMAIN rest, rest[m] = rest[n]
        PROVE  m = n
    <3>1. m \in Int /\ n \in Int /\ m + 1 \in DOMAIN list /\ n + 1 \in DOMAIN list
      BY <1>2
    <3>2. list[m + 1] = list[n + 1]
      BY <1>2, <2>1
    <3>3. m + 1 = n + 1
      BY <3>1, <3>2 DEF Distinct
    <3>4. QED
      BY <3>1, <3>3
  <2>2. QED
    BY <2>1 DEF Distinct
<1>4. Range(list) = {list[1]} \cup Range(rest)
  <2>1. ASSUME NEW n \in DOMAIN list
        PROVE  list[n] \in {list[1]} \cup Range(rest)
    <3>1. CASE n = 1
      BY <3>1
    <3>2. CASE n # 1
      <4>1. n - 1 \in 1..Len(rest)
        BY <1>2, <3>2
      <4>2. (n - 1) + 1 = n
        BY <1>2
      <4>3. rest[n - 1] = list[n]
        BY <1>2, <4>1, <4>2
      <4>4. QED
        BY <1>2, <4>1, <4>3 DEF Range
    <3>3. QED
      BY <3>1, <3>2
  <2>2. ASSUME NEW n \in DOMAIN rest
        PROVE  rest[n] \in Range(list)
    <3>1. n + 1 \in DOMAIN list /\ rest[n] = list[n + 1]
      BY <1>2
    <3>2. QED
      BY <3>1 DEF Range
  <2>3. list[1] \in Range(list)
    BY <1>2 DEF Range
  <2>4. QED
    BY <2>1, <2>2, <2>3 DEF Range
<1>5. list[1] \notin Range(rest)
  <2>1. ASSUME NEW n \in DOMAIN rest
        PROVE  rest[n] # list[1]
    <3>1. n + 1 \in DOMAIN list /\ 1 \in DOMAIN list /\ n + 1 # 1 /\ rest[n] = list[n + 1]
      BY <1>2
    <3>2. QED
      BY <3>1 DEF Distinct
  <2>2. QED
    BY <2>1 DEF Range
<1>6. list[1] \in T
  BY <1>2
<1>7. QED
  BY <1>1, <1>2, <1>3, <1>4, <1>5, <1>6

LEMMA AtTheEnd ==
    ASSUME NEW T, NEW list \in Seq(T), NEW x \in T, NEW r, r = Append(list, x),
           Distinct(list), x \notin Range(list)
    PROVE  r \in Seq(T) /\ r # <<>> /\ Distinct(r) /\ Range(r) = Range(list) \cup {x}
<1>1. /\ r \in Seq(T) /\ Len(r) = Len(list) + 1 /\ Len(list) \in Nat /\ r[Len(list) + 1] = x
      /\ \A n \in 1..Len(list) : r[n] = list[n]
      /\ DOMAIN r = 1..(Len(list) + 1) /\ DOMAIN list = 1..Len(list)
  OBVIOUS
<1>2. \A n \in DOMAIN r : n \in DOMAIN list \/ n = Len(list) + 1
  BY <1>1
<1>3. \A n \in DOMAIN list : n \in DOMAIN r /\ r[n] = list[n] /\ list[n] # x
  BY <1>1 DEF Range
<1>4. Distinct(r)
  <2>1. ASSUME NEW m \in DOMAIN r, NEW n \in DOMAIN r, r[m] = r[n]
        PROVE  m = n
    <3>1. CASE m \in DOMAIN list /\ n \in DOMAIN list
      BY <1>3, <2>1, <3>1 DEF Distinct
    <3>2. CASE m \notin DOMAIN list \/ n \notin DOMAIN list
      <4>1. m = Len(list) + 1 \/ n = Len(list) + 1
        BY <1>2, <3>2
      <4>2. r[m] = x /\ r[n] = x
        BY <1>1, <2>1, <4>1
      <4>3. m \notin DOMAIN list /\ n \notin DOMAIN list
        BY <1>3, <4>2
      <4>4. QED
        BY <1>2, <4>3
    <3>3. QED
      BY <3>1, <3>2
  <2>2. QED
    BY <2>1 DEF Distinct
<1>5. Range(r) = Range(list) \cup {x}
  <2>1. Range(r) \subseteq Range(list) \cup {x}
    BY <1>1, <1>2, <1>3 DEF Range
  <2>2. Len(list) + 1 \in DOMAIN r
    BY <1>1
  <2>3. Range(list) \cup {x} \subseteq Range(r)
    BY <1>1, <1>3, <2>2 DEF Range
  <2>4. QED
    BY <2>1, <2>3
<1>6. r # <<>>
  BY <1>1
<1>7. QED
  BY <1>1, <1>4, <1>5, <1>6

\* The oldest banner that waits, if there is one, is shown.
LEMMA OldestShown ==
    ASSUME NEW q \in Seq(Banner), Distinct(q), AddOldest(q), ScreenTypes, onDisplay' \in BOOLEAN
    PROVE  /\ bannerQueue' \in Seq(Banner) /\ ScreenTypes' /\ Served'
           /\ Distinct(bannerQueue)' /\ currentBanner' \notin Queued'
           /\ Range(q) = Queued' \cup Current'
<1>1. PICK next, c : next = bannerQueue' /\ c = currentBanner'
  OBVIOUS
<1>2. NoBanner \notin Banner
  BY ConstantsAssumption DEF NoBanner, Banner
<1>3. Queued' = Range(next) /\ Current' = {c} \ {NoBanner}
  BY <1>1 DEF Queued, Current, Range
<1>4. CASE q # <<>>
  <2>1. c = Head(q) /\ next = Tail(q) /\ phase' = "shown" /\ bannerTimer' = TRUE
        /\ window' = IF window = "none" THEN "none" ELSE "visible"
    BY <1>1, <1>4 DEF AddOldest
  <2>2. /\ c \in Banner /\ next \in Seq(Banner) /\ Distinct(next)
        /\ Range(q) = {c} \cup Range(next) /\ c \notin Range(next)
    BY <1>4, <2>1, HeadAndTail
  <2>3. c # NoBanner
    BY <1>2, <2>2
  <2>4. Served'
    BY <1>1, <2>1, <2>3 DEF Served
  <2>5. ScreenTypes'
    BY <1>1, <2>1, <2>2 DEF ScreenTypes
  <2>6. Distinct(bannerQueue)'
    BY <1>1, <2>2 DEF Distinct
  <2>7. Range(q) = Queued' \cup Current'
    BY <1>3, <2>2, <2>3
  <2>8. QED
    BY <1>1, <1>3, <2>2, <2>4, <2>5, <2>6, <2>7
<1>5. CASE q = <<>>
  <2>1. c = NoBanner /\ next = <<>> /\ phase' = "disappeared" /\ bannerTimer' = bannerTimer
        /\ window' = IF window = "none" THEN "none" ELSE "hidden"
    BY <1>1, <1>5 DEF AddOldest
  <2>2. Range(next) = {} /\ Range(q) = {}
    BY <1>5, <2>1 DEF Range
  <2>3. Served'
    BY <1>1, <2>1 DEF Served, WindowServes
  <2>4. ScreenTypes'
    BY <1>1, <2>1 DEF ScreenTypes
  <2>5. Distinct(bannerQueue)'
    BY <1>1, <2>1 DEF Distinct
  <2>6. next \in Seq(Banner)
    BY <2>1
  <2>7. QED
    BY <1>1, <1>3, <2>1, <2>2, <2>3, <2>4, <2>5, <2>6
<1>6. QED
  BY <1>4, <1>5

\* A step that changes nothing of the manager, nor of the lock.
LEMMA ManagerStays ==
    ASSUME managerVars' = managerVars
    PROVE  /\ live' = live /\ waiting' = waiting /\ progress' = progress
           /\ ManagerTypes => ManagerTypes'
BY DEF managerVars, ManagerTypes

LEMMA DeleteBannerKeeps ==
    ASSUME BannersInv, DeleteBanner
    PROVE  BannersInv'
<1>1. ManagerTypes /\ SinkTypes /\ RoomLeft /\ ScreenTypes /\ LockTypes /\ Known /\ stack \in Seq(Frame)
  BY TypesTogether DEF BannersInv
<1>2. /\ Top("delete") /\ stack # <<>> /\ heap' = Without(heap, Head(stack).banner) /\ stack' = Tail(stack)
      /\ managerVars' = managerVars /\ notificationIds' = notificationIds /\ idToBanner' = idToBanner
      /\ bannerQueue' = bannerQueue /\ screenVars' = screenVars /\ lockVars' = lockVars
  BY DEF DeleteBanner, Top
<1>3. PICK i \in DOMAIN live, base \in Bases, b \in Banner, banners \in Seq(Banner) :
        /\ Deletes(stack, b, i, live[i], banners, base) /\ ScreenFits(base)
        /\ Clearing(banners) /\ HeapHas({b}) /\ NotLeakedBut({i}) /\ Adding(i)
  BY <1>2, ShapeCases DEF AtDelete
<1>4. Head(stack).banner = b /\ Clears(stack', i, live[i], banners, base)
  BY <1>2, <1>3, FrameFields DEF Deletes, OnTop
<1>5. DOMAIN heap' = DOMAIN heap \ {b} /\ \A x \in DOMAIN heap' : heap'[x] = heap[x]
  BY <1>2, <1>4 DEF Without, Restrict
<1>6. live' = live /\ waiting' = waiting /\ progress' = progress /\ ManagerTypes' /\ LockTypes'
      /\ currentBanner' = currentBanner /\ ScreenTypes'
  BY <1>1, <1>2, ManagerStays, ScreenStays, LocksStay
<1>7. Mapped' = Mapped /\ Queued' = Queued
  BY <1>2 DEF Mapped, Queued
<1>8. Known'
  <2>1. \A id \in DOMAIN idToBanner : idToBanner[id] \in Mapped /\ idToBanner[id] \in DOMAIN heap'
    BY <1>3, <1>5 DEF Mapped, HeapHas
  <2>2. \A id \in DOMAIN idToBanner' : heap'[idToBanner'[id]] = live'[id]
    BY <1>1, <1>2, <1>5, <1>6, <2>1 DEF Known
  <2>3. QED
    BY <1>1, <1>2, <1>6, <1>7, <2>2 DEF Known, Current, Distinct
<1>9. SinkTypes' /\ stack' \in Seq(Frame)
  BY <1>1, <1>2, <1>5, Popped DEF SinkTypes
<1>10. HeapHas({})'
  BY <1>3, <1>5, <1>6, <1>7 DEF HeapHas, Current
<1>11. TypeOK'
  BY <1>6, <1>9, <1>10, RoomAtRestNext, TypesTogetherNext
<1>12. AtClear'
  <2>1. ScreenFits(base)'
    BY <1>2, <1>3, <1>7, ScreenStays
  <2>2. Clearing(banners)'
    BY <1>3, <1>7 DEF Clearing, Distinct
  <2>3. NotLeakedBut({i})'
    BY <1>2, <1>3, <1>6, NotificationsStay
  <2>4. Adding(i)'
    BY <1>2, <1>3, <1>6 DEF Adding
  <2>5. i \in DOMAIN live' /\ Clears(stack', i, live'[i], banners, base)
    BY <1>3, <1>4, <1>6
  <2>6. QED
    BY <1>10, <2>1, <2>2, <2>3, <2>4, <2>5 DEF AtClear
<1>13. QED
  BY <1>8, <1>11, <1>12 DEF BannersInv

LEMMA FinishCurrentDoneKeeps ==
    ASSUME BannersInv, FinishCurrentDone
    PROVE  BannersInv'
<1>1. ManagerTypes /\ SinkTypes /\ RoomLeft /\ ScreenTypes /\ LockTypes /\ Known /\ stack \in Seq(Frame)
  BY TypesTogether DEF BannersInv
<1>2. /\ Top("currentDone") /\ stack # <<>> /\ heap' = Without(heap, currentBanner) /\ stack' = Tail(stack)
      /\ AddOldest(bannerQueue) /\ onDisplay' = onDisplay
      /\ managerVars' = managerVars /\ notificationIds' = notificationIds /\ idToBanner' = idToBanner
      /\ lockVars' = lockVars
  BY DEF FinishCurrentDone, Top
<1>3. \/ stack = <<CurrentDoneFrame>> /\ Rests(<<CurrentDoneFrame>>, {})
      \/ \E i \in DOMAIN live :
            /\ EndsThenShows(stack, i, live[i]) /\ Rests(<<CurrentDoneFrame>>, {i}) /\ Adding(i)
  BY <1>2, ShapeCases DEF AtEnd, AtBase, Bases
<1>4. Ended /\ QueueOwned /\ HeapHas({})
  BY <1>3, EndStack DEF Rests, ScreenFits
<1>5. DOMAIN heap' = DOMAIN heap \ {currentBanner} /\ \A x \in DOMAIN heap' : heap'[x] = heap[x]
  BY <1>2 DEF Without, Restrict
<1>6. live' = live /\ waiting' = waiting /\ progress' = progress /\ ManagerTypes' /\ LockTypes'
  BY <1>1, <1>2, ManagerStays, LocksStay
<1>7. Mapped' = Mapped
  BY <1>2 DEF Mapped
<1>8. /\ bannerQueue' \in Seq(Banner) /\ ScreenTypes' /\ Served'
      /\ Distinct(bannerQueue)' /\ currentBanner' \notin Queued'
      /\ Queued = Queued' \cup Current'
  <2>1. bannerQueue \in Seq(Banner) /\ Distinct(bannerQueue) /\ onDisplay' \in BOOLEAN
    BY <1>1, <1>2 DEF SinkTypes, Known, ScreenTypes
  <2>2. Range(bannerQueue) = Queued
    BY DEF Range, Queued
  <2>3. QED
    BY <1>1, <1>2, <2>1, <2>2, OldestShown
<1>9. Mapped = Queued /\ DOMAIN heap = Mapped \cup {currentBanner} /\ currentBanner \notin Mapped
  BY <1>1, <1>4 DEF Known, Ended, QueueOwned, HeapHas, Current
<1>10. Known'
  <2>1. \A id \in DOMAIN idToBanner : idToBanner[id] \in DOMAIN heap'
    BY <1>5, <1>9 DEF Mapped
  <2>2. \A id \in DOMAIN idToBanner' : heap'[idToBanner'[id]] = live'[id]
    BY <1>1, <1>2, <1>5, <1>6, <2>1 DEF Known
  <2>3. Mapped' \subseteq Queued' \cup Current'
    BY <1>7, <1>8, <1>9
  <2>4. QED
    BY <1>1, <1>2, <1>6, <1>8, <2>2, <2>3 DEF Known
<1>11. QueueOwned' /\ HeapHas({})'
  BY <1>5, <1>7, <1>8, <1>9 DEF QueueOwned, HeapHas
<1>12. SinkTypes' /\ stack' \in Seq(Frame)
  BY <1>1, <1>2, <1>5, <1>8, Popped DEF SinkTypes
<1>13. TypeOK'
  BY <1>6, <1>8, <1>11, <1>12, RoomAtRestNext, TypesTogetherNext
<1>14. ScreenFits(<<>>)' /\ <<>> \in Bases /\ \A ids : NotLeakedBut(ids) => NotLeakedBut(ids)'
  BY <1>2, <1>6, <1>8, NotificationsStay DEF ScreenFits, Bases
<1>15. CASE stack = <<CurrentDoneFrame>> /\ Rests(<<CurrentDoneFrame>>, {})
  <2>1. stack' = <<>>
    BY <1>2, <1>15, EndStack
  <2>2. Rests(<<>>, {})'
    BY <1>11, <1>14, <1>15 DEF Rests
  <2>3. AtBase'
    BY <1>14, <2>1, <2>2 DEF AtBase
  <2>4. QED
    BY <1>10, <1>13, <2>3 DEF BannersInv
<1>16. ASSUME NEW i \in DOMAIN live, EndsThenShows(stack, i, live[i]),
              Rests(<<CurrentDoneFrame>>, {i}), Adding(i)
       PROVE  AtShow'
  <2>1. Shows(stack', i, live'[i], <<>>) /\ i \in DOMAIN live'
    BY <1>2, <1>6, <1>16 DEF EndsThenShows
  <2>2. Rests(<<>>, {i})'
    BY <1>11, <1>14, <1>16 DEF Rests
  <2>3. Adding(i)'
    BY <1>2, <1>6, <1>16 DEF Adding
  <2>4. QED
    BY <1>14, <2>1, <2>2, <2>3 DEF AtShow
<1>17. QED
  BY <1>3, <1>10, <1>13, <1>15, <1>16 DEF BannersInv

\* The window and the new banner: it is shown at once if nothing else is and the
\* window counts as being on the display, and waits otherwise.
LEMMA Enqueued ==
    ASSUME NEW b \in Banner, bannerQueue \in Seq(Banner), Distinct(bannerQueue), b \notin Queued,
           b # currentBanner, currentBanner \notin Queued,
           Enqueue(b), ScreenTypes, onDisplay' = onDisplay, NEW base \in Bases, ScreenFits(base),
           Mapped' = Mapped \cup {b}
    PROVE  /\ bannerQueue' \in Seq(Banner) /\ ScreenTypes' /\ ScreenFits(base)'
           /\ Distinct(bannerQueue)' /\ currentBanner' \notin Queued'
           /\ Queued' \cup Current' = Queued \cup Current \cup {b}
           /\ base = <<CurrentDoneFrame>> => Current' = Current
           /\ Queued' \subseteq Queued \cup {b}
<1>1. PICK q : q = Append(bannerQueue, b)
  OBVIOUS
<1>2. Range(bannerQueue) = Queued
  BY DEF Range, Queued
<1>3. q \in Seq(Banner) /\ q # <<>> /\ Distinct(q) /\ Range(q) = Queued \cup {b}
  BY <1>1, <1>2, AtTheEnd
<1>4. CASE window # "visible" /\ onDisplay /\ currentBanner = NoBanner
  <2>1. AddOldest(q)
    BY <1>1, <1>4 DEF Enqueue
  <2>2. onDisplay' \in BOOLEAN
    BY DEF ScreenTypes
  <2>3. /\ bannerQueue' \in Seq(Banner) /\ ScreenTypes' /\ Served'
        /\ Distinct(bannerQueue)' /\ currentBanner' \notin Queued'
        /\ Range(q) = Queued' \cup Current'
    BY <1>3, <2>1, <2>2, OldestShown
  <2>4. base = <<>> /\ <<>> # <<CurrentDoneFrame>>
    BY <1>4, EndStack DEF Bases, ScreenFits, Ended
  <2>5. ScreenFits(base)'
    BY <2>3, <2>4 DEF ScreenFits
  <2>6. Current = {}
    BY <1>4 DEF Current
  <2>7. QED
    BY <1>3, <2>3, <2>4, <2>5, <2>6
<1>5. CASE ~(window # "visible" /\ onDisplay /\ currentBanner = NoBanner)
  <2>1. /\ bannerQueue' = q /\ window' = "visible" /\ currentBanner' = currentBanner
        /\ phase' = phase /\ bannerTimer' = bannerTimer
    BY <1>1, <1>5 DEF Enqueue
  <2>2. ScreenTypes' /\ Distinct(bannerQueue)' /\ Current' = Current
    BY <1>3, <2>1 DEF ScreenTypes, Distinct, Current
  <2>3. Queued' = Queued \cup {b}
    BY <1>3, <2>1 DEF Queued, Range
  <2>4. Served => Served'
    BY <1>5, <2>1 DEF Served, WindowServes
  <2>5. Ended => Ended'
    BY <2>1 DEF Ended
  <2>6. QED
    BY <1>3, <2>1, <2>2, <2>3, <2>4, <2>5 DEF ScreenFits
<1>6. QED
  BY <1>4, <1>5

LEMMA ShowBannerKeeps ==
    ASSUME BannersInv, ShowBanner
    PROVE  BannersInv'
<1>1. ManagerTypes /\ SinkTypes /\ RoomLeft /\ ScreenTypes /\ LockTypes /\ Known /\ stack \in Seq(Frame)
  BY TypesTogether DEF BannersInv
<1>2. PICK i \in DOMAIN live, base \in Bases :
        Shows(stack, i, live[i], base) /\ Rests(base, {i}) /\ Adding(i)
  BY ShapeCases DEF ShowBanner, AtShow
<1>3. Head(stack).id = i /\ Head(stack).kind = live[i] /\ stack # <<>>
  BY <1>2, FrameFields DEF Shows, OnTop
<1>4. PICK b : b = Smallest(Banner \ DOMAIN heap)
  OBVIOUS
<1>5. /\ notificationIds' = notificationIds \cup {i} /\ heap' = Insert(heap, b, live[i])
      /\ idToBanner' = Insert(idToBanner, i, b) /\ Enqueue(b) /\ stack' = Tail(stack)
      /\ managerVars' = managerVars /\ onDisplay' = onDisplay /\ lockVars' = lockVars
  BY <1>3, <1>4 DEF ShowBanner
<1>6. b \in Banner \ DOMAIN heap
  <2>1. Banner \ DOMAIN heap # {} /\ Banner \ DOMAIN heap \subseteq Nat
    BY <1>1, ConstantsAssumption DEF RoomLeft, Banner
  <2>2. QED
    BY <1>4, <2>1, SmallestIn
<1>7. live' = live /\ waiting' = waiting /\ progress' = progress /\ ManagerTypes' /\ LockTypes'
  BY <1>1, <1>5, ManagerStays, LocksStay
<1>8. /\ DOMAIN heap' = DOMAIN heap \cup {b} /\ heap'[b] = live[i]
      /\ \A x \in DOMAIN heap : heap'[x] = heap[x]
  BY <1>5, <1>6 DEF Insert
<1>9. /\ i \in DOMAIN live \ waiting /\ i \in NotificationId
      /\ i \notin notificationIds /\ i \notin DOMAIN idToBanner
      /\ progress = 0
  BY <1>1, <1>2 DEF Adding, Known, ManagerTypes
<1>10. /\ DOMAIN idToBanner' = DOMAIN idToBanner \cup {i} /\ idToBanner'[i] = b
       /\ \A x \in DOMAIN idToBanner : idToBanner'[x] = idToBanner[x]
  BY <1>5, <1>9 DEF Insert
<1>11. ScreenFits(base) /\ QueueOwned /\ HeapHas({}) /\ NotLeakedBut({i})
  BY <1>2 DEF Rests
<1>12. Mapped' = Mapped \cup {b}
  BY <1>10 DEF Mapped
<1>13. b \notin Mapped /\ b \notin Queued /\ b \notin Current /\ Mapped \subseteq DOMAIN heap
  BY <1>6, <1>11 DEF HeapHas, QueueOwned
<1>14. b # currentBanner
  <2>1. b # NoBanner
    BY <1>6, ConstantsAssumption DEF Banner, NoBanner
  <2>2. QED
    BY <1>13, <2>1 DEF Current
<1>15. /\ bannerQueue' \in Seq(Banner) /\ ScreenTypes' /\ ScreenFits(base)'
       /\ Distinct(bannerQueue)' /\ currentBanner' \notin Queued'
       /\ Queued' \cup Current' = Queued \cup Current \cup {b}
       /\ Queued' \subseteq Queued \cup {b}
  BY <1>1, <1>2, <1>5, <1>6, <1>11, <1>12, <1>13, <1>14, Enqueued DEF SinkTypes, Known
<1>16. Known'
  <2>1. \A id \in DOMAIN idToBanner : idToBanner[id] \in DOMAIN heap /\ idToBanner[id] # b
    BY <1>13 DEF Mapped
  <2>2. \A id \in DOMAIN idToBanner' : heap'[idToBanner'[id]] = live'[id]
    BY <1>1, <1>7, <1>8, <1>10, <2>1 DEF Known
  <2>3. \A id, other \in DOMAIN idToBanner' : idToBanner'[id] = idToBanner'[other] => id = other
    BY <1>1, <1>10, <2>1 DEF Known
  <2>4. Mapped' \subseteq Queued' \cup Current'
    BY <1>1, <1>12, <1>15 DEF Known
  <2>5. waiting' \subseteq DOMAIN live' /\ notificationIds' \subseteq DOMAIN live' \ waiting'
        /\ DOMAIN idToBanner' \subseteq notificationIds'
    BY <1>1, <1>5, <1>7, <1>9, <1>10 DEF Known
  <2>6. QED
    BY <1>15, <2>2, <2>3, <2>4, <2>5 DEF Known
<1>17. QueueOwned'
  BY <1>11, <1>12, <1>15 DEF QueueOwned
<1>18. HeapHas({})'
  <2>1. DOMAIN heap = Mapped \cup Queued \cup Current
    BY <1>11 DEF HeapHas, QueueOwned
  <2>2. DOMAIN heap' = Mapped' \cup (Queued' \cup Current')
    BY <1>8, <1>12, <1>15, <2>1
  <2>3. DOMAIN heap' = Mapped' \cup Current'
    BY <1>17, <2>2 DEF QueueOwned
  <2>4. QED
    BY <2>3 DEF HeapHas
<1>19. SinkTypes' /\ stack' \in Seq(Frame)
  <2>1. live[i] \in AllKinds
    BY <1>1 DEF ManagerTypes
  <2>2. QED
    BY <1>1, <1>3, <1>5, <1>6, <1>8, <1>9, <1>10, <1>15, <2>1, Popped DEF SinkTypes
<1>20. TypeOK'
  BY <1>7, <1>15, <1>18, <1>19, RoomAtRestNext, TypesTogetherNext
<1>21. AtSubmit'
  <2>1. Submits(stack', i, base)
    BY <1>2, <1>5 DEF Shows
  <2>2. NotLeakedBut({})'
    BY <1>7, <1>10, <1>11 DEF NotLeakedBut
  <2>3. Rests(base, {})'
    BY <1>15, <1>17, <1>18, <2>2 DEF Rests
  <2>4. QED
    BY <1>7, <1>9, <2>1, <2>3 DEF AtSubmit
<1>22. QED
  BY <1>16, <1>20, <1>21 DEF BannersInv

-----------------------------------------------------------------------------
(* The timer, the user and the window.                                     *)

\* Events that concern the banner on the screen alone.
LEMMA ScreenEventKeeps ==
    ASSUME BannersInv, Idle, managerVars' = managerVars, lockVars' = lockVars, heap' = heap,
           notificationIds' = notificationIds, idToBanner' = idToBanner, ScreenTypes',
           bannerQueue' \in Seq(Banner), Distinct(bannerQueue)', currentBanner' \notin Queued',
           Queued' \cup Current' = Queued \cup Current, Queued' \subseteq Queued,
           Current' = Current \/ Current = {}, Served'
    PROVE  /\ ManagerTypes' /\ LockTypes' /\ Known' /\ Rests(<<>>, {})'
           /\ stack' \in Seq(Frame) => TypeOK'
<1>1. ManagerTypes /\ SinkTypes /\ RoomLeft /\ ScreenTypes /\ LockTypes /\ Known /\ stack \in Seq(Frame)
  BY TypesTogether DEF BannersInv
<1>2. QueueOwned /\ HeapHas({}) /\ NotLeakedBut({})
  BY ShapeCases DEF AtBase, Rests
<1>3. live' = live /\ waiting' = waiting /\ progress' = progress /\ ManagerTypes' /\ LockTypes'
  BY <1>1, ManagerStays, LocksStay
<1>4. Mapped' = Mapped
  BY DEF Mapped
<1>5. Known'
  BY <1>1, <1>3, <1>4 DEF Known
<1>6. QueueOwned'
  BY <1>2, <1>4 DEF QueueOwned
<1>7. DOMAIN heap = Mapped' \cup Current'
  BY <1>2, <1>4, <1>6 DEF HeapHas, QueueOwned
<1>8. HeapHas({})'
  BY <1>7 DEF HeapHas
<1>9. NotLeakedBut({})' /\ ScreenFits(<<>>)'
  BY <1>2, <1>3, NotificationsStay DEF ScreenFits
<1>10. SinkTypes' /\ RoomLeft'
  BY <1>1 DEF SinkTypes, RoomLeft
<1>11. QED
  BY <1>3, <1>5, <1>6, <1>8, <1>9, <1>10, TypesTogetherNext DEF Rests

\* The banner on the screen is still there, on its way out.
LEMMA Leaving ==
    ASSUME BannersInv, Idle, DisappearCurrent, bannerTimer' \in BOOLEAN,
           bannerTimer' = bannerTimer \/ phase' # "shown",
           currentBanner' = currentBanner, window' = window, onDisplay' = onDisplay,
           bannerVars' = bannerVars, managerVars' = managerVars, lockVars' = lockVars
    PROVE  /\ ManagerTypes' /\ LockTypes' /\ Known' /\ Rests(<<>>, {})'
           /\ stack' \in Seq(Frame) => TypeOK'
<1>1. SinkTypes /\ ScreenTypes /\ Known
  BY TypesTogether DEF BannersInv
<1>2. Served
  BY ShapeCases DEF AtBase, Rests, ScreenFits, Idle
<1>3. /\ Mapped' = Mapped /\ Queued' = Queued /\ bannerQueue' = bannerQueue
      /\ idToBanner' = idToBanner /\ heap' = heap /\ notificationIds' = notificationIds
      /\ Current' = Current
  BY BannersStay DEF Current
<1>4. ScreenTypes'
  BY <1>1 DEF ScreenTypes, DisappearCurrent
<1>5. Served'
  BY <1>2, <1>3, <1>4 DEF Served, WindowServes, DisappearCurrent
<1>6. bannerQueue' \in Seq(Banner) /\ Distinct(bannerQueue)' /\ currentBanner' \notin Queued'
  BY <1>1, <1>3 DEF SinkTypes, Known, Distinct
<1>7. QED
  BY <1>3, <1>4, <1>5, <1>6, ScreenEventKeeps

LEMMA NothingCalled ==
    ASSUME Rests(<<>>, {})', Idle, stack' = stack
    PROVE  AtBase' /\ stack' \in Seq(Frame)
<1>1. stack' = <<>> /\ <<>> \in Bases /\ <<>> \in Seq(Frame)
  BY DEF Idle, Bases
<1>2. QED
  BY <1>1 DEF AtBase

LEMMA BannerTimeoutKeeps ==
    ASSUME BannersInv, BannerTimeout
    PROVE  BannersInv'
<1>1. /\ Idle /\ bannerTimer' = FALSE /\ DisappearCurrent /\ bannerVars' = bannerVars
      /\ managerVars' = managerVars /\ lockVars' = lockVars /\ stack' = stack
      /\ currentBanner' = currentBanner /\ window' = window /\ onDisplay' = onDisplay
  BY DEF BannerTimeout
<1>2. bannerTimer' \in BOOLEAN /\ phase' # "shown"
  BY <1>1 DEF DisappearCurrent
<1>3. Known' /\ Rests(<<>>, {})' /\ (stack' \in Seq(Frame) => TypeOK')
  BY <1>1, <1>2, Leaving
<1>4. QED
  BY <1>1, <1>3, NothingCalled DEF BannersInv

LEMMA BannerTappedKeeps ==
    ASSUME BannersInv, BannerTapped
    PROVE  BannersInv'
<1>1. /\ Idle /\ bannerTimer' = bannerTimer /\ DisappearCurrent /\ bannerVars' = bannerVars
      /\ managerVars' = managerVars /\ lockVars' = lockVars
      /\ currentBanner' = currentBanner /\ window' = window /\ onDisplay' = onDisplay
      /\ stack' = stack \/ \E id \in DOMAIN idToBanner : stack' = <<RemoveFrame(id)>>
  BY DEF BannerTapped
<1>2. bannerTimer' \in BOOLEAN
  BY <1>1, TypesTogether DEF BannersInv, ScreenTypes
<1>3. Known' /\ Rests(<<>>, {})' /\ (stack' \in Seq(Frame) => TypeOK')
  BY <1>1, <1>2, Leaving
<1>4. ASSUME NEW id \in DOMAIN idToBanner, stack' = <<RemoveFrame(id)>>
      PROVE  AtRemove' /\ stack' \in Seq(Frame)
  <2>1. id \in NotificationId
    BY TypesTogether DEF BannersInv, SinkTypes
  <2>2. stack' = <<RemoveFrame(id)>> \o <<>> /\ <<>> \in Bases
    BY <1>4, <2>1, FrameTypes, OneCall DEF Bases
  <2>3. QED
    BY <1>3, <2>1, <2>2, Requested
<1>5. QED
  BY <1>1, <1>3, <1>4, NothingCalled DEF BannersInv

LEMMA DisplayEnteredKeeps ==
    ASSUME BannersInv, DisplayEntered
    PROVE  BannersInv'
<1>1. /\ Idle /\ window = "visible" /\ ~onDisplay /\ onDisplay' = TRUE /\ stack' = stack
      /\ IF currentBanner = NoBanner
         THEN AddOldest(bannerQueue)
         ELSE UNCHANGED <<bannerQueue, currentBanner, phase, bannerTimer, window>>
      /\ managerVars' = managerVars /\ lockVars' = lockVars /\ heap' = heap
      /\ notificationIds' = notificationIds /\ idToBanner' = idToBanner
  BY DEF DisplayEntered
<1>2. SinkTypes /\ ScreenTypes /\ Known
  BY TypesTogether DEF BannersInv
<1>3. Served
  BY <1>1, ShapeCases DEF AtBase, Rests, ScreenFits, Idle
<1>4. /\ ScreenTypes' /\ bannerQueue' \in Seq(Banner)
      /\ Distinct(bannerQueue)' /\ currentBanner' \notin Queued'
      /\ Queued' \cup Current' = Queued \cup Current /\ Queued' \subseteq Queued
      /\ Current' = Current \/ Current = {}
      /\ Served'
  <2>1. CASE currentBanner = NoBanner
    <3>1. Current = {} /\ Range(bannerQueue) = Queued
      BY <2>1 DEF Current, Range, Queued
    <3>2. /\ bannerQueue \in Seq(Banner) /\ Distinct(bannerQueue)
          /\ AddOldest(bannerQueue) /\ onDisplay' \in BOOLEAN
      BY <1>1, <1>2, <2>1 DEF SinkTypes, Known
    <3>3. /\ bannerQueue' \in Seq(Banner) /\ ScreenTypes' /\ Served'
          /\ Distinct(bannerQueue)' /\ currentBanner' \notin Queued'
          /\ Range(bannerQueue) = Queued' \cup Current'
      BY <1>2, <3>2, OldestShown
    <3>4. QED
      BY <3>1, <3>3
  <2>2. CASE currentBanner # NoBanner
    <3>1. bannerQueue' = bannerQueue /\ currentBanner' = currentBanner /\ phase' = phase
          /\ bannerTimer' = bannerTimer /\ window' = window
      BY <1>1, <2>2
    <3>2. Queued' = Queued /\ Current' = Current
      BY <3>1 DEF Queued, Current
    <3>3. /\ ScreenTypes' /\ bannerQueue' \in Seq(Banner)
          /\ Distinct(bannerQueue)' /\ currentBanner' \notin Queued'
      BY <1>1, <1>2, <3>1, <3>2 DEF ScreenTypes, SinkTypes, Known, Distinct
    <3>4. Served'
      BY <1>3, <2>2, <3>1 DEF Served
    <3>5. QED
      BY <3>2, <3>3, <3>4
  <2>3. QED
    BY <2>1, <2>2
<1>5. Known' /\ Rests(<<>>, {})' /\ (stack' \in Seq(Frame) => TypeOK')
  BY <1>1, <1>4, ScreenEventKeeps
<1>6. QED
  BY <1>1, <1>5, NothingCalled DEF BannersInv

LEMMA DisplayExitedKeeps ==
    ASSUME BannersInv, DisplayExited
    PROVE  BannersInv'
<1>1. /\ Idle /\ onDisplay /\ onDisplay' = FALSE /\ stack' = stack
      /\ managerVars' = managerVars /\ lockVars' = lockVars /\ bannerVars' = bannerVars
      /\ currentBanner' = currentBanner /\ phase' = phase /\ bannerTimer' = bannerTimer /\ window' = window
  BY DEF DisplayExited
<1>2. SinkTypes /\ ScreenTypes /\ Known
  BY TypesTogether DEF BannersInv
<1>3. Served
  BY <1>1, ShapeCases DEF AtBase, Rests, ScreenFits, Idle
<1>4. /\ Mapped' = Mapped /\ Queued' = Queued /\ bannerQueue' = bannerQueue
      /\ idToBanner' = idToBanner /\ heap' = heap /\ notificationIds' = notificationIds
      /\ Current' = Current
  BY <1>1, BannersStay DEF Current
<1>5. ScreenTypes' /\ bannerQueue' \in Seq(Banner) /\ Distinct(bannerQueue)' /\ currentBanner' \notin Queued'
  BY <1>1, <1>2, <1>4 DEF ScreenTypes, SinkTypes, Known, Distinct
<1>6. Served'
  BY <1>1, <1>3, <1>4 DEF Served, WindowServes
<1>7. Known' /\ Rests(<<>>, {})' /\ (stack' \in Seq(Frame) => TypeOK')
  BY <1>1, <1>4, <1>5, <1>6, ScreenEventKeeps
<1>8. QED
  BY <1>1, <1>7, NothingCalled DEF BannersInv

-----------------------------------------------------------------------------
(* A banner is done with.                                                  *)

LEMMA BannerForgotten ==
    ASSUME NEW b, NEW rest, BannerDone(b, rest), Known, Mapped \subseteq DOMAIN heap,
           live' = live, waiting' = waiting
    PROVE  /\ DOMAIN idToBanner' \subseteq DOMAIN idToBanner
           /\ \A id \in DOMAIN idToBanner' : idToBanner'[id] = idToBanner[id]
           /\ Mapped' = Mapped \ {b}
           /\ \/ /\ stack' = rest
                 /\ \A ids : NotLeakedBut(ids) => NotLeakedBut(ids)'
              \/ \E id \in DOMAIN idToBanner \ DOMAIN idToBanner' :
                    /\ stack' = <<RemoveFrame(id)>> \o rest
                    /\ \A ids : NotLeakedBut(ids) => NotLeakedBut(ids \cup {id})'
<1>1. CASE \A id \in DOMAIN idToBanner : idToBanner[id] # b
  <2>1. stack' = rest /\ idToBanner' = idToBanner
    BY <1>1 DEF BannerDone
  <2>2. Mapped' = Mapped /\ b \notin Mapped
    BY <1>1, <2>1 DEF Mapped
  <2>3. \A ids : NotLeakedBut(ids) => NotLeakedBut(ids)'
    BY <2>1, NotificationsStay
  <2>4. QED
    BY <2>1, <2>2, <2>3
<1>2. CASE \E id \in DOMAIN idToBanner : idToBanner[id] = b
  <2>1. PICK id \in DOMAIN idToBanner :
            /\ idToBanner[id] = b
            /\ idToBanner' = Without(idToBanner, id)
            /\ stack' = IF b \in DOMAIN heap /\ heap[b] = "system"
                        THEN <<RemoveFrame(id)>> \o rest ELSE rest
    BY <1>2 DEF BannerDone
  <2>2. /\ DOMAIN idToBanner' = DOMAIN idToBanner \ {id}
        /\ \A x \in DOMAIN idToBanner' : idToBanner'[x] = idToBanner[x]
    BY <2>1 DEF Without, Restrict
  <2>3. \A x \in DOMAIN idToBanner : x # id => idToBanner[x] # b
    BY <2>1 DEF Known
  <2>4. Mapped' = Mapped \ {b}
    BY <2>1, <2>2, <2>3 DEF Mapped
  <2>5. b \in DOMAIN heap /\ heap[b] = live[id]
    BY <2>1 DEF Known, Mapped
  <2>6. CASE live[id] = "system"
    <3>1. stack' = <<RemoveFrame(id)>> \o rest
      BY <2>1, <2>5, <2>6
    <3>2. \A ids : NotLeakedBut(ids) => NotLeakedBut(ids \cup {id})'
      BY <2>2 DEF NotLeakedBut
    <3>3. QED
      BY <2>1, <2>2, <2>4, <3>1, <3>2
  <2>7. CASE live[id] # "system"
    <3>1. stack' = rest
      BY <2>1, <2>5, <2>7
    <3>2. \A ids : NotLeakedBut(ids) => NotLeakedBut(ids)'
      BY <2>2, <2>7 DEF NotLeakedBut
    <3>3. QED
      BY <2>2, <2>4, <3>1, <3>2
  <2>8. QED
    BY <2>6, <2>7
<1>3. QED
  BY <1>1, <1>2

LEMMA BannerDisappearedKeeps ==
    ASSUME BannersInv, BannerDisappeared
    PROVE  BannersInv'
<1>1. ManagerTypes /\ SinkTypes /\ ScreenTypes /\ LockTypes /\ Known
  BY TypesTogether DEF BannersInv
<1>2. /\ Idle /\ phase = "disappearing" /\ phase' = "disappeared"
      /\ BannerDone(currentBanner, <<CurrentDoneFrame>>)
      /\ managerVars' = managerVars /\ lockVars' = lockVars /\ notificationIds' = notificationIds
      /\ bannerQueue' = bannerQueue /\ heap' = heap /\ currentBanner' = currentBanner
      /\ bannerTimer' = bannerTimer /\ window' = window /\ onDisplay' = onDisplay
  BY DEF BannerDisappeared
<1>3. Served /\ QueueOwned /\ HeapHas({}) /\ NotLeakedBut({})
  BY <1>2, ShapeCases DEF AtBase, Rests, ScreenFits, Idle
<1>4. live' = live /\ waiting' = waiting /\ progress' = progress /\ ManagerTypes' /\ LockTypes'
  BY <1>1, <1>2, ManagerStays, LocksStay
<1>5. /\ DOMAIN idToBanner' \subseteq DOMAIN idToBanner
      /\ \A id \in DOMAIN idToBanner' : idToBanner'[id] = idToBanner[id]
      /\ Mapped' = Mapped \ {currentBanner}
      /\ \/ /\ stack' = <<CurrentDoneFrame>>
            /\ NotLeakedBut({})'
         \/ \E id \in DOMAIN idToBanner \ DOMAIN idToBanner' :
               /\ stack' = <<RemoveFrame(id)>> \o <<CurrentDoneFrame>>
               /\ NotLeakedBut({} \cup {id})'
  <2>1. Mapped \subseteq DOMAIN heap
    BY <1>3 DEF HeapHas
  <2>2. QED
    BY <1>1, <1>2, <1>3, <1>4, <2>1, BannerForgotten
<1>6. currentBanner # NoBanner /\ Current' = Current /\ Queued' = Queued /\ currentBanner \notin Queued
      /\ currentBanner \in Current
  BY <1>1, <1>2, <1>3 DEF Served, Current, Queued, Known
<1>7. Known'
  <2>1. waiting' \subseteq DOMAIN live' /\ notificationIds' \subseteq DOMAIN live' \ waiting'
        /\ DOMAIN idToBanner' \subseteq notificationIds'
    BY <1>1, <1>2, <1>4, <1>5 DEF Known
  <2>2. \A id \in DOMAIN idToBanner' : heap'[idToBanner'[id]] = live'[id]
    BY <1>1, <1>2, <1>4, <1>5 DEF Known
  <2>3. \A id, other \in DOMAIN idToBanner' : idToBanner'[id] = idToBanner'[other] => id = other
    BY <1>1, <1>5 DEF Known
  <2>4. Mapped' \subseteq Queued' \cup Current' /\ Distinct(bannerQueue)' /\ currentBanner' \notin Queued'
    BY <1>1, <1>2, <1>5, <1>6 DEF Known, Distinct
  <2>5. QED
    BY <2>1, <2>2, <2>3, <2>4 DEF Known
<1>8. ScreenFits(<<CurrentDoneFrame>>)'
  BY <1>2, <1>5, <1>6, EndStack DEF ScreenFits, Ended
<1>9. QueueOwned' /\ HeapHas({})'
  BY <1>2, <1>3, <1>5, <1>6 DEF QueueOwned, HeapHas
<1>10. SinkTypes' /\ ScreenTypes'
  BY <1>1, <1>2, <1>5 DEF SinkTypes, ScreenTypes
<1>11. stack' \in Seq(Frame) => TypeOK'
  BY <1>4, <1>9, <1>10, RoomAtRestNext, TypesTogetherNext
<1>12. <<CurrentDoneFrame>> \in Bases /\ <<CurrentDoneFrame>> \in Seq(Frame)
  BY EndStack DEF Bases
<1>13. CASE stack' = <<CurrentDoneFrame>> /\ NotLeakedBut({})'
  <2>1. Rests(<<CurrentDoneFrame>>, {})'
    BY <1>8, <1>9, <1>13 DEF Rests
  <2>2. AtBase'
    BY <1>12, <1>13, <2>1 DEF AtBase
  <2>3. QED
    BY <1>7, <1>11, <1>12, <1>13, <2>2 DEF BannersInv
<1>14. ASSUME NEW id \in DOMAIN idToBanner, stack' = <<RemoveFrame(id)>> \o <<CurrentDoneFrame>>,
              NotLeakedBut({} \cup {id})'
       PROVE  AtRemove' /\ stack' \in Seq(Frame)
  <2>1. id \in NotificationId /\ RemoveFrame(id) \in Frame
    BY <1>1, FrameTypes DEF SinkTypes
  <2>2. stack' \in Seq(Frame) /\ OnTop(stack', RemoveFrame(id)) /\ Tail(stack') = <<CurrentDoneFrame>>
    <3>1. PICK frame, base : frame = RemoveFrame(id) /\ base = <<CurrentDoneFrame>>
      OBVIOUS
    <3>2. frame \in Frame /\ base \in Seq(Frame) /\ stack' = <<frame>> \o base
      BY <1>12, <1>14, <2>1, <3>1
    <3>3. QED
      BY <3>1, <3>2, Called
  <2>3. Rests(<<CurrentDoneFrame>>, {id})'
    BY <1>8, <1>9, <1>14 DEF Rests, NotLeakedBut
  <2>4. QED
    BY <1>12, <2>1, <2>2, <2>3 DEF AtRemove
<1>15. QED
  BY <1>5, <1>7, <1>11, <1>13, <1>14 DEF BannersInv

-----------------------------------------------------------------------------
(* The queue is cleared.                                                   *)

\* What is left when banners are forgotten.
LEMMA KnownWithout ==
    ASSUME Known, live' = live, waiting' = waiting, notificationIds' = notificationIds, heap' = heap,
           currentBanner' = currentBanner,
           DOMAIN idToBanner' \subseteq DOMAIN idToBanner,
           \A id \in DOMAIN idToBanner' : idToBanner'[id] = idToBanner[id],
           Mapped' \subseteq Queued' \cup Current, Distinct(bannerQueue)', Queued' \subseteq Queued
    PROVE  Known'
<1>1. waiting' \subseteq DOMAIN live' /\ notificationIds' \subseteq DOMAIN live' \ waiting'
      /\ DOMAIN idToBanner' \subseteq notificationIds'
  BY DEF Known
<1>2. \A id \in DOMAIN idToBanner' : heap'[idToBanner'[id]] = live'[id]
  BY DEF Known
<1>3. \A id, other \in DOMAIN idToBanner' : idToBanner'[id] = idToBanner'[other] => id = other
  BY DEF Known
<1>4. Mapped' \subseteq Queued' \cup Current' /\ currentBanner' \notin Queued'
  BY DEF Known, Current
<1>5. QED
  BY <1>1, <1>2, <1>3, <1>4 DEF Known

LEMMA DeleteCalled ==
    ASSUME NEW f \in Frame, NEW g \in Frame, NEW rest \in Seq(Frame), NEW s, s = <<f, g>> \o rest,
           NEW b, NEW banners, NEW i, NEW kind, NEW base,
           f = DeleteFrame(b), g = ClearFrame(banners), Shows(rest, i, kind, base)
    PROVE  s \in Seq(Frame) /\ Deletes(s, b, i, kind, banners, base)
<1>1. s \in Seq(Frame)
  BY PushedTwo
<1>2. s # <<>> /\ Head(s) = f
  BY PushedTwo
<1>3. Tail(s) # <<>>
  BY PushedTwo
<1>4. Head(Tail(s)) = g
  BY PushedTwo
<1>5. Tail(Tail(s)) = rest
  BY PushedTwo
<1>6. QED
  BY <1>1, <1>2, <1>3, <1>4, <1>5 DEF Deletes, Clears, OnTop

LEMMA ClearOneKeeps ==
    ASSUME BannersInv, NEW i \in DOMAIN live, NEW base \in Bases, NEW banners \in Seq(Banner),
           Clears(stack, i, live[i], banners, base), ScreenFits(base),
           Clearing(banners), HeapHas({}), NotLeakedBut({i}), Adding(i),
           banners # <<>>, NEW rest, rest = Tail(stack),
           BannerDone(Head(banners), <<DeleteFrame(Head(banners)), ClearFrame(Tail(banners))>> \o rest),
           bannerQueue' = bannerQueue, managerVars' = managerVars, notificationIds' = notificationIds,
           heap' = heap, screenVars' = screenVars, lockVars' = lockVars
    PROVE  BannersInv'
<1>1. ManagerTypes /\ SinkTypes /\ RoomLeft /\ ScreenTypes /\ LockTypes /\ Known /\ stack \in Seq(Frame)
  BY TypesTogether DEF BannersInv
<1>2. PICK b, others : b = Head(banners) /\ others = Tail(banners)
  OBVIOUS
<1>3. /\ b \in Banner /\ others \in Seq(Banner) /\ Distinct(others)
      /\ Range(banners) = {b} \cup Range(others) /\ b \notin Range(others)
  BY <1>2, HeadAndTail DEF Clearing
<1>4. PICK next : next = <<DeleteFrame(b), ClearFrame(others)>> \o rest
  OBVIOUS
<1>5. rest \in Seq(Frame) /\ Shows(rest, i, live[i], base)
  BY <1>1, Popped DEF Clears, OnTop
<1>6. next \in Seq(Frame) /\ Deletes(next, b, i, live[i], others, base)
  <2>1. DeleteFrame(b) \in Frame /\ ClearFrame(others) \in Frame
    BY <1>3, FrameTypes
  <2>2. QED
    BY <1>4, <1>5, <2>1, DeleteCalled, Zenon
<1>7. live' = live /\ waiting' = waiting /\ progress' = progress /\ ManagerTypes' /\ LockTypes'
      /\ currentBanner' = currentBanner /\ phase' = phase /\ ScreenTypes'
  BY <1>1, ManagerStays, ScreenStays, LocksStay
<1>8. /\ DOMAIN idToBanner' \subseteq DOMAIN idToBanner
      /\ \A id \in DOMAIN idToBanner' : idToBanner'[id] = idToBanner[id]
      /\ Mapped' = Mapped \ {b}
      /\ \/ stack' = next /\ NotLeakedBut({i})'
         \/ \E id \in DOMAIN idToBanner \ DOMAIN idToBanner' :
               stack' = <<RemoveFrame(id)>> \o next /\ NotLeakedBut({i} \cup {id})'
  <2>1. Mapped \subseteq DOMAIN heap /\ BannerDone(b, next)
    BY <1>2, <1>4 DEF HeapHas
  <2>2. QED
    BY <1>1, <1>7, <2>1, BannerForgotten
<1>9. Queued' = Queued /\ b \in Queued /\ b \in Mapped /\ Range(banners) = Queued \cap Mapped
  BY <1>3 DEF Queued, Clearing
<1>10. b # currentBanner /\ b \notin Current
  BY <1>1, <1>9 DEF Known, Current
<1>11. Known'
  <2>1. Mapped' \subseteq Queued' \cup Current /\ Distinct(bannerQueue)'
    BY <1>1, <1>8, <1>9 DEF Known, Distinct
  <2>2. QED
    BY <1>1, <1>7, <1>8, <1>9, <2>1, KnownWithout
<1>12. HeapHas({b})'
  <2>1. Current' = Current
    BY <1>7 DEF Current
  <2>2. QED
    BY <1>8, <1>9, <1>10, <2>1 DEF HeapHas
<1>13. Clearing(others)'
  <2>1. Range(others) = Queued' \cap Mapped'
    BY <1>3, <1>8, <1>9
  <2>2. QED
    BY <1>3, <2>1 DEF Clearing, Distinct
<1>14. ScreenFits(base)'
  <2>1. Served => Served'
    BY DEF Served, WindowServes, screenVars
  <2>2. Ended => Ended'
    BY <1>7, <1>8 DEF Ended
  <2>3. QED
    BY <2>1, <2>2 DEF ScreenFits
<1>15. Adding(i)' /\ i \in DOMAIN live'
  BY <1>7 DEF Adding
<1>16. SinkTypes'
  BY <1>1, <1>8 DEF SinkTypes
<1>17. i \in NotificationId /\ i \notin DOMAIN idToBanner'
  BY <1>1, <1>8 DEF Adding, Known, ManagerTypes
<1>18. stack' \in Seq(Frame) => TypeOK'
  BY <1>7, <1>12, <1>16, <1>17, RoomMeanwhileNext, TypesTogetherNext
<1>19. CASE stack' = next /\ NotLeakedBut({i})'
  <2>1. Deletes(stack', b, i, live'[i], others, base)
    BY <1>6, <1>7, <1>19
  <2>2. AtDelete'
    BY <1>3, <1>12, <1>13, <1>14, <1>15, <1>19, <2>1 DEF AtDelete
  <2>3. QED
    BY <1>6, <1>11, <1>18, <1>19, <2>2 DEF BannersInv
<1>20. ASSUME NEW id \in DOMAIN idToBanner \ DOMAIN idToBanner',
              stack' = <<RemoveFrame(id)>> \o next, NotLeakedBut({i} \cup {id})'
       PROVE  AtRemoveThenDelete' /\ stack' \in Seq(Frame)
  <2>1. id \in NotificationId /\ id \in notificationIds' \ DOMAIN idToBanner'
    BY <1>1 DEF SinkTypes, Known
  <2>2. RemoveFrame(id) \in Frame
    BY <2>1, FrameTypes
  <2>3. stack' \in Seq(Frame) /\ OnTop(stack', RemoveFrame(id)) /\ Tail(stack') = next
    BY <1>6, <1>20, <2>2, Called
  <2>4. Deletes(Tail(stack'), b, i, live'[i], others, base)
    BY <1>6, <1>7, <2>3
  <2>5. NotLeakedBut({i, id})'
    BY <1>20 DEF NotLeakedBut
  <2>6. AtRemoveThenDelete'
    BY <1>3, <1>12, <1>13, <1>14, <1>15, <2>1, <2>3, <2>4, <2>5 DEF AtRemoveThenDelete
  <2>7. QED
    BY <2>3, <2>6
<1>21. QED
  BY <1>8, <1>11, <1>18, <1>19, <1>20 DEF BannersInv

LEMMA ClearEndKeeps ==
    ASSUME BannersInv, NEW i \in DOMAIN live, NEW base \in Bases,
           Clears(stack, i, live[i], <<>>, base), ScreenFits(base),
           Clearing(<<>>), HeapHas({}), NotLeakedBut({i}), Adding(i),
           NEW rest, rest = Tail(stack), bannerQueue' = <<>>,
           \/ /\ phase # "disappeared"
              /\ BannerDone(currentBanner, <<CurrentDoneFrame>> \o rest)
              /\ phase' = "disappeared"
           \/ /\ phase # "shown"
              /\ stack' = rest
              /\ UNCHANGED <<idToBanner, phase>>,
           managerVars' = managerVars, notificationIds' = notificationIds,
           heap' = heap, currentBanner' = currentBanner, bannerTimer' = bannerTimer,
           window' = window, onDisplay' = onDisplay, lockVars' = lockVars
    PROVE  BannersInv'
<1>1. ManagerTypes /\ SinkTypes /\ RoomLeft /\ ScreenTypes /\ LockTypes /\ Known /\ stack \in Seq(Frame)
  BY TypesTogether DEF BannersInv
<1>2. rest \in Seq(Frame) /\ Shows(rest, i, live[i], base)
  BY <1>1, Popped DEF Clears, OnTop
<1>3. live' = live /\ waiting' = waiting /\ progress' = progress /\ ManagerTypes' /\ LockTypes'
  BY <1>1, ManagerStays, LocksStay
<1>4. Queued' = {} /\ Distinct(bannerQueue)' /\ QueueOwned' /\ Current' = Current
  <2>1. DOMAIN bannerQueue' = {}
    OBVIOUS
  <2>2. QED
    BY <2>1 DEF Queued, Distinct, QueueOwned, Current
<1>5. Mapped \subseteq Current
  <2>1. Range(<<>>) = {}
    BY DEF Range
  <2>2. QED
    BY <1>1, <2>1 DEF Clearing, Known
<1>6. Adding(i)' /\ i \in DOMAIN live'
  BY <1>3 DEF Adding
<1>7. SinkTypes /\ DOMAIN idToBanner' \subseteq DOMAIN idToBanner
      /\ (\A id \in DOMAIN idToBanner' : idToBanner'[id] = idToBanner[id]) => SinkTypes'
  BY <1>1 DEF SinkTypes
<1>8. CASE phase # "shown" /\ stack' = rest /\ idToBanner' = idToBanner /\ phase' = phase
  <2>1. Mapped' = Mapped
    BY <1>8 DEF Mapped
  <2>2. Known'
    BY <1>1, <1>3, <1>4, <1>5, <1>8, <2>1, KnownWithout
  <2>3. HeapHas({})'
    BY <1>4, <2>1 DEF HeapHas
  <2>4. ScreenFits(base)'
    <3>1. Served => Served'
      BY <1>8 DEF Served, WindowServes
    <3>2. Ended => Ended'
      BY <1>8, <2>1 DEF Ended
    <3>3. QED
      BY <3>1, <3>2 DEF ScreenFits
  <2>5. Rests(base, {i})'
    BY <1>3, <1>4, <1>8, <2>3, <2>4, NotificationsStay DEF Rests
  <2>6. AtShow'
    BY <1>2, <1>3, <1>6, <1>8, <2>5 DEF AtShow
  <2>7. SinkTypes' /\ ScreenTypes' /\ stack' \in Seq(Frame)
    BY <1>1, <1>2, <1>7, <1>8 DEF ScreenTypes
  <2>8. TypeOK'
    BY <1>3, <2>3, <2>7, RoomAtRestNext, TypesTogetherNext
  <2>9. QED
    BY <2>2, <2>6, <2>8 DEF BannersInv
<1>9. CASE /\ phase # "disappeared" /\ phase' = "disappeared"
           /\ BannerDone(currentBanner, <<CurrentDoneFrame>> \o rest)
  <2>1. base = <<>> /\ Served
    BY <1>9 DEF ScreenFits, Ended
  <2>2. currentBanner # NoBanner
    BY <1>9, <2>1 DEF Served
  <2>3. PICK next : next = <<CurrentDoneFrame>> \o rest
    OBVIOUS
  <2>4. next \in Seq(Frame) /\ EndsThenShows(next, i, live'[i])
    <3>1. CurrentDoneFrame \in Frame
      BY FrameTypes
    <3>2. next \in Seq(Frame) /\ next # <<>> /\ Head(next) = CurrentDoneFrame /\ Tail(next) = rest
      BY <1>2, <2>3, <3>1, Pushed
    <3>3. QED
      BY <1>2, <1>3, <2>1, <3>2 DEF EndsThenShows, OnTop
  <2>5. /\ DOMAIN idToBanner' \subseteq DOMAIN idToBanner
        /\ \A id \in DOMAIN idToBanner' : idToBanner'[id] = idToBanner[id]
        /\ Mapped' = Mapped \ {currentBanner}
        /\ \/ stack' = next /\ NotLeakedBut({i})'
           \/ \E id \in DOMAIN idToBanner \ DOMAIN idToBanner' :
                 stack' = <<RemoveFrame(id)>> \o next /\ NotLeakedBut({i} \cup {id})'
    <3>1. Mapped \subseteq DOMAIN heap /\ BannerDone(currentBanner, next)
      BY <1>9, <2>3 DEF HeapHas
    <3>2. QED
      BY <1>1, <1>3, <3>1, BannerForgotten
  <2>6. Known'
    BY <1>1, <1>3, <1>4, <1>5, <2>5, KnownWithout
  <2>7. HeapHas({})'
    BY <1>4, <1>5, <2>2, <2>5 DEF HeapHas, Current
  <2>8. ScreenFits(<<CurrentDoneFrame>>)'
    BY <1>9, <2>2, <2>5, EndStack DEF ScreenFits, Ended
  <2>9. SinkTypes' /\ ScreenTypes'
    BY <1>1, <1>7, <1>9, <2>5 DEF ScreenTypes
  <2>10. stack' \in Seq(Frame) => TypeOK'
    BY <1>3, <2>7, <2>9, RoomAtRestNext, TypesTogetherNext
  <2>11. CASE stack' = next /\ NotLeakedBut({i})'
    <3>1. Rests(<<CurrentDoneFrame>>, {i})'
      BY <1>4, <2>7, <2>8, <2>11 DEF Rests
    <3>2. AtEnd'
      BY <1>6, <2>4, <2>11, <3>1 DEF AtEnd
    <3>3. QED
      BY <2>4, <2>6, <2>10, <2>11, <3>2 DEF BannersInv
  <2>12. ASSUME NEW id \in DOMAIN idToBanner \ DOMAIN idToBanner',
                stack' = <<RemoveFrame(id)>> \o next, NotLeakedBut({i} \cup {id})'
         PROVE  AtRemoveThenEnd' /\ stack' \in Seq(Frame)
    <3>1. id \in NotificationId /\ id \in notificationIds' \ DOMAIN idToBanner'
      BY <1>1 DEF SinkTypes, Known
    <3>2. RemoveFrame(id) \in Frame
      BY <3>1, FrameTypes
    <3>3. stack' \in Seq(Frame) /\ OnTop(stack', RemoveFrame(id)) /\ Tail(stack') = next
      BY <2>4, <2>12, <3>2, Called
    <3>4. NotLeakedBut({i, id})'
      BY <2>12 DEF NotLeakedBut
    <3>5. Rests(<<CurrentDoneFrame>>, {i, id})'
      BY <1>4, <2>7, <2>8, <3>4 DEF Rests
    <3>6. EndsThenShows(Tail(stack'), i, live'[i])
      BY <2>4, <3>3
    <3>7. AtRemoveThenEnd'
      BY <1>6, <3>1, <3>3, <3>5, <3>6 DEF AtRemoveThenEnd
    <3>8. QED
      BY <3>3, <3>7
  <2>13. QED
    BY <2>5, <2>6, <2>10, <2>11, <2>12 DEF BannersInv
<1>10. QED
  BY <1>8, <1>9

LEMMA ClearQueueKeeps ==
    ASSUME BannersInv, ClearQueue
    PROVE  BannersInv'
<1>1. Top("clear")
  BY DEF ClearQueue
<1>2. PICK i \in DOMAIN live, base \in Bases, banners \in Seq(Banner) :
        /\ Clears(stack, i, live[i], banners, base) /\ ScreenFits(base)
        /\ Clearing(banners) /\ HeapHas({}) /\ NotLeakedBut({i}) /\ Adding(i)
  BY <1>1, ShapeCases DEF AtClear
<1>3. Head(stack).banners = banners
  BY <1>2, FrameFields DEF Clears, OnTop
<1>4. PICK rest : rest = Tail(stack)
  OBVIOUS
<1>5. /\ \/ /\ banners # <<>>
            /\ BannerDone(Head(banners), <<DeleteFrame(Head(banners)), ClearFrame(Tail(banners))>> \o rest)
            /\ bannerQueue' = bannerQueue /\ phase' = phase
         \/ /\ banners = <<>> /\ bannerQueue' = <<>>
            /\ \/ /\ phase # "disappeared"
                  /\ BannerDone(currentBanner, <<CurrentDoneFrame>> \o rest)
                  /\ phase' = "disappeared"
               \/ /\ phase # "shown"
                  /\ stack' = rest
                  /\ UNCHANGED <<idToBanner, phase>>
      /\ managerVars' = managerVars /\ notificationIds' = notificationIds
      /\ heap' = heap /\ currentBanner' = currentBanner /\ bannerTimer' = bannerTimer
      /\ window' = window /\ onDisplay' = onDisplay /\ lockVars' = lockVars
  BY <1>3, <1>4 DEF ClearQueue
<1>6. CASE banners # <<>>
  <2>1. screenVars' = screenVars
    BY <1>5, <1>6 DEF screenVars
  <2>2. QED
    BY <1>2, <1>4, <1>5, <1>6, <2>1, ClearOneKeeps
<1>7. CASE banners = <<>>
  <2>1. Clears(stack, i, live[i], <<>>, base) /\ Clearing(<<>>)
    BY <1>2, <1>7
  <2>2. QED
    BY <1>2, <1>4, <1>5, <1>7, <2>1, ClearEndKeeps
<1>8. QED
  BY <1>6, <1>7

-----------------------------------------------------------------------------
(* A notification is removed.                                              *)

LEMMA NothingLeft ==
    ASSUME NEW T, NEW r \in Seq(T), Range(r) = {}
    PROVE  r = <<>>
<1>1. ASSUME Len(r) # 0
      PROVE  FALSE
  <2>1. 1 \in DOMAIN r
    BY <1>1
  <2>2. r[1] \in Range(r)
    BY <2>1 DEF Range
  <2>3. QED
    BY <2>2
<1>2. QED
  BY <1>1

\* A banner in the queue is taken out of it and deleted, the one on the screen
\* is made to disappear.
LEMMA SinkRemoves ==
    ASSUME SinkTypes, ScreenTypes, Known, QueueOwned, HeapHas({}), NEW base \in Bases, ScreenFits(base),
           NEW j \in NotificationId, j \notin waiting,
           RemoveFromSink(j), live' = Without(live, j), waiting' \subseteq waiting,
           currentBanner' = currentBanner, window' = window, onDisplay' = onDisplay
    PROVE  /\ SinkTypes' /\ ScreenTypes' /\ Known' /\ QueueOwned' /\ HeapHas({})' /\ ScreenFits(base)'
           /\ DOMAIN idToBanner' = DOMAIN idToBanner \ {j}
           /\ notificationIds' = notificationIds \ {j}
<1>1. notificationIds' = notificationIds \ {j} /\ RemoveBanner(j) /\ idToBanner' = Without(idToBanner, j)
  BY DEF RemoveFromSink, RemoveBanner
<1>2. /\ DOMAIN idToBanner' = DOMAIN idToBanner \ {j}
      /\ \A x \in DOMAIN idToBanner' : idToBanner'[x] = idToBanner[x]
  BY <1>1 DEF Without, Restrict
<1>3. DOMAIN live' = DOMAIN live \ {j} /\ \A x \in DOMAIN live' : live'[x] = live[x]
  BY DEF Without, Restrict
<1>4. waiting' \subseteq DOMAIN live' /\ notificationIds' \subseteq DOMAIN live' \ waiting'
      /\ DOMAIN idToBanner' \subseteq notificationIds'
  BY <1>1, <1>2, <1>3 DEF Known
<1>5. \A id, other \in DOMAIN idToBanner' : idToBanner'[id] = idToBanner'[other] => id = other
  BY <1>2 DEF Known
<1>6. \A id \in DOMAIN idToBanner' : heap[idToBanner'[id]] = live'[id]
  <2>1. \A id \in DOMAIN idToBanner' : id \in DOMAIN live' /\ id \in DOMAIN idToBanner
    BY <1>2, <1>4
  <2>2. QED
    BY <1>2, <1>3, <2>1 DEF Known
<1>7. Current' = Current
  BY DEF Current
<1>8. CASE j \notin DOMAIN idToBanner
  <2>1. bannerQueue' = bannerQueue /\ heap' = heap /\ bannerTimer' = bannerTimer /\ phase' = phase
    BY <1>1, <1>8 DEF RemoveBanner
  <2>2. Mapped' = Mapped /\ Queued' = Queued
    BY <1>2, <1>8, <2>1 DEF Mapped, Queued
  <2>3. Known'
    BY <1>4, <1>5, <1>6, <1>7, <2>1, <2>2 DEF Known, Distinct
  <2>4. QueueOwned' /\ HeapHas({})'
    BY <1>7, <2>1, <2>2 DEF QueueOwned, HeapHas
  <2>5. ScreenFits(base)'
    BY <2>1, <2>2 DEF ScreenFits, Served, Ended, WindowServes
  <2>6. SinkTypes' /\ ScreenTypes'
    BY <1>1, <1>2, <2>1 DEF SinkTypes, ScreenTypes
  <2>7. QED
    BY <1>1, <1>2, <2>3, <2>4, <2>5, <2>6
<1>9. ASSUME j \in DOMAIN idToBanner
      PROVE  Mapped' = Mapped \ {idToBanner[j]} /\ idToBanner[j] \in Mapped
  <2>1. \A x \in DOMAIN idToBanner : x # j => idToBanner[x] # idToBanner[j]
    BY <1>9 DEF Known
  <2>2. QED
    BY <1>2, <1>9, <2>1 DEF Mapped
<1>10. CASE j \in DOMAIN idToBanner /\ idToBanner[j] = currentBanner
  <2>1. /\ bannerTimer' = FALSE /\ phase' = (IF phase = "shown" THEN "disappearing" ELSE phase)
        /\ bannerQueue' = bannerQueue /\ heap' = heap
    BY <1>1, <1>10 DEF RemoveBanner, DisappearCurrent
  <2>2. Mapped' = Mapped \ {currentBanner} /\ currentBanner \in Mapped
    BY <1>9, <1>10
  <2>3. Queued' = Queued
    BY <2>1 DEF Queued
  <2>4. currentBanner \in Current
    <3>1. currentBanner \in Banner /\ NoBanner \notin Banner
      BY <1>10, ConstantsAssumption DEF SinkTypes, NoBanner, Banner
    <3>2. QED
      BY <3>1 DEF Current
  <2>5. Known'
    BY <1>4, <1>5, <1>6, <1>7, <2>1, <2>2, <2>3 DEF Known, Distinct
  <2>6. QueueOwned'
    BY <2>2, <2>3 DEF QueueOwned, Known
  <2>7. HeapHas({})'
    BY <1>7, <2>1, <2>2, <2>4 DEF HeapHas
  <2>8. ScreenFits(base)'
    <3>1. Served
      BY <2>2 DEF ScreenFits, Ended
    <3>2. base = <<>>
      BY <2>2 DEF ScreenFits, Ended
    <3>3. currentBanner # NoBanner
      BY <2>4 DEF Current
    <3>4. Served'
      BY <2>1, <3>1, <3>3 DEF Served
    <3>5. QED
      BY <3>2, <3>4 DEF ScreenFits
  <2>9. SinkTypes' /\ ScreenTypes'
    BY <1>1, <1>2, <2>1 DEF SinkTypes, ScreenTypes
  <2>10. QED
    BY <1>1, <1>2, <2>5, <2>6, <2>7, <2>8, <2>9
<1>11. CASE j \in DOMAIN idToBanner /\ idToBanner[j] # currentBanner
  <2>1. PICK b : b = idToBanner[j]
    OBVIOUS
  <2>2. /\ bannerQueue' = Removed(bannerQueue, b) /\ heap' = Without(heap, b)
        /\ bannerTimer' = bannerTimer /\ phase' = phase
    BY <1>1, <1>11, <2>1 DEF RemoveBanner
  <2>3. DOMAIN heap' = DOMAIN heap \ {b} /\ \A x \in DOMAIN heap' : heap'[x] = heap[x]
    BY <2>2 DEF Without, Restrict
  <2>4. Mapped' = Mapped \ {b} /\ b \in Mapped /\ b \notin Current
    BY <1>9, <1>11, <2>1 DEF Current
  <2>5. PICK r : r = bannerQueue'
    OBVIOUS
  <2>6. bannerQueue \in Seq(Banner) /\ r = Removed(bannerQueue, b)
        /\ \A m, n \in DOMAIN bannerQueue : bannerQueue[m] = bannerQueue[n] => m = n
    BY <2>2, <2>5 DEF SinkTypes, Known, Distinct
  <2>7. r \in Seq(Banner \ {b}) /\ Range(r) = Range(bannerQueue) \ {b}
    BY <2>6, RemovedFromList
  <2>8. \A m, n \in DOMAIN r : r[m] = r[n] => m = n
    BY <2>6, RemovedDistinct
  <2>9. r \in Seq(Banner)
    BY <2>7
  <2>10. Queued' = Queued \ {b}
    BY <2>5, <2>7 DEF Queued, Range
  <2>11. Distinct(bannerQueue)'
    BY <2>5, <2>8 DEF Distinct
  <2>12. Known'
    <3>1. \A id \in DOMAIN idToBanner' : idToBanner'[id] \in DOMAIN heap'
      <4>1. \A id \in DOMAIN idToBanner' : idToBanner'[id] \in Mapped'
        BY DEF Mapped
      <4>2. QED
        BY <2>3, <2>4, <4>1 DEF HeapHas
    <3>2. \A id \in DOMAIN idToBanner' : heap'[idToBanner'[id]] = live'[id]
      BY <1>6, <2>3, <3>1
    <3>3. Mapped' \subseteq Queued' \cup Current' /\ currentBanner' \notin Queued'
      BY <1>7, <2>4, <2>10 DEF Known
    <3>4. QED
      BY <1>4, <1>5, <2>11, <3>2, <3>3 DEF Known
  <2>13. QueueOwned'
    BY <2>4, <2>10 DEF QueueOwned
  <2>14. HeapHas({})'
    BY <1>7, <2>3, <2>4 DEF HeapHas
  <2>15. ScreenFits(base)'
    <3>1. bannerQueue = <<>> => bannerQueue' = <<>>
      <4>1. bannerQueue = <<>> => Range(bannerQueue) = {}
        BY DEF Range
      <4>2. QED
        BY <2>5, <2>7, <2>9, <4>1, NothingLeft
    <3>2. Served => Served'
      BY <2>2, <3>1 DEF Served, WindowServes
    <3>3. Ended => Ended'
      BY <2>2, <2>4 DEF Ended
    <3>4. QED
      BY <3>2, <3>3 DEF ScreenFits
  <2>16. SinkTypes'
    BY <1>1, <1>2, <2>3, <2>5, <2>9 DEF SinkTypes
  <2>17. ScreenTypes'
    BY <2>2 DEF ScreenTypes
  <2>18. QED
    BY <1>1, <1>2, <2>12, <2>13, <2>14, <2>15, <2>16, <2>17
<1>12. QED
  BY <1>8, <1>10, <1>11

\* The removal of a notification that was not announced, or does not exist.
LEMMA RemovedUnheard ==
    ASSUME BannersInv, NEW j \in NotificationId, j \notin DOMAIN live \ waiting,
           DOMAIN live' = DOMAIN live \ {j}, \A x \in DOMAIN live' : live'[x] = live[x],
           waiting' = waiting \ {j}, progress' = progress,
           bannerVars' = bannerVars, screenVars' = screenVars, lockVars' = lockVars
    PROVE  /\ Known' /\ (stack' \in Seq(Frame) => TypeOK')
           /\ \A base \in Bases : Rests(base, {j}) => Rests(base, {})'
<1>1. ManagerTypes /\ SinkTypes /\ RoomLeft /\ ScreenTypes /\ LockTypes /\ Known /\ stack \in Seq(Frame)
  BY TypesTogether DEF BannersInv
<1>2. /\ Mapped' = Mapped /\ Queued' = Queued /\ bannerQueue' = bannerQueue
      /\ idToBanner' = idToBanner /\ heap' = heap /\ notificationIds' = notificationIds
      /\ currentBanner' = currentBanner
  BY BannersStay, ScreenStays
<1>3. j \notin notificationIds /\ j \notin DOMAIN idToBanner
  BY <1>1 DEF Known
<1>4. Known'
  <2>1. waiting' \subseteq DOMAIN live' /\ notificationIds' \subseteq DOMAIN live' \ waiting'
        /\ DOMAIN idToBanner' \subseteq notificationIds'
    BY <1>1, <1>2, <1>3 DEF Known
  <2>2. \A id \in DOMAIN idToBanner' : heap'[idToBanner'[id]] = live'[id]
    BY <1>1, <1>2, <1>3, <2>1 DEF Known
  <2>3. QED
    BY <1>1, <1>2, <2>1, <2>2 DEF Known, Current, Distinct
<1>5. ManagerTypes' /\ LockTypes'
  BY <1>1, LocksStay DEF ManagerTypes
<1>6. ASSUME NEW base \in Bases, Rests(base, {j})
      PROVE  Rests(base, {})'
  <2>1. ScreenFits(base) /\ QueueOwned /\ HeapHas({}) /\ NotLeakedBut({j})
    BY <1>6 DEF Rests
  <2>2. ScreenFits(base)'
    BY <1>2, <2>1, ScreenStays
  <2>3. QueueOwned' /\ HeapHas({})'
    BY <1>2, <2>1 DEF QueueOwned, HeapHas, Current
  <2>4. NotLeakedBut({})'
    BY <1>2, <2>1 DEF NotLeakedBut
  <2>5. QED
    BY <2>2, <2>3, <2>4 DEF Rests
<1>7. QED
  BY <1>4, <1>5, <1>6, TypesKept

\* The cases of a removal.
LEMMA RemoveCases ==
    ASSUME BannersInv, RunRemove, NEW j \in NotificationId, OnTop(stack, RemoveFrame(j)),
           NEW rest, rest = Tail(stack)
    PROVE  /\ lockVars' = lockVars /\ currentBanner' = currentBanner
           /\ window' = window /\ onDisplay' = onDisplay
           /\ DOMAIN live' = DOMAIN live \ {j} /\ \A x \in DOMAIN live' : live'[x] = live[x]
           /\ \/ /\ j \notin DOMAIN live \ waiting /\ waiting' = waiting \ {j} /\ progress' = progress
                 /\ bannerVars' = bannerVars /\ screenVars' = screenVars /\ stack' = rest
              \/ /\ j \in DOMAIN live \ waiting /\ live' = Without(live, j) /\ RemoveFromSink(j)
                 /\ \/ progress = j /\ progress' = 0 /\ Relay(rest)
                    \/ progress # j /\ progress' = progress /\ waiting' = waiting /\ stack' = rest
<1>1. Head(stack).id = j
  BY FrameFields DEF OnTop
<1>2. waiting \subseteq DOMAIN live
  BY DEF BannersInv, Known
<1>3. /\ lockVars' = lockVars /\ currentBanner' = currentBanner
      /\ window' = window /\ onDisplay' = onDisplay
      /\ IF j \notin DOMAIN live
         THEN stack' = rest /\ UNCHANGED <<managerVars, bannerVars, bannerTimer, phase>>
         ELSE /\ live' = Without(live, j)
              /\ IF j \in waiting
                 THEN /\ waiting' = waiting \ {j}
                      /\ stack' = rest
                      /\ UNCHANGED <<progress, bannerVars, bannerTimer, phase>>
                 ELSE /\ RemoveFromSink(j)
                      /\ IF progress = j
                         THEN progress' = 0 /\ Relay(rest)
                         ELSE stack' = rest /\ UNCHANGED <<progress, waiting>>
  BY <1>1 DEF RunRemove
<1>4. CASE j \notin DOMAIN live
  <2>1. /\ stack' = rest /\ live' = live /\ waiting' = waiting /\ progress' = progress
        /\ bannerVars' = bannerVars /\ screenVars' = screenVars
    BY <1>3, <1>4 DEF managerVars, screenVars
  <2>2. waiting' = waiting \ {j} /\ DOMAIN live' = DOMAIN live \ {j}
    BY <1>2, <1>4, <2>1
  <2>3. QED
    BY <1>3, <1>4, <2>1, <2>2
<1>5. CASE j \in DOMAIN live
  <2>1. DOMAIN live' = DOMAIN live \ {j} /\ \A x \in DOMAIN live' : live'[x] = live[x]
    BY <1>3, <1>5 DEF Without, Restrict
  <2>2. CASE j \in waiting
    <3>1. /\ stack' = rest /\ waiting' = waiting \ {j} /\ progress' = progress
          /\ bannerVars' = bannerVars /\ screenVars' = screenVars
      BY <1>3, <1>5, <2>2 DEF screenVars
    <3>2. QED
      BY <1>3, <2>1, <2>2, <3>1
  <2>3. CASE j \notin waiting
    BY <1>3, <1>5, <2>1, <2>3
  <2>4. QED
    BY <2>2, <2>3
<1>6. QED
  BY <1>4, <1>5

\* The removal of a notification that was announced, between calls.
LEMMA RemovedHeard ==
    ASSUME BannersInv, NEW j \in NotificationId, j \in DOMAIN live \ waiting,
           live' = Without(live, j), RemoveFromSink(j), waiting' \subseteq waiting,
           progress' = progress \/ progress' = 0,
           currentBanner' = currentBanner, window' = window, onDisplay' = onDisplay, lockVars' = lockVars,
           NEW base \in Bases, Rests(base, {j})
    PROVE  /\ Known' /\ (stack' \in Seq(Frame) => TypeOK')
           /\ ScreenFits(base)' /\ QueueOwned' /\ HeapHas({})'
           /\ notificationIds' = notificationIds \ {j} /\ waiting \subseteq DOMAIN live'
           /\ \A id \in DOMAIN live' \ waiting : live'[id] = "system" => id \in DOMAIN idToBanner'
<1>1. ManagerTypes /\ SinkTypes /\ RoomLeft /\ ScreenTypes /\ LockTypes /\ Known /\ stack \in Seq(Frame)
  BY TypesTogether DEF BannersInv
<1>2. ScreenFits(base) /\ QueueOwned /\ HeapHas({}) /\ NotLeakedBut({j})
  BY DEF Rests
<1>3. /\ SinkTypes' /\ ScreenTypes' /\ Known' /\ QueueOwned' /\ HeapHas({})' /\ ScreenFits(base)'
      /\ DOMAIN idToBanner' = DOMAIN idToBanner \ {j}
      /\ notificationIds' = notificationIds \ {j}
  BY <1>1, <1>2, SinkRemoves
<1>4. DOMAIN live' = DOMAIN live \ {j} /\ \A x \in DOMAIN live' : live'[x] = live[x]
  BY DEF Without, Restrict
<1>5. \A id \in DOMAIN live' \ waiting : live'[id] = "system" => id \in DOMAIN idToBanner'
  BY <1>2, <1>3, <1>4 DEF NotLeakedBut
<1>6. waiting \subseteq DOMAIN live'
  BY <1>1, <1>4 DEF Known
<1>7. ManagerTypes' /\ LockTypes'
  BY <1>1, <1>4, LocksStay, ConstantsAssumption DEF ManagerTypes
<1>8. stack' \in Seq(Frame) => TypeOK'
  BY <1>3, <1>7, RoomAtRestNext, TypesTogetherNext
<1>9. QED
  BY <1>3, <1>5, <1>6, <1>8

LEMMA RemoveAtBaseKeeps ==
    ASSUME BannersInv, RunRemove, AtRemove
    PROVE  BannersInv'
<1>1. PICK j \in NotificationId :
        OnTop(stack, RemoveFrame(j)) /\ Tail(stack) \in Bases /\ Rests(Tail(stack), {j})
  BY DEF AtRemove
<1>2. PICK base : base = Tail(stack)
  OBVIOUS
<1>3. base \in Bases /\ Rests(base, {j}) /\ base \in Seq(Frame)
  BY <1>1, <1>2, EndStack
<1>4. /\ lockVars' = lockVars /\ currentBanner' = currentBanner
      /\ window' = window /\ onDisplay' = onDisplay
      /\ DOMAIN live' = DOMAIN live \ {j} /\ \A x \in DOMAIN live' : live'[x] = live[x]
      /\ \/ /\ j \notin DOMAIN live \ waiting /\ waiting' = waiting \ {j} /\ progress' = progress
            /\ bannerVars' = bannerVars /\ screenVars' = screenVars /\ stack' = base
         \/ /\ j \in DOMAIN live \ waiting /\ live' = Without(live, j) /\ RemoveFromSink(j)
            /\ \/ progress = j /\ progress' = 0 /\ Relay(base)
               \/ progress # j /\ progress' = progress /\ waiting' = waiting /\ stack' = base
  BY <1>1, <1>2, RemoveCases
<1>5. CASE j \notin DOMAIN live \ waiting
  <2>1. Known' /\ (stack' \in Seq(Frame) => TypeOK') /\ Rests(base, {})'
    BY <1>3, <1>4, <1>5, RemovedUnheard
  <2>2. stack' = base
    BY <1>4, <1>5
  <2>3. AtBase'
    BY <1>3, <2>1, <2>2 DEF AtBase
  <2>4. QED
    BY <1>3, <2>1, <2>2, <2>3 DEF BannersInv
<1>6. CASE j \in DOMAIN live \ waiting
  <2>1. waiting' \subseteq waiting /\ (progress' = progress \/ progress' = 0)
    BY <1>4, <1>6 DEF Relay
  <2>2. /\ Known' /\ (stack' \in Seq(Frame) => TypeOK')
        /\ ScreenFits(base)' /\ QueueOwned' /\ HeapHas({})'
        /\ notificationIds' = notificationIds \ {j} /\ waiting \subseteq DOMAIN live'
        /\ \A id \in DOMAIN live' \ waiting : live'[id] = "system" => id \in DOMAIN idToBanner'
    BY <1>3, <1>4, <1>6, <2>1, RemovedHeard
  <2>3. CASE progress' = 0 /\ Relay(base)
    <3>1. waiting \subseteq NotificationId /\ notificationIds' \cap waiting = {}
      BY <2>2, TypesTogether DEF BannersInv, ManagerTypes, Known
    <3>2. (AtBase' \/ AtAdd') /\ stack' \in Seq(Frame)
      BY <1>3, <2>2, <2>3, <3>1, RelayKeeps
    <3>3. QED
      BY <2>2, <3>2 DEF BannersInv
  <2>4. CASE waiting' = waiting /\ stack' = base
    <3>1. Rests(base, {})'
      BY <2>2, <2>4 DEF Rests, NotLeakedBut
    <3>2. AtBase'
      BY <1>3, <2>4, <3>1 DEF AtBase
    <3>3. QED
      BY <1>3, <2>2, <2>4, <3>2 DEF BannersInv
  <2>5. QED
    BY <1>4, <1>6, <2>3, <2>4
<1>7. QED
  BY <1>5, <1>6

LEMMA RejectKeeps ==
    ASSUME BannersInv, RunRemove, AtReject
    PROVE  BannersInv'
<1>1. PICK i \in NotificationId, base \in Bases :
        /\ OnTop(stack, RemoveFrame(i)) /\ Submits(Tail(stack), i, base) /\ Rests(base, {i}) /\ progress = 0
  BY DEF AtReject
<1>2. PICK rest : rest = Tail(stack)
  OBVIOUS
<1>3. Submits(rest, i, base) /\ rest \in Seq(Frame)
  <2>1. stack \in Seq(Frame) /\ stack # <<>>
    BY <1>1, TypesTogether DEF BannersInv, OnTop
  <2>2. QED
    BY <1>1, <1>2, <2>1, Popped
<1>4. 0 # i
  BY ConstantsAssumption DEF NotificationId
<1>5. /\ lockVars' = lockVars /\ currentBanner' = currentBanner
      /\ window' = window /\ onDisplay' = onDisplay
      /\ DOMAIN live' = DOMAIN live \ {i} /\ \A x \in DOMAIN live' : live'[x] = live[x]
      /\ \/ /\ i \notin DOMAIN live \ waiting /\ waiting' = waiting \ {i} /\ progress' = progress
            /\ bannerVars' = bannerVars /\ screenVars' = screenVars /\ stack' = rest
         \/ /\ i \in DOMAIN live \ waiting /\ live' = Without(live, i) /\ RemoveFromSink(i)
            /\ progress' = progress /\ waiting' = waiting /\ stack' = rest
  BY <1>1, <1>2, <1>4, RemoveCases
<1>6. Known' /\ (stack' \in Seq(Frame) => TypeOK') /\ Rests(base, {})'
  <2>1. CASE i \notin DOMAIN live \ waiting
    BY <1>1, <1>5, <2>1, RemovedUnheard
  <2>2. CASE i \in DOMAIN live \ waiting
    <3>1. /\ Known' /\ (stack' \in Seq(Frame) => TypeOK')
          /\ ScreenFits(base)' /\ QueueOwned' /\ HeapHas({})'
          /\ \A id \in DOMAIN live' \ waiting : live'[id] = "system" => id \in DOMAIN idToBanner'
      BY <1>1, <1>5, <2>2, RemovedHeard
    <3>2. Rests(base, {})'
      BY <1>5, <2>2, <3>1 DEF Rests, NotLeakedBut
    <3>3. QED
      BY <3>1, <3>2
  <2>3. QED
    BY <2>1, <2>2
<1>7. stack' = rest /\ progress' = 0
  BY <1>1, <1>5
<1>8. AtSubmit'
  BY <1>1, <1>3, <1>6, <1>7 DEF AtSubmit
<1>9. QED
  BY <1>3, <1>6, <1>7, <1>8 DEF BannersInv

\* The removal of a notification whose banner is done with.
LEMMA SinkForgets ==
    ASSUME BannersInv, NEW i, Adding(i), NEW j \in notificationIds \ DOMAIN idToBanner,
           RunRemove, OnTop(stack, RemoveFrame(j))
    PROVE  /\ Known' /\ ManagerTypes' /\ LockTypes' /\ SinkTypes' /\ ScreenTypes'
           /\ stack' = Tail(stack) /\ i # j /\ i \in NotificationId /\ i \notin DOMAIN idToBanner'
           /\ Adding(i)' /\ i \in DOMAIN live' /\ live'[i] = live[i]
           /\ NotLeakedBut({i, j}) => NotLeakedBut({i})'
           /\ \A base : ScreenFits(base) => ScreenFits(base)'
           /\ \A banners : Clearing(banners) => Clearing(banners)'
           /\ \A deleted : HeapHas(deleted) => HeapHas(deleted)'
           /\ QueueOwned => QueueOwned'
<1>1. ManagerTypes /\ SinkTypes /\ RoomLeft /\ ScreenTypes /\ LockTypes /\ Known /\ stack \in Seq(Frame)
  BY TypesTogether DEF BannersInv
<1>2. j \in DOMAIN live \ waiting /\ j \in NotificationId /\ i # j /\ progress = 0 /\ 0 # j
  BY <1>1, ConstantsAssumption DEF Known, SinkTypes, Adding, NotificationId
<1>3. PICK rest : rest = Tail(stack)
  OBVIOUS
<1>4. /\ lockVars' = lockVars /\ currentBanner' = currentBanner
      /\ window' = window /\ onDisplay' = onDisplay
      /\ DOMAIN live' = DOMAIN live \ {j} /\ \A x \in DOMAIN live' : live'[x] = live[x]
      /\ RemoveFromSink(j) /\ progress' = progress /\ waiting' = waiting /\ stack' = rest
  BY <1>2, <1>3, RemoveCases
<1>5. /\ notificationIds' = notificationIds \ {j} /\ idToBanner' = Without(idToBanner, j)
      /\ bannerQueue' = bannerQueue /\ heap' = heap /\ bannerTimer' = bannerTimer /\ phase' = phase
  BY <1>4 DEF RemoveFromSink, RemoveBanner
<1>6. DOMAIN idToBanner' = DOMAIN idToBanner /\ \A x \in DOMAIN idToBanner : idToBanner'[x] = idToBanner[x]
  BY <1>5 DEF Without, Restrict
<1>7. Mapped' = Mapped /\ Queued' = Queued /\ Current' = Current
  BY <1>4, <1>5, <1>6 DEF Mapped, Queued, Current
<1>8. Known'
  <2>1. waiting' \subseteq DOMAIN live' /\ notificationIds' \subseteq DOMAIN live' \ waiting'
        /\ DOMAIN idToBanner' \subseteq notificationIds'
    BY <1>1, <1>2, <1>4, <1>5, <1>6 DEF Known
  <2>2. \A id \in DOMAIN idToBanner' : heap'[idToBanner'[id]] = live'[id]
    <3>1. \A id \in DOMAIN idToBanner : id \in DOMAIN live'
      BY <1>5, <1>6, <2>1
    <3>2. QED
      BY <1>1, <1>4, <1>5, <1>6, <3>1 DEF Known
  <2>3. \A id, other \in DOMAIN idToBanner' : idToBanner'[id] = idToBanner'[other] => id = other
    BY <1>1, <1>6 DEF Known
  <2>4. Mapped' \subseteq Queued' \cup Current' /\ Distinct(bannerQueue)' /\ currentBanner' \notin Queued'
    BY <1>1, <1>4, <1>5, <1>7 DEF Known, Distinct
  <2>5. QED
    BY <2>1, <2>2, <2>3, <2>4 DEF Known
<1>9. ManagerTypes' /\ LockTypes' /\ SinkTypes' /\ ScreenTypes'
  BY <1>1, <1>4, <1>5, <1>6, LocksStay DEF ManagerTypes, SinkTypes, ScreenTypes
<1>10. /\ Adding(i)' /\ i \in DOMAIN live' /\ live'[i] = live[i]
       /\ i \in NotificationId /\ i \notin DOMAIN idToBanner'
  BY <1>1, <1>2, <1>4, <1>5, <1>6 DEF Adding, Known, ManagerTypes
<1>11. NotLeakedBut({i, j}) => NotLeakedBut({i})'
  BY <1>4, <1>6 DEF NotLeakedBut
<1>12. \A base : ScreenFits(base) => ScreenFits(base)'
  BY <1>4, <1>5, <1>7 DEF ScreenFits, Served, Ended, WindowServes
<1>13. \A banners : Clearing(banners) => Clearing(banners)'
  BY <1>7 DEF Clearing, Distinct
<1>14. \A deleted : HeapHas(deleted) => HeapHas(deleted)'
  BY <1>5, <1>7 DEF HeapHas
<1>15. QueueOwned => QueueOwned'
  BY <1>7 DEF QueueOwned
<1>16. QED
  BY <1>2, <1>3, <1>4, <1>8, <1>9, <1>10, <1>11, <1>12, <1>13, <1>14, <1>15

LEMMA RemoveThenDeleteKeeps ==
    ASSUME BannersInv, RunRemove, AtRemoveThenDelete
    PROVE  BannersInv'
<1>1. PICK i \in DOMAIN live, j \in NotificationId, base \in Bases, b \in Banner, banners \in Seq(Banner) :
        /\ OnTop(stack, RemoveFrame(j)) /\ j \in notificationIds \ DOMAIN idToBanner
        /\ Deletes(Tail(stack), b, i, live[i], banners, base) /\ ScreenFits(base)
        /\ Clearing(banners) /\ HeapHas({b}) /\ NotLeakedBut({i, j}) /\ Adding(i)
  BY DEF AtRemoveThenDelete
<1>2. PICK next : next = Tail(stack)
  OBVIOUS
<1>3. next \in Seq(Frame) /\ Deletes(next, b, i, live[i], banners, base)
  <2>1. stack \in Seq(Frame) /\ stack # <<>>
    BY <1>1, TypesTogether DEF BannersInv, OnTop
  <2>2. QED
    BY <1>1, <1>2, <2>1, Popped
<1>4. /\ Known' /\ ManagerTypes' /\ LockTypes' /\ SinkTypes' /\ ScreenTypes'
      /\ stack' = next /\ i # j /\ i \in NotificationId /\ i \notin DOMAIN idToBanner'
      /\ Adding(i)' /\ i \in DOMAIN live' /\ live'[i] = live[i]
      /\ NotLeakedBut({i})' /\ ScreenFits(base)' /\ Clearing(banners)' /\ HeapHas({b})'
  BY <1>1, <1>2, SinkForgets
<1>5. TypeOK'
  BY <1>3, <1>4, RoomMeanwhileNext, TypesTogetherNext
<1>6. Deletes(stack', b, i, live'[i], banners, base)
  BY <1>3, <1>4
<1>7. AtDelete'
  BY <1>4, <1>6 DEF AtDelete
<1>8. QED
  BY <1>4, <1>5, <1>7 DEF BannersInv

LEMMA RemoveThenEndKeeps ==
    ASSUME BannersInv, RunRemove, AtRemoveThenEnd
    PROVE  BannersInv'
<1>1. PICK i \in DOMAIN live, j \in NotificationId :
        /\ OnTop(stack, RemoveFrame(j)) /\ j \in notificationIds \ DOMAIN idToBanner
        /\ EndsThenShows(Tail(stack), i, live[i]) /\ Rests(<<CurrentDoneFrame>>, {i, j}) /\ Adding(i)
  BY DEF AtRemoveThenEnd
<1>2. PICK next, base : next = Tail(stack) /\ base = <<CurrentDoneFrame>>
  OBVIOUS
<1>3. next \in Seq(Frame) /\ EndsThenShows(next, i, live[i])
  <2>1. stack \in Seq(Frame) /\ stack # <<>>
    BY <1>1, TypesTogether DEF BannersInv, OnTop
  <2>2. QED
    BY <1>1, <1>2, <2>1, Popped
<1>4. ScreenFits(base) /\ QueueOwned /\ HeapHas({}) /\ NotLeakedBut({i, j})
  BY <1>1, <1>2 DEF Rests
<1>5. /\ Known' /\ ManagerTypes' /\ LockTypes' /\ SinkTypes' /\ ScreenTypes'
      /\ stack' = next /\ Adding(i)' /\ i \in DOMAIN live' /\ live'[i] = live[i]
      /\ NotLeakedBut({i})' /\ ScreenFits(base)' /\ QueueOwned' /\ HeapHas({})'
  BY <1>1, <1>2, <1>4, SinkForgets
<1>6. TypeOK'
  BY <1>3, <1>5, RoomAtRestNext, TypesTogetherNext
<1>7. Rests(base, {i})'
  BY <1>5 DEF Rests
<1>8. EndsThenShows(stack', i, live'[i])
  BY <1>3, <1>5
<1>9. AtEnd'
  BY <1>2, <1>5, <1>7, <1>8 DEF AtEnd
<1>10. QED
  BY <1>5, <1>6, <1>9 DEF BannersInv

LEMMA RunRemoveKeeps ==
    ASSUME BannersInv, RunRemove
    PROVE  BannersInv'
<1>1. Top("remove")
  BY DEF RunRemove
<1>2. QED
  BY <1>1, ShapeCases, RemoveAtBaseKeeps, RejectKeeps, RemoveThenDeleteKeeps, RemoveThenEndKeeps

-----------------------------------------------------------------------------
(* The invariant.                                                          *)

LEMMA BannersInvInit ==
    Init => BannersInv
<1>1. SUFFICES ASSUME Init PROVE BannersInv
  OBVIOUS
<1>2. /\ live = Empty /\ waiting = {} /\ progress = 0 /\ notificationIds = {} /\ idToBanner = Empty
      /\ bannerQueue = <<>> /\ currentBanner = NoBanner /\ phase = "disappeared" /\ bannerTimer = FALSE
      /\ heap = Empty /\ window = "none" /\ onDisplay = FALSE /\ touchScreenLockActive = FALSE
      /\ displayOff = FALSE /\ previewKey \in PreviewKeys /\ stack = <<>>
  BY <1>1, Zenon DEF Init
<1>3. DOMAIN live = {} /\ DOMAIN idToBanner = {} /\ DOMAIN heap = {} /\ DOMAIN bannerQueue = {}
  <2>1. DOMAIN Empty = {}
    BY DEF Empty
  <2>2. DOMAIN bannerQueue = {}
    BY <1>2
  <2>3. QED
    BY <1>2, <2>1, <2>2
<1>4. Mapped = {} /\ Queued = {} /\ Current = {}
  BY <1>2, <1>3 DEF Mapped, Queued, Current
<1>5. Known
  BY <1>2, <1>3, <1>4 DEF Known, Distinct
<1>6. QueueOwned /\ HeapHas({}) /\ NotLeakedBut({})
  BY <1>3, <1>4 DEF QueueOwned, HeapHas, NotLeakedBut
<1>7. Served
  BY <1>2 DEF Served, WindowServes
<1>8. AtBase
  BY <1>2, <1>6, <1>7 DEF AtBase, Bases, Rests, ScreenFits
<1>9. ManagerTypes /\ SinkTypes /\ ScreenTypes
  <2>1. ManagerTypes
    BY <1>2, <1>3, ConstantsAssumption DEF ManagerTypes
  <2>2. bannerQueue \in Seq(Banner)
    BY <1>2
  <2>3. SinkTypes
    BY <1>2, <1>3, <2>2 DEF SinkTypes
  <2>4. ScreenTypes
    BY <1>2 DEF ScreenTypes
  <2>5. QED
    BY <2>1, <2>3, <2>4
<1>10. LockTypes
  <2>1. allPreviewsDisabled \in BOOLEAN
    BY <1>1, Zenon DEF Init
  <2>2. QED
    BY <1>2, <2>1 DEF LockTypes
<1>11. stack \in Seq(Frame)
  BY <1>2
<1>12. TypeOK
  BY <1>6, <1>9, <1>10, <1>11, RoomAtRest, TypesTogether
<1>13. QED
  BY <1>5, <1>8, <1>12 DEF BannersInv

LEMMA BannersInvStep ==
    ASSUME Updates # "any", BannersInv, [Next]_vars
    PROVE  BannersInv'
<1>1. CASE UNCHANGED vars
  <2>1. /\ live' = live /\ waiting' = waiting /\ progress' = progress /\ notificationIds' = notificationIds
        /\ idToBanner' = idToBanner /\ bannerQueue' = bannerQueue /\ heap' = heap
        /\ currentBanner' = currentBanner /\ phase' = phase /\ bannerTimer' = bannerTimer
        /\ window' = window /\ onDisplay' = onDisplay /\ touchScreenLockActive' = touchScreenLockActive
        /\ displayOff' = displayOff /\ previewKey' = previewKey
        /\ allPreviewsDisabled' = allPreviewsDisabled /\ stack' = stack
    BY <1>1 DEF vars, managerVars, bannerVars, screenVars, lockVars
  <2>2. /\ bannerVars' = bannerVars /\ screenVars' = screenVars
        /\ managerVars' = managerVars /\ lockVars' = lockVars
    BY <2>1 DEF managerVars, bannerVars, screenVars, lockVars
  <2>3. TypeOK' /\ Known'
    <3>1. ManagerTypes /\ SinkTypes /\ RoomLeft /\ ScreenTypes /\ LockTypes /\ stack \in Seq(Frame) /\ Known
      BY TypesTogether DEF BannersInv
    <3>2. ManagerTypes' /\ LockTypes' /\ stack' \in Seq(Frame) /\ Known'
      BY <2>1, <2>2, <3>1, AllStays, ManagerStays, LocksStay
    <3>3. QED
      BY <2>2, <3>2, TypesKept
  <2>4. /\ \A base, ids : Rests(base, ids) => Rests(base, ids)'
        /\ \A base : ScreenFits(base) => ScreenFits(base)'
        /\ \A banners : Clearing(banners) => Clearing(banners)'
        /\ \A deleted : HeapHas(deleted) => HeapHas(deleted)'
        /\ \A ids : NotLeakedBut(ids) => NotLeakedBut(ids)'
        /\ \A i : Adding(i) => Adding(i)'
    BY <2>1, <2>2, AllStays DEF Adding
  <2>5. AtBase => AtBase'
    BY <2>1, <2>4 DEF AtBase
  <2>6. AtRemove => AtRemove'
    BY <2>1, <2>4 DEF AtRemove
  <2>7. AtUpdate => AtUpdate'
    BY <2>1, <2>4 DEF AtUpdate
  <2>8. AtAdd => AtAdd'
    BY <2>1, <2>4 DEF AtAdd
  <2>9. AtSubmit => AtSubmit'
    BY <2>1, <2>4 DEF AtSubmit
  <2>10. AtReject => AtReject'
    BY <2>1, <2>4 DEF AtReject
  <2>11. AtShow => AtShow'
    BY <2>1, <2>4 DEF AtShow
  <2>12. AtClear => AtClear'
    BY <2>1, <2>4 DEF AtClear
  <2>13. AtDelete => AtDelete'
    BY <2>1, <2>4 DEF AtDelete
  <2>14. AtRemoveThenDelete => AtRemoveThenDelete'
    BY <2>1, <2>4 DEF AtRemoveThenDelete
  <2>15. AtEnd => AtEnd'
    BY <2>1, <2>4 DEF AtEnd
  <2>16. AtRemoveThenEnd => AtRemoveThenEnd'
    BY <2>1, <2>4 DEF AtRemoveThenEnd
  <2>17. QED
    BY <2>3, <2>5, <2>6, <2>7, <2>8, <2>9, <2>10, <2>11, <2>12, <2>13, <2>14, <2>15, <2>16 DEF BannersInv
<1>2. CASE RunRemove
  BY <1>2, RunRemoveKeeps
<1>3. CASE FinishSubmit
  BY <1>3, FinishSubmitKeeps
<1>4. CASE AddNotification
  BY <1>4, AddNotificationKeeps
<1>5. CASE ShowBanner
  BY <1>5, ShowBannerKeeps
<1>6. CASE ClearQueue
  BY <1>6, ClearQueueKeeps
<1>7. CASE DeleteBanner
  BY <1>7, DeleteBannerKeeps
<1>8. CASE FinishCurrentDone
  BY <1>8, FinishCurrentDoneKeeps
<1>9. ASSUME NEW kind \in Kinds, ClientAdds(kind)
      PROVE  BannersInv'
  BY <1>9, ClientAddsKeeps
<1>10. ASSUME NEW id \in NotificationId, ClientUpdates(id) \/ ClientRemoves(id)
       PROVE  BannersInv'
  BY <1>10, ClientUpdatesKeeps, ClientRemovesKeeps
<1>11. CASE RelayTimer
  BY <1>11, RelayTimerKeeps
<1>12. CASE BannerDisappeared
  BY <1>12, BannerDisappearedKeeps
<1>13. CASE BannerTimeout
  BY <1>13, BannerTimeoutKeeps
<1>14. CASE BannerTapped
  BY <1>14, BannerTappedKeeps
<1>15. CASE DisplayEntered
  BY <1>15, DisplayEnteredKeeps
<1>16. CASE DisplayExited
  BY <1>16, DisplayExitedKeeps
<1>17. CASE TouchScreenLockChanges \/ DisplayStateChanges \/ PreviewKeyChanges
  BY <1>17, ConditionChangesKeep
<1>18. QED
  BY <1>1, <1>2, <1>3, <1>4, <1>5, <1>6, <1>7, <1>8, <1>9, <1>10, <1>11, <1>12, <1>13, <1>14,
     <1>15, <1>16, <1>17 DEF Next, RunFrame

\* In every state the banners fit the calls that are being executed, unless clients
\* update notifications the sink does not know: then the queue can be cleared from
\* inside of its clearing.
THEOREM BannersAlwaysFit ==
    ASSUME Updates # "any"
    PROVE  Spec => []BannersInv
<1>1. Init => BannersInv
  BY BannersInvInit
<1>2. BannersInv /\ [Next]_vars => BannersInv'
  BY BannersInvStep
<1>3. QED
  BY <1>1, <1>2, PTL DEF Spec

-----------------------------------------------------------------------------
(* What follows from it.                                                   *)

\* A list of different elements is as long as the set of them.
LEMMA DistinctLength ==
    ASSUME NEW T, NEW list \in Seq(T), Distinct(list)
    PROVE  Len(list) = Cardinality(Range(list))
<1>1. DOMAIN list = 1..Len(list) /\ Len(list) \in Nat
  OBVIOUS
<1>2. IsFiniteSet(1..Len(list)) /\ Cardinality(1..Len(list)) = Len(list)
  BY <1>1, FS_Interval
<1>3. PICK S, R : S = 1..Len(list) /\ R = Range(list)
  OBVIOUS
<1>4. list \in [S -> R]
  <2>1. \A n \in S : list[n] \in R
    BY <1>1, <1>3 DEF Range
  <2>2. list = [n \in S |-> list[n]]
    BY <1>1, <1>3
  <2>3. QED
    BY <2>1, <2>2
<1>5. list \in Surjection(S, R)
  BY <1>1, <1>3, <1>4 DEF Surjection, Range
<1>6. list \in Injection(S, R)
  BY <1>1, <1>3, <1>4 DEF Injection, IsInjective, Distinct
<1>7. IsFiniteSet(R) /\ Cardinality(R) = Cardinality(S)
  BY <1>2, <1>3, <1>5, <1>6, FS_Surjection
<1>8. QED
  BY <1>2, <1>3, <1>7

LEMMA SinkFits ==
    BannersInv => TypeOK /\ BannersAlive /\ IdsNotStale /\ BannersServed /\ SystemNotLeaked
<1>1. SUFFICES ASSUME BannersInv
               PROVE  TypeOK /\ BannersAlive /\ IdsNotStale /\ BannersServed /\ SystemNotLeaked
  OBVIOUS
<1>2. TypeOK /\ Known /\ SinkTypes /\ ScreenTypes
  BY <1>1, TypesTogether DEF BannersInv
<1>3. \E deleted : HeapHas(deleted)
  <2>1. \A base, ids : Rests(base, ids) => HeapHas({})
    BY DEF Rests
  <2>2. \/ AtBase \/ AtRemove \/ AtUpdate \/ AtAdd \/ AtSubmit \/ AtReject \/ AtShow
        \/ AtClear \/ AtDelete \/ AtRemoveThenDelete \/ AtEnd \/ AtRemoveThenEnd
    BY <1>1 DEF BannersInv
  <2>3. AtBase \/ AtRemove \/ AtUpdate \/ AtAdd \/ AtSubmit \/ AtReject \/ AtShow => HeapHas({})
    BY <2>1 DEF AtBase, AtRemove, AtUpdate, AtAdd, AtSubmit, AtReject, AtShow
  <2>4. AtClear \/ AtEnd \/ AtRemoveThenEnd => HeapHas({})
    BY <2>1 DEF AtClear, AtEnd, AtRemoveThenEnd
  <2>5. AtDelete \/ AtRemoveThenDelete => \E deleted : HeapHas(deleted)
    BY DEF AtDelete, AtRemoveThenDelete
  <2>6. QED
    BY <2>2, <2>3, <2>4, <2>5
<1>4. Mapped \cup ({currentBanner} \ {NoBanner}) \subseteq DOMAIN heap
  BY <1>3 DEF HeapHas, Current
<1>5. Top("delete") => Head(stack).banner \in DOMAIN heap
  <2>1. SUFFICES ASSUME Top("delete") PROVE Head(stack).banner \in DOMAIN heap
    OBVIOUS
  <2>2. PICK b \in Banner : OnTop(stack, DeleteFrame(b)) /\ HeapHas({b})
    BY <1>1, <2>1, ShapeCases DEF AtDelete, Deletes
  <2>3. QED
    BY <2>2, FrameFields DEF OnTop, HeapHas
<1>6. Len(bannerQueue) = Cardinality(Queued)
  <2>1. bannerQueue \in Seq(Banner) /\ Distinct(bannerQueue) /\ Range(bannerQueue) = Queued
    BY <1>2 DEF SinkTypes, Known, Range, Queued
  <2>2. QED
    BY <2>1, DistinctLength
<1>7. Idle => AtBase /\ Rests(<<>>, {})
  BY <1>1, ShapeCases DEF AtBase, Idle
<1>8. BannersAlive
  <2>1. Idle => Queued \subseteq Mapped
    BY <1>7 DEF Rests, QueueOwned
  <2>2. \A i, j \in DOMAIN idToBanner : idToBanner[i] = idToBanner[j] => i = j
    BY <1>2 DEF Known
  <2>3. currentBanner \notin Queued
    BY <1>2 DEF Known
  <2>4. QED
    BY <1>4, <1>5, <1>6, <2>1, <2>2, <2>3 DEF BannersAlive
<1>9. IdsNotStale
  BY <1>2 DEF IdsNotStale, Known
<1>10. BannersServed
  <2>1. Idle => Served
    BY <1>7 DEF Rests, ScreenFits
  <2>2. QED
    BY <1>2, <2>1 DEF BannersServed, Served, WindowServes, ScreenTypes
<1>11. SystemNotLeaked
  <2>1. Idle => NotLeakedBut({})
    BY <1>7 DEF Rests
  <2>2. \A id \in DOMAIN idToBanner : idToBanner[id] \in Queued \cup {currentBanner}
    BY <1>2 DEF Known, Mapped, Current
  <2>3. QED
    BY <2>1, <2>2 DEF SystemNotLeaked, NotLeakedBut
<1>12. QED
  BY <1>2, <1>8, <1>9, <1>10, <1>11

-----------------------------------------------------------------------------
(* The conditions of the previews.                                         *)

LEMMA PreviewsStep ==
    ASSUME PreviewKeys \subseteq {"true", "false"},
           PreviewsFollowConditions, previewKey' \in PreviewKeys, [Next]_vars
    PROVE  PreviewsFollowConditions'
<1>1. CASE lockVars' = lockVars
  BY <1>1 DEF lockVars, PreviewsFollowConditions
<1>2. CASE ChangePreviewMode
  <2>1. previewKey' \in {"true", "false"}
    OBVIOUS
  <2>2. allPreviewsDisabled' = (previewKey' = "false" \/ (touchScreenLockActive' /\ displayOff'))
    BY <1>2, <2>1, Zenon DEF ChangePreviewMode
  <2>3. QED
    BY <2>2, Zenon DEF PreviewsFollowConditions
<1>3. lockVars' = lockVars \/ ChangePreviewMode
  <2>1. CASE UNCHANGED vars
    BY <2>1 DEF vars
  <2>2. CASE RunFrame
    BY <2>2 DEF RunFrame, RunRemove, FinishSubmit, AddNotification, ShowBanner, ClearQueue,
                DeleteBanner, FinishCurrentDone
  <2>3. CASE \/ \E kind \in Kinds : ClientAdds(kind)
             \/ \E id \in NotificationId : ClientUpdates(id) \/ ClientRemoves(id)
             \/ RelayTimer
    BY <2>3 DEF ClientAdds, ClientUpdates, ClientRemoves, RelayTimer
  <2>4. CASE BannerDisappeared \/ BannerTimeout \/ BannerTapped \/ DisplayEntered \/ DisplayExited
    BY <2>4 DEF BannerDisappeared, BannerTimeout, BannerTapped, DisplayEntered, DisplayExited
  <2>5. CASE TouchScreenLockChanges \/ DisplayStateChanges \/ PreviewKeyChanges
    BY <2>5 DEF TouchScreenLockChanges, DisplayStateChanges, PreviewKeyChanges
  <2>6. QED
    BY <2>1, <2>2, <2>3, <2>4, <2>5 DEF Next
<1>4. QED
  BY <1>1, <1>2, <1>3

-----------------------------------------------------------------------------
(* The theorems.                                                           *)

\* No banner is used after it was deleted, deleted twice, queued twice or owned by
\* two notifications, no identifier of a removed notification is remembered, and
\* previews are disabled exactly when the key or the lock says so, for any number of
\* notifications, when clients update only what the sink knows and the key holds a
\* Boolean: without the one a banner is deleted twice, without the other the key is
\* not followed (mcompositornotificationsink.cpp:87-227, 310-384).
THEOREM SinkAlwaysConsistent ==
    ASSUME Updates # "any", PreviewKeys \subseteq {"true", "false"}
    PROVE  Spec => []SinkConsistent
<1>1. Init => PreviewsFollowConditions
  <2>1. SUFFICES ASSUME Init PROVE PreviewsFollowConditions
    OBVIOUS
  <2>2. touchScreenLockActive = FALSE /\ allPreviewsDisabled = (previewKey = "false")
    BY <2>1 DEF Init
  <2>3. QED
    BY <2>2, Zenon DEF PreviewsFollowConditions
<1>2. BannersInv' /\ PreviewsFollowConditions /\ [Next]_vars => PreviewsFollowConditions'
  <2>1. BannersInv' => previewKey' \in PreviewKeys
    BY TypesTogetherNext DEF BannersInv, LockTypes
  <2>2. QED
    BY <2>1, PreviewsStep
<1>3. BannersInv /\ PreviewsFollowConditions => SinkConsistent
  BY SinkFits DEF SinkConsistent
<1>4. Spec => []BannersInv
  BY BannersAlwaysFit
<1>5. QED
  BY <1>1, <1>2, <1>3, <1>4, PTL DEF Spec

\* A banner that waits always has somebody to show it, and one on the screen a timer
\* or its way out (mcompositornotificationsink.cpp:200-227, 310-384).
THEOREM BannersAlwaysServed ==
    ASSUME Updates # "any"
    PROVE  Spec => []BannersServed
<1>1. BannersInv => BannersServed
  BY SinkFits
<1>2. Spec => []BannersInv
  BY BannersAlwaysFit
<1>3. QED
  BY <1>1, <1>2, PTL

\* Every system notification that was announced has a banner, at whose end its
\* removal is requested (mcompositornotificationsink.cpp:222).
THEOREM SystemNeverLeaked ==
    ASSUME Updates # "any"
    PROVE  Spec => []SystemNotLeaked
<1>1. BannersInv => SystemNotLeaked
  BY SinkFits
<1>2. Spec => []BannersInv
  BY BannersAlwaysFit
<1>3. QED
  BY <1>1, <1>2, PTL
=============================================================================
