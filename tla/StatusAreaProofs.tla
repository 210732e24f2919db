-------------------------- MODULE StatusAreaProofs --------------------------
(***************************************************************************)
(* Proofs of the status area: its renderer follows the window manager, and *)
(* its indicators tell of the context as it is.  The properties of the     *)
(* window manager and of the context change at any time, also while the    *)
(* one is not known and the others are not on display.                     *)
(***************************************************************************)
EXTENDS StatusAreaRenderer, StatusIndicators, SequenceTheorems, FiniteSetTheorems, TLAPS

-----------------------------------------------------------------------------
(* The renderer of the status area: statusarearenderer.cpp.                *)

Visibilities == {"unset", "yes", "no"}
Filters == SUBSET {"property", "destroy"}
SetsOfWindows == SUBSET Nat

Servers == [made : Nat, manager : Nat, check : Nat, visible : Visibilities, rootMask : BOOLEAN,
            selected : SetsOfWindows]

Renderers == [sharing : BOOLEAN, wmWindow : Nat, statusBarVisible : BOOLEAN, renderScene : BOOLEAN,
              timer : BOOLEAN, dirty : BOOLEAN, restarts : BOOLEAN, previousRootMask : BOOLEAN,
              filter : Filters]

RendererStates == [s : Servers, r : Renderers]

(* Windows have numbers up to the last one that was made. *)
WindowsMade(s, r) == s.manager <= s.made /\ s.check <= s.made /\ r.wmWindow <= s.made

SameServer(s, t) ==
    t.made = s.made /\ t.manager = s.manager /\ t.check = s.check /\ t.visible = s.visible

SameRenderer(r, q) == q.sharing = r.sharing /\ q.restarts = r.restarts

CheckedIn(s) == s.check = s.manager /\ s.manager # NoWindow

(* The window of the window manager is known and listened to. *)
Found(s, r) ==
    /\ CheckedIn(s)
    /\ r.wmWindow = s.manager
    /\ s.manager \in s.selected
    /\ r.filter = {"property", "destroy"}

(* Nobody is known, and the root window is listened to. *)
Searching(s, r) ==
    /\ r.wmWindow = NoWindow
    /\ r.filter = {"property"}
    /\ r.statusBarVisible
    /\ s.rootMask

Believes(s, r) == r.statusBarVisible <=> s.visible # "no"

UpToDate(s, r) ==
    \/ Found(s, r) /\ Believes(s, r)
    \/ Searching(s, r) /\ ~CheckedIn(s)

-----------------------------------------------------------------------------
LEMMA Rendered ==
    ASSUME NEW r \in Renderers
    PROVE  /\ RenderAccumulatedRegion(r) \in Renderers
           /\ \A field \in {"sharing", "wmWindow", "statusBarVisible", "renderScene", "timer",
                            "restarts", "previousRootMask", "filter"} :
                  RenderAccumulatedRegion(r)[field] = r[field]
  BY DEF RenderAccumulatedRegion, Renderers

LEMMA VisibleUpdated ==
    ASSUME NEW st \in RendererStates, NEW u, u = UpdateStatusBarVisibleProperty(st)
    PROVE  /\ u \in RendererStates
           /\ u.s = st.s
           /\ SameRenderer(st.r, u.r)
           /\ u.r.wmWindow = st.r.wmWindow
           /\ u.r.filter = st.r.filter
           /\ u.r.previousRootMask = st.r.previousRootMask
           /\ u.r.statusBarVisible <=> ~(ServerTold(st)) \/ st.s.visible = "yes"
  <1> DEFINE visible == ~ServerTold(st) \/ st.s.visible = "yes"
             set == [st.r EXCEPT !.statusBarVisible = visible]
  <1>1. st.s \in Servers /\ st.r \in Renderers
    BY DEF RendererStates
  <1>2. visible \in BOOLEAN
    OBVIOUS
  <1>3. u = RendererState(st.s, IF visible /\ ~st.r.statusBarVisible
                                THEN RenderAccumulatedRegion(set) ELSE set)
    BY DEF UpdateStatusBarVisibleProperty, ServerTold
  <1> HIDE DEF visible
  <1>4. /\ set \in Renderers
        /\ set.statusBarVisible = visible
        /\ SameRenderer(st.r, set) /\ set.wmWindow = st.r.wmWindow
        /\ set.filter = st.r.filter /\ set.previousRootMask = st.r.previousRootMask
    BY <1>1, <1>2 DEF Renderers, SameRenderer
  <1> HIDE DEF set
  <1>5. /\ u.s = st.s
        /\ u.r \in Renderers
        /\ u.r.statusBarVisible = visible
        /\ SameRenderer(st.r, u.r) /\ u.r.wmWindow = st.r.wmWindow
        /\ u.r.filter = st.r.filter /\ u.r.previousRootMask = st.r.previousRootMask
    <2>1. CASE u = RendererState(st.s, set)
      BY <1>4, <2>1 DEF RendererState
    <2>2. CASE u = RendererState(st.s, RenderAccumulatedRegion(set))
      BY <1>4, <2>2, Rendered DEF RendererState, SameRenderer
    <2> QED
      BY <1>3, <2>1, <2>2
  <1>6. u \in RendererStates
    BY <1>1, <1>3, <1>5 DEF RendererState, RendererStates
  <1> QED
    BY <1>5, <1>6 DEF visible

LEMMA ListenerSetUp ==
    ASSUME NEW st \in RendererStates, NEW u, u = SetupStatusBarVisibleListener(st)
    PROVE  /\ u \in RendererStates
           /\ SameServer(st.s, u.s)
           /\ u.s.rootMask = st.s.rootMask
           /\ SameRenderer(st.r, u.r)
           /\ u.r.previousRootMask = st.r.previousRootMask
           /\ u.r.statusBarVisible = st.r.statusBarVisible
           /\ CheckedIn(st.s) => Found(u.s, u.r)
           /\ ~CheckedIn(st.s) => u.r.wmWindow = NoWindow /\ u.r.filter = st.r.filter
  <1>1. st.s \in Servers /\ st.r \in Renderers /\ NoWindow \in Nat
    BY DEF RendererStates, NoWindow
  <1>2. CASE CheckedIn(st.s)
    <2> DEFINE s == [st.s EXCEPT !.selected = @ \cup {st.s.manager}]
               r == [st.r EXCEPT !.wmWindow = st.s.manager, !.filter = {"property", "destroy"}]
    <2>1. u = RendererState(s, r)
      BY <1>2 DEF SetupStatusBarVisibleListener, CheckedIn
    <2>2. st.s.selected \cup {st.s.manager} \in SetsOfWindows
      BY <1>1 DEF Servers, SetsOfWindows
    <2>3. /\ s \in Servers /\ SameServer(st.s, s) /\ s.rootMask = st.s.rootMask
          /\ st.s.manager \in s.selected
      BY <1>1, <2>2 DEF Servers, SameServer
    <2>4. {"property", "destroy"} \in Filters
      BY DEF Filters
    <2>5. /\ r \in Renderers /\ SameRenderer(st.r, r) /\ r.wmWindow = st.s.manager
          /\ r.filter = {"property", "destroy"} /\ r.previousRootMask = st.r.previousRootMask
          /\ r.statusBarVisible = st.r.statusBarVisible
      BY <1>1, <2>4 DEF Renderers, SameRenderer, Servers
    <2> HIDE DEF s, r
    <2>6. u.s = s /\ u.r = r /\ u \in RendererStates
      BY <2>1, <2>3, <2>5 DEF RendererState, RendererStates
    <2> QED
      BY <1>2, <2>3, <2>5, <2>6 DEF Found, CheckedIn, SameServer
  <1>3. CASE ~CheckedIn(st.s)
    <2> DEFINE r == [st.r EXCEPT !.wmWindow = NoWindow]
    <2>1. u = RendererState(st.s, r)
      BY <1>3 DEF SetupStatusBarVisibleListener, CheckedIn
    <2>2. /\ r \in Renderers /\ SameRenderer(st.r, r) /\ r.wmWindow = NoWindow
          /\ r.filter = st.r.filter /\ r.previousRootMask = st.r.previousRootMask
          /\ r.statusBarVisible = st.r.statusBarVisible
      BY <1>1 DEF Renderers, SameRenderer
    <2> HIDE DEF r
    <2>3. u.s = st.s /\ u.r = r /\ u \in RendererStates
      BY <1>1, <2>1, <2>2 DEF RendererState, RendererStates
    <2> QED
      BY <1>3, <2>2, <2>3 DEF SameServer
  <1> QED
    BY <1>2, <1>3

LEMMA TrackingStarted ==
    ASSUME NEW st \in RendererStates, NEW u, u = StartTrackingRootWindowProperties(st)
    PROVE  /\ u \in RendererStates
           /\ SameServer(st.s, u.s) /\ u.s.rootMask
           /\ SameRenderer(st.r, u.r)
           /\ u.r.wmWindow = st.r.wmWindow
           /\ u.r.statusBarVisible = st.r.statusBarVisible
           /\ u.r.filter = {"property"}
  <1>1. st.s \in Servers /\ st.r \in Renderers /\ {"property"} \in Filters
    BY DEF RendererStates, Filters
  <1> DEFINE s == [st.s EXCEPT !.rootMask = TRUE]
             r == [st.r EXCEPT !.previousRootMask = st.s.rootMask, !.filter = {"property"}]
  <1>2. u = RendererState(s, r)
    BY DEF StartTrackingRootWindowProperties
  <1>3. s \in Servers /\ SameServer(st.s, s) /\ s.rootMask
    BY <1>1 DEF Servers, SameServer
  <1>4. st.s.rootMask \in BOOLEAN
    BY <1>1 DEF Servers
  <1>5. /\ r \in Renderers /\ SameRenderer(st.r, r) /\ r.wmWindow = st.r.wmWindow
        /\ r.statusBarVisible = st.r.statusBarVisible /\ r.filter = {"property"}
    BY <1>1, <1>4 DEF Renderers, SameRenderer
  <1> HIDE DEF s, r
  <1> QED
    BY <1>2, <1>3, <1>5 DEF RendererState, RendererStates

LEMMA TrackingStopped ==
    ASSUME NEW st \in RendererStates, NEW u, u = StopTrackingRootWindowProperties(st)
    PROVE  /\ u \in RendererStates
           /\ SameServer(st.s, u.s) /\ u.s.selected = st.s.selected
           /\ u.r = st.r
  <1>1. st.s \in Servers /\ st.r \in Renderers
    BY DEF RendererStates
  <1> DEFINE s == [st.s EXCEPT !.rootMask = st.r.previousRootMask]
  <1>2. u = RendererState(s, st.r)
    BY DEF StopTrackingRootWindowProperties
  <1>3. st.r.previousRootMask \in BOOLEAN
    BY <1>1 DEF Renderers
  <1>4. s \in Servers /\ SameServer(st.s, s) /\ s.selected = st.s.selected
    BY <1>1, <1>3 DEF Servers, SameServer
  <1> HIDE DEF s
  <1> QED
    BY <1>1, <1>2, <1>4 DEF RendererState, RendererStates

(* Whatever was believed before, the renderer is up to date when it has    *)
(* looked for the window manager.                                          *)
LEMMA LookedAround ==
    ASSUME NEW st \in RendererStates, NEW u, u = WmWindowUnavailable(st)
    PROVE  /\ u \in RendererStates
           /\ SameServer(st.s, u.s)
           /\ SameRenderer(st.r, u.r)
           /\ UpToDate(u.s, u.r)
  <1> DEFINE r == [st.r EXCEPT !.wmWindow = NoWindow, !.statusBarVisible = TRUE]
             visible == RendererState(st.s, r)
             started == StartTrackingRootWindowProperties(visible)
             setup == SetupStatusBarVisibleListener(started)
             updated == UpdateStatusBarVisibleProperty(setup)
             stopped == StopTrackingRootWindowProperties(updated)
  <1>1. u = IF setup.r.wmWindow = NoWindow THEN setup
            ELSE IF ServerTold(updated) THEN stopped ELSE updated
    BY DEF WmWindowUnavailable
  <1>2. st.s \in Servers /\ st.r \in Renderers
    BY DEF RendererStates
  <1>3. r \in Renderers /\ SameRenderer(st.r, r) /\ r.wmWindow = NoWindow /\ r.statusBarVisible
    BY <1>2 DEF Renderers, SameRenderer, NoWindow
  <1> HIDE DEF r
  <1>4. visible \in RendererStates /\ visible.s = st.s /\ visible.r = r
    BY <1>2, <1>3 DEF RendererState, RendererStates
  <1> HIDE DEF visible
  <1>5. /\ started \in RendererStates
        /\ SameServer(visible.s, started.s) /\ started.s.rootMask
        /\ SameRenderer(visible.r, started.r)
        /\ started.r.statusBarVisible = visible.r.statusBarVisible
        /\ started.r.filter = {"property"}
    BY <1>4, TrackingStarted
  <1> HIDE DEF started
  <1>6. /\ setup \in RendererStates
        /\ SameServer(started.s, setup.s) /\ setup.s.rootMask = started.s.rootMask
        /\ SameRenderer(started.r, setup.r)
        /\ setup.r.statusBarVisible = started.r.statusBarVisible
        /\ CheckedIn(started.s) => Found(setup.s, setup.r)
        /\ ~CheckedIn(started.s) => setup.r.wmWindow = NoWindow /\ setup.r.filter = started.r.filter
    BY <1>5, ListenerSetUp
  <1> HIDE DEF setup
  <1>7. /\ SameServer(st.s, setup.s) /\ SameRenderer(st.r, setup.r)
        /\ setup.r.statusBarVisible /\ setup.s.rootMask
    BY <1>3, <1>4, <1>5, <1>6 DEF SameServer, SameRenderer
  <1>8. CASE ~CheckedIn(started.s)
    <2>1. u = setup
      BY <1>1, <1>6, <1>8
    <2>2. ~CheckedIn(setup.s)
      BY <1>6, <1>8 DEF CheckedIn, SameServer
    <2>3. Searching(setup.s, setup.r)
      BY <1>5, <1>6, <1>7, <1>8 DEF Searching
    <2> QED
      BY <1>6, <1>7, <2>1, <2>2, <2>3 DEF UpToDate
  <1>9. CASE CheckedIn(started.s)
    <2>1. Found(setup.s, setup.r) /\ setup.r.wmWindow # NoWindow
      BY <1>6, <1>9 DEF Found, CheckedIn
    <2>2. /\ updated \in RendererStates
          /\ updated.s = setup.s
          /\ SameRenderer(setup.r, updated.r)
          /\ updated.r.wmWindow = setup.r.wmWindow
          /\ updated.r.filter = setup.r.filter
          /\ updated.r.statusBarVisible <=> ~(ServerTold(setup)) \/ setup.s.visible = "yes"
      BY <1>6, VisibleUpdated
    <2> HIDE DEF updated
    <2>3. setup.s.visible \in Visibilities
      BY <1>6 DEF RendererStates, Servers
    <2>4. Found(updated.s, updated.r) /\ Believes(updated.s, updated.r)
      BY <2>1, <2>2, <2>3 DEF Found, Believes, ServerTold, Visibilities
    <2>5. /\ stopped \in RendererStates
          /\ SameServer(updated.s, stopped.s) /\ stopped.s.selected = updated.s.selected
          /\ stopped.r = updated.r
      BY <2>2, TrackingStopped
    <2> HIDE DEF stopped
    <2>6. CASE u = updated
      BY <1>7, <2>2, <2>4, <2>6 DEF UpToDate, SameServer, SameRenderer
    <2>7. CASE u = stopped
      BY <1>7, <2>2, <2>4, <2>5, <2>7
         DEF UpToDate, SameServer, SameRenderer, Found, Believes, CheckedIn
    <2> QED
      BY <1>1, <2>1, <2>6, <2>7
  <1> QED
    BY <1>8, <1>9

(* What it does when it is made, and when a window manager checks in.      *)
LEMMA ListenerSetUpAnew ==
    ASSUME NEW st \in RendererStates, NEW setup, setup = SetupStatusBarVisibleListener(st),
           NEW u, u = IF setup.r.wmWindow = NoWindow THEN WmWindowUnavailable(setup)
                      ELSE UpdateStatusBarVisibleProperty(setup)
    PROVE  /\ u \in RendererStates
           /\ SameServer(st.s, u.s)
           /\ SameRenderer(st.r, u.r)
           /\ UpToDate(u.s, u.r)
  <1>1. /\ setup \in RendererStates
        /\ SameServer(st.s, setup.s)
        /\ SameRenderer(st.r, setup.r)
        /\ CheckedIn(st.s) => Found(setup.s, setup.r)
        /\ ~CheckedIn(st.s) => setup.r.wmWindow = NoWindow
    BY ListenerSetUp
  <1>2. CASE setup.r.wmWindow = NoWindow
    <2>1. u = WmWindowUnavailable(setup)
      BY <1>2
    <2>2. /\ u \in RendererStates /\ SameServer(setup.s, u.s)
          /\ SameRenderer(setup.r, u.r) /\ UpToDate(u.s, u.r)
      BY <1>1, <2>1, LookedAround
    <2> QED
      BY <1>1, <2>2 DEF SameServer, SameRenderer
  <1>3. CASE setup.r.wmWindow # NoWindow
    <2>1. u = UpdateStatusBarVisibleProperty(setup) /\ Found(setup.s, setup.r)
      BY <1>1, <1>3
    <2>2. /\ u \in RendererStates
          /\ u.s = setup.s
          /\ SameRenderer(setup.r, u.r)
          /\ u.r.wmWindow = setup.r.wmWindow
          /\ u.r.filter = setup.r.filter
          /\ u.r.statusBarVisible <=> ~(ServerTold(setup)) \/ setup.s.visible = "yes"
      BY <1>1, <2>1, VisibleUpdated
    <2>3. setup.s.visible \in Visibilities
      BY <1>1 DEF RendererStates, Servers
    <2>4. Found(u.s, u.r) /\ Believes(u.s, u.r)
      BY <2>1, <2>2, <2>3 DEF Found, Believes, ServerTold, Visibilities
    <2> QED
      BY <1>1, <2>2, <2>4 DEF UpToDate, SameServer, SameRenderer
  <1> QED
    BY <1>2, <1>3

-----------------------------------------------------------------------------
XEventRecords == [type : {"property", "destroy"}, window : Nat \cup {"root"},
                  property : {"check", "supported", "visible", "none"}]
XEvent == {e \in XEventRecords : e.type = "destroy" <=> e.property = "none"}

Among(events, e) == \E i \in 1..Len(events) : events[i] = e

VisibleEvent == PropertyEvent(server.manager, "visible")
GoneEvent == DestroyEvent(renderer.wmWindow)
CheckEvent == PropertyEvent("root", "check")

(* While events are on their way, what is out of date will be noticed: the *)
(* event that tells of it is among them.                                   *)
Tracked ==
    \/ Found(server, renderer) /\ (Believes(server, renderer) \/ Among(xEvents, VisibleEvent))
    \/ /\ renderer.wmWindow \notin {NoWindow, server.manager}
       /\ renderer.filter = {"property", "destroy"}
       /\ Among(xEvents, GoneEvent)
    \/ Searching(server, renderer) /\ (~CheckedIn(server) \/ Among(xEvents, CheckEvent))

RendererTypes ==
    /\ server \in Servers
    /\ renderer \in Renderers
    /\ xEvents \in Seq(XEvent)
    /\ WindowsMade(server, renderer)
    /\ server.manager = NoWindow => server.visible = "unset"

RendererInvariant ==
    /\ RendererTypes
    /\ renderer.sharing /\ ~renderer.restarts => Tracked

LEMMA UpToDateIsTracked == UpToDate(server, renderer) => Tracked
  BY DEF UpToDate, Tracked

LEMMA EventSent ==
    ASSUME xEvents \in Seq(XEvent), NEW e \in XEvent, NEW selected \in BOOLEAN,
           xEvents' = SentToX(e, selected)
    PROVE  /\ xEvents' \in Seq(XEvent)
           /\ \A f : Among(xEvents, f) => Among(xEvents', f)
           /\ selected => Among(xEvents', e)
  <1>1. CASE selected
    <2>1. xEvents' = Append(xEvents, e)
      BY <1>1 DEF SentToX
    <2>2. /\ xEvents' \in Seq(XEvent) /\ Len(xEvents') = Len(xEvents) + 1
          /\ xEvents'[Len(xEvents) + 1] = e
          /\ \A i \in 1..Len(xEvents) : xEvents'[i] = xEvents[i]
      BY <2>1
    <2>3. /\ Len(xEvents) + 1 \in 1..Len(xEvents')
          /\ \A i \in 1..Len(xEvents) : i \in 1..Len(xEvents')
      BY <2>2
    <2> QED
      BY <2>2, <2>3 DEF Among
  <1>2. CASE ~selected
    BY <1>2 DEF SentToX, Among
  <1> QED
    BY <1>1, <1>2

LEMMA EventTaken ==
    ASSUME xEvents \in Seq(XEvent), xEvents # <<>>, xEvents' = Tail(xEvents)
    PROVE  /\ xEvents' \in Seq(XEvent)
           /\ Head(xEvents) \in XEvent
           /\ \A f : Among(xEvents, f) /\ f # Head(xEvents) => Among(xEvents', f)
  <1>1. /\ xEvents' \in Seq(XEvent) /\ Len(xEvents') = Len(xEvents) - 1
        /\ Head(xEvents) = xEvents[1] /\ Head(xEvents) \in XEvent
        /\ \A i \in 1..Len(xEvents') : xEvents'[i] = xEvents[i + 1]
    OBVIOUS
  <1>2. ASSUME NEW f, Among(xEvents, f), f # Head(xEvents) PROVE Among(xEvents', f)
    <2>1. PICK i \in 1..Len(xEvents) : xEvents[i] = f
      BY <1>2 DEF Among
    <2>2. i # 1
      BY <1>1, <1>2, <2>1
    <2>3. i - 1 \in 1..Len(xEvents') /\ (i - 1) + 1 = i
      BY <1>1, <2>2
    <2>4. xEvents'[i - 1] = f
      BY <1>1, <2>1, <2>3
    <2> QED
      BY <2>3, <2>4 DEF Among
  <1> QED
    BY <1>1, <1>2

LEMMA RendererStarts == RendererInit => RendererInvariant
  <1> SUFFICES ASSUME RendererInit PROVE RendererInvariant
    OBVIOUS
  <1>1. PICK sharing \in BOOLEAN, on \in BOOLEAN, running \in {NoWindow, 1},
             visible \in {"unset", "yes", "no"} :
          LET s == [made |-> running, manager |-> running, check |-> running,
                    visible |-> IF running = NoWindow THEN "unset" ELSE visible,
                    rootMask |-> FALSE, selected |-> {}]
              new == RendererState(s, NewRenderer(sharing, on))
              st == IF sharing THEN SetUp(new) ELSE new
          IN  server = st.s /\ renderer = st.r /\ xEvents = <<>>
    BY DEF RendererInit
  <1> DEFINE told == IF running = NoWindow THEN "unset" ELSE visible
             s == [made |-> running, manager |-> running, check |-> running, visible |-> told,
                   rootMask |-> FALSE, selected |-> {}]
             r == NewRenderer(sharing, on)
             new == RendererState(s, r)
             st == IF sharing THEN SetUp(new) ELSE new
  <1>2. server = st.s /\ renderer = st.r /\ xEvents = <<>>
    BY <1>1
  <1>3. running \in Nat /\ told \in Visibilities /\ (running = NoWindow => told = "unset")
    BY DEF NoWindow, Visibilities
  <1> HIDE DEF told
  <1>4. /\ s \in Servers
        /\ s.made = running /\ s.manager = running /\ s.check = running /\ s.visible = told
    BY <1>3 DEF Servers, SetsOfWindows
  <1>5. /\ r \in Renderers
        /\ r.wmWindow = NoWindow /\ ~r.restarts /\ r.sharing = sharing
    <2>1. {} \in Filters /\ NoWindow \in Nat
      BY DEF Filters, NoWindow
    <2> QED
      BY <2>1 DEF Renderers, NewRenderer
  <1> HIDE DEF s, r
  <1>6. new \in RendererStates /\ new.s = s /\ new.r = r
    BY <1>4, <1>5 DEF RendererState, RendererStates
  <1> HIDE DEF new
  <1>7. xEvents \in Seq(XEvent)
    BY <1>2
  <1>8. CASE sharing
    <2>1. /\ st \in RendererStates
          /\ SameServer(new.s, st.s) /\ SameRenderer(new.r, st.r)
          /\ UpToDate(st.s, st.r)
      BY <1>6, <1>8, ListenerSetUpAnew DEF SetUp
    <2> HIDE DEF st
    <2>2. UpToDate(server, renderer)
      BY <1>2, <2>1
    <2>3. Tracked
      BY <2>2, UpToDateIsTracked
    <2>4. /\ server \in Servers /\ renderer \in Renderers
          /\ SameServer(s, server)
          /\ renderer.wmWindow \in {NoWindow, server.manager}
      BY <1>2, <1>6, <2>1, <2>2 DEF RendererStates, UpToDate, Found, Searching
    <2>5. RendererTypes
      BY <1>3, <1>4, <1>7, <2>4 DEF RendererTypes, WindowsMade, SameServer, NoWindow
    <2> QED
      BY <2>3, <2>5 DEF RendererInvariant
  <1>9. CASE ~sharing
    <2>1. server = s /\ renderer = r
      BY <1>2, <1>6, <1>9
    <2>2. RendererTypes
      BY <1>3, <1>4, <1>5, <1>7, <2>1 DEF RendererTypes, WindowsMade, NoWindow
    <2> QED
      BY <1>5, <1>9, <2>1, <2>2 DEF RendererInvariant
  <1> QED
    BY <1>8, <1>9

(* Whoever looks around is up to date, whatever he believed before.        *)
LEMMA LookingAroundKept ==
    ASSUME RendererTypes, NEW st \in RendererStates, SameServer(server, st.s),
           xEvents' \in Seq(XEvent), RendererBecomes(st), UpToDate(st.s, st.r)
    PROVE  RendererInvariant'
  <1>1. /\ server' \in Servers /\ renderer' \in Renderers
        /\ SameServer(server, server')
        /\ UpToDate(server', renderer')
    BY DEF RendererBecomes, RendererStates
  <1>2. renderer'.wmWindow \in {NoWindow, server'.manager}
    BY <1>1 DEF UpToDate, Found, Searching
  <1>3. /\ server'.made \in Nat /\ server'.manager \in Nat
        /\ WindowsMade(server', renderer')
        /\ server'.manager = NoWindow => server'.visible = "unset"
    BY <1>1, <1>2 DEF RendererTypes, Servers, SameServer, WindowsMade, NoWindow
  <1>4. Tracked'
    BY <1>1 DEF UpToDate, Tracked
  <1> QED
    BY <1>1, <1>3, <1>4 DEF RendererInvariant, RendererTypes

(* What is on its way is tracked as long as the event that tells of it is  *)
(* not the one taken now.                                                  *)
LEMMA OthersTracked ==
    ASSUME RendererTypes, Tracked, xEvents # <<>>, xEvents' = Tail(xEvents),
           server' = server, renderer' = renderer,
           NEW e, e = Head(xEvents),
           \/ e.type \notin renderer.filter
           \/ e.type = "destroy" /\ e.window # renderer.wmWindow
           \/ e.property = "visible" /\ e.window # renderer.wmWindow
    PROVE  Tracked'
  <1>1. \A f : Among(xEvents, f) /\ f # Head(xEvents) => Among(xEvents', f)
    BY EventTaken DEF RendererTypes
  <1>2. CASE Found(server, renderer) /\ (Believes(server, renderer) \/ Among(xEvents, VisibleEvent))
    <2>1. /\ VisibleEvent.type = "property" /\ VisibleEvent.property = "visible"
          /\ VisibleEvent.window = server.manager
          /\ renderer.filter = {"property", "destroy"} /\ renderer.wmWindow = server.manager
      BY <1>2 DEF Found, VisibleEvent, PropertyEvent
    <2>2. VisibleEvent # e
      BY <2>1
    <2>3. Believes(server, renderer) \/ Among(xEvents', VisibleEvent)
      BY <1>1, <1>2, <2>2
    <2>4. VisibleEvent' = VisibleEvent
      BY DEF VisibleEvent
    <2> QED
      BY <1>2, <2>3, <2>4 DEF Tracked
  <1>3. CASE /\ renderer.wmWindow \notin {NoWindow, server.manager}
             /\ renderer.filter = {"property", "destroy"}
             /\ Among(xEvents, GoneEvent)
    <2>1. /\ GoneEvent.type = "destroy" /\ GoneEvent.property = "none"
          /\ GoneEvent.window = renderer.wmWindow
      BY DEF GoneEvent, DestroyEvent
    <2>2. GoneEvent # e
      BY <1>3, <2>1
    <2>3. Among(xEvents', GoneEvent)
      BY <1>1, <1>3, <2>2
    <2>4. GoneEvent' = GoneEvent
      BY DEF GoneEvent
    <2> QED
      BY <1>3, <2>3, <2>4 DEF Tracked
  <1>4. CASE Searching(server, renderer) /\ (~CheckedIn(server) \/ Among(xEvents, CheckEvent))
    <2>1. CheckEvent.type = "property" /\ CheckEvent.property = "check"
          /\ renderer.filter = {"property"}
      BY <1>4 DEF CheckEvent, PropertyEvent, Searching
    <2>2. CheckEvent # e
      BY <2>1
    <2>3. ~CheckedIn(server) \/ Among(xEvents', CheckEvent)
      BY <1>1, <1>4, <2>2
    <2>4. CheckEvent' = CheckEvent
      BY DEF CheckEvent
    <2> QED
      BY <1>4, <2>3, <2>4 DEF Tracked
  <1> QED
    BY <1>2, <1>3, <1>4 DEF Tracked

LEMMA XEventKept == RendererInvariant /\ HandleXEvent => RendererInvariant'
  <1> SUFFICES ASSUME RendererInvariant, HandleXEvent PROVE RendererInvariant'
    OBVIOUS
  <1> DEFINE st == RendererState(server, renderer)
             u == XEventFilter(st, Head(xEvents))
  <1>1. xEvents # <<>> /\ xEvents' = Tail(xEvents) /\ RendererBecomes(u)
    BY DEF HandleXEvent
  <1>2. RendererTypes
    BY DEF RendererInvariant
  <1>3. xEvents' \in Seq(XEvent) /\ Head(xEvents) \in XEvent
    BY <1>1, <1>2, EventTaken DEF RendererTypes
  <1>4. st \in RendererStates /\ st.s = server /\ st.r = renderer
    BY <1>2 DEF RendererState, RendererStates, RendererTypes
  <1>5. SameServer(server, server)
    BY DEF SameServer
  <1> HIDE DEF st
  <1> DEFINE e == Head(xEvents)
  <1>6. /\ e.type \in {"property", "destroy"}
        /\ e.type = "destroy" <=> e.property = "none"
        /\ e.property \in {"check", "supported", "visible", "none"}
    BY <1>3 DEF XEvent, XEventRecords
  <1>7. CASE u = st /\ \/ e.type \notin renderer.filter
                       \/ e.type = "destroy" /\ e.window # renderer.wmWindow
                       \/ e.property = "visible" /\ e.window # renderer.wmWindow
    <2>1. server' = server /\ renderer' = renderer
      BY <1>1, <1>4, <1>7 DEF RendererBecomes
    <2>2. RendererTypes'
      BY <1>2, <1>3, <2>1 DEF RendererTypes
    <2>3. ASSUME renderer.sharing, ~renderer.restarts PROVE Tracked'
      <3>1. Tracked
        BY <2>3 DEF RendererInvariant
      <3> QED
        BY <1>1, <1>2, <1>7, <2>1, <3>1, OthersTracked
    <2> QED
      BY <2>1, <2>2, <2>3 DEF RendererInvariant
  <1>8. CASE u = WmWindowUnavailable(st)
    <2>1. u \in RendererStates /\ SameServer(server, u.s) /\ UpToDate(u.s, u.r)
      BY <1>4, <1>8, LookedAround
    <2> HIDE DEF u
    <2> QED
      BY <1>1, <1>2, <1>3, <2>1, LookingAroundKept
  <1>9. CASE u = WindowManagerAppeared(st)
    <2> DEFINE v == StopTrackingRootWindowProperties(st)
    <2>1. v \in RendererStates /\ SameServer(server, v.s)
      BY <1>4, TrackingStopped
    <2>2. u = LET setup == SetupStatusBarVisibleListener(v)
              IN  IF setup.r.wmWindow = NoWindow THEN WmWindowUnavailable(setup)
                  ELSE UpdateStatusBarVisibleProperty(setup)
      BY <1>9 DEF WindowManagerAppeared
    <2> HIDE DEF u, v
    <2>3. u \in RendererStates /\ SameServer(v.s, u.s) /\ UpToDate(u.s, u.r)
      BY <2>1, <2>2, ListenerSetUpAnew
    <2>4. SameServer(server, u.s)
      BY <2>1, <2>3 DEF SameServer
    <2> QED
      BY <1>1, <1>2, <1>3, <2>3, <2>4, LookingAroundKept
  <1>10. CASE u = NetSupportedChanged(st)
    <2> DEFINE s == [server EXCEPT !.rootMask = FALSE]
               r == [renderer EXCEPT !.restarts = TRUE]
    <2>1. u = RendererState(s, r)
      BY <1>4, <1>10 DEF NetSupportedChanged
    <2>2. s \in Servers /\ SameServer(server, s)
      BY <1>2 DEF RendererTypes, Servers, SameServer
    <2>3. r \in Renderers /\ r.restarts /\ r.wmWindow = renderer.wmWindow
      BY <1>2 DEF RendererTypes, Renderers
    <2> HIDE DEF s, r
    <2>4. server' = s /\ renderer' = r
      BY <1>1, <2>1 DEF RendererBecomes, RendererState
    <2>5. RendererTypes'
      BY <1>2, <1>3, <2>2, <2>3, <2>4 DEF RendererTypes, WindowsMade, SameServer
    <2> QED
      BY <2>3, <2>4, <2>5 DEF RendererInvariant
  <1>11. CASE u = VisiblePropertyChanged(st) /\ e.window = renderer.wmWindow
    <2> DEFINE v == UpdateStatusBarVisibleProperty(st)
    <2>1. /\ v \in RendererStates
          /\ v.s = server
          /\ SameRenderer(renderer, v.r)
          /\ v.r.wmWindow = renderer.wmWindow
          /\ v.r.filter = renderer.filter
          /\ v.r.statusBarVisible <=> ~(ServerTold(st)) \/ server.visible = "yes"
      BY <1>4, VisibleUpdated
    <2>2. u = IF ServerTold(v) THEN v ELSE WmWindowUnavailable(v)
      BY <1>11 DEF VisiblePropertyChanged
    <2> HIDE DEF u, v
    <2>3. CASE ~ServerTold(v)
      <3>1. u = WmWindowUnavailable(v)
        BY <2>2, <2>3
      <3>2. u \in RendererStates /\ SameServer(v.s, u.s) /\ UpToDate(u.s, u.r)
        BY <2>1, <3>1, LookedAround
      <3>3. SameServer(server, u.s)
        BY <2>1, <3>2
      <3> QED
        BY <1>1, <1>2, <1>3, <3>2, <3>3, LookingAroundKept
    <2>4. CASE ServerTold(v)
      <3>1. u = v /\ server' = server /\ renderer' = v.r
        BY <1>1, <2>1, <2>2, <2>4 DEF RendererBecomes
      <3>2. ServerTold(st) /\ renderer.wmWindow = server.manager /\ server.visible # "unset"
        BY <1>4, <2>1, <2>4 DEF ServerTold
      <3>3. server.visible \in Visibilities /\ server.manager # NoWindow
        BY <1>2, <3>2 DEF RendererTypes, Servers
      <3>4. Believes(server, v.r)
        BY <2>1, <3>2, <3>3 DEF Believes, Visibilities
      <3>5. RendererTypes'
        BY <1>2, <1>3, <2>1, <3>1 DEF RendererTypes, RendererStates, WindowsMade
      <3>6. ASSUME renderer.sharing, ~renderer.restarts PROVE Tracked'
        <4>1. Found(server, renderer)
          BY <3>2, <3>3, <3>6 DEF RendererInvariant, Tracked, Searching
        <4>2. Found(server, v.r)
          BY <2>1, <4>1 DEF Found
        <4> QED
          BY <3>1, <3>4, <4>2 DEF Tracked
      <3> QED
        BY <2>1, <3>1, <3>5, <3>6 DEF RendererInvariant, SameRenderer
    <2> QED
      BY <2>3, <2>4
  <1>12. \/ u = st /\ \/ e.type \notin renderer.filter
                      \/ e.type = "destroy" /\ e.window # renderer.wmWindow
                      \/ e.property = "visible" /\ e.window # renderer.wmWindow
         \/ u = WmWindowUnavailable(st)
         \/ u = WindowManagerAppeared(st)
         \/ u = NetSupportedChanged(st)
         \/ u = VisiblePropertyChanged(st) /\ e.window = renderer.wmWindow
    <2>1. CASE e.type \notin renderer.filter
      BY <1>4, <2>1 DEF XEventFilter
    <2>2. CASE e.type \in renderer.filter /\ e.type = "destroy"
      BY <1>4, <1>6, <2>2 DEF XEventFilter
    <2>3. CASE e.type \in renderer.filter /\ e.type # "destroy" /\ e.property = "visible"
      BY <1>4, <1>6, <2>3 DEF XEventFilter
    <2>4. CASE e.type \in renderer.filter /\ e.type # "destroy" /\ e.property = "check"
      BY <1>4, <1>6, <2>4 DEF XEventFilter
    <2>5. CASE e.type \in renderer.filter /\ e.type # "destroy" /\ e.property = "supported"
      BY <1>4, <1>6, <2>5 DEF XEventFilter
    <2> QED
      BY <1>6, <2>1, <2>2, <2>3, <2>4, <2>5
  <1> HIDE DEF u, e
  <1> QED
    BY <1>7, <1>8, <1>9, <1>10, <1>11, <1>12

LEMMA RestartKept == RendererInvariant /\ NetSupportedPropertyChanged => RendererInvariant'
  <1> SUFFICES ASSUME RendererInvariant, NetSupportedPropertyChanged PROVE RendererInvariant'
    OBVIOUS
  <1> DEFINE r == [renderer EXCEPT !.restarts = FALSE]
             st == RendererState(server, r)
             u == WmWindowUnavailable(st)
  <1>1. RendererBecomes(u) /\ xEvents' = xEvents /\ RendererTypes
    BY DEF NetSupportedPropertyChanged, RendererInvariant
  <1>2. r \in Renderers /\ server \in Servers /\ xEvents' \in Seq(XEvent)
    BY <1>1 DEF RendererTypes, Renderers
  <1> HIDE DEF r
  <1>3. st \in RendererStates /\ st.s = server
    BY <1>2 DEF RendererState, RendererStates
  <1> HIDE DEF st
  <1>4. u \in RendererStates /\ SameServer(server, u.s) /\ UpToDate(u.s, u.r)
    BY <1>3, LookedAround
  <1> HIDE DEF u
  <1> QED
    BY <1>1, <1>2, <1>4, LookingAroundKept

-----------------------------------------------------------------------------
(* What the window manager does, while the renderer stays as it is.        *)

LEMMA StartKept == RendererInvariant /\ WindowManagerStarts => RendererInvariant'
  <1> SUFFICES ASSUME RendererInvariant, WindowManagerStarts PROVE RendererInvariant'
    OBVIOUS
  <1>1. RendererTypes /\ server.manager = NoWindow
    BY DEF WindowManagerStarts, RendererInvariant, Manages
  <1>2. PICK visible \in {"unset", "yes", "no"} :
          server' = [server EXCEPT !.made = @ + 1, !.manager = server.made + 1, !.visible = visible]
    BY DEF WindowManagerStarts
  <1>3. xEvents' = xEvents /\ renderer' = renderer
    BY DEF WindowManagerStarts
  <1>4. /\ server' \in Servers
        /\ server'.made = server.made + 1 /\ server'.manager = server.made + 1
        /\ server'.check = server.check /\ server'.rootMask = server.rootMask
    <2>1. server \in Servers /\ server.made + 1 \in Nat /\ visible \in Visibilities
      BY <1>1 DEF RendererTypes, Servers, Visibilities
    <2> QED
      BY <1>2, <2>1 DEF Servers
  <1>5. /\ server.made \in Nat /\ server.check \in Nat /\ renderer.wmWindow \in Nat
        /\ server.check <= server.made /\ renderer.wmWindow <= server.made
    BY <1>1 DEF RendererTypes, Servers, Renderers, WindowsMade
  <1>6. RendererTypes'
    BY <1>1, <1>3, <1>4, <1>5 DEF RendererTypes, WindowsMade, NoWindow
  <1>7. ~CheckedIn(server') /\ renderer.wmWindow # server'.manager
    BY <1>4, <1>5 DEF CheckedIn
  <1>8. ASSUME Tracked PROVE Tracked'
    <2>1. CASE Found(server, renderer) /\ (Believes(server, renderer) \/ Among(xEvents, VisibleEvent))
      BY <1>1, <2>1 DEF Found, CheckedIn
    <2>2. CASE /\ renderer.wmWindow \notin {NoWindow, server.manager}
               /\ renderer.filter = {"property", "destroy"}
               /\ Among(xEvents, GoneEvent)
      <3>1. GoneEvent' = GoneEvent
        BY <1>3 DEF GoneEvent
      <3> QED
        BY <1>3, <1>7, <2>2, <3>1 DEF Tracked
    <2>3. CASE Searching(server, renderer) /\ (~CheckedIn(server) \/ Among(xEvents, CheckEvent))
      BY <1>3, <1>4, <1>7, <2>3 DEF Tracked, Searching
    <2> QED
      BY <1>8, <2>1, <2>2, <2>3 DEF Tracked
  <1> QED
    BY <1>3, <1>6, <1>8 DEF RendererInvariant

LEMMA CheckInKept == RendererInvariant /\ WindowManagerChecksIn => RendererInvariant'
  <1> SUFFICES ASSUME RendererInvariant, WindowManagerChecksIn PROVE RendererInvariant'
    OBVIOUS
  <1>1. RendererTypes
    BY DEF RendererInvariant
  <1>2. /\ server.manager # NoWindow /\ server.check # server.manager
        /\ server' = [server EXCEPT !.check = server.manager]
        /\ xEvents' = SentToX(CheckEvent, server.rootMask)
        /\ renderer' = renderer
    BY DEF WindowManagerChecksIn, Manages, CheckEvent
  <1>3. /\ server' \in Servers
        /\ server'.made = server.made /\ server'.manager = server.manager
        /\ server'.check = server.manager /\ server'.rootMask = server.rootMask
        /\ server'.visible = server.visible
        /\ server.rootMask \in BOOLEAN
    BY <1>1, <1>2 DEF RendererTypes, Servers
  <1>4. CheckEvent \in XEvent
    BY DEF CheckEvent, PropertyEvent, XEvent, XEventRecords
  <1>5. /\ xEvents' \in Seq(XEvent)
        /\ \A f : Among(xEvents, f) => Among(xEvents', f)
        /\ server.rootMask => Among(xEvents', CheckEvent)
    BY <1>1, <1>2, <1>3, <1>4, EventSent DEF RendererTypes
  <1>6. RendererTypes'
    BY <1>1, <1>2, <1>3, <1>5 DEF RendererTypes, WindowsMade
  <1>7. GoneEvent' = GoneEvent /\ CheckEvent' = CheckEvent
    BY <1>2 DEF GoneEvent, CheckEvent
  <1>8. ASSUME Tracked PROVE Tracked'
    <2>1. CASE Found(server, renderer) /\ (Believes(server, renderer) \/ Among(xEvents, VisibleEvent))
      BY <1>2, <2>1 DEF Found, CheckedIn
    <2>2. CASE /\ renderer.wmWindow \notin {NoWindow, server.manager}
               /\ renderer.filter = {"property", "destroy"}
               /\ Among(xEvents, GoneEvent)
      BY <1>2, <1>3, <1>5, <1>7, <2>2 DEF Tracked
    <2>3. CASE Searching(server, renderer) /\ (~CheckedIn(server) \/ Among(xEvents, CheckEvent))
      BY <1>2, <1>3, <1>5, <1>7, <2>3 DEF Tracked, Searching
    <2> QED
      BY <1>8, <2>1, <2>2, <2>3 DEF Tracked
  <1> QED
    BY <1>2, <1>6, <1>8 DEF RendererInvariant

LEMMA SupportedKept == RendererInvariant /\ WindowManagerSetsSupported => RendererInvariant'
  <1> SUFFICES ASSUME RendererInvariant, WindowManagerSetsSupported PROVE RendererInvariant'
    OBVIOUS
  <1> DEFINE e == PropertyEvent("root", "supported")
  <1>1. RendererTypes
    BY DEF RendererInvariant
  <1>2. xEvents' = SentToX(e, server.rootMask) /\ server' = server /\ renderer' = renderer
    BY DEF WindowManagerSetsSupported
  <1>3. e \in XEvent /\ server.rootMask \in BOOLEAN
    BY <1>1 DEF PropertyEvent, XEvent, XEventRecords, RendererTypes, Servers
  <1> HIDE DEF e
  <1>4. /\ xEvents' \in Seq(XEvent)
        /\ \A f : Among(xEvents, f) => Among(xEvents', f)
    BY <1>1, <1>2, <1>3, EventSent DEF RendererTypes
  <1>5. RendererTypes'
    BY <1>1, <1>2, <1>4 DEF RendererTypes
  <1>6. GoneEvent' = GoneEvent /\ CheckEvent' = CheckEvent /\ VisibleEvent' = VisibleEvent
    BY <1>2 DEF GoneEvent, CheckEvent, VisibleEvent
  <1>7. Tracked => Tracked'
    BY <1>2, <1>4, <1>6 DEF Tracked
  <1> QED
    BY <1>2, <1>5, <1>7 DEF RendererInvariant

LEMMA VisibleKept == RendererInvariant /\ WindowManagerSetsVisible => RendererInvariant'
  <1> SUFFICES ASSUME RendererInvariant, WindowManagerSetsVisible PROVE RendererInvariant'
    OBVIOUS
  <1>1. RendererTypes
    BY DEF RendererInvariant
  <1>2. /\ server.manager # NoWindow /\ renderer' = renderer
        /\ xEvents' = SentToX(VisibleEvent, server.manager \in server.selected)
    BY DEF WindowManagerSetsVisible, Manages, VisibleEvent
  <1>3. PICK visible \in {"yes", "no"} : server' = [server EXCEPT !.visible = visible]
    BY DEF WindowManagerSetsVisible
  <1>4. /\ server' \in Servers
        /\ server'.made = server.made /\ server'.manager = server.manager
        /\ server'.check = server.check /\ server'.rootMask = server.rootMask
        /\ server'.selected = server.selected
    BY <1>1, <1>3 DEF RendererTypes, Servers, Visibilities
  <1>5. VisibleEvent \in XEvent
    BY <1>1 DEF VisibleEvent, PropertyEvent, XEvent, XEventRecords, RendererTypes, Servers
  <1>6. /\ xEvents' \in Seq(XEvent)
        /\ \A f : Among(xEvents, f) => Among(xEvents', f)
        /\ server.manager \in server.selected => Among(xEvents', VisibleEvent)
    <2> DEFINE selected == server.manager \in server.selected
    <2>1. selected \in BOOLEAN /\ xEvents' = SentToX(VisibleEvent, selected)
      BY <1>2
    <2> HIDE DEF selected
    <2>2. /\ xEvents' \in Seq(XEvent)
          /\ \A f : Among(xEvents, f) => Among(xEvents', f)
          /\ selected => Among(xEvents', VisibleEvent)
      BY <1>1, <1>5, <2>1, EventSent DEF RendererTypes
    <2> QED
      BY <2>2 DEF selected
  <1>7. RendererTypes'
    BY <1>1, <1>2, <1>4, <1>6 DEF RendererTypes, WindowsMade
  <1>8. GoneEvent' = GoneEvent /\ CheckEvent' = CheckEvent /\ VisibleEvent' = VisibleEvent
    BY <1>2, <1>4 DEF GoneEvent, CheckEvent, VisibleEvent
  <1>9. CheckedIn(server') <=> CheckedIn(server)
    BY <1>4 DEF CheckedIn
  <1>10. ASSUME Tracked PROVE Tracked'
    <2>1. CASE Found(server, renderer) /\ (Believes(server, renderer) \/ Among(xEvents, VisibleEvent))
      BY <1>2, <1>4, <1>6, <1>8, <1>9, <2>1 DEF Found, Tracked
    <2>2. CASE /\ renderer.wmWindow \notin {NoWindow, server.manager}
               /\ renderer.filter = {"property", "destroy"}
               /\ Among(xEvents, GoneEvent)
      BY <1>2, <1>4, <1>6, <1>8, <2>2 DEF Tracked
    <2>3. CASE Searching(server, renderer) /\ (~CheckedIn(server) \/ Among(xEvents, CheckEvent))
      BY <1>2, <1>4, <1>6, <1>8, <1>9, <2>3 DEF Tracked, Searching
    <2> QED
      BY <1>10, <2>1, <2>2, <2>3 DEF Tracked
  <1> QED
    BY <1>2, <1>7, <1>10 DEF RendererInvariant

LEMMA DeathKept == RendererInvariant /\ WindowManagerDies => RendererInvariant'
  <1> SUFFICES ASSUME RendererInvariant, WindowManagerDies PROVE RendererInvariant'
    OBVIOUS
  <1> DEFINE e == DestroyEvent(server.manager)
             selected == server.manager \in server.selected
  <1>1. RendererTypes
    BY DEF RendererInvariant
  <1>2. /\ server.manager # NoWindow /\ renderer' = renderer
        /\ server' = [server EXCEPT !.manager = NoWindow, !.visible = "unset",
                                    !.selected = @ \ {server.manager}]
        /\ xEvents' = SentToX(e, selected)
    BY DEF WindowManagerDies, Manages
  <1>3. server.selected \ {server.manager} \in SetsOfWindows
    BY <1>1 DEF RendererTypes, Servers, SetsOfWindows
  <1>4. /\ server' \in Servers
        /\ server'.made = server.made /\ server'.manager = NoWindow
        /\ server'.check = server.check /\ server'.rootMask = server.rootMask
        /\ server'.visible = "unset"
    BY <1>1, <1>2, <1>3 DEF RendererTypes, Servers, Visibilities, NoWindow
  <1>5. e \in XEvent /\ selected \in BOOLEAN
    BY <1>1 DEF DestroyEvent, XEvent, XEventRecords, RendererTypes, Servers
  <1> HIDE DEF e, selected
  <1>6. /\ xEvents' \in Seq(XEvent)
        /\ \A f : Among(xEvents, f) => Among(xEvents', f)
        /\ selected => Among(xEvents', e)
    BY <1>1, <1>2, <1>5, EventSent DEF RendererTypes
  <1>7. RendererTypes'
    BY <1>1, <1>2, <1>4, <1>6 DEF RendererTypes, WindowsMade, Servers, NoWindow
  <1>8. GoneEvent' = GoneEvent
    BY <1>2 DEF GoneEvent
  <1>9. ~CheckedIn(server')
    BY <1>4 DEF CheckedIn
  <1>10. ASSUME Tracked PROVE Tracked'
    <2>1. CASE Found(server, renderer) /\ (Believes(server, renderer) \/ Among(xEvents, VisibleEvent))
      <3>1. selected /\ e = GoneEvent /\ renderer.filter = {"property", "destroy"}
            /\ renderer.wmWindow # NoWindow
        BY <1>2, <2>1 DEF Found, selected, e, GoneEvent
      <3> QED
        BY <1>2, <1>4, <1>6, <1>8, <3>1 DEF Tracked
    <2>2. CASE /\ renderer.wmWindow \notin {NoWindow, server.manager}
               /\ renderer.filter = {"property", "destroy"}
               /\ Among(xEvents, GoneEvent)
      BY <1>2, <1>4, <1>6, <1>8, <2>2 DEF Tracked
    <2>3. CASE Searching(server, renderer) /\ (~CheckedIn(server) \/ Among(xEvents, CheckEvent))
      BY <1>2, <1>4, <1>9, <2>3 DEF Tracked, Searching
    <2> QED
      BY <1>10, <2>1, <2>2, <2>3 DEF Tracked
  <1> QED
    BY <1>2, <1>7, <1>10 DEF RendererInvariant

(* The scene: nothing of what is believed changes.                         *)
LEMMA SceneKept ==
    ASSUME RendererInvariant, UNCHANGED <<server, xEvents>>, renderer' \in Renderers,
           \A field \in {"sharing", "wmWindow", "statusBarVisible", "restarts", "filter"} :
               renderer'[field] = renderer[field]
    PROVE  RendererInvariant'
  <1>1. /\ renderer'.sharing = renderer.sharing /\ renderer'.wmWindow = renderer.wmWindow
        /\ renderer'.statusBarVisible = renderer.statusBarVisible
        /\ renderer'.restarts = renderer.restarts /\ renderer'.filter = renderer.filter
        /\ server' = server /\ xEvents' = xEvents
    OBVIOUS
  <1>2. RendererTypes'
    BY <1>1 DEF RendererInvariant, RendererTypes, WindowsMade
  <1>3. GoneEvent' = GoneEvent /\ CheckEvent' = CheckEvent /\ VisibleEvent' = VisibleEvent
    BY <1>1 DEF GoneEvent, CheckEvent, VisibleEvent
  <1>4. /\ Found(server', renderer') <=> Found(server, renderer)
        /\ Searching(server', renderer') <=> Searching(server, renderer)
        /\ Believes(server', renderer') <=> Believes(server, renderer)
        /\ CheckedIn(server') <=> CheckedIn(server)
    BY <1>1 DEF Found, Searching, Believes
  <1>5. Tracked => Tracked'
    BY <1>1, <1>3, <1>4 DEF Tracked
  <1> QED
    BY <1>1, <1>2, <1>5 DEF RendererInvariant

LEMMA RendererKept == RendererInvariant /\ [RendererNext]_rendererVars => RendererInvariant'
  <1> SUFFICES ASSUME RendererInvariant, [RendererNext]_rendererVars PROVE RendererInvariant'
    OBVIOUS
  <1>1. renderer \in Renderers
    BY DEF RendererInvariant, RendererTypes
  <1>2. CASE AccumulateSceneChanges
    <2> DEFINE timer == renderer.timer \/ (renderer.statusBarVisible /\ renderer.renderScene)
    <2>1. renderer' = [renderer EXCEPT !.dirty = TRUE, !.timer = timer] /\ timer \in BOOLEAN
      BY <1>1, <1>2 DEF AccumulateSceneChanges, Renderers
    <2> HIDE DEF timer
    <2>2. /\ renderer' \in Renderers
          /\ \A field \in {"sharing", "wmWindow", "statusBarVisible", "restarts", "filter"} :
                 renderer'[field] = renderer[field]
      BY <1>1, <2>1 DEF Renderers
    <2> QED
      BY <1>2, <2>2, SceneKept DEF AccumulateSceneChanges
  <1>3. CASE AccumulationTimeout
    <2> DEFINE r == [renderer EXCEPT !.timer = FALSE]
    <2>1. renderer' = RenderAccumulatedRegion(r)
      BY <1>3 DEF AccumulationTimeout
    <2>2. /\ r \in Renderers
          /\ \A field \in {"sharing", "wmWindow", "statusBarVisible", "restarts", "filter"} :
                 r[field] = renderer[field]
      BY <1>1 DEF Renderers
    <2> HIDE DEF r
    <2>3. /\ renderer' \in Renderers
          /\ \A field \in {"sharing", "wmWindow", "statusBarVisible", "restarts", "filter"} :
                 renderer'[field] = renderer[field]
      BY <2>1, <2>2, Rendered
    <2> QED
      BY <1>3, <2>3, SceneKept DEF AccumulationTimeout
  <1>4. CASE SetSceneRender
    <2>1. PICK render \in BOOLEAN :
            renderer' = IF render THEN RenderAccumulatedRegion([renderer EXCEPT !.renderScene = TRUE])
                        ELSE [renderer EXCEPT !.renderScene = FALSE]
      BY <1>4 DEF SetSceneRender
    <2> DEFINE r == [renderer EXCEPT !.renderScene = render]
    <2>2. renderer' \in {RenderAccumulatedRegion(r), r}
      BY <2>1
    <2>3. /\ r \in Renderers
          /\ \A field \in {"sharing", "wmWindow", "statusBarVisible", "restarts", "filter"} :
                 r[field] = renderer[field]
      BY <1>1 DEF Renderers
    <2> HIDE DEF r
    <2>4. /\ renderer' \in Renderers
          /\ \A field \in {"sharing", "wmWindow", "statusBarVisible", "restarts", "filter"} :
                 renderer'[field] = renderer[field]
      BY <2>2, <2>3, Rendered
    <2> QED
      BY <1>4, <2>4, SceneKept DEF SetSceneRender
  <1>5. CASE UNCHANGED rendererVars
    BY <1>1, <1>5, SceneKept DEF rendererVars
  <1> QED
    BY <1>2, <1>3, <1>4, <1>5, StartKept, CheckInKept, SupportedKept, VisibleKept, DeathKept,
       XEventKept, RestartKept DEF RendererNext

(* However the window manager dies, comes back and sets its properties,    *)
(* and in whatever order that is noticed: once every event is handled the  *)
(* renderer has found the window manager that has checked in, and believes *)
(* of the status bar what it says (statusarearenderer.cpp:88-214).         *)
THEOREM WindowManagerAlwaysFollowed == RendererSpec => []WindowManagerIsFollowed
  <1>1. RendererInvariant => WindowManagerIsFollowed
    <2> SUFFICES ASSUME RendererInvariant, renderer.sharing, xEvents = <<>>, ~renderer.restarts
                 PROVE  /\ renderer.wmWindow =
                              IF server.check = server.manager THEN server.manager ELSE NoWindow
                        /\ renderer.statusBarVisible =
                              (renderer.wmWindow = NoWindow \/ server.visible # "no")
      BY DEF WindowManagerIsFollowed
    <2>1. Tracked /\ \A f : ~Among(xEvents, f)
      BY DEF RendererInvariant, Among
    <2>2. renderer.statusBarVisible \in BOOLEAN
      BY DEF RendererInvariant, RendererTypes, Renderers
    <2>3. CASE Found(server, renderer) /\ Believes(server, renderer)
      BY <2>2, <2>3 DEF Found, Believes, CheckedIn
    <2>4. CASE Searching(server, renderer) /\ ~CheckedIn(server)
      BY <2>2, <2>4 DEF Searching, CheckedIn
    <2> QED
      BY <2>1, <2>3, <2>4 DEF Tracked
  <1> QED
    BY <1>1, RendererStarts, RendererKept, PTL DEF RendererSpec

-----------------------------------------------------------------------------
(* The indicators of the status area: statusindicator.cpp.                 *)

IndicatorMembers ==
    {"style", "postfix", "value", "shown", "enabled", "animateIfPossible", "animate", "images",
     "running", "available", "followsService", "visitorTimer"}

IsIndicator(i) == i = [f \in IndicatorMembers |-> i[f]]

SameModel(r, i) ==
    /\ r.enabled = i.enabled /\ r.available = i.available
    /\ r.followsService = i.followsService
SameTimer(r, i) == r.visitorTimer = i.visitorTimer /\ r.postfix = i.postfix
SameValue(r, i) == r.value = i.value /\ r.shown = i.shown
SameAnimation(r, i) == r.animateIfPossible = i.animateIfPossible /\ r.animate = i.animate

(* What the operations of the model and the view do to an indicator.       *)
LEMMA Styled ==
    ASSUME NEW k, NEW i, IsIndicator(i), NEW words, NEW r, r = SetStyleNameAndUpdate(k, i, words)
    PROVE  /\ IsIndicator(r) /\ r.style = words
           /\ SameModel(r, i) /\ SameTimer(r, i) /\ SameValue(r, i) /\ SameAnimation(r, i)
  BY DEF IsIndicator, IndicatorMembers, SetStyleNameAndUpdate, SetupImageList,
         SameModel, SameTimer, SameValue, SameAnimation

LEMMA Valued ==
    ASSUME NEW k, NEW i, IsIndicator(i), NEW v, NEW r, r = SetValue(k, i, v)
    PROVE  /\ IsIndicator(r) /\ r.value = v /\ r.shown = IF i.enabled THEN v ELSE i.shown
           /\ r.style = i.style
           /\ SameModel(r, i) /\ SameTimer(r, i) /\ SameAnimation(r, i)
  BY DEF IsIndicator, IndicatorMembers, SetValue, ModelValue, SameModel, SameTimer, SameAnimation

LEMMA AnimationUpdated ==
    ASSUME NEW i, IsIndicator(i), NEW r, r = UpdateAnimationStatus(i)
    PROVE  /\ IsIndicator(r) /\ r.style = i.style
           /\ r.animateIfPossible = i.animateIfPossible
           /\ r.animate = (i.enabled /\ i.animateIfPossible)
           /\ SameModel(r, i) /\ SameTimer(r, i) /\ SameValue(r, i)
  BY DEF IsIndicator, IndicatorMembers, UpdateAnimationStatus, StartOrStopAnimation,
         SameModel, SameTimer, SameValue

LEMMA AnimatedNow ==
    ASSUME NEW i, IsIndicator(i), NEW possible, NEW r,
           r = UpdateAnimationStatus(Animated(i, possible))
    PROVE  /\ IsIndicator(r) /\ r.style = i.style
           /\ r.animateIfPossible = possible
           /\ r.animate = (i.enabled /\ possible)
           /\ SameModel(r, i) /\ SameTimer(r, i) /\ SameValue(r, i)
  <1>1. PICK j : j = Animated(i, possible)
    OBVIOUS
  <1>2. /\ IsIndicator(j) /\ j.style = i.style /\ j.animateIfPossible = possible
        /\ SameModel(j, i) /\ SameTimer(j, i) /\ SameValue(j, i)
    BY <1>1 DEF IsIndicator, IndicatorMembers, Animated, SameModel, SameTimer, SameValue
  <1> QED
    BY <1>1, <1>2, AnimationUpdated DEF SameModel, SameTimer, SameValue

LEMMA UpdatesEnabled ==
    ASSUME NEW k, NEW i, IsIndicator(i), NEW enabled \in BOOLEAN, NEW r,
           r = SetModelUpdatesEnabled(k, i, enabled)
    PROVE  /\ IsIndicator(r) /\ r.style = i.style /\ r.enabled = enabled
           /\ r.value = i.value /\ r.shown = IF enabled THEN i.value ELSE i.shown
           /\ r.animateIfPossible = i.animateIfPossible
           /\ r.animate = (enabled /\ i.animateIfPossible)
           /\ r.available = i.available /\ r.followsService = i.followsService /\ SameTimer(r, i)
  <1>1. PICK j : j = IF enabled THEN ModelValue(k, [i EXCEPT !.enabled = enabled])
                     ELSE [i EXCEPT !.enabled = enabled]
    OBVIOUS
  <1>2. /\ IsIndicator(j) /\ j.style = i.style /\ j.animateIfPossible = i.animateIfPossible
        /\ j.enabled = enabled /\ j.value = i.value /\ j.shown = IF enabled THEN i.value ELSE i.shown
        /\ j.available = i.available /\ j.followsService = i.followsService /\ SameTimer(j, i)
    BY <1>1 DEF IsIndicator, IndicatorMembers, ModelValue, SameTimer
  <1>3. r = UpdateAnimationStatus(j)
    BY <1>1 DEF SetModelUpdatesEnabled
  <1> QED
    BY <1>2, <1>3, AnimationUpdated DEF SameModel, SameTimer, SameValue

-----------------------------------------------------------------------------
(* What each kind of indicator makes of the context, as a function of it.  *)

Problem(c) ==
    IF c.OfflineMode THEN <<"Offline">>
    ELSE IF c.RegistrationStatus = "no-sim" THEN <<"NoSIM">>
    ELSE IF c.RegistrationStatus \in {"", "offline"} THEN <<"NoNetwork">>
    ELSE <<>>

SignalImage(c) == <<c.SignalBars, 5>>

NetworkTypeWords(c) ==
    LET wlanOn == c.NetworkType = "WLAN" /\ c.NetworkState # "disconnected" /\ c.WlanEnabled
        wlan == IF ~wlanOn THEN <<>> ELSE IF c.Adhoc THEN <<"WLANAdhoc">> ELSE <<"WLAN">>
        technology == IF c.DataTechnology = "umts" THEN <<"3G">> ELSE <<>>
        both == wlan \o technology
        either == IF wlan = <<>> THEN technology ELSE wlan
        connecting == c.NetworkState = "connecting"
        dataConnects == connecting /\ c.NetworkType = "GPRS" /\ both # <<>>
    IN  IF c.NetworkState = "disconnected" /\ ~c.PacketData THEN <<>>
        ELSE IF c.PacketData
        THEN IF both = <<>> THEN <<>>
             ELSE Append(both, IF dataConnects THEN "Connecting" ELSE "Active")
        ELSE IF connecting /\ either # <<>> THEN Append(either, "Connecting")
        ELSE either

BatteryMode(c) ==
    (IF c.PowerSaveMode THEN <<"PowerSave">> ELSE IF c.IsCharging THEN <<>> ELSE <<"Level">>)
        \o (IF c.IsCharging THEN <<"Charging">> ELSE <<>>)

BatteryImage(c) ==
    LET bars == c.ChargeBars[1]
        full == c.ChargeBars[2]
        remaining == IF c.IsCharging /\ bars = full THEN full - 1 ELSE bars
        image == IF c.IsCharging \/ remaining # 0 THEN remaining + 1 ELSE 0
    IN  IF full > 0 /\ bars >= 0 /\ full >= bars THEN <<image, full + 2>> ELSE Zero

PresenceStyle(c) ==
    LET words == [busy |-> <<"Busy">>, connecting |-> <<"Connecting">>]
    IN  IF c.PresenceState \in DOMAIN words THEN words[c.PresenceState] ELSE <<>>

Limited(c) == c.DisplayLimited /\ c.ServiceStatus = "limited-service"
NoCoverage(c) ==
    c.DisplayLimited /\ c.ServiceStatus = "no-coverage" /\ c.RegistrationStatus # "offline"
HomeText(c) ==
    IF Limited(c) THEN "emergency calls only"
    ELSE IF NoCoverage(c) THEN "no coverage" ELSE HomeNetwork(c)
VisitorText(c) == IF Limited(c) \/ NoCoverage(c) THEN "" ELSE VisitorNetwork(c)

Rings(c) == c.PhoneCall \in {"alerting", "knocking"}

StyleOf(k, c) ==
    CASE k = "PhoneNetworkSignalStrength" -> Problem(c)
      [] k = "PhoneNetworkType" -> NetworkTypeWords(c)
      [] k = "Battery" -> BatteryMode(c)
      [] k = "Alarm" -> IF c.AlarmPresent THEN <<"Set">> ELSE <<>>
      [] k = "ShortDistanceNetwork" ->
            IF c.NfcActive THEN <<"NfcActive">>
            ELSE IF ~c.BluetoothEnabled THEN <<>>
            ELSE IF c.BluetoothConnected THEN <<"BluetoothActive">> ELSE <<"BluetoothOn">>
      [] k = "Presence" -> PresenceStyle(c)
      [] k = "PhoneNetwork" -> IF HomeText(c) = "" /\ VisitorText(c) = "" THEN <<"Disabled">> ELSE <<>>
      [] k = "Call" -> IF Rings(c) THEN <<"Ringing">>
                       ELSE IF c.PhoneCall = "active" THEN <<"Ongoing">> ELSE <<>>
      [] k = "Tethering" -> IF c.Tethering THEN <<"Set">> ELSE <<>>
      [] k = "Profile" -> IF c.ProfileName = "silent" THEN <<"Silent">>
                          ELSE IF c.ProfileName = "meeting" THEN <<"Beep">> ELSE <<>>
      [] k = "GPS" -> IF c.SatPositioning = "on" THEN <<"On">>
                      ELSE IF c.SatPositioning = "search" THEN <<"Search">> ELSE <<>>
      [] k = "CallForwarding" -> IF c.CallForward THEN <<"Set">> ELSE <<>>
      [] k = "DLNA" -> IF c.Dlna THEN <<"Set">> ELSE <<>>

(* Whether the images move.                                                *)
Moving == {"Battery", "Presence", "Call", "GPS"}
Moves(k, c) ==
    CASE k = "Battery" -> c.IsCharging
      [] k = "Presence" -> c.PresenceState = "connecting"
      [] k = "Call" -> Rings(c)
      [] k = "GPS" -> c.SatPositioning = "search"

(* Some have one image or text at a time.                                  *)
Valueless ==
    {"Alarm", "ShortDistanceNetwork", "Presence", "Tethering", "Profile", "GPS",
     "CallForwarding", "DLNA"}

ContextKinds ==
    Valueless \cup {"PhoneNetworkSignalStrength", "PhoneNetworkType", "Battery", "PhoneNetwork", "Call"}

(* Always: on display, what the model has is what the view has.            *)
Sound(k, i, c) ==
    /\ IsIndicator(i)
    /\ i.animate = (i.enabled /\ i.animateIfPossible)
    /\ i.enabled => i.shown = i.value
    /\ k \notin Moving \cup {"PhoneNetworkType"} => i.animateIfPossible = FALSE
    /\ k \in Valueless => i.value = <<>>
    /\ k = "PhoneNetwork" => i.followsService = c.DisplayLimited

(* On display: it tells of the context.                                    *)
TellsStyle(k, i, c) ==
    \/ i.style = StyleOf(k, c)
    \/ k = "PhoneNetworkType" /\ i.style = <<>>

TellsValue(k, i, c) ==
    /\ k = "PhoneNetworkSignalStrength" =>
            /\ i.available = (Problem(c) = <<>>)
            /\ i.available => i.value = SignalImage(c)
    /\ k = "PhoneNetworkType" => i.value = Zero
    /\ k = "Battery" /\ Len(c.ChargeBars) = 2 => i.value = BatteryImage(c)
    /\ k = "PhoneNetwork" => i.value \in {<<HomeText(c)>>, <<VisitorNetwork(c)>>}
    /\ k = "Call" => i.value = IF c.PhoneCall = "active" /\ c.PhoneMuted THEN <<1, 1>> ELSE Zero
    /\ k \in Valueless => i.value = <<>>

Tells(k, i, c) ==
    /\ TellsStyle(k, i, c)
    /\ k \in Moving => i.animateIfPossible = Moves(k, c)
    /\ TellsValue(k, i, c)

(* What an operation on a sound indicator leaves.                          *)
Leaves(k, i, c, r) == Sound(k, r, c) /\ r.enabled = i.enabled /\ Tells(k, r, c)

LEMMA OnlyStyled ==
    ASSUME NEW k \in Valueless \ Moving, NEW c, NEW i, Sound(k, i, c), NEW r,
           r = SetStyleNameAndUpdate(k, i, StyleOf(k, c))
    PROVE  Leaves(k, i, c, r)
  <1>1. /\ IsIndicator(r) /\ r.style = StyleOf(k, c)
        /\ SameModel(r, i) /\ SameTimer(r, i) /\ SameValue(r, i) /\ SameAnimation(r, i)
    BY Styled DEF Sound
  <1>2. Sound(k, r, c)
    BY <1>1 DEF Sound, SameModel, SameValue, SameAnimation, Valueless
  <1>3. TellsValue(k, r, c)
    BY <1>2 DEF Sound, TellsValue, Valueless
  <1> QED
    BY <1>1, <1>2, <1>3 DEF Leaves, Tells, TellsStyle, SameModel

LEMMA StyledAndAnimated ==
    ASSUME NEW k \in Valueless \cap Moving, NEW c, NEW i, Sound(k, i, c), NEW r,
           r = UpdateAnimationStatus(Animated(SetStyleNameAndUpdate(k, i, StyleOf(k, c)), Moves(k, c)))
    PROVE  Leaves(k, i, c, r)
  <1>1. PICK j : j = SetStyleNameAndUpdate(k, i, StyleOf(k, c))
    OBVIOUS
  <1>2. /\ IsIndicator(j) /\ j.style = StyleOf(k, c)
        /\ SameModel(j, i) /\ SameTimer(j, i) /\ SameValue(j, i) /\ SameAnimation(j, i)
    BY <1>1, Styled DEF Sound
  <1>3. /\ IsIndicator(r) /\ r.style = j.style
        /\ r.animateIfPossible = Moves(k, c) /\ r.animate = (j.enabled /\ Moves(k, c))
        /\ SameModel(r, j) /\ SameTimer(r, j) /\ SameValue(r, j)
    BY <1>1, <1>2, AnimatedNow
  <1>4. Sound(k, r, c)
    BY <1>2, <1>3 DEF Sound, SameModel, SameValue, Valueless
  <1>5. TellsValue(k, r, c)
    BY <1>4 DEF Sound, TellsValue, Valueless
  <1> QED
    BY <1>2, <1>3, <1>4, <1>5 DEF Leaves, Tells, TellsStyle, SameModel

LEMMA SimpleRefreshed ==
    ASSUME NEW k \in Valueless, NEW c, NEW i, Sound(k, i, c), NEW r, r = Refresh(k, i, c)
    PROVE  Leaves(k, i, c, r)
  <1>1. CASE k \in Valueless \ Moving
    <2>1. r = SetStyleNameAndUpdate(k, i, StyleOf(k, c))
      BY <1>1 DEF Refresh, StyleOf, Valueless, Moving, AlarmChanged, ShortDistanceActivityChanged,
                  TetheringChanged, ProfileChanged, CallForwardingChanged, DlnaEnabledChanged
    <2> QED
      BY <1>1, <2>1, OnlyStyled
  <1>2. CASE k \in Valueless \cap Moving
    <2>1. r = UpdateAnimationStatus(
                  Animated(SetStyleNameAndUpdate(k, i, StyleOf(k, c)), Moves(k, c)))
      BY <1>2 DEF Refresh, StyleOf, Moves, Valueless, Moving, PresenceChanged, GpsStateChanged,
                  PresenceStyle
    <2> QED
      BY <1>2, <2>1, StyledAndAnimated
  <1> QED
    BY <1>1, <1>2

LEMMA CallRefreshed ==
    ASSUME NEW c, NEW i, Sound("Call", i, c), NEW r, r = Refresh("Call", i, c)
    PROVE  Leaves("Call", i, c, r)
  <1> DEFINE value == IF c.PhoneCall = "active" /\ c.PhoneMuted THEN <<1, 1>> ELSE Zero
  <1>1. PICK j : j = SetStyleNameAndUpdate("Call", i, StyleOf("Call", c))
    OBVIOUS
  <1>2. PICK m : m = SetValue("Call", j, value)
    OBVIOUS
  <1>3. r = UpdateAnimationStatus(Animated(m, Rings(c)))
    BY <1>1, <1>2 DEF Refresh, CallOrMutedChanged, StyleOf, Rings
  <1> HIDE DEF value
  <1>4. /\ IsIndicator(j) /\ j.style = StyleOf("Call", c)
        /\ SameModel(j, i) /\ SameTimer(j, i) /\ SameValue(j, i) /\ SameAnimation(j, i)
    BY <1>1, Styled DEF Sound
  <1>5. /\ IsIndicator(m) /\ m.value = value /\ m.shown = IF j.enabled THEN value ELSE j.shown
        /\ m.style = j.style
        /\ SameModel(m, j) /\ SameTimer(m, j) /\ SameAnimation(m, j)
    BY <1>2, <1>4, Valued
  <1>6. /\ IsIndicator(r) /\ r.style = m.style
        /\ r.animateIfPossible = Rings(c) /\ r.animate = (m.enabled /\ Rings(c))
        /\ SameModel(r, m) /\ SameTimer(r, m) /\ SameValue(r, m)
    BY <1>3, <1>5, AnimatedNow
  <1>7. Sound("Call", r, c)
    BY <1>4, <1>5, <1>6 DEF Sound, SameModel, SameValue, Valueless, Moving
  <1>8. r.value = value /\ r.enabled = i.enabled /\ r.style = StyleOf("Call", c)
    BY <1>4, <1>5, <1>6 DEF SameModel, SameValue
  <1>9. TellsValue("Call", r, c)
    BY <1>8 DEF TellsValue, Valueless, value
  <1> QED
    BY <1>6, <1>7, <1>8, <1>9 DEF Leaves, Tells, TellsStyle, Moves

LEMMA BatteryLevel ==
    ASSUME NEW c, NEW i, Sound("Battery", i, c), NEW r, r = BatteryLevelChanged(i, c)
    PROVE  /\ Sound("Battery", r, c) /\ r.enabled = i.enabled /\ r.style = i.style
           /\ r.animateIfPossible = i.animateIfPossible
           /\ TellsValue("Battery", r, c)
  <1>1. CASE Len(c.ChargeBars) # 2
    BY <1>1 DEF BatteryLevelChanged, TellsValue, Valueless
  <1>2. CASE Len(c.ChargeBars) = 2
    <2>1. r = SetValue("Battery", i, BatteryImage(c))
      BY <1>2 DEF BatteryLevelChanged, BatteryImage
    <2>2. /\ IsIndicator(r) /\ r.value = BatteryImage(c)
          /\ r.shown = IF i.enabled THEN BatteryImage(c) ELSE i.shown
          /\ r.style = i.style
          /\ SameModel(r, i) /\ SameTimer(r, i) /\ SameAnimation(r, i)
      BY <2>1, Valued DEF Sound
    <2>3. Sound("Battery", r, c)
      BY <2>2 DEF Sound, SameModel, SameAnimation, Valueless, Moving
    <2>4. TellsValue("Battery", r, c)
      BY <2>2 DEF TellsValue, Valueless
    <2> QED
      BY <2>2, <2>3, <2>4 DEF SameModel, SameAnimation
  <1> QED
    BY <1>1, <1>2

LEMMA BatteryCharging ==
    ASSUME NEW c, NEW i, Sound("Battery", i, c), NEW r, r = BatteryChargingChanged(i, c)
    PROVE  Leaves("Battery", i, c, r)
  <1>1. PICK j : j = SetStyleNameAndUpdate("Battery", i, BatteryMode(c))
    OBVIOUS
  <1>2. PICK m : m = UpdateAnimationStatus(Animated(j, c.IsCharging))
    OBVIOUS
  <1>3. r = BatteryLevelChanged(m, c)
    BY <1>1, <1>2 DEF BatteryChargingChanged, BatteryMode
  <1>4. /\ IsIndicator(j) /\ j.style = BatteryMode(c)
        /\ SameModel(j, i) /\ SameTimer(j, i) /\ SameValue(j, i) /\ SameAnimation(j, i)
    BY <1>1, Styled DEF Sound
  <1>5. /\ IsIndicator(m) /\ m.style = j.style
        /\ m.animateIfPossible = c.IsCharging /\ m.animate = (j.enabled /\ c.IsCharging)
        /\ SameModel(m, j) /\ SameTimer(m, j) /\ SameValue(m, j)
    BY <1>2, <1>4, AnimatedNow
  <1>6. Sound("Battery", m, c) /\ m.enabled = i.enabled /\ m.style = BatteryMode(c)
    BY <1>4, <1>5 DEF Sound, SameModel, SameValue, Valueless, Moving
  <1>7. /\ Sound("Battery", r, c) /\ r.enabled = m.enabled /\ r.style = m.style
        /\ r.animateIfPossible = m.animateIfPossible
        /\ TellsValue("Battery", r, c)
    BY <1>3, <1>6, BatteryLevel
  <1> QED
    BY <1>5, <1>6, <1>7 DEF Leaves, Tells, TellsStyle, Moves, StyleOf

LEMMA BatteryRefreshed ==
    ASSUME NEW c, NEW i, Sound("Battery", i, c), NEW r, r = Refresh("Battery", i, c)
    PROVE  Leaves("Battery", i, c, r)
  <1>1. PICK j : j = BatteryLevelChanged(i, c)
    OBVIOUS
  <1>2. Sound("Battery", j, c) /\ j.enabled = i.enabled
    BY <1>1, BatteryLevel
  <1>3. r = BatteryChargingChanged(j, c)
    BY <1>1 DEF Refresh
  <1> QED
    BY <1>2, <1>3, BatteryCharging DEF Leaves

(* The phone network: what is said of a limited service stays.             *)
ServiceStays(i) == i.postfix => i.value \in LimitedTexts /\ ~i.visitorTimer

LEMMA PhoneNetworkRefreshed ==
    ASSUME NEW c, NEW b, NEW i, Sound("PhoneNetwork", i, b), NEW r, r = PhoneNetworkChanged(i, c)
    PROVE  /\ Leaves("PhoneNetwork", i, c, r) /\ ServiceStays(r)
           /\ r.value = <<HomeText(c)>>
  <1> DEFINE problem == Limited(c) \/ NoCoverage(c)
             timer == VisitorText(c) # "" /\ HomeText(c) # "" /\ HomeText(c) # VisitorText(c)
  <1>1. PICK j : j = [i EXCEPT !.postfix = problem, !.followsService = c.DisplayLimited]
    OBVIOUS
  <1>2. PICK m : m = SetValue("PhoneNetwork", j, <<HomeText(c)>>)
    OBVIOUS
  <1>3. PICK n : n = SetStyleNameAndUpdate("PhoneNetwork", m, StyleOf("PhoneNetwork", c))
    OBVIOUS
  <1>4. r = [n EXCEPT !.visitorTimer = timer]
    BY <1>1, <1>2, <1>3 DEF PhoneNetworkChanged, StyleOf, HomeText, VisitorText, Limited, NoCoverage
  <1>5. /\ IsIndicator(j) /\ j.style = i.style /\ SameValue(j, i) /\ SameAnimation(j, i)
        /\ j.enabled = i.enabled /\ j.followsService = c.DisplayLimited /\ j.postfix = problem
    BY <1>1 DEF Sound, IsIndicator, IndicatorMembers, SameValue, SameAnimation
  <1>6. /\ IsIndicator(m) /\ m.value = <<HomeText(c)>>
        /\ m.shown = IF j.enabled THEN <<HomeText(c)>> ELSE j.shown
        /\ SameModel(m, j) /\ SameTimer(m, j) /\ SameAnimation(m, j)
    BY <1>2, <1>5, Valued
  <1>7. /\ IsIndicator(n) /\ n.style = StyleOf("PhoneNetwork", c)
        /\ SameModel(n, m) /\ SameTimer(n, m) /\ SameValue(n, m) /\ SameAnimation(n, m)
    BY <1>3, <1>6, Styled
  <1>8. /\ IsIndicator(r) /\ r.style = n.style /\ SameValue(r, n) /\ SameAnimation(r, n)
        /\ SameModel(r, n) /\ r.postfix = n.postfix /\ r.visitorTimer = timer
    BY <1>4, <1>7 DEF IsIndicator, IndicatorMembers, SameValue, SameAnimation, SameModel
  <1>9. /\ r.style = StyleOf("PhoneNetwork", c) /\ r.value = <<HomeText(c)>>
        /\ r.enabled = i.enabled /\ r.followsService = c.DisplayLimited
        /\ r.postfix = problem
        /\ r.enabled => r.shown = r.value
        /\ SameAnimation(r, i)
    BY <1>5, <1>6, <1>7, <1>8 DEF SameModel, SameTimer, SameValue, SameAnimation
  <1>10. Sound("PhoneNetwork", r, c)
    BY <1>8, <1>9 DEF Sound, SameAnimation, Valueless, Moving
  <1>11. ServiceStays(r)
    BY <1>8, <1>9 DEF ServiceStays, LimitedTexts, HomeText, VisitorText
  <1> QED
    BY <1>9, <1>10, <1>11 DEF Leaves, Tells, TellsStyle, TellsValue, Moving, Valueless

(* The signal strength, and the network type that it tells.                *)

LEMMA SignalStrength ==
    ASSUME NEW c, NEW i, Sound("PhoneNetworkSignalStrength", i, c), NEW r,
           r = SignalStrengthChanged(i, c)
    PROVE  /\ Sound("PhoneNetworkSignalStrength", r, c)
           /\ r.enabled = i.enabled /\ r.style = i.style /\ r.available = i.available
           /\ r.value = SignalImage(c)
  <1>1. r = SetValue("PhoneNetworkSignalStrength", i, SignalImage(c))
    BY DEF SignalStrengthChanged, SignalImage
  <1>2. /\ IsIndicator(r) /\ r.value = SignalImage(c)
        /\ r.shown = IF i.enabled THEN SignalImage(c) ELSE i.shown
        /\ r.style = i.style
        /\ SameModel(r, i) /\ SameTimer(r, i) /\ SameAnimation(r, i)
    BY <1>1, Valued DEF Sound
  <1> QED
    BY <1>2 DEF Sound, SameModel, SameAnimation, Valueless, Moving

LEMMA NetworkStatus ==
    ASSUME NEW c, NEW i, Sound("PhoneNetworkSignalStrength", i, c), NEW r, r = SetNetworkStatus(i, c)
    PROVE  Leaves("PhoneNetworkSignalStrength", i, c, r)
  <1> DEFINE value == IF Problem(c) = <<>> THEN SignalImage(c) ELSE Zero
  <1>1. PICK j : j = SetValue("PhoneNetworkSignalStrength", i, value)
    OBVIOUS
  <1>2. PICK m : m = [j EXCEPT !.available = (Problem(c) = <<>>)]
    OBVIOUS
  <1>3. r = SetStyleNameAndUpdate("PhoneNetworkSignalStrength", m, Problem(c))
    BY <1>1, <1>2 DEF SetNetworkStatus, SignalStrengthChanged, Problem, SignalImage
  <1> HIDE DEF value
  <1>4. /\ IsIndicator(j) /\ j.value = value /\ j.shown = IF i.enabled THEN value ELSE i.shown
        /\ SameModel(j, i) /\ SameTimer(j, i) /\ SameAnimation(j, i)
    BY <1>1, Valued DEF Sound
  <1>5. /\ IsIndicator(m) /\ m.available = (Problem(c) = <<>>)
        /\ m.enabled = j.enabled /\ SameValue(m, j) /\ SameAnimation(m, j)
    BY <1>2, <1>4 DEF IsIndicator, IndicatorMembers, SameValue, SameAnimation
  <1>6. /\ IsIndicator(r) /\ r.style = Problem(c)
        /\ SameModel(r, m) /\ SameTimer(r, m) /\ SameValue(r, m) /\ SameAnimation(r, m)
    BY <1>3, <1>5, Styled
  <1>7. /\ r.enabled = i.enabled /\ r.available = (Problem(c) = <<>>)
        /\ r.value = value /\ SameAnimation(r, i)
    BY <1>4, <1>5, <1>6 DEF SameModel, SameValue, SameAnimation
  <1>8. r.enabled => r.shown = r.value
    BY <1>4, <1>5, <1>6 DEF SameModel, SameValue
  <1>9. Sound("PhoneNetworkSignalStrength", r, c)
    BY <1>6, <1>7, <1>8 DEF Sound, SameAnimation, Valueless, Moving
  <1>10. TellsValue("PhoneNetworkSignalStrength", r, c)
    BY <1>7 DEF TellsValue, Valueless, value
  <1>11. TellsStyle("PhoneNetworkSignalStrength", r, c)
    BY <1>6 DEF TellsStyle, StyleOf
  <1> QED
    BY <1>7, <1>9, <1>10, <1>11 DEF Leaves, Tells, Moving

LEMMA NetworkStatusRefreshed ==
    ASSUME NEW c, NEW i, Sound("PhoneNetworkSignalStrength", i, c), NEW r,
           r = Refresh("PhoneNetworkSignalStrength", i, c)
    PROVE  Leaves("PhoneNetworkSignalStrength", i, c, r)
  <1>1. PICK j : j = SignalStrengthChanged(i, c)
    OBVIOUS
  <1>2. Sound("PhoneNetworkSignalStrength", j, c) /\ j.enabled = i.enabled
    BY <1>1, SignalStrength
  <1>3. r = SetNetworkStatus(j, c)
    BY <1>1 DEF Refresh
  <1> QED
    BY <1>2, <1>3, NetworkStatus DEF Leaves

LEMMA NetworkTypeRefreshed ==
    ASSUME NEW c, NEW i, Sound("PhoneNetworkType", i, c), NEW r, r = SetNetworkType(i, c)
    PROVE  Leaves("PhoneNetworkType", i, c, r) /\ r.style = NetworkTypeWords(c)
  <1>1. PICK j : j = SetValue("PhoneNetworkType", i, Zero)
    OBVIOUS
  <1>2. /\ IsIndicator(j) /\ j.value = Zero /\ j.shown = IF i.enabled THEN Zero ELSE i.shown
        /\ SameModel(j, i) /\ SameTimer(j, i) /\ SameAnimation(j, i)
    BY <1>1, Valued DEF Sound
  <1>3. /\ IsIndicator(r) /\ r.style = NetworkTypeWords(c)
        /\ r.enabled = j.enabled /\ SameValue(r, j)
        /\ r.animate = (r.enabled /\ r.animateIfPossible)
    <2>1. CASE c.NetworkState = "disconnected" /\ ~c.PacketData
      <3>1. r = SetStyleNameAndUpdate("PhoneNetworkType", j, <<>>)
        BY <1>1, <2>1 DEF SetNetworkType
      <3>2. NetworkTypeWords(c) = <<>>
        BY <2>1 DEF NetworkTypeWords
      <3>3. /\ IsIndicator(r) /\ r.style = <<>>
            /\ SameModel(r, j) /\ SameValue(r, j) /\ SameAnimation(r, j)
        BY <1>2, <3>1, Styled
      <3>4. j.animate = (j.enabled /\ j.animateIfPossible)
        BY <1>2 DEF Sound, SameModel, SameAnimation
      <3> QED
        BY <3>2, <3>3, <3>4 DEF SameModel, SameAnimation
    <2>2. CASE ~(c.NetworkState = "disconnected" /\ ~c.PacketData)
      <3>1. PICK moves : r = UpdateAnimationStatus(
                                 SetStyleNameAndUpdate("PhoneNetworkType", Animated(j, moves),
                                                       NetworkTypeWords(c)))
        BY <1>1, <2>2 DEF SetNetworkType, NetworkTypeWords
      <3>2. PICK m : m = Animated(j, moves)
        OBVIOUS
      <3>3. PICK n : n = SetStyleNameAndUpdate("PhoneNetworkType", m, NetworkTypeWords(c))
        OBVIOUS
      <3>4. IsIndicator(m) /\ m.enabled = j.enabled /\ SameValue(m, j)
        BY <1>2, <3>2 DEF Animated, IsIndicator, IndicatorMembers, SameValue
      <3>5. /\ IsIndicator(n) /\ n.style = NetworkTypeWords(c)
            /\ SameModel(n, m) /\ SameValue(n, m)
        BY <3>3, <3>4, Styled
      <3>6. r = UpdateAnimationStatus(n)
        BY <3>1, <3>2, <3>3
      <3>7. /\ IsIndicator(r) /\ r.style = n.style
            /\ r.animateIfPossible = n.animateIfPossible
            /\ r.animate = (n.enabled /\ n.animateIfPossible)
            /\ SameModel(r, n) /\ SameValue(r, n)
        BY <3>5, <3>6, AnimationUpdated
      <3> QED
        BY <3>4, <3>5, <3>7 DEF SameModel, SameValue
    <2> QED
      BY <2>1, <2>2
  <1>4. r.enabled = i.enabled /\ r.value = Zero /\ (r.enabled => r.shown = r.value)
    BY <1>2, <1>3 DEF SameModel, SameValue
  <1>5. Sound("PhoneNetworkType", r, c)
    BY <1>3, <1>4 DEF Sound, Valueless, Moving
  <1>6. TellsValue("PhoneNetworkType", r, c)
    BY <1>4 DEF TellsValue, Valueless
  <1> QED
    BY <1>3, <1>4, <1>5, <1>6 DEF Leaves, Tells, TellsStyle, StyleOf, Moving

(* What holds of an indicator whether it is on display or not.             *)
Good(k, i, c) == Sound(k, i, c) /\ (i.enabled => Tells(k, i, c))

LEMMA AvailabilityTold ==
    ASSUME NEW c, NEW i, Good("PhoneNetworkType", i, c), NEW available, NEW r,
           r = SetNetworkAvailability(i, c, available)
    PROVE  Good("PhoneNetworkType", r, c) /\ r.enabled = i.enabled
  <1>1. CASE ~available /\ c.NetworkState = "disconnected"
    <2>1. r = SetStyleNameAndUpdate("PhoneNetworkType", i, <<>>)
      BY <1>1 DEF SetNetworkAvailability
    <2>2. /\ IsIndicator(r) /\ r.style = <<>>
          /\ SameModel(r, i) /\ SameValue(r, i) /\ SameAnimation(r, i)
      BY <2>1, Styled DEF Good, Sound
    <2>3. Sound("PhoneNetworkType", r, c)
      BY <2>2 DEF Good, Sound, SameModel, SameValue, SameAnimation, Valueless, Moving
    <2>4. r.enabled => Tells("PhoneNetworkType", r, c)
      BY <2>2 DEF Good, Tells, TellsStyle, TellsValue, SameModel, SameValue, Valueless, Moving
    <2> QED
      BY <2>2, <2>3, <2>4 DEF Good, SameModel
  <1>2. CASE ~(~available /\ c.NetworkState = "disconnected")
    <2>1. r = SetNetworkType(i, c)
      BY <1>2 DEF SetNetworkAvailability
    <2> QED
      BY <2>1, NetworkTypeRefreshed DEF Good, Leaves
  <1> QED
    BY <1>1, <1>2

LEMMA Refreshed ==
    ASSUME NEW k \in ContextKinds, NEW c, NEW i, Sound(k, i, c), NEW r, r = Refresh(k, i, c)
    PROVE  /\ Leaves(k, i, c, r)
           /\ k = "PhoneNetwork" => ServiceStays(r) /\ r.value = <<HomeText(c)>>
  <1>1. CASE k \in Valueless
    BY <1>1, SimpleRefreshed DEF Valueless
  <1>2. CASE k = "PhoneNetworkSignalStrength"
    BY <1>2, NetworkStatusRefreshed
  <1>3. CASE k = "PhoneNetworkType"
    <2>1. r = SetNetworkType(i, c)
      BY <1>3 DEF Refresh
    <2> QED
      BY <1>3, <2>1, NetworkTypeRefreshed
  <1>4. CASE k = "Battery"
    BY <1>4, BatteryRefreshed
  <1>5. CASE k = "PhoneNetwork"
    <2>1. r = PhoneNetworkChanged(i, c)
      BY <1>5 DEF Refresh
    <2> QED
      BY <1>5, <2>1, PhoneNetworkRefreshed
  <1>6. CASE k = "Call"
    BY <1>6, CallRefreshed
  <1> QED
    BY <1>1, <1>2, <1>3, <1>4, <1>5, <1>6 DEF ContextKinds

-----------------------------------------------------------------------------
(* Indicators that are made, that enter and leave the display, and that    *)
(* hear of a change.                                                       *)

LEMMA PlainSound ==
    ASSUME NEW k \in ContextKinds \ {"PhoneNetwork"}, NEW c
    PROVE  Sound(k, Plain, c)
  BY DEF Sound, Plain, IsIndicator, IndicatorMembers

LEMMA Made ==
    ASSUME NEW k \in ContextKinds, NEW c, NEW i, i = NewIndicator(k, c)
    PROVE  Sound(k, i, c) /\ i.enabled = FALSE /\ (k = "PhoneNetwork" => ServiceStays(i))
  <1>1. k \notin ShowsIcons /\ Plain.enabled = FALSE
    BY DEF ContextKinds, Valueless, ShowsIcons, Plain
  <1>2. CASE k \in WaitForDisplay
    BY <1>1, <1>2, PlainSound DEF NewIndicator, WaitForDisplay
  <1>3. CASE k \notin WaitForDisplay /\ k = "Battery"
    <2>1. PICK words : i = BatteryLevelChanged(SetStyleNameAndUpdate("Battery", Plain, words), c)
      BY <1>1, <1>3 DEF NewIndicator
    <2>2. PICK j : j = SetStyleNameAndUpdate("Battery", Plain, words)
      OBVIOUS
    <2>3. Sound("Battery", Plain, c)
      BY PlainSound DEF ContextKinds
    <2>4. /\ IsIndicator(j) /\ SameModel(j, Plain) /\ SameValue(j, Plain) /\ SameAnimation(j, Plain)
      BY <2>2, <2>3, Styled DEF Sound
    <2>5. Sound("Battery", j, c) /\ j.enabled = FALSE
      BY <1>1, <2>3, <2>4 DEF Sound, SameModel, SameValue, SameAnimation, Valueless, Moving
    <2> QED
      BY <1>3, <2>1, <2>2, <2>5, BatteryLevel
  <1>4. CASE k \notin WaitForDisplay \cup {"Battery", "PhoneNetwork"}
    <2>1. i = Refresh(k, Plain, c)
      BY <1>1, <1>4 DEF NewIndicator
    <2>2. Sound(k, Plain, c)
      BY <1>4, PlainSound
    <2> QED
      BY <1>1, <1>4, <2>1, <2>2, Refreshed DEF Leaves
  <1>5. CASE k = "PhoneNetwork"
    <2>1. i = PhoneNetworkChanged(Plain, c)
      BY <1>5 DEF NewIndicator, Refresh, WaitForDisplay, ShowsIcons
    <2>2. Sound("PhoneNetwork", Plain, [DisplayLimited |-> FALSE])
      BY DEF Sound, Plain, IsIndicator, IndicatorMembers, Valueless
    <2> QED
      BY <1>1, <1>5, <2>1, <2>2, PhoneNetworkRefreshed DEF Leaves
  <1> QED
    BY <1>2, <1>3, <1>4, <1>5

LEMMA Enabled ==
    ASSUME NEW k \in ContextKinds, NEW c, NEW i, Sound(k, i, c), NEW enabled \in BOOLEAN, NEW r,
           r = SetModelUpdatesEnabled(k, i, enabled)
    PROVE  Sound(k, r, c) /\ r.enabled = enabled /\ (ServiceStays(i) => ServiceStays(r))
  <1>1. /\ IsIndicator(r) /\ r.style = i.style /\ r.enabled = enabled
        /\ r.value = i.value /\ r.shown = IF enabled THEN i.value ELSE i.shown
        /\ r.animateIfPossible = i.animateIfPossible
        /\ r.animate = (enabled /\ i.animateIfPossible)
        /\ r.followsService = i.followsService /\ SameTimer(r, i)
    BY UpdatesEnabled DEF Sound
  <1> QED
    BY <1>1 DEF Sound, ServiceStays, SameTimer

LEMMA KeysKnown ==
    /\ \A k \in ContextKinds : "SignalBars" \in Keys[k] => k = "PhoneNetworkSignalStrength"
    /\ \A k \in ContextKinds : "ChargeBars" \in Keys[k] => k = "Battery"
    /\ Keys["PhoneNetworkSignalStrength"] = {"SignalBars", "OfflineMode", "RegistrationStatus"}
    /\ Keys["PhoneNetworkType"] = {"DataTechnology", "NetworkType", "NetworkState", "Adhoc",
                                   "PacketData", "WlanEnabled"}
    /\ Keys["Battery"] = {"ChargeBars", "IsCharging", "PowerSaveMode"}
    /\ Keys["PhoneNetwork"] = {"NetworkName", "ServiceStatus", "RegistrationStatus"}
  BY DEF Keys, ContextKinds, Valueless

LEMMA SignalBarsTold ==
    ASSUME NEW c, NEW d, NEW i, Sound("PhoneNetworkSignalStrength", i, d),
           Tells("PhoneNetworkSignalStrength", i, c), Problem(d) = Problem(c),
           NEW r, r = SignalStrengthChanged(i, d)
    PROVE  Leaves("PhoneNetworkSignalStrength", i, d, r)
  <1>1. /\ Sound("PhoneNetworkSignalStrength", r, d)
        /\ r.enabled = i.enabled /\ r.style = i.style
        /\ r.available = i.available /\ r.value = SignalImage(d)
    BY SignalStrength
  <1>2. i.style = Problem(d) /\ i.available = (Problem(d) = <<>>)
    BY DEF Tells, TellsStyle, TellsValue, StyleOf
  <1>3. TellsStyle("PhoneNetworkSignalStrength", r, d)
    BY <1>1, <1>2 DEF TellsStyle, StyleOf
  <1>4. TellsValue("PhoneNetworkSignalStrength", r, d)
    BY <1>1, <1>2 DEF TellsValue, Valueless
  <1> QED
    BY <1>1, <1>3, <1>4 DEF Leaves, Tells, Moving

LEMMA ContentsKept ==
    ASSUME NEW k \in ContextKinds, NEW key \in Keys[k], NEW c, NEW d, NEW i, Good(k, i, c), i.enabled,
           \A other \in Keys[k] \ {key} : d[other] = c[other],
           k = "PhoneNetwork" => d.DisplayLimited = c.DisplayLimited,
           k = "PhoneNetwork" => ServiceStays(i),
           NEW r, r = ContentsChanged(k, i, d, key)
    PROVE  /\ Leaves(k, i, d, r)
           /\ k = "PhoneNetwork" => ServiceStays(r)
  <1>1. Sound(k, i, d) /\ Tells(k, i, c)
    BY DEF Good, Sound
  <1>2. CASE key = "SignalBars"
    <2>1. k = "PhoneNetworkSignalStrength"
      BY <1>2, KeysKnown
    <2>2. d.OfflineMode = c.OfflineMode /\ d.RegistrationStatus = c.RegistrationStatus
      BY <1>2, <2>1, KeysKnown
    <2>3. Problem(d) = Problem(c)
      BY <2>2 DEF Problem
    <2>4. r = SignalStrengthChanged(i, d)
      BY <1>2, <2>1 DEF ContentsChanged
    <2>5. Leaves("PhoneNetworkSignalStrength", i, d, r)
      BY <1>1, <2>1, <2>3, <2>4, SignalBarsTold
    <2> QED
      BY <2>1, <2>5 DEF Leaves
  <1>3. CASE key = "ChargeBars"
    <2>1. k = "Battery"
      BY <1>3, KeysKnown
    <2>2. d.IsCharging = c.IsCharging /\ d.PowerSaveMode = c.PowerSaveMode
      BY <1>3, <2>1, KeysKnown
    <2>3. BatteryMode(d) = BatteryMode(c)
      BY <2>2 DEF BatteryMode
    <2>4. r = BatteryLevelChanged(i, d)
      BY <1>3, <2>1 DEF ContentsChanged
    <2> Sound("Battery", i, d)
      BY <1>1, <2>1
    <2>5. /\ Sound("Battery", r, d) /\ r.enabled = i.enabled /\ r.style = i.style
          /\ r.animateIfPossible = i.animateIfPossible /\ TellsValue("Battery", r, d)
      BY <2>4, BatteryLevel
    <2>6. i.style = BatteryMode(d) /\ i.animateIfPossible = d.IsCharging
      BY <1>1, <2>1, <2>2, <2>3 DEF Tells, TellsStyle, StyleOf, Moving, Moves
    <2> QED
      BY <2>1, <2>5, <2>6 DEF Leaves, Tells, TellsStyle, StyleOf, Moves
  <1>4. CASE key \notin {"SignalBars", "ChargeBars"} /\ k = "PhoneNetworkSignalStrength"
    <2>1. r = SetNetworkStatus(i, d)
      BY <1>4 DEF ContentsChanged
    <2> QED
      BY <1>1, <1>4, <2>1, NetworkStatus DEF Leaves
  <1>5. CASE key \notin {"SignalBars", "ChargeBars"} /\ k = "Battery"
    <2>1. r = BatteryChargingChanged(i, d)
      BY <1>5 DEF ContentsChanged
    <2> QED
      BY <1>1, <1>5, <2>1, BatteryCharging DEF Leaves
  <1>6. CASE k = "PhoneNetwork" /\ key \in {"ServiceStatus", "RegistrationStatus"} /\ ~i.followsService
    <2>1. r = i
      BY <1>6 DEF ContentsChanged
    <2>2. /\ d.DisplayLimited = c.DisplayLimited /\ ~c.DisplayLimited
          /\ d.NetworkName = c.NetworkName
      BY <1>1, <1>6, KeysKnown DEF Good, Sound
    <2>3. HomeText(d) = HomeText(c) /\ VisitorText(d) = VisitorText(c)
          /\ VisitorNetwork(d) = VisitorNetwork(c)
      BY <2>2 DEF HomeText, VisitorText, Limited, NoCoverage, HomeNetwork, VisitorNetwork
    <2>4. Tells(k, i, d)
      BY <1>1, <1>6, <2>3 DEF Tells, TellsStyle, TellsValue, StyleOf, Valueless, Moving
    <2> QED
      BY <1>1, <1>6, <2>1, <2>4 DEF Leaves
  <1>7. CASE /\ key \notin {"SignalBars", "ChargeBars"}
             /\ k \notin {"PhoneNetworkSignalStrength", "Battery"}
             /\ ~(k = "PhoneNetwork" /\ key \in {"ServiceStatus", "RegistrationStatus"}
                    /\ ~i.followsService)
    <2>1. r = Refresh(k, i, d) /\ Sound(k, i, d)
      BY <1>1, <1>7 DEF ContentsChanged
    <2> QED
      BY <2>1, Refreshed
  <1> QED
    BY <1>2, <1>3, <1>4, <1>5, <1>6, <1>7

(* The signal strength and the network type follow different properties.   *)
LEMMA Unaffected ==
    ASSUME NEW k \in {"PhoneNetworkSignalStrength", "PhoneNetworkType"}, NEW c, NEW d, NEW i,
           Good(k, i, c), \A key \in Keys[k] : d[key] = c[key]
    PROVE  Good(k, i, d)
  <1>1. CASE k = "PhoneNetworkSignalStrength"
    <2>1. /\ d.OfflineMode = c.OfflineMode /\ d.RegistrationStatus = c.RegistrationStatus
          /\ d.SignalBars = c.SignalBars
      BY <1>1, KeysKnown
    <2>2. Problem(d) = Problem(c)
      BY <2>1 DEF Problem
    <2>3. SignalImage(d) = SignalImage(c)
      BY <2>1 DEF SignalImage
    <2> QED
      BY <1>1, <2>2, <2>3 DEF Good, Sound, Tells, TellsStyle, TellsValue, StyleOf, Valueless, Moving
  <1>2. CASE k = "PhoneNetworkType"
    <2>1. /\ d.DataTechnology = c.DataTechnology /\ d.NetworkType = c.NetworkType
          /\ d.NetworkState = c.NetworkState /\ d.Adhoc = c.Adhoc
          /\ d.PacketData = c.PacketData /\ d.WlanEnabled = c.WlanEnabled
      BY <1>2, KeysKnown
    <2>2. NetworkTypeWords(d) = NetworkTypeWords(c)
      BY <2>1 DEF NetworkTypeWords
    <2> QED
      BY <1>2, <2>2 DEF Good, Sound, Tells, TellsStyle, TellsValue, StyleOf, Valueless, Moving
  <1> QED
    BY <1>1, <1>2

-----------------------------------------------------------------------------
(* The indicators of a group.                                              *)

Watched == group \cap ContextKinds

(* All but k tell of the context c.                                        *)
OthersGood(all, k, c) ==
    /\ all = [l \in group |-> all[l]]
    /\ \A l \in Watched \ {k} : Good(l, all[l], c)
    /\ "PhoneNetwork" \in group \ {k} => ServiceStays(all["PhoneNetwork"])

AllGood(all, c) ==
    /\ all = [l \in group |-> all[l]]
    /\ \A l \in Watched : Good(l, all[l], c)
    /\ "PhoneNetwork" \in group => ServiceStays(all["PhoneNetwork"])

StatusInvariant ==
    /\ group \in RelatedKinds
    /\ known = [key \in KeysOf(group) |-> known[key]]
    /\ AllGood(indicators, known)
    /\ \A k, l \in Watched : indicators[k].enabled = indicators[l].enabled

LEMMA PairedKinds ==
    ASSUME group \in RelatedKinds, NEW k \in group, NEW l \in group, l # k
    PROVE  /\ k \in {"PhoneNetworkSignalStrength", "PhoneNetworkType"}
           /\ l \in {"PhoneNetworkSignalStrength", "PhoneNetworkType"}
           /\ group = {"PhoneNetworkSignalStrength", "PhoneNetworkType"}
  BY DEF RelatedKinds

LEMMA SignalWithType ==
    ASSUME group \in RelatedKinds, "PhoneNetworkSignalStrength" \in group
    PROVE  group = {"PhoneNetworkSignalStrength", "PhoneNetworkType"}
  BY DEF RelatedKinds

LEMMA IndicatorChanged ==
    ASSUME group \in RelatedKinds, NEW c, NEW k \in group, NEW all, OthersGood(all, k, c),
           NEW i, k \in ContextKinds => Good(k, i, c), k = "PhoneNetwork" => ServiceStays(i),
           NEW r, r = WithIndicator(all, k, i, c)
    PROVE  /\ AllGood(r, c) /\ r[k] = i
           /\ \A l \in Watched \ {k} : r[l].enabled = all[l].enabled
  <1>1. PICK changed : changed = [all EXCEPT ![k] = i]
    OBVIOUS
  <1>2. /\ changed = [l \in group |-> changed[l]]
        /\ changed[k] = i /\ \A l \in group \ {k} : changed[l] = all[l]
    BY <1>1 DEF OthersGood
  <1>3. AllGood(changed, c)
    BY <1>2 DEF OthersGood, AllGood, Watched
  <1>4. CASE k = "PhoneNetworkSignalStrength" /\ i.available # all[k].available
    <2> DEFINE type == "PhoneNetworkType"
    <2>1. group = {k, type} /\ type \in Watched /\ type # k
      BY <1>4, SignalWithType DEF Watched, ContextKinds
    <2>2. PICK t : t = SetNetworkAvailability(changed[type], c, i.available)
      OBVIOUS
    <2>3. r = [changed EXCEPT ![type] = t]
      BY <1>1, <1>4, <2>2 DEF WithIndicator
    <2>4. Good("PhoneNetworkType", t, c) /\ t.enabled = changed[type].enabled
      BY <1>3, <2>1, <2>2, AvailabilityTold DEF AllGood
    <2>5. /\ r = [l \in group |-> r[l]] /\ r[k] = i /\ r[type] = t
      BY <1>2, <2>1, <2>3
    <2>6. "PhoneNetwork" \notin group
      BY <1>4, <2>1
    <2>7. \A l \in Watched : l = k \/ l = type
      BY <2>1 DEF Watched
    <2>8. k \in Watched => Good(k, r[k], c)
      BY <2>5 DEF Watched
    <2>9. AllGood(r, c)
      BY <2>4, <2>5, <2>6, <2>7, <2>8 DEF AllGood
    <2> QED
      BY <1>2, <2>1, <2>4, <2>5, <2>7, <2>9
  <1>5. CASE ~(k = "PhoneNetworkSignalStrength" /\ i.available # all[k].available)
    <2>1. r = changed
      BY <1>1, <1>5 DEF WithIndicator
    <2> QED
      BY <1>2, <1>3, <2>1 DEF Watched
  <1> QED
    BY <1>4, <1>5

(* What it leaves when an indicator k of all enters the display.           *)
Entering(r, all, k, c) ==
    /\ AllGood(r, c)
    /\ k \in ContextKinds => r[k].enabled = TRUE
    /\ \A l \in Watched \ {k} : r[l].enabled = all[l].enabled

LEMMA Entered ==
    ASSUME group \in RelatedKinds, NEW c, NEW k \in group, NEW all, AllGood(all, c),
           NEW r, r = EnterDisplayEvent(all, k, c)
    PROVE  Entering(r, all, k, c)
  <1>1. PICK i : i = Refresh(k, SetModelUpdatesEnabled(k, all[k], TRUE), c)
    OBVIOUS
  <1>2. r = WithIndicator(all, k, i, c)
    BY <1>1 DEF EnterDisplayEvent
  <1>3. ASSUME k \in ContextKinds
        PROVE  Good(k, i, c) /\ i.enabled = TRUE /\ (k = "PhoneNetwork" => ServiceStays(i))
    <2>1. PICK j : j = SetModelUpdatesEnabled(k, all[k], TRUE)
      OBVIOUS
    <2>2. Sound(k, all[k], c)
      BY <1>3 DEF AllGood, Watched, Good
    <2>3. Sound(k, j, c) /\ j.enabled = TRUE
      BY <1>3, <2>1, <2>2, Enabled
    <2>4. Leaves(k, j, c, i) /\ (k = "PhoneNetwork" => ServiceStays(i))
      BY <1>1, <1>3, <2>1, <2>3, Refreshed
    <2> QED
      BY <2>3, <2>4 DEF Leaves, Good
  <1>4. k = "PhoneNetwork" => ServiceStays(i)
    BY <1>3 DEF ContextKinds
  <1>5. OthersGood(all, k, c)
    BY DEF AllGood, OthersGood
  <1>6. k \in ContextKinds => Good(k, i, c)
    BY <1>3
  <1>7. /\ AllGood(r, c) /\ r[k] = i
        /\ \A l \in Watched \ {k} : r[l].enabled = all[l].enabled
    BY <1>2, <1>4, <1>5, <1>6, IndicatorChanged
  <1> QED
    BY <1>3, <1>7 DEF Entering

LEMMA EnteringKept == ASSUME StatusInvariant, EnterDisplay PROVE StatusInvariant'
  <1>1. group \in RelatedKinds /\ AllGood(indicators, known)
    BY DEF StatusInvariant
  <1>2. PICK first \in group :
            LET once == EnterDisplayEvent(indicators, first, known)
                others == group \ {first}
            IN  indicators' = IF others = {} THEN once
                              ELSE EnterDisplayEvent(once, CHOOSE k \in others : TRUE, known)
    BY DEF EnterDisplay
  <1>3. PICK once : once = EnterDisplayEvent(indicators, first, known)
    OBVIOUS
  <1>4. Entering(once, indicators, first, known)
    BY <1>1, <1>3, Entered
  <1>5. AllGood(indicators', known) /\ \A k \in Watched : indicators'[k].enabled = TRUE
    <2>1. CASE group \ {first} = {}
      <3>1. indicators' = once
        BY <1>2, <1>3, <2>1
      <3> QED
        BY <1>4, <2>1, <3>1 DEF Entering, Watched
    <2>2. CASE group \ {first} # {}
      <3>1. PICK second \in group \ {first} : indicators' = EnterDisplayEvent(once, second, known)
        BY <1>2, <1>3, <2>2
      <3>2. PICK twice : twice = EnterDisplayEvent(once, second, known)
        OBVIOUS
      <3>5. second \in group /\ AllGood(once, known)
        BY <1>4 DEF Entering
      <3>3. Entering(twice, once, second, known)
        BY <1>1, <3>2, <3>5, Entered
      <3>4. group = {first, second}
        BY <1>1, <3>1, PairedKinds
      <3> QED
        BY <1>4, <3>1, <3>2, <3>3, <3>4 DEF Entering, Watched
    <2> QED
      BY <2>1, <2>2
  <1>6. UNCHANGED <<group, known>>
    BY DEF EnterDisplay
  <1> QED
    BY <1>5, <1>6 DEF StatusInvariant, AllGood, Watched

LEMMA LeavingKept == ASSUME StatusInvariant, ExitDisplay PROVE StatusInvariant'
  <1>1. UNCHANGED <<group, known>>
    BY DEF ExitDisplay
  <1>2. indicators' = [k \in group |-> SetModelUpdatesEnabled(k, indicators[k], FALSE)]
    BY DEF ExitDisplay, ExitDisplayEvent, StatusInvariant, AllGood
  <1>3. ASSUME NEW k \in Watched
        PROVE  /\ Good(k, indicators'[k], known) /\ indicators'[k].enabled = FALSE
               /\ k = "PhoneNetwork" => ServiceStays(indicators'[k])
    <2>1. PICK j : j = SetModelUpdatesEnabled(k, indicators[k], FALSE)
      OBVIOUS
    <2>2. Sound(k, indicators[k], known) /\ (k = "PhoneNetwork" => ServiceStays(indicators[k]))
      BY DEF StatusInvariant, AllGood, Watched, Good
    <2>3. PICK off \in BOOLEAN : off = FALSE
      OBVIOUS
    <2>5. PICK i : i = indicators[k]
      OBVIOUS
    <2>6. k \in ContextKinds /\ Sound(k, i, known) /\ j = SetModelUpdatesEnabled(k, i, off)
      BY <2>1, <2>2, <2>3, <2>5 DEF Watched
    <2>7. Sound(k, j, known) /\ j.enabled = off /\ (ServiceStays(i) => ServiceStays(j))
      BY <2>6, Enabled
    <2>4. /\ Sound(k, j, known) /\ j.enabled = FALSE
          /\ ServiceStays(indicators[k]) => ServiceStays(j)
      BY <2>3, <2>5, <2>7
    <2>8. indicators'[k] = j
      BY <1>2, <2>1 DEF Watched
    <2> QED
      BY <2>2, <2>4, <2>8 DEF Good
  <1>4. "PhoneNetwork" \in group => "PhoneNetwork" \in Watched
    BY DEF Watched, ContextKinds
  <1>5. AllGood(indicators', known)
    BY <1>2, <1>3, <1>4 DEF AllGood
  <1> QED
    BY <1>1, <1>3, <1>5 DEF StatusInvariant, AllGood, Watched

LEMMA WholeGroupWatched ==
    ASSUME group \in RelatedKinds, NEW k \in Watched
    PROVE  group \subseteq ContextKinds
  BY DEF RelatedKinds, Watched, ContextKinds

LEMMA ContextKept == ASSUME StatusInvariant, ContextChanges PROVE StatusInvariant'
  <1>1. PICK key \in KeysOf(group) \ {"DisplayLimited"} : \E value :
            /\ known' = [known EXCEPT ![key] = value]
            /\ indicators' = IF ~OnDisplay THEN indicators
                             ELSE LET k == CHOOSE kind \in group : key \in Keys[kind]
                                  IN  WithIndicator(indicators, k,
                                          ContentsChanged(k, indicators[k], known', key), known')
            /\ UNCHANGED group
    BY DEF ContextChanges
  <1>2. PICK d : d = known'
    OBVIOUS
  <1>3. /\ group \in RelatedKinds /\ AllGood(indicators, known)
        /\ \A k, l \in Watched : indicators[k].enabled = indicators[l].enabled
    BY DEF StatusInvariant
  <1>4. /\ d = [other \in KeysOf(group) |-> d[other]]
        /\ \A other \in KeysOf(group) \ {key} : d[other] = known[other]
    BY <1>1, <1>2 DEF StatusInvariant
  <1>5. ASSUME NEW k \in group
        PROVE  Keys[k] \subseteq KeysOf(group)
    BY DEF KeysOf
  <1>6. ASSUME NEW k \in Watched
        PROVE  Sound(k, indicators[k], d)
    <2>1. k = "PhoneNetwork" => d.DisplayLimited = known.DisplayLimited
      BY <1>1, <1>4 DEF KeysOf, Watched
    <2> QED
      BY <1>3, <2>1 DEF AllGood, Good, Sound
  <1>9. ASSUME AllGood(indicators', d), \A l \in Watched : indicators'[l].enabled = indicators[l].enabled
        PROVE  StatusInvariant'
    <2>1. group' = group /\ known' = d
      BY <1>1, <1>2
    <2>2. (known = [other \in KeysOf(group) |-> known[other]])'
      BY <1>4, <2>1
    <2>3. AllGood(indicators, known)'
      BY <1>9, <2>1 DEF AllGood, Watched
    <2>4. (\A k, l \in Watched : indicators[k].enabled = indicators[l].enabled)'
      BY <1>3, <1>9, <2>1 DEF Watched
    <2> QED
      BY <1>3, <2>1, <2>2, <2>3, <2>4 DEF StatusInvariant
  <1>7. CASE ~OnDisplay
    <2>1. indicators' = indicators
      BY <1>1, <1>7
    <2>2. ASSUME NEW k \in Watched
          PROVE  ~indicators[k].enabled
      <3>1. PICK l \in group : ~indicators[l].enabled
        BY <1>7 DEF OnDisplay
      <3>2. l \in Watched
        BY <1>3, <3>1, WholeGroupWatched DEF Watched
      <3> QED
        BY <1>3, <3>1, <3>2
    <2>3. AllGood(indicators, d)
      BY <1>3, <1>6, <2>2 DEF AllGood, Good
    <2> QED
      BY <1>1, <1>3, <1>9, <2>1, <2>3
  <1>8. CASE OnDisplay
    <2>1. \E kind \in group : key \in Keys[kind]
      BY <1>1 DEF KeysOf
    <2>2. PICK k \in group : /\ key \in Keys[k]
                             /\ indicators' = WithIndicator(indicators, k,
                                                  ContentsChanged(k, indicators[k], d, key), d)
      BY <1>1, <1>2, <1>8, <2>1
    <2>3. PICK i : i = ContentsChanged(k, indicators[k], d, key)
      OBVIOUS
    <2>4. ASSUME k \in ContextKinds
          PROVE  /\ Good(k, i, d) /\ i.enabled = indicators[k].enabled
                 /\ k = "PhoneNetwork" => ServiceStays(i)
      <3>1. /\ Good(k, indicators[k], known) /\ indicators[k].enabled
            /\ k = "PhoneNetwork" => ServiceStays(indicators[k])
        BY <1>3, <1>8, <2>4 DEF AllGood, Watched, OnDisplay
      <3>2. \A other \in Keys[k] \ {key} : d[other] = known[other]
        BY <1>4, <1>5
      <3>3. k = "PhoneNetwork" => d.DisplayLimited = known.DisplayLimited
        BY <1>1, <1>4 DEF KeysOf
      <3>4. /\ Leaves(k, indicators[k], d, i)
            /\ k = "PhoneNetwork" => ServiceStays(i)
        BY <2>2, <2>3, <2>4, <3>1, <3>2, <3>3, ContentsKept
      <3> QED
        BY <3>4 DEF Leaves, Good
    <2>5. ASSUME NEW l \in Watched \ {k}
          PROVE  Good(l, indicators[l], d)
      <3>1. /\ k \in {"PhoneNetworkSignalStrength", "PhoneNetworkType"}
            /\ l \in {"PhoneNetworkSignalStrength", "PhoneNetworkType"}
        BY <1>3, PairedKinds DEF Watched
      <3>2. key \notin Keys[l]
        BY <2>2, <3>1, KeysKnown
      <3>3. \A other \in Keys[l] : d[other] = known[other]
        BY <1>4, <1>5, <3>2 DEF Watched
      <3>4. Good(l, indicators[l], known)
        BY <1>3 DEF AllGood
      <3> QED
        BY <3>1, <3>3, <3>4, Unaffected
    <2>6. OthersGood(indicators, k, d)
      BY <1>3, <2>5 DEF OthersGood, AllGood
    <2>7. k = "PhoneNetwork" => ServiceStays(i)
      BY <2>4 DEF ContextKinds
    <2>8. /\ AllGood(indicators', d) /\ indicators'[k] = i
          /\ \A l \in Watched \ {k} : indicators'[l].enabled = indicators[l].enabled
      BY <1>3, <2>2, <2>3, <2>4, <2>6, <2>7, IndicatorChanged
    <2>9. \A l \in Watched : indicators'[l].enabled = indicators[l].enabled
      BY <2>4, <2>8 DEF Watched
    <2> QED
      BY <1>3, <1>9, <2>8, <2>9
  <1> QED
    BY <1>7, <1>8

LEMMA ConfigurationKept == ASSUME StatusInvariant, ConfigurationChanges PROVE StatusInvariant'
  <1>1. /\ "PhoneNetwork" \in group /\ UNCHANGED group
        /\ known' = [known EXCEPT !.DisplayLimited = ~known.DisplayLimited]
        /\ indicators' = [indicators EXCEPT !.PhoneNetwork =
                             PhoneNetworkChanged(indicators.PhoneNetwork, known')]
    BY DEF ConfigurationChanges
  <1>2. group = {"PhoneNetwork"}
    BY <1>1 DEF StatusInvariant, RelatedKinds
  <1>3. PICK d, i : d = known' /\ i = PhoneNetworkChanged(indicators["PhoneNetwork"], d)
    OBVIOUS
  <1>4. Good("PhoneNetwork", indicators["PhoneNetwork"], known)
    BY <1>1 DEF StatusInvariant, AllGood, Watched, ContextKinds
  <1>5. Leaves("PhoneNetwork", indicators["PhoneNetwork"], d, i) /\ ServiceStays(i)
    BY <1>3, <1>4, PhoneNetworkRefreshed DEF Good
  <1>6. /\ indicators' = [k \in group |-> indicators'[k]] /\ indicators'["PhoneNetwork"] = i
        /\ known' = [key \in KeysOf(group) |-> known'[key]]
    BY <1>1, <1>3 DEF StatusInvariant, AllGood
  <1>7. AllGood(indicators', d)
    BY <1>2, <1>5, <1>6 DEF AllGood, Leaves, Good, Watched
  <1>8. AllGood(indicators, known)'
    BY <1>1, <1>3, <1>7 DEF AllGood, Watched
  <1>9. (\A k, l \in Watched : indicators[k].enabled = indicators[l].enabled)'
    BY <1>1, <1>2 DEF Watched
  <1> QED
    BY <1>1, <1>6, <1>8, <1>9 DEF StatusInvariant

LEMMA VisitorShown ==
    ASSUME NEW c, NEW i, Good("PhoneNetwork", i, c), i.visitorTimer, ServiceStays(i),
           NEW r, r = ShowVisitorNetworkName(i, c)
    PROVE  Good("PhoneNetwork", r, c) /\ ServiceStays(r)
  <1>1. PICK j, value : j = [i EXCEPT !.visitorTimer = FALSE] /\ value = <<VisitorNetwork(c)>>
    OBVIOUS
  <1>2. /\ IsIndicator(j) /\ SameModel(j, i) /\ SameValue(j, i) /\ SameAnimation(j, i)
        /\ j.style = i.style /\ j.postfix = i.postfix
    BY <1>1 DEF Good, Sound, IsIndicator, IndicatorMembers, SameModel, SameValue, SameAnimation
  <1>3. r = SetValue("PhoneNetwork", j, value)
    BY <1>1 DEF ShowVisitorNetworkName
  <1>4. /\ IsIndicator(r) /\ r.value = value /\ r.shown = IF j.enabled THEN value ELSE j.shown
        /\ r.style = j.style
        /\ SameModel(r, j) /\ SameTimer(r, j) /\ SameAnimation(r, j)
    BY <1>2, <1>3, Valued
  <1>5. ~r.postfix
    BY <1>2, <1>4 DEF ServiceStays, SameTimer
  <1>6. Sound("PhoneNetwork", r, c)
    BY <1>2, <1>4 DEF Good, Sound, SameModel, SameAnimation, Valueless, Moving
  <1>7. r.enabled => Tells("PhoneNetwork", r, c)
    BY <1>1, <1>2, <1>4 DEF Good, Tells, TellsStyle, TellsValue, SameModel, Valueless, Moving
  <1> QED
    BY <1>5, <1>6, <1>7 DEF Good, ServiceStays

LEMMA VisitorKept == ASSUME StatusInvariant, VisitorTimeout PROVE StatusInvariant'
  <1>1. /\ "PhoneNetwork" \in group /\ UNCHANGED <<group, known>>
        /\ indicators["PhoneNetwork"].visitorTimer
        /\ indicators' = [indicators EXCEPT !["PhoneNetwork"] =
                             ShowVisitorNetworkName(indicators["PhoneNetwork"], known)]
    BY DEF VisitorTimeout
  <1>2. group = {"PhoneNetwork"}
    BY <1>1 DEF StatusInvariant, RelatedKinds
  <1>3. PICK i : i = ShowVisitorNetworkName(indicators["PhoneNetwork"], known)
    OBVIOUS
  <1>4. /\ Good("PhoneNetwork", indicators["PhoneNetwork"], known)
        /\ ServiceStays(indicators["PhoneNetwork"])
    BY <1>1 DEF StatusInvariant, AllGood, Watched, ContextKinds
  <1>5. Good("PhoneNetwork", i, known) /\ ServiceStays(i)
    BY <1>1, <1>3, <1>4, VisitorShown
  <1>6. /\ indicators' = [k \in group |-> indicators'[k]] /\ indicators'["PhoneNetwork"] = i
    BY <1>1, <1>3 DEF StatusInvariant, AllGood
  <1>7. AllGood(indicators, known)'
    BY <1>1, <1>2, <1>5, <1>6 DEF AllGood, Watched
  <1>8. (\A k, l \in Watched : indicators[k].enabled = indicators[l].enabled)'
    BY <1>1, <1>2 DEF Watched
  <1> QED
    BY <1>1, <1>7, <1>8 DEF StatusInvariant

LEMMA UnwatchedKept ==
    ASSUME StatusInvariant, NEW k \in group \ ContextKinds, NEW i,
           indicators' = [indicators EXCEPT ![k] = i], UNCHANGED <<group, known>>
    PROVE  StatusInvariant'
  <1>1. group = {k}
    BY WholeGroupWatched DEF StatusInvariant, RelatedKinds, ContextKinds
  <1>2. Watched = {} /\ Watched' = {}
    BY <1>1 DEF Watched
  <1>3. AllGood(indicators, known)'
    BY <1>1, <1>2 DEF StatusInvariant, AllGood, ContextKinds
  <1> QED
    BY <1>2, <1>3 DEF StatusInvariant

LEMMA StatusStarts == StatusInit => StatusInvariant
  <1> SUFFICES ASSUME StatusInit PROVE StatusInvariant
    OBVIOUS
  <1>1. group \in RelatedKinds
    BY GroupsAssumption DEF StatusInit
  <1>2. /\ known = [key \in KeysOf(group) |-> known[key]]
        /\ indicators = [k \in group |-> indicators[k]]
        /\ \A k \in group : indicators[k] = NewIndicator(k, known)
    BY DEF StatusInit
  <1>3. ASSUME NEW k \in Watched
        PROVE  /\ Good(k, indicators[k], known) /\ indicators[k].enabled = FALSE
               /\ k = "PhoneNetwork" => ServiceStays(indicators[k])
    BY <1>2, Made DEF Watched, Good
  <1>4. "PhoneNetwork" \in group => "PhoneNetwork" \in Watched
    BY DEF Watched, ContextKinds
  <1>5. AllGood(indicators, known)
    BY <1>2, <1>3, <1>4 DEF AllGood
  <1> QED
    BY <1>1, <1>2, <1>3, <1>5 DEF StatusInvariant

LEMMA StatusKept == StatusInvariant /\ [StatusNext]_statusVars => StatusInvariant'
  <1> SUFFICES ASSUME StatusInvariant, [StatusNext]_statusVars
               PROVE  StatusInvariant'
    OBVIOUS
  <1>1. CASE IconSet
    <2>1. PICK k \in group \cap ShowsIcons : \E icon :
              /\ indicators' = [indicators EXCEPT ![k] = SetIconID(k, indicators[k], icon)]
              /\ UNCHANGED <<group, known>>
      BY <1>1 DEF IconSet, StatusInvariant, AllGood
    <2>2. k \in group \ ContextKinds
      BY DEF ShowsIcons, ContextKinds, Valueless
    <2> QED
      BY <2>1, <2>2, UnwatchedKept
  <1>2. CASE TransferUiTells
    <2>1. PICK state :
              /\ indicators' = [indicators EXCEPT !["Transfer"] =
                                   TransferStateChanged(indicators["Transfer"], state)]
              /\ UNCHANGED <<group, known>>
      BY <1>2 DEF TransferUiTells, StatusInvariant, AllGood
    <2>2. "Transfer" \in group \ ContextKinds
      BY <1>2 DEF TransferUiTells, ContextKinds, Valueless
    <2> QED
      BY <2>1, <2>2, UnwatchedKept
  <1>3. CASE UNCHANGED statusVars
    BY <1>3 DEF statusVars, StatusInvariant, AllGood, Watched
  <1> QED
    BY <1>1, <1>2, <1>3, EnteringKept, LeavingKept, ContextKept, ConfigurationKept, VisitorKept
       DEF StatusNext

LEMMA ContextTold ==
    ASSUME StatusInvariant
    PROVE  IndicatorsTellTheContext
  <1> SUFFICES ASSUME NEW k \in group \ (ShowsIcons \cup {"Transfer"}), OnDisplay,
                      NEW i, i = indicators[k], NEW new, new = AsNew(k)
               PROVE  /\ i.shown = i.value
                      /\ \/ i.style = new.style
                         \/ k = "PhoneNetworkType" /\ i.style = <<>>
                      /\ k # "PhoneNetworkType" => i.animate = new.animate
                      /\ \/ i.shown = new.shown
                         \/ k = "Battery" /\ Len(known.ChargeBars) # 2
                         \/ k = "PhoneNetworkSignalStrength" /\ ~i.available
                         \/ k = "PhoneNetwork" /\ i.shown = <<VisitorNetwork(known)>>
    BY DEF IndicatorsTellTheContext
  <1>1. k \in ContextKinds /\ k \in Watched
    BY DEF StatusInvariant, RelatedKinds, Kinds, Keys, ContextKinds, Valueless, ShowsIcons, Watched
  <1>2. i.enabled /\ Sound(k, i, known) /\ Tells(k, i, known)
    BY <1>1 DEF StatusInvariant, AllGood, Good, OnDisplay
  <1>3. PICK first : first = NewIndicator(k, known)
    OBVIOUS
  <1>4. PICK on \in BOOLEAN : on = TRUE
    OBVIOUS
  <1>5. PICK shown : shown = SetModelUpdatesEnabled(k, first, on)
    OBVIOUS
  <1>6. Sound(k, first, known)
    BY <1>1, <1>3, Made
  <1>7. Sound(k, shown, known) /\ shown.enabled = on
    BY <1>1, <1>5, <1>6, Enabled
  <1>8. new = Refresh(k, shown, known)
    BY <1>3, <1>4, <1>5 DEF AsNew
  <1>9. Sound(k, new, known) /\ new.enabled /\ Tells(k, new, known)
    <2>1. k \in ContextKinds /\ Sound(k, shown, known)
      BY <1>1, <1>7
    <2>2. Leaves(k, shown, known, new)
      BY <1>8, <2>1, Refreshed
    <2> QED
      BY <1>4, <1>7, <2>2 DEF Leaves
  <1>12. k = "PhoneNetwork" => new.value = <<HomeText(known)>>
    <2>1. k \in ContextKinds /\ Sound(k, shown, known)
      BY <1>1, <1>7
    <2> QED
      BY <1>8, <2>1, Refreshed
  <1>10. /\ i.shown = i.value /\ new.shown = new.value
         /\ TellsStyle(k, i, known) /\ TellsStyle(k, new, known)
         /\ TellsValue(k, i, known) /\ TellsValue(k, new, known)
    BY <1>2, <1>9 DEF Sound, Tells
  <1>11. k # "PhoneNetworkType" => i.animate = new.animate
    <2>1. CASE k \in Moving
      BY <1>2, <1>9, <2>1 DEF Sound, Tells
    <2>2. CASE k \notin Moving
      BY <1>2, <1>9, <2>2 DEF Sound
    <2> QED
      BY <2>1, <2>2
  <1>13. \/ i.style = new.style
         \/ k = "PhoneNetworkType" /\ i.style = <<>>
    <2>1. CASE k # "PhoneNetworkType"
      BY <1>10, <2>1 DEF TellsStyle
    <2>2. CASE k = "PhoneNetworkType"
      <3>1. CASE i.style = <<>>
        BY <2>2, <3>1
      <3>2. CASE i.style # <<>>
        <4>1. i.style = StyleOf(k, known)
          BY <1>10, <3>2 DEF TellsStyle
        <4>2. new.style = StyleOf(k, known)
          <5>1. /\ Sound("PhoneNetworkType", shown, known)
                /\ new = SetNetworkType(shown, known)
            BY <1>7, <1>8, <2>2 DEF Refresh
          <5>2. new.style = NetworkTypeWords(known)
            BY <5>1, NetworkTypeRefreshed
          <5> QED
            BY <2>2, <5>2 DEF StyleOf
        <4> QED
          BY <4>1, <4>2
      <3> QED
        BY <3>1, <3>2
    <2> QED
      BY <2>1, <2>2
  <1>14. \/ i.value = new.value
         \/ k = "Battery" /\ Len(known.ChargeBars) # 2
         \/ k = "PhoneNetworkSignalStrength" /\ ~i.available
         \/ k = "PhoneNetwork" /\ i.value = <<VisitorNetwork(known)>>
    <2>1. CASE k \in Valueless \cup {"PhoneNetworkType", "Call"}
      BY <1>10, <2>1 DEF TellsValue
    <2>2. CASE k = "PhoneNetworkSignalStrength"
      BY <1>10, <2>2 DEF TellsValue
    <2>3. CASE k = "Battery"
      BY <1>10, <2>3 DEF TellsValue
    <2>4. CASE k = "PhoneNetwork"
      BY <1>10, <1>12, <2>4 DEF TellsValue
    <2> QED
      BY <1>1, <2>1, <2>2, <2>3, <2>4 DEF ContextKinds
  <1> QED
    BY <1>10, <1>11, <1>13, <1>14

(* What the indicators of the status area show while they are on display   *)
(* is what the context says now, whatever changed while they were not      *)
(* (enterDisplayEvent, statusindicator.cpp:89-96).                         *)
THEOREM IndicatorsAlwaysTellTheContext == StatusSpec => []IndicatorsTellTheContext
  BY StatusStarts, StatusKept, ContextTold, PTL DEF StatusSpec

(* No timer replaces the announcement of a limited service by the name of  *)
(* a visited network (phoneNetworkChanged, statusindicator.cpp:529-583).   *)
THEOREM LimitedServiceAlwaysStays == StatusSpec => []LimitedServiceStays
  <1>1. StatusInvariant => LimitedServiceStays
    BY DEF StatusInvariant, AllGood, ServiceStays, LimitedServiceStays
  <1> QED
    BY <1>1, StatusStarts, StatusKept, PTL DEF StatusSpec

=============================================================================
