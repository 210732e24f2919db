------------------------ MODULE StatusAreaRenderer ------------------------
(***************************************************************************)
(* The renderer of the status area (statusarearenderer.cpp): it follows    *)
(* the window manager through the X server to learn whether the status bar *)
(* is visible, the display state to learn whether to render at all, and    *)
(* copies accumulated changes of its scene to a shared pixmap.             *)
(*                                                                         *)
(* The X server and the window manager are modelled from the requests and  *)
(* the events that the code makes and handles.  The window manager dies    *)
(* and comes back with another window; until then the root window names    *)
(* the dead one.                                                           *)
(***************************************************************************)
EXTENDS Integers, Sequences, FiniteSets

CONSTANTS
    MaxWindows,         \* bound on the windows the window manager makes
    MaxXEvents          \* bound on the events that wait

ASSUME RendererAssumption == MaxWindows \in Nat /\ MaxXEvents \in Nat

VARIABLES
    server,         \* the window manager and the X server
    xEvents,        \* the X events on their way to the process
    renderer        \* the members of StatusAreaRenderer

rendererVars == <<server, xEvents, renderer>>

NoWindow == 0

-----------------------------------------------------------------------------
(* The window manager, from the outside.                                   *)

(* An event reaches a filter only if the mask it registered with covers it. *)
PropertyEvent(window, property) == [type |-> "property", window |-> window, property |-> property]
DestroyEvent(window) == [type |-> "destroy", window |-> window, property |-> "none"]

SentToX(event, selected) == IF selected THEN Append(xEvents, event) ELSE xEvents

Manages == server.manager # NoWindow

WindowManagerStarts ==
    /\ ~Manages
    /\ server.made < MaxWindows
    /\ \E visible \in {"unset", "yes", "no"} :
            server' = [server EXCEPT !.made = @ + 1, !.manager = server.made + 1, !.visible = visible]
    /\ UNCHANGED <<xEvents, renderer>>

WindowManagerChecksIn ==
    /\ Manages
    /\ server.check # server.manager
    /\ Len(xEvents) < MaxXEvents
    /\ server' = [server EXCEPT !.check = server.manager]
    /\ xEvents' = SentToX(PropertyEvent("root", "check"), server.rootMask)
    /\ UNCHANGED renderer

WindowManagerSetsSupported ==
    /\ Manages
    /\ Len(xEvents) < MaxXEvents
    /\ xEvents' = SentToX(PropertyEvent("root", "supported"), server.rootMask)
    /\ UNCHANGED <<server, renderer>>

WindowManagerSetsVisible ==
    /\ Manages
    /\ Len(xEvents) < MaxXEvents
    /\ \E visible \in {"yes", "no"} \ {server.visible} :
            server' = [server EXCEPT !.visible = visible]
    /\ xEvents' = SentToX(PropertyEvent(server.manager, "visible"), server.manager \in server.selected)
    /\ UNCHANGED renderer

WindowManagerDies ==
    /\ Manages
    /\ Len(xEvents) < MaxXEvents
    /\ server' = [server EXCEPT !.manager = NoWindow, !.visible = "unset", !.selected = @ \ {server.manager}]
    /\ xEvents' = SentToX(DestroyEvent(server.manager), server.manager \in server.selected)
    /\ UNCHANGED renderer

-----------------------------------------------------------------------------
(* What the renderer does, on the server s and on itself r; a state is the *)
(* pair of them.                                                           *)

RendererState(s, r) == [s |-> s, r |-> r]

RenderAccumulatedRegion(r) == IF r.sharing THEN [r EXCEPT !.dirty = FALSE] ELSE r

(* The status bar counts as visible when the window manager does not say. *)
UpdateStatusBarVisibleProperty(st) ==
    LET told == st.r.wmWindow = st.s.manager /\ st.s.visible # "unset"
        visible == ~told \/ st.s.visible = "yes"
        set == [st.r EXCEPT !.statusBarVisible = visible]
    IN  RendererState(st.s, IF visible /\ ~st.r.statusBarVisible THEN RenderAccumulatedRegion(set) ELSE set)

ServerTold(st) == st.r.wmWindow = st.s.manager /\ st.s.visible # "unset"

(* The window the root names may be gone: XSelectInput then fails. *)
SetupStatusBarVisibleListener(st) ==
    IF st.s.check # NoWindow /\ st.s.check = st.s.manager
    THEN RendererState([st.s EXCEPT !.selected = @ \cup {st.s.manager}],
               [st.r EXCEPT !.wmWindow = st.s.manager, !.filter = {"property", "destroy"}])
    ELSE RendererState(st.s, [st.r EXCEPT !.wmWindow = NoWindow])

StartTrackingRootWindowProperties(st) ==
    RendererState([st.s EXCEPT !.rootMask = TRUE],
          [st.r EXCEPT !.previousRootMask = st.s.rootMask, !.filter = {"property"}])

StopTrackingRootWindowProperties(st) ==
    RendererState([st.s EXCEPT !.rootMask = st.r.previousRootMask], st.r)

(* Bug: what the root window says is read, but it is not watched. *)
WmWindowUnavailableUnwatched(st) ==
    LET setup == SetupStatusBarVisibleListener(
                     RendererState(st.s, [st.r EXCEPT !.wmWindow = NoWindow, !.statusBarVisible = TRUE]))
    IN  IF setup.r.wmWindow = NoWindow THEN setup ELSE UpdateStatusBarVisibleProperty(setup)

WmWindowUnavailable(st) ==
    LET visible == RendererState(st.s, [st.r EXCEPT !.wmWindow = NoWindow, !.statusBarVisible = TRUE])
        setup == SetupStatusBarVisibleListener(StartTrackingRootWindowProperties(visible))
        updated == UpdateStatusBarVisibleProperty(setup)
    IN  IF setup.r.wmWindow = NoWindow THEN setup
        ELSE IF ServerTold(updated) THEN StopTrackingRootWindowProperties(updated) ELSE updated

-----------------------------------------------------------------------------
(* An X event.                                                             *)

VisiblePropertyChanged(st) ==
    LET updated == UpdateStatusBarVisibleProperty(st)
    IN  IF ServerTold(updated) THEN updated ELSE WmWindowUnavailable(updated)

WindowManagerAppeared(st) ==
    LET setup == SetupStatusBarVisibleListener(StopTrackingRootWindowProperties(st))
    IN  IF setup.r.wmWindow = NoWindow THEN WmWindowUnavailable(setup)
        ELSE UpdateStatusBarVisibleProperty(setup)

(* The queued signal lets Qt, which handles the event next and takes the   *)
(* property changes off the root mask, finish before tracking is restarted.*)
NetSupportedChanged(st) ==
    RendererState([st.s EXCEPT !.rootMask = FALSE], [st.r EXCEPT !.restarts = TRUE])

XEventFilter(st, e) ==
    IF e.type \notin st.r.filter THEN st
    ELSE CASE e.type = "destroy" -> IF e.window = st.r.wmWindow THEN WmWindowUnavailable(st) ELSE st
           [] e.property = "visible" -> IF e.window = st.r.wmWindow THEN VisiblePropertyChanged(st) ELSE st
           [] e.property = "check" -> WindowManagerAppeared(st)
           [] e.property = "supported" -> NetSupportedChanged(st)

RendererBecomes(st) == server' = st.s /\ renderer' = st.r

HandleXEvent ==
    /\ xEvents # <<>>
    /\ xEvents' = Tail(xEvents)
    /\ RendererBecomes(XEventFilter(RendererState(server, renderer), Head(xEvents)))

NetSupportedPropertyChanged ==
    /\ renderer.restarts
    /\ RendererBecomes(WmWindowUnavailable(RendererState(server, [renderer EXCEPT !.restarts = FALSE])))
    /\ UNCHANGED xEvents

-----------------------------------------------------------------------------
(* The scene.                                                              *)

AccumulateSceneChanges ==
    /\ renderer' = [renderer EXCEPT !.dirty = TRUE,
                                    !.timer = @ \/ (renderer.statusBarVisible /\ renderer.renderScene)]
    /\ UNCHANGED <<server, xEvents>>

AccumulationTimeout ==
    /\ renderer.timer
    /\ renderer' = RenderAccumulatedRegion([renderer EXCEPT !.timer = FALSE])
    /\ UNCHANGED <<server, xEvents>>

(* The items of the scene are told that they are on display, or off it. *)
SetSceneRender ==
    \E render \in BOOLEAN :
        /\ render # renderer.renderScene
        /\ renderer' = IF render THEN RenderAccumulatedRegion([renderer EXCEPT !.renderScene = TRUE])
                       ELSE [renderer EXCEPT !.renderScene = FALSE]
        /\ UNCHANGED <<server, xEvents>>

-----------------------------------------------------------------------------
(* Without the pixmaps nothing is set up, and nothing is ever rendered. *)
NewRenderer(sharing, on) ==
    [sharing |-> sharing, wmWindow |-> NoWindow, statusBarVisible |-> FALSE, renderScene |-> on,
     timer |-> FALSE, dirty |-> FALSE, restarts |-> FALSE, previousRootMask |-> FALSE, filter |-> {}]

SetUp(st) ==
    LET setup == SetupStatusBarVisibleListener(st)
    IN  IF setup.r.wmWindow = NoWindow THEN WmWindowUnavailable(setup)
        ELSE UpdateStatusBarVisibleProperty(setup)

RendererInit ==
    \E sharing, on \in BOOLEAN, running \in {NoWindow, 1}, visible \in {"unset", "yes", "no"} :
        LET s == [made |-> running, manager |-> running, check |-> running,
                  visible |-> IF running = NoWindow THEN "unset" ELSE visible,
                  rootMask |-> FALSE, selected |-> {}]
            new == RendererState(s, NewRenderer(sharing, on))
            st == IF sharing THEN SetUp(new) ELSE new
        IN  server = st.s /\ renderer = st.r /\ xEvents = <<>>

RendererNext ==
    \/ WindowManagerStarts
    \/ WindowManagerChecksIn
    \/ WindowManagerSetsSupported
    \/ WindowManagerSetsVisible
    \/ WindowManagerDies
    \/ HandleXEvent
    \/ NetSupportedPropertyChanged
    \/ AccumulateSceneChanges
    \/ AccumulationTimeout
    \/ SetSceneRender

RendererSpec == RendererInit /\ [][RendererNext]_rendererVars

-----------------------------------------------------------------------------
(* Once every event is handled, the renderer has found the window manager  *)
(* that has checked in, and believes of the status bar what the window     *)
(* manager says of it, or that it is visible when it says nothing; however *)
(* the window manager died, came back and set its properties meanwhile.    *)
WindowManagerIsFollowed ==
    renderer.sharing /\ xEvents = <<>> /\ ~renderer.restarts =>
        /\ renderer.wmWindow = IF server.check = server.manager THEN server.manager ELSE NoWindow
        /\ renderer.statusBarVisible = (renderer.wmWindow = NoWindow \/ server.visible # "no")

=============================================================================
