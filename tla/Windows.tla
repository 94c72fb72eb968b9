------------------------------ MODULE Windows -------------------------------
(* The two real windows of the shell (render/toplevel_window.cpp): the rain *)
(* (modules/rain.cpp), which the poll thread paints with a frame clock, and *)
(* the visualizer (modules/visualizer.cpp), which a thread of its own       *)
(* paints at its own pace with an EGL context of its own.  A window is made *)
(* when it opens and destroyed when it closes; opening dispatches Wayland   *)
(* events until the window is configured, closing the visualizer waits for  *)
(* its thread.  The compositor asks no window to close that it has not      *)
(* configured yet.                                                          *)
EXTENDS Naturals, FrameClock

CONSTANTS
    Looks,            \* parameters the configuration may hold
    Sizes,            \* sizes <<width, height>> the compositor may choose
    MaxWindowEvents   \* bound: toggles, resizes, plugs, changes of the configuration

VARIABLES
    at,         \* what the main thread is in: the loop, a nested dispatch, a join
    current,    \* the window the main thread's EGL context is current on
    outputs,    \* a monitor is plugged in, whose surface the context can rest on
    cfg,        \* the configuration
    rain,       \* RainState
    viz,        \* VisualizerState
    thread,     \* the render thread
    windowWork

vars == <<at, current, outputs, cfg, rain, viz, thread, windowWork>>

Places == {"loop", "viz", "rain", "joining", "quitting", "gone"}
NoSize == <<0, 0>>
SomeSize == Sizes \union {NoSize}
NoLook == 0
Unseen == [look |-> NoLook, size |-> NoSize]
Seen == [look : Looks \union {NoLook},
         size : {<<a[1], b[2]>> : a \in SomeSize, b \in SomeSize}]

\* ToplevelWindowBase, and what of it is on the screen
Window == [surface : BOOLEAN, configured : BOOLEAN, egl : BOOLEAN, open : BOOLEAN,
           size : SomeSize, clocked : BOOLEAN, clock : Clock, shown : Seen]

NoWindow == [surface |-> FALSE, configured |-> FALSE, egl |-> FALSE, open |-> FALSE,
             size |-> NoSize, clocked |-> FALSE, clock |-> IdleClock, shown |-> Unseen]

\* VisualizerRenderThreadState, null when the thread has none
NoState == [there |-> FALSE, shutdown |-> FALSE, look |-> NoLook]
State == [there : BOOLEAN, shutdown : BOOLEAN, look : Looks \union {NoLook}]

Steps == {"none", "started", "waits", "reads", "draws", "ended"}
Alive == {"started", "waits", "reads", "draws"}
\* fresh: the frame under way, or the last one, began after the last change
NoThread ==
    [step |-> "none", look |-> NoLook, width |-> 0, refused |-> FALSE, fresh |-> FALSE]

Init ==
    /\ at = "loop" /\ current = "output" /\ outputs = TRUE
    /\ cfg \in [rain : Looks, viz : Looks]
    /\ rain = [win |-> NoWindow, look |-> cfg.rain, built |-> Unseen, fading |-> FALSE]
    /\ viz = [win |-> NoWindow, context |-> FALSE, state |-> NoState, bare |-> FALSE]
    /\ thread = NoThread /\ windowWork = MaxWindowEvents

Event == windowWork > 0 /\ windowWork' = windowWork - 1
Dispatching == at \in {"loop", "viz", "rain"}

(* rest_egl_current: without a monitor there is nothing to rest on          *)
Rested(cur) == IF outputs THEN "output" ELSE cur

(* toplevel_window_create_surface                                           *)
Created(w) == [w EXCEPT !.surface = TRUE]

(* toplevel_window_destroy_surface; the size it leaves is read by nobody    *)
(* before the next configure                                                *)
Destroyed == NoWindow

-----------------------------------------------------------------------------
(* The rain.                                                                *)

Rebuilt(r) == [look |-> r.look, size |-> r.win.size]

\* Mutant of RainPainted: a frame is asked for only while the window fades in.
RainPaintedFading(r) ==
    LET c == Committed(r.win.clock)
    IN  [r EXCEPT !.built = Rebuilt(r), !.win.shown = Rebuilt(r),
                  !.win.clock = IF r.fading THEN Deferred(c) ELSE c]

(* rain_paint: the drops are made again for a new size, and the next frame  *)
(* is asked for as long as the window is open.                              *)
RainPainted(r) ==
    LET b == IF r.built.size = r.win.size THEN r.built ELSE Rebuilt(r)
        c == Committed(r.win.clock)
    IN  [r EXCEPT !.built = b, !.win.shown = b,
                  !.win.clock = IF r.win.open \/ r.fading THEN Deferred(c) ELSE c]

(* toplevel_window_request_frame of the rain                                *)
RainRequested(r) ==
    LET c == r.win.clock
    IN  IF ~r.win.egl THEN r
        ELSE IF c.callback # "none" THEN [r EXCEPT !.win.clock = Deferred(c)]
        ELSE IF ~c.mapped THEN RainPainted([r EXCEPT !.win.clock = FirstDraw(c)])
        ELSE [r EXCEPT !.win.clock = Scheduled(c)]

(* rain_toggle, up to the dispatch that waits for the configure             *)
RainOpens ==
    /\ at = "loop" /\ ~rain.win.open /\ Event /\ at' = "rain"
    /\ rain' = [rain EXCEPT !.win = Created(@)]
    /\ UNCHANGED <<current, outputs, cfg, viz, thread>>

(* rain_toggle, once configured; EGL may refuse the window                  *)
RainResumes ==
    /\ at = "rain" /\ rain.win.configured /\ at' = "loop"
    /\ \/ /\ rain' = RainRequested(
                [rain EXCEPT !.win.egl = TRUE, !.win.clocked = TRUE, !.win.open = TRUE,
                             !.built = Rebuilt(rain),
                             !.fading = TRUE])
          /\ current' = Rested("rain")
       \/ /\ rain' = [rain EXCEPT !.win = Destroyed]
          /\ current' \in {Rested("none"), Rested(current)}
    /\ UNCHANGED <<outputs, cfg, viz, thread, windowWork>>

(* by IPC or Escape, or because the compositor asks, also in the dispatch   *)
(* the other window waits in                                                *)
RainCloses ==
    /\ at \in {"loop", "viz"} /\ rain.win.open /\ Event
    /\ rain' = [rain EXCEPT !.win = Destroyed, !.fading = FALSE]
    /\ current' = Rested("none")
    /\ UNCHANGED <<at, outputs, cfg, viz, thread>>

(* frame_done; the draw may find the fade at its end                        *)
RainFrameDone ==
    /\ Dispatching /\ rain.win.clock.callback = "committed"
    /\ IF rain.win.clock.redraw
       THEN /\ \E fading \in {FALSE, rain.fading} :
                  rain' = RainPainted([rain EXCEPT !.win.clock = DoneForDraw(@),
                                                   !.fading = fading])
            /\ current' = "rain"
       ELSE rain' = [rain EXCEPT !.win.clock = DoneIdle(@)] /\ UNCHANGED current
    /\ UNCHANGED <<at, outputs, cfg, viz, thread, windowWork>>

(* rain_apply_params                                                        *)
RainApplied(look) ==
    LET r == [rain EXCEPT !.look = look]
    IN  IF look # rain.look /\ rain.win.open
        THEN RainRequested([r EXCEPT !.built = Rebuilt(r)])
        ELSE r

-----------------------------------------------------------------------------
(* The visualizer, on the main thread.                                      *)

VizOpens ==
    /\ at = "loop" /\ ~viz.win.egl /\ Event /\ at' = "viz"
    /\ viz' = [viz EXCEPT !.win = Created(@)]
    /\ UNCHANGED <<current, outputs, cfg, rain, thread>>

Handed(cur) == cur                \* mutant: the surface stays current

(* What is current when the thread starts: toplevel_window_init_egl made    *)
(* the window current, and only a rest gives it up.                         *)
HandedOver(cur) == Rested(cur)

(* visualizer_render_thread_start: no context, no thread                    *)
Started(v, t) ==
    {<<v, t>>,
     <<[v EXCEPT !.context = TRUE, !.state = [NoState EXCEPT !.there = TRUE, !.look = cfg.viz]],
       [NoThread EXCEPT !.step = "started"]>>}

\* Mutant of InitEgl: the poll thread keeps its frame clock on the window.
InitEglKeepsClock(w) == [w EXCEPT !.egl = TRUE, !.open = TRUE, !.clocked = TRUE]

(* toplevel_window_init_egl, and the frame clock taken off the window again *)
InitEgl(w) == [w EXCEPT !.egl = TRUE, !.open = TRUE, !.clocked = FALSE]

(* visualizer_toggle, once configured                                       *)
VizResumes ==
    /\ at = "viz" /\ viz.win.configured /\ at' = "loop"
    /\ \/ /\ current' = HandedOver("viz")
          /\ \E s \in Started([viz EXCEPT !.win = InitEgl(@), !.bare = ~outputs], thread) :
                viz' = s[1] /\ thread' = s[2]
       \/ /\ viz' = [viz EXCEPT !.win = Destroyed]
          /\ current' \in {Rested("none"), Rested(current)} /\ UNCHANGED thread
    /\ UNCHANGED <<outputs, cfg, rain, windowWork>>

ShutdownUnsaid(v) == v            \* mutant: the thread is not told

(* visualizer_shutdown, up to the join                                      *)
Shutdown(v) == [v EXCEPT !.state.shutdown = v.state.there]

(* What is left once the thread is joined.                                  *)
Quiet(v) == [v EXCEPT !.context = FALSE, !.state = NoState]

VizClosesUnjoined ==              \* mutant: the window goes first
    /\ at = "loop" /\ viz.win.egl /\ Event /\ at' = "joining"
    /\ viz' = Shutdown([viz EXCEPT !.win = Destroyed])
    /\ UNCHANGED <<current, outputs, cfg, rain, thread>>

VizCloses ==
    /\ at \in {"loop", "rain"} /\ viz.win.egl /\ Event /\ at' = "joining"
    /\ viz' = Shutdown([viz EXCEPT !.win.open = FALSE])
    /\ UNCHANGED <<current, outputs, cfg, rain, thread>>

QuitUnjoined ==                   \* mutant: the destructor forgets the thread
    /\ at = "loop" /\ Event /\ at' = "gone"
    /\ viz' = Quiet(viz)
    /\ UNCHANGED <<current, outputs, cfg, rain, thread>>

(* The main loop ends and ~VisualizerModule shuts the thread down.          *)
Quit ==
    /\ at = "loop" /\ Event /\ at' = "quitting"
    /\ viz' = Shutdown(viz)
    /\ UNCHANGED <<current, outputs, cfg, rain, thread>>

(* The join returns; closing goes on to destroy the window, and the handler *)
(* to where it came from: the loop, or the dispatch the rain waits in.      *)
Came == IF rain.win.surface /\ ~rain.win.open THEN "rain" ELSE "loop"

Joined ==
    /\ at \in {"joining", "quitting"} /\ thread.step \in {"none", "ended"}
    /\ thread' = NoThread
    /\ IF at = "joining"
       THEN /\ at' = Came /\ current' = Rested("none")
            /\ viz' = [Quiet(viz) EXCEPT !.win = Destroyed, !.bare = FALSE]
       ELSE at' = "gone" /\ viz' = Quiet(viz) /\ UNCHANGED current
    /\ UNCHANGED <<outputs, cfg, rain, windowWork>>

VizAppliedClosed(look) == viz     \* mutant: the thread keeps its first parameters

(* visualizer_apply_params                                                  *)
VizApplied(look) ==
    IF viz.state.there THEN [viz EXCEPT !.state.look = look] ELSE viz

-----------------------------------------------------------------------------
(* The render thread.                                                       *)
Goes(step) == thread' = [thread EXCEPT !.step = step]
OnlyThread == UNCHANGED <<at, current, outputs, cfg, rain, windowWork>>

(* gl_make_current: refused while the main thread holds the window, or by   *)
(* the driver                                                               *)
ThreadTakesWindow ==
    /\ thread.step = "started"
    /\ \/ current # "viz" /\ Goes("waits")
       \/ current = "viz" /\ Goes("ended")
       \/ thread' = [thread EXCEPT !.step = "ended", !.refused = TRUE]
    /\ UNCHANGED viz /\ OnlyThread

(* wait_until: out at shutdown, else the parameters of this frame           *)
ThreadWakes ==
    /\ thread.step = "waits"
    /\ IF viz.state.shutdown THEN Goes("ended")
       ELSE thread' = [thread EXCEPT !.step = "reads", !.look = viz.state.look, !.fresh = TRUE]
    /\ UNCHANGED viz /\ OnlyThread

(* The size is read without a lock: a configure may come in between.        *)
ThreadReads ==
    /\ thread.step = "reads"
    /\ thread' = [thread EXCEPT !.step = "draws", !.width = viz.win.size[1]]
    /\ UNCHANGED viz /\ OnlyThread

ThreadDraws ==
    /\ thread.step = "draws" /\ Goes("waits")
    /\ viz' = [viz EXCEPT !.win.shown =
                  [look |-> thread.look, size |-> <<thread.width, viz.win.size[2]>>]]
    /\ OnlyThread

-----------------------------------------------------------------------------
(* The compositor, the configuration and the monitors.                      *)

(* xdg_surface_configure                                                    *)
ConfiguredAs(w, size) == [w EXCEPT !.configured = TRUE, !.size = size]

Configure(size) ==
    /\ Dispatching
    /\ \/ /\ rain.win.surface
          /\ rain' = [rain EXCEPT !.win = ConfiguredAs(@, size)] /\ UNCHANGED <<viz, thread>>
          /\ IF rain.win.configured THEN Event /\ size # rain.win.size
             ELSE UNCHANGED windowWork
       \/ /\ viz.win.surface
          /\ viz' = [viz EXCEPT !.win = ConfiguredAs(@, size)]
          /\ thread' = [thread EXCEPT !.fresh = FALSE] /\ UNCHANGED rain
          /\ IF viz.win.configured THEN Event /\ size # viz.win.size
             ELSE UNCHANGED windowWork
    /\ UNCHANGED <<at, current, outputs, cfg>>

(* on_change of the scale: a frame, if the window has a frame clock         *)
ScaleChange ==
    /\ Dispatching /\ Event
    /\ \/ rain.win.clocked /\ rain' = RainRequested(rain) /\ UNCHANGED viz
       \/ viz.win.clocked /\ viz' = [viz EXCEPT !.win.clock = FirstDraw(@)] /\ UNCHANGED rain
    /\ UNCHANGED <<at, current, outputs, cfg, thread>>

(* apply_config of both modules                                             *)
ApplyConfig(c) ==
    /\ at = "loop" /\ Event /\ c # cfg /\ cfg' = c
    /\ rain' = RainApplied(c.rain) /\ viz' = VizApplied(c.viz)
    /\ thread' = [thread EXCEPT !.fresh = @ /\ c.viz = cfg.viz]
    /\ UNCHANGED <<at, current, outputs>>

(* The last monitor goes, with the surface the context may rest on, or the  *)
(* first one comes.                                                         *)
Plugs ==
    /\ Dispatching /\ Event /\ outputs' = ~outputs
    /\ current' = IF outputs /\ current = "output" THEN "none" ELSE current
    /\ UNCHANGED <<at, cfg, rain, viz, thread>>

Next ==
    \/ RainOpens \/ RainResumes \/ RainCloses \/ RainFrameDone
    \/ VizOpens \/ VizResumes \/ VizCloses \/ Quit \/ Joined
    \/ ThreadTakesWindow \/ ThreadWakes \/ ThreadReads \/ ThreadDraws
    \/ \E size \in Sizes : Configure(size)
    \/ ScaleChange \/ Plugs
    \/ \E c \in [rain : Looks, viz : Looks] : ApplyConfig(c)

Spec == Init /\ [][Next]_vars

-----------------------------------------------------------------------------
TypeOK ==
    /\ at \in Places /\ current \in {"output", "rain", "viz", "none"}
    /\ outputs \in BOOLEAN /\ cfg \in [rain : Looks, viz : Looks]
    /\ rain \in [win : Window, look : Looks, built : Seen, fading : BOOLEAN]
    /\ viz \in [win : Window, context : BOOLEAN, state : State, bare : BOOLEAN]
    /\ thread \in [step : Steps, look : Looks \union {NoLook}, width : Nat, refused : BOOLEAN,
                fresh : BOOLEAN]
    /\ windowWork \in 0..MaxWindowEvents

(* The render thread has its window, its context and its parameters as long *)
(* as it runs, also while the shell quits (visualizer_shutdown joins it     *)
(* before anything goes), and the poll thread asks for no frame of that     *)
(* window, which only the thread commits (frame_clock.surface = nullptr).   *)
ThreadHasWindow ==
    /\ thread.step \in Alive =>
          viz.win.egl /\ viz.context /\ viz.state.there /\ at # "gone"
    /\ viz.win.clock = IdleClock

(* What is open is painted as it is now.  An open rain window, however often *)
(* it was closed before, is behind a committed frame callback that will      *)
(* paint it.  The thread of an open visualizer runs with the parameters of   *)
(* the configuration, and a frame it began after the last change shows them  *)
(* at the size of the window; unless the driver refused, or no monitor was   *)
(* there for the context to rest on.  A join waits for a thread that has     *)
(* been told to end.                                                         *)
WindowsDriven ==
    /\ rain.win.open =>
          /\ rain.win.clock.callback = "committed" /\ rain.win.clock.redraw
          /\ rain.built.look = cfg.rain
    /\ viz.state.there /\ ~viz.state.shutdown /\ ~thread.refused /\ ~viz.bare =>
          /\ thread.step \in Alive /\ viz.state.look = cfg.viz
          /\ thread.step = "waits" /\ thread.fresh =>
                viz.win.shown = [look |-> cfg.viz, size |-> viz.win.size]
    /\ at \in {"joining", "quitting"} /\ thread.step \in Alive => viz.state.shutdown
=============================================================================
