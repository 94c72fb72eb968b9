---------------------------- MODULE OverlayPanel ----------------------------
(***************************************************************************)
(* A full-screen overlay panel (render/overlay_panel.{h,cpp}) as the        *)
(* dashboard uses it (modules/dashboard.cpp, DashboardModule): one layer    *)
(* surface, bound to one output, that is moved to the active output when    *)
(* the panel opens, fades in and out, and holds the keyboard while it is    *)
(* open.                                                                    *)
(*                                                                          *)
(* Everything runs on the main thread, but opening the panel on another     *)
(* output dispatches Wayland events from INSIDE the handler until the new   *)
(* surface is configured: `wait' is the frame of that handler, and the      *)
(* event actions may run while it is on the stack.  Several events can be   *)
(* dispatched before the handler looks at `configured' again.               *)
(***************************************************************************)
EXTENDS FrameClock

CONSTANTS Outputs,      \* the outputs that come and go
          NoOutput,     \* nullptr
          EglMayFail    \* whether creating an EGL surface can fail

ASSUME OutputsAssumption == NoOutput \notin Outputs
ASSUME EglAssumption == EglMayFail \in BOOLEAN

VARIABLES
    present,    \* the outputs the compositor advertises
    bound,      \* state.bound_output
    panel,      \* OverlayPanelBase, and the keyboard grab of its surface
    wait        \* the retarget waiting for a configure, or NoWait

vars == <<present, bound, panel, wait>>

-----------------------------------------------------------------------------
Panel == [surface    : Outputs \cup {NoOutput},  \* the output it was made for
          shown      : BOOLEAN,                  \* the compositor has not closed it
          configured : BOOLEAN,
          egl        : BOOLEAN,                  \* egl_surface, frame_clock.surface
          clock      : Clock,
          open       : BOOLEAN,
          fade       : {"none", "in", "out"},    \* the kOverlayFadeOwner animation
          keyboard   : BOOLEAN,                  \* exclusive interactivity
          stale      : BOOLEAN]                  \* changed since it was last painted

Wait == [target : Outputs, previous : Outputs \cup {NoOutput}]
NoWait == [target |-> NoOutput, previous |-> NoOutput]

(* overlay_panel_create_surface on output o, committed without a buffer *)
Created(p, o) ==
    [p EXCEPT !.surface = o, !.shown = TRUE, !.keyboard = FALSE]

(* overlay_panel_init_egl *)
WithEgl(p) == [p EXCEPT !.egl = TRUE]

DestroyedKeepsRedraw(p) ==
    [p EXCEPT !.surface = NoOutput, !.shown = FALSE,
              !.configured = FALSE, !.egl = FALSE,
              !.clock.callback = "none", !.clock.mapped = FALSE,
              !.keyboard = FALSE]

(* overlay_panel_destroy_surface: the keyboard grab goes with the surface *)
Destroyed(p) ==
    [p EXCEPT !.surface = NoOutput, !.shown = FALSE,
              !.configured = FALSE, !.egl = FALSE,
              !.clock = IdleClock, !.keyboard = FALSE]

(* overlay_panel_release_output, for the output the panel is bound to *)
Released(p) ==
    [Destroyed(p) EXCEPT !.open = FALSE, !.fade = "none", !.stale = FALSE]

-----------------------------------------------------------------------------
(* Painting *)

TickedKeepsKeyboard(p) ==
    {p} \cup IF p.fade = "none" THEN {}
             ELSE {[p EXCEPT !.fade = "none", !.open = p.fade = "in"]}

(* AnimationManager::tick: the fade goes on or reaches its end; the end of
   the closing fade closes the panel and gives the keyboard back. *)
Ticked(p) ==
    {p} \cup IF p.fade = "none" THEN {}
             ELSE {[p EXCEPT !.fade = "none",
                             !.open = p.fade = "in",
                             !.keyboard = p.fade = "in"]}

PaintedOnce(p) ==
    {[q EXCEPT !.stale = FALSE, !.clock = Committed(@)] : q \in Ticked(p)}

(* dashboard_paint, behind the callback just armed: tick, draw, swap, and
   ask for another frame while an animation runs and the panel is open *)
Painted(p) ==
    {[q EXCEPT !.stale = FALSE,
               !.clock = IF q.fade # "none" /\ q.open
                         THEN Deferred(Committed(@)) ELSE Committed(@)]
        : q \in Ticked(p)}

RequestedUncommitted(p) ==
    IF p.clock.callback # "none"
    THEN {[p EXCEPT !.clock = Deferred(@)]}
    ELSE IF p.clock.mapped THEN {[p EXCEPT !.clock = Armed(Deferred(@))]}
    ELSE Painted([p EXCEPT !.clock = FirstDraw(@)])

(* request_frame *)
Requested(p) ==
    IF p.clock.callback # "none"
    THEN {[p EXCEPT !.clock = Deferred(@)]}
    ELSE IF p.clock.mapped THEN {[p EXCEPT !.clock = Scheduled(@)]}
    ELSE Painted([p EXCEPT !.clock = FirstDraw(@)])

(* dashboard_toggle, overlay_panel_toggle: a toggle during the closing fade
   restarts that fade, it does not reopen the panel *)
Toggled(p) ==
    IF p.surface = NoOutput \/ ~p.egl THEN {p}
    ELSE Requested([p EXCEPT !.open = TRUE,
                             !.keyboard = TRUE,
                             !.fade = IF p.open THEN "out" ELSE "in",
                             !.stale = TRUE])

-----------------------------------------------------------------------------
(* At startup the panel is created on the first output and left closed. *)
Init ==
    \E o \in Outputs :
        /\ present = {o}
        /\ bound = o
        /\ panel = [surface |-> o, shown |-> TRUE,
                    configured |-> TRUE, egl |-> TRUE,
                    clock |-> IdleClock, open |-> FALSE, fade |-> "none",
                    keyboard |-> FALSE, stale |-> FALSE]
        /\ wait = NoWait

(* Events: dispatched by the main loop or by a waiting retarget *)

(* registry_global, wl_output *)
Plug(o) ==
    /\ o \notin present
    /\ present' = present \cup {o}
    /\ UNCHANGED <<bound, panel, wait>>

(* overlay_panel_closed does nothing: a surface on an output that is gone is
   kept, and the compositor never answers it again. *)
Closed(p) == [p EXCEPT !.shown = FALSE]

(* registry_global_remove and DashboardModule::on_output_removed.  A later
   wl_output may have the pointer of the one removed here. *)
Unplug(o) ==
    /\ o \in present
    /\ present' = present \ {o}
    /\ IF bound = o
       THEN /\ panel' = Released(panel)
            /\ bound' = NoOutput
       ELSE /\ panel' = IF panel.surface = o THEN Closed(panel) ELSE panel
            /\ UNCHANGED bound
    /\ UNCHANGED wait

(* overlay_panel_configure: the compositor configures a surface it shows *)
Configure ==
    /\ panel.shown
    /\ panel' = [panel EXCEPT !.configured = TRUE]
    /\ UNCHANGED <<present, bound, wait>>

(* output_scale.on_change: not gated on `open' *)
ScaleChange ==
    /\ panel.shown
    /\ panel.egl
    /\ panel' \in Requested(panel)
    /\ UNCHANGED <<present, bound, wait>>

FrameDoneForgets(p) == {[p EXCEPT !.clock = DoneIdle([@ EXCEPT !.redraw = FALSE])]}

(* frame_done *)
FrameDone(p) ==
    IF p.clock.redraw THEN Painted([p EXCEPT !.clock = DoneForDraw(@)])
                      ELSE {[p EXCEPT !.clock = DoneIdle(@)]}

(* the compositor answers the committed callback of a surface it shows *)
Frame ==
    /\ panel.clock.callback = "committed"
    /\ panel.shown
    /\ panel' \in FrameDone(panel)
    /\ UNCHANGED <<present, bound, wait>>

-----------------------------------------------------------------------------
(* The main loop *)

(* A change of what the open panel shows: the dashboard's timer, a service
   event, a key or the wheel; overlay_panel_request_frame is a no-op on a
   closed panel. *)
Change ==
    /\ wait = NoWait
    /\ panel.egl /\ panel.open
    /\ panel' \in Requested([panel EXCEPT !.stale = TRUE])
    /\ UNCHANGED <<present, bound, wait>>

(* active_target_monitor: any output, by focus, pointer or order *)
ActiveTargets == IF present = {} THEN {NoOutput} ELSE present

MustRetarget(t) ==
    ~panel.open /\ t # NoOutput /\ (t # bound \/ panel.surface = NoOutput)

(* The "dashboard" command or the bar's widget, panel already in place *)
Toggle ==
    /\ wait = NoWait
    /\ \E t \in ActiveTargets : ~MustRetarget(t)
    /\ panel' \in Toggled(panel)
    /\ UNCHANGED <<present, bound, wait>>

(* The same, on another output: overlay_panel_retarget destroys the surface,
   makes one on the target and enters its own dispatch loop. *)
Retarget ==
    /\ wait = NoWait
    /\ \E t \in ActiveTargets :
        /\ MustRetarget(t)
        /\ panel' = Created([Destroyed(panel) EXCEPT !.open = FALSE], t)
        /\ wait' = [target |-> t, previous |-> bound]
    /\ UNCHANGED <<present, bound>>

(* overlay_panel_retarget returns b (nullptr: bound_output is left alone),
   and the handler goes on to the toggle. *)
ResumeWith(b, p) ==
    /\ bound' = IF b = NoOutput THEN bound ELSE b
    /\ panel' \in Toggled(p)
    /\ wait' = NoWait
    /\ UNCHANGED present

(* The dispatch loop sees `configured'; EGL on the target works. *)
ResumeOnTarget ==
    /\ wait # NoWait
    /\ panel.configured
    /\ ResumeWith(wait.target, WithEgl(panel))

(* EGL fails on the target: a surface is made on the previous output, for
   which `configured' is still set, so nothing is waited for. *)
ResumeOnPrevious ==
    /\ EglMayFail
    /\ wait # NoWait
    /\ panel.configured
    /\ wait.previous # NoOutput
    /\ ResumeWith(wait.previous, WithEgl(Created(panel, wait.previous)))

(* EGL fails there too, or there was no previous output. *)
ResumeUnbound ==
    /\ EglMayFail
    /\ wait # NoWait
    /\ panel.configured
    /\ ResumeWith(NoOutput,
                  IF wait.previous = NoOutput THEN panel
                  ELSE Created(panel, wait.previous))

Resume == ResumeOnTarget \/ ResumeOnPrevious \/ ResumeUnbound

Next ==
    \/ \E o \in Outputs : Plug(o) \/ Unplug(o)
    \/ Configure \/ ScaleChange \/ Frame
    \/ Change \/ Toggle \/ Retarget \/ Resume

(* The compositor answers frame callbacks, the fade's clock advances, and
   nothing else is promised: not even that a waiting retarget returns. *)
FadeEnds == Frame /\ panel'.fade = "none"

Fairness == WF_vars(Frame) /\ WF_vars(FadeEnds)

Spec == Init /\ [][Next]_vars /\ Fairness

-----------------------------------------------------------------------------
(* Properties *)

(* Each variable has its type, a repaint is pending only behind a callback
   and a surface that is gone left nothing of itself in the frame clock. *)
TypeOK ==
    /\ present \subseteq Outputs
    /\ bound \in Outputs \cup {NoOutput}
    /\ panel \in Panel
    /\ ClockOK(panel.clock)
    /\ ~panel.egl => panel.clock = IdleClock
    /\ wait \in Wait \cup {NoWait}

(* A fade never stalls: while one runs the panel is open on a surface, a
   callback is with the compositor and a repaint is pending behind it, and
   no handler leaves a callback armed but not committed. *)
FadeIsDriven ==
    /\ panel.clock.callback # "armed"
    /\ panel.fade # "none" => /\ panel.open
                              /\ panel.clock.callback = "committed"
                              /\ panel.clock.redraw

(* The panel holds the keyboard exactly while it is open, whatever sequence
   of fades, moves and unplugs led there. *)
KeyboardFollowsOpen == panel.keyboard = panel.open

(* An open panel is on the output it is bound to, the one whose removal will
   release it. *)
OpenOnBound == panel.open => panel.surface = bound

(* A closing panel gives the keyboard back, as long as its output stays. *)
CloseReleasesKeyboard ==
    (panel.fade = "out" /\ panel.shown) ~> (~panel.keyboard \/ ~panel.shown)

(* Whatever changes in an open panel is painted, as long as its output
   stays: a request made behind a pending callback is not forgotten. *)
ChangeIsShown == (panel.stale /\ panel.shown) ~> (~panel.stale \/ ~panel.shown)

(* critical-knowledge.md on Module::on_output_removed: an overlay is never
   left bound to an output that was unplugged. *)
BoundIsPresent == bound # NoOutput => bound \in present
=============================================================================
